--------------------------- MODULE DogHouseProofs ---------------------------
(***************************************************************************)
(* Theorems about DogHouse, for any graphs, addresses, commands and number *)
(* of acts.                                                                *)
(*                                                                         *)
(* The panels.  What is seen when nothing is under way is settled by the   *)
(* last effect of each panel's queue (Ends), and a panel whose list is under*)
(* way will be shown: there is always one of the two (SomeInv), and for a  *)
(* user who waits it is the panel of the address (TargetInv).              *)
(*                                                                         *)
(* The console.  Each function of terminal.js keeps Good, and so does a key,*)
(* however many handlers it calls: they are taken as a run of consoles, one*)
(* per handler, and the least step that would break it is refuted          *)
(* (KeydownGoes).  What a user who waits can rely on follows from what is  *)
(* under way at a time: LoneInv for the panels and the calls, OnceInv for  *)
(* the lines and their handlers, MarkedInv for the address and the mark.   *)
(***************************************************************************)
EXTENDS DogHouse, FiniteSetTheorems, WellFoundedInduction, TLAPS

Page == Uri \cup {NoMenu}
Effect == {"hide", "show"}

LEMMA Names ==
  /\ "graph" \in Panel /\ "gremlin" \in Panel
  /\ \A p \in Panel : p # None
  /\ \A p \in Panel, g \in Graph \cup {None} : At(p, g) \in Uri /\ At(p, g).menu = p
                                                /\ At(p, g).graph = g
  /\ \A u \in Page : u.menu # None => u \in Uri /\ u.menu \in Panel
<1>1. \A p \in Panel : p # None
  BY DogHouseAssumption
<1>2. \A p \in Panel, g \in Graph \cup {None} :
        At(p, g) \in Uri /\ At(p, g).menu = p /\ At(p, g).graph = g
  BY DEF At, Uri
<1>3. \A u \in Page : u.menu # None => u \in Uri /\ u.menu \in Panel
  BY DEF Page, NoMenu, Uri
<1> QED
  BY <1>1, <1>2, <1>3 DEF Panel

-----------------------------------------------------------------------------
(***************************************************************************)
(* The history of the tab.                                                 *)
(***************************************************************************)
LEMMA CopiesMade ==
  ASSUME NEW S, NEW x \in S, NEW n \in Nat
  PROVE  /\ Copies(x, n) \in Seq(S) /\ Len(Copies(x, n)) = n
         /\ \A i \in 1 .. n : Copies(x, n)[i] = x
BY DEF Copies

LEMMA PushedAt ==
  ASSUME NEW es \in Seq(Page), NEW at \in DOMAIN es, NEW u \in Page, NEW n \in Nat \ {0}
  PROVE  LET new == Push(es, at, u, n)
         IN  new \in Seq(Page) /\ Len(new) \in DOMAIN new /\ new[Len(new)] = u
<1> DEFINE old == SubSeq(es, 1, at)
           more == Copies(u, n)
<1>1. old \in Seq(Page)
  OBVIOUS
<1>2. more \in Seq(Page) /\ Len(more) = n /\ more[n] = u
  <2>1. /\ Copies(u, n) \in Seq(Page) /\ Len(Copies(u, n)) = n
        /\ \A i \in 1 .. n : Copies(u, n)[i] = u
    BY CopiesMade
  <2>2. n \in 1 .. n
    OBVIOUS
  <2> QED
    BY <2>1, <2>2
<1> HIDE DEF old, more
<1>3. /\ old \o more \in Seq(Page) /\ Len(old \o more) = Len(old) + n
      /\ (old \o more)[Len(old) + n] = u
  BY <1>1, <1>2
<1>4. Len(old) + n \in 1 .. Len(old) + n
  BY <1>1
<1>5. CASE native
  BY <1>3, <1>4, <1>5 DEF Push, old, more
<1>6. CASE ~native
  BY <1>6 DEF Push
<1> QED
  BY <1>5, <1>6

LEMMA PushedNow ==
  ASSUME TypeOK, NEW u \in Page, Pushed(u)
  PROVE  entries' \in Seq(Page) /\ pos' \in DOMAIN entries' /\ uri' = u
<1>1. entries \in Seq(Page) /\ pos \in DOMAIN entries
  BY DEF TypeOK, Page
<1>2. entries' = Push(entries, pos, u, 1) /\ pos' = Len(entries')
  BY DEF Pushed
<1> QED
  BY <1>1, <1>2, PushedAt DEF uri

LEMMA RestoringCount ==
  ASSUME TypeOK, NEW u
  PROVE  /\ Cardinality(Restoring(u)) \in Nat
         /\ Cardinality(Restoring(u)) = 0 <=> Restoring(u) = {}
<1>1. IsFiniteSet(Restoring(u))
  <2>1. pops \in Seq([popped : BOOLEAN, initial : Page])
    BY DEF TypeOK, Page
  <2>2. DOMAIN Handlers(u) = 1 .. Len(pops) + 1
    BY <2>1 DEF Handlers
  <2>3. IsFiniteSet(1 .. Len(pops) + 1)
    BY <2>1, FS_Interval
  <2>4. Restoring(u) \in SUBSET (1 .. Len(pops) + 1)
    BY <2>2 DEF Restoring
  <2> QED
    BY <2>3, <2>4, FS_Subset
<1> QED
  BY <1>1, FS_CardinalityType, FS_EmptySet

-----------------------------------------------------------------------------
(***************************************************************************)
(* The panels.                                                             *)
(***************************************************************************)

\* What is seen of a panel once its effects have run.
Ends(p) == IF fx[p] = <<>> THEN p \in shown ELSE fx[p][Len(fx[p])] = "show"

Comes == \E p \in Panel : lists[<<p, TRUE>>] > 0

\* All that is under way is for the panel p.
Target(p) ==
  /\ \A x \in Panel \X BOOLEAN : lists[x] > 0 => x[1] = p
  /\ \A q \in Panel \ {p} : ~Ends(q)
  /\ lists[<<p, TRUE>>] > 0 \/ (Ends(p) /\ currentPanel = p)
  /\ ~ignored => checked = p /\ uri.menu = p

BootInv ==
  ~booted => /\ currentPanel = None /\ shown = {}
             /\ \A p \in Panel : fx[p] = <<>>
             /\ \A x \in Panel \X BOOLEAN : lists[x] = 0

SomeInv ==
  booted /\ ~failed => Comes \/ (currentPanel \in Panel /\ Ends(currentPanel))

TargetInv == booted /\ ~failed /\ ~hasty => \E p \in Panel : Target(p)

PanelInv == BootInv /\ SomeInv /\ TargetInv

LEMMA SlideShows ==
  ASSUME TypeOK, NEW m \in Panel, NEW n \in Nat \ {0}, SlidePanel(m, n)
  PROVE  /\ lists' \in [Panel \X BOOLEAN -> Nat] /\ fx' \in [Panel -> Seq(Effect)]
         /\ UNCHANGED <<currentPanel, shown, marked>>
         /\ \A x \in Panel \X BOOLEAN : x[1] # m => lists'[x] = lists[x]
         /\ \A x \in Panel \X BOOLEAN : lists'[x] >= lists[x]
         /\ IsPanelDifferent(m) => lists'[<<m, TRUE>>] > 0
         /\ ~IsPanelDifferent(m) => currentPanel = m
         /\ \A q \in Panel : IF q = currentPanel /\ q # m THEN ~Ends(q)'
                                                          ELSE fx'[q] = fx[q]
<1>1. /\ lists \in [Panel \X BOOLEAN -> Nat] /\ fx \in [Panel -> Seq(Effect)]
      /\ currentPanel \in Panel \cup {None}
  BY DEF TypeOK, Effect
<1> DEFINE d == IsPanelDifferent(m)
<1>2. d \in BOOLEAN /\ (~d <=> currentPanel # None /\ currentPanel = m)
  BY DEF IsPanelDifferent
<1>3. lists' = [lists EXCEPT ![<<m, d>>] = @ + n] /\ UNCHANGED <<currentPanel, shown, marked>>
  BY DEF SlidePanel
<1> HIDE DEF d
<1>4. /\ lists' \in [Panel \X BOOLEAN -> Nat]
      /\ \A x \in Panel \X BOOLEAN : x[1] # m => lists'[x] = lists[x]
      /\ \A x \in Panel \X BOOLEAN : lists'[x] >= lists[x]
      /\ lists'[<<m, d>>] > 0
  <2>1. <<m, d>> \in Panel \X BOOLEAN
    BY <1>2
  <2>2. \A x \in Panel \X BOOLEAN :
          lists'[x] = IF x = <<m, d>> THEN lists[x] + n ELSE lists[x]
    BY <1>1, <1>3
  <2>3. lists' \in [Panel \X BOOLEAN -> Nat]
    BY <1>1, <1>3, <2>1
  <2>4. lists[<<m, d>>] \in Nat /\ \A x \in Panel \X BOOLEAN : lists[x] \in Nat
    BY <1>1, <2>1
  <2> QED
    BY <2>1, <2>2, <2>3, <2>4
<1>5. CASE currentPanel # None /\ d
  <2> DEFINE more == Copies("hide", n)
             old == fx[currentPanel]
  <2>1. currentPanel \in Panel /\ currentPanel # m
    BY <1>1, <1>5 DEF d, IsPanelDifferent
  <2>2. fx' = [fx EXCEPT ![currentPanel] = old \o more]
    BY <1>5 DEF SlidePanel, HideCurrent, d
  <2>3. more \in Seq(Effect) /\ Len(more) = n /\ more[n] = "hide"
    <3>1. "hide" \in Effect /\ n \in 1 .. n
      BY DEF Effect
    <3>2. /\ Copies("hide", n) \in Seq(Effect) /\ Len(Copies("hide", n)) = n
          /\ \A i \in 1 .. n : Copies("hide", n)[i] = "hide"
      BY <3>1, CopiesMade
    <3> QED
      BY <3>1, <3>2
  <2>4. old \in Seq(Effect)
    BY <1>1, <2>1
  <2> HIDE DEF more, old
  <2>5. /\ old \o more \in Seq(Effect) /\ old \o more # <<>>
        /\ (old \o more)[Len(old \o more)] = "hide"
    BY <2>3, <2>4
  <2>6. /\ fx' \in [Panel -> Seq(Effect)] /\ fx'[currentPanel] = old \o more
        /\ \A q \in Panel : q # currentPanel => fx'[q] = fx[q]
    BY <1>1, <2>1, <2>2, <2>5
  <2>7. ~Ends(currentPanel)'
    BY <1>3, <2>5, <2>6 DEF Ends
  <2> QED
    BY <1>2, <1>3, <1>4, <1>5, <2>1, <2>6, <2>7 DEF d
<1>6. CASE ~(currentPanel # None /\ d)
  <2>1. fx' = fx
    BY <1>6 DEF SlidePanel, HideCurrent, d
  <2>2. currentPanel = None \/ currentPanel = m
    BY <1>2, <1>6
  <2> QED
    BY <1>1, <1>2, <1>3, <1>4, <2>1, <2>2, Names DEF d
<1> QED
  BY <1>5, <1>6

-----------------------------------------------------------------------------
(***************************************************************************)
(* A click in the menu, a step back that restores and the start of the     *)
(* page all turn to a panel, once or several times in a row.               *)
(***************************************************************************)
Turns(m) ==
  /\ entries' \in Seq(Page) /\ pos' \in DOMAIN entries'
  /\ uri'.menu = m /\ checked' = m
  /\ \E n \in Nat \ {0} : SlidePanel(m, n)

LEMMA ClickTurns ==
  ASSUME TypeOK, NEW m \in Panel, ClickMenu(m)
  PROVE  Turns(m)
<1>1. At(m, None) \in Page /\ At(m, None).menu = m
  BY Names DEF Page
<1>2. entries' \in Seq(Page) /\ pos' \in DOMAIN entries' /\ uri' = At(m, None)
  BY <1>1, PushedNow DEF ClickMenu
<1> QED
  BY <1>1, <1>2 DEF ClickMenu, Turns

LEMMA RestoreTurns ==
  ASSUME TypeOK, NEW u \in Uri, NEW es \in Seq(Page), NEW at \in DOMAIN es,
         es[at] = u, NEW n \in Nat \ {0}, RestoreApplication(u, es, at, n)
  PROVE  u.menu \in Panel /\ Turns(u.menu)
<1>1. u.menu \in Panel
  BY DEF Uri
<1>2. entries' \in Seq(Page) /\ pos' \in DOMAIN entries' /\ uri'.menu = u.menu
  <2>1. CASE u.graph = None
    <3> DEFINE a == At(u.menu, None)
    <3>1. a \in Page /\ a.menu = u.menu
      BY <1>1, Names DEF Page
    <3>2. entries' = Push(es, at, a, n) /\ pos' = Len(entries')
      BY <2>1 DEF RestoreApplication
    <3> HIDE DEF a
    <3> DEFINE new == Push(es, at, a, n)
    <3>3. new \in Seq(Page) /\ Len(new) \in DOMAIN new /\ new[Len(new)] = a
      BY <3>1, PushedAt
    <3>4. entries' = new
      BY <3>2
    <3> HIDE DEF new
    <3> QED
      BY <3>1, <3>2, <3>3, <3>4 DEF uri
  <2>2. CASE u.graph # None
    BY <2>2 DEF RestoreApplication, uri
  <2> QED
    BY <2>1, <2>2
<1> QED
  BY <1>1, <1>2 DEF RestoreApplication, Turns

LEMMA BootTurns ==
  ASSUME TypeOK, Boot
  PROVE  \E m \in Panel : Turns(m)
<1>1. entries \in Seq(Page) /\ pos \in DOMAIN entries /\ uri \in Page
  BY DEF TypeOK, Page, uri
<1>2. CASE uri.menu = None
  <2> DEFINE a == At("graph", None)
             es == Push(entries, pos, a, 1)
  <2>1. a \in Uri /\ a \in Page
    BY Names DEF Page
  <2>2. RestoreApplication(a, es, Len(es), 1)
    BY <1>2 DEF Boot
  <2> HIDE DEF a
  <2>3. es \in Seq(Page) /\ Len(es) \in DOMAIN es /\ es[Len(es)] = a
    BY <1>1, <2>1, PushedAt
  <2> HIDE DEF es
  <2> QED
    BY <2>1, <2>2, <2>3, RestoreTurns
<1>3. CASE uri.menu # None
  <2>1. uri \in Uri
    BY <1>1, <1>3, Names
  <2>2. RestoreApplication(uri, entries, pos, 1)
    BY <1>3 DEF Boot
  <2> QED
    BY <1>1, <2>1, <2>2, RestoreTurns DEF uri
<1> QED
  BY <1>2, <1>3

\* A step back either restores the page or does no more than to move in the
\* history and, from an address without a menu, to press the first button.
LEMMA PopOutcome ==
  ASSUME TypeOK, NEW to \in DOMAIN entries, PopState(to)
  PROVE  LET calm == Restoring(entries[to]) = {} \/ entries[to].menu = None
         IN  /\ pops' \in Seq([popped : BOOLEAN, initial : Page])
             /\ calm => /\ entries' = entries /\ pos' = to /\ checked' \in Panel
                        /\ Restoring(entries[to]) = {} => checked' = checked
                        /\ UNCHANGED <<currentPanel, lists, fx, shown, marked>>
             /\ ~calm => \E m \in Panel : Turns(m)
<1> DEFINE u == entries[to]
           n == Cardinality(Restoring(u))
           Pop == [popped : BOOLEAN, initial : Page]
<1>1. /\ entries \in Seq(Page) /\ pops \in Seq(Pop) /\ checked \in Panel
      /\ u \in Page
  BY DEF TypeOK, Page
<1>2. n \in Nat /\ (n = 0 <=> Restoring(u) = {})
  BY RestoringCount
<1>3. pops' \in Seq(Pop)
  <2>1. PopHandler(u) \in Pop
    BY <1>1 DEF PopHandler
  <2>2. Handlers(u) \in Seq(Pop)
    BY <1>1, <2>1 DEF Handlers
  <2>3. pops' = [i \in DOMAIN Handlers(u) |->
                   [Handlers(u)[i] EXCEPT !.popped = @ \/ pops # <<>>]]
    BY DEF PopState
  <2>4. \A h \in Pop : [h EXCEPT !.popped = @ \/ pops # <<>>] \in Pop
    OBVIOUS
  <2> HIDE DEF Pop, u
  <2>5. \A i \in 1 .. Len(Handlers(u)) : Handlers(u)[i] \in Pop
    BY <2>2
  <2>6. DOMAIN Handlers(u) = 1 .. Len(Handlers(u)) /\ Len(Handlers(u)) \in Nat
    BY <2>2
  <2> QED
    BY <2>3, <2>4, <2>5, <2>6
<1>4. CASE Restoring(u) = {} \/ u.menu = None
  <2>1. n = 0 \/ u.menu = None
    BY <1>2, <1>4
  <2>2. /\ pos' = to /\ checked' = (IF n = 0 THEN checked ELSE "graph")
        /\ UNCHANGED <<entries, currentPanel, lists, fx, shown, marked, termVars>>
    BY <2>1 DEF PopState
  <2> HIDE DEF n
  <2> QED
    BY <1>1, <1>2, <1>3, <1>4, <2>2, Names
<1>5. CASE ~(Restoring(u) = {} \/ u.menu = None)
  <2>1. u \in Uri
    BY <1>1, <1>5, Names
  <2>2. n \in Nat \ {0}
    BY <1>2, <1>5
  <2>3. RestoreApplication(u, entries, to, n)
    BY <2>2, <1>5 DEF PopState
  <2>4. \E m \in Panel : Turns(m)
    <3> HIDE DEF n
    <3> QED
      BY <1>1, <2>1, <2>2, <2>3, RestoreTurns
  <2> QED
    BY <1>3, <1>5, <2>4
<1> QED
  BY <1>4, <1>5

-----------------------------------------------------------------------------
(***************************************************************************)
(* The types, in two parts: the menu with the history, and the rest.       *)
(***************************************************************************)
MenuTypes ==
  /\ entries \in Seq(Page) /\ pos \in DOMAIN entries
  /\ checked \in Panel /\ currentPanel \in Panel \cup {None}
  /\ lists \in [Panel \X BOOLEAN -> Nat]
  /\ fx \in [Panel -> Seq(Effect)]
  /\ shown \subseteq Panel /\ marked \in Graph \cup {None}

UserTypes ==
  /\ booted \in BOOLEAN /\ browser \in Browser
  /\ pops \in Seq([popped : BOOLEAN, initial : Page])
  /\ acts \in 0 .. MaxActs
  /\ hasty \in BOOLEAN /\ failed \in BOOLEAN /\ ignored \in BOOLEAN

LEMMA TypesInParts == TypeOK <=> MenuTypes /\ UserTypes
BY DEF TypeOK, MenuTypes, UserTypes, Page, Effect

LEMMA TypesFirst == Init => TypeOK
<1>1. SUFFICES ASSUME Init PROVE MenuTypes /\ UserTypes
  BY TypesInParts
<1>2. \E u \in Page : entries = <<u>>
  BY <1>1, DogHouseAssumption DEF Init, Page
<1>3. entries \in Seq(Page) /\ pos \in DOMAIN entries
  BY <1>1, <1>2 DEF Init
<1>4. MenuTypes
  BY <1>1, <1>3, Names DEF Init, MenuTypes, Panel
<1>5. UserTypes
  <2>1. /\ booted = FALSE /\ browser \in Browser /\ pops = <<>> /\ acts = 0
        /\ hasty = FALSE /\ failed = FALSE /\ ignored = FALSE
    BY <1>1 DEF Init
  <2>2. pops \in Seq([popped : BOOLEAN, initial : Page])
    BY <2>1
  <2>3. acts \in 0 .. MaxActs
    BY <2>1, DogHouseAssumption
  <2> QED
    BY <2>1, <2>2, <2>3 DEF UserTypes
<1> QED
  BY <1>4, <1>5

LEMMA TurnTypes ==
  ASSUME TypeOK, NEW m \in Panel, Turns(m)
  PROVE  MenuTypes'
<1>1. PICK n \in Nat \ {0} : SlidePanel(m, n)
  BY DEF Turns
<1> QED
  BY <1>1, SlideShows, TypesInParts DEF Turns, MenuTypes

LEMMA ListTypes ==
  ASSUME TypeOK, NEW p \in Panel, NEW d \in BOOLEAN, Answered(p, d)
  PROVE  /\ lists' \in [Panel \X BOOLEAN -> Nat]
         /\ \A x \in Panel \X BOOLEAN : lists'[x] > 0 => lists[x] > 0
         /\ \A x \in Panel \X BOOLEAN : x # <<p, d>> => lists'[x] = lists[x]
<1>1. lists \in [Panel \X BOOLEAN -> Nat] /\ <<p, d>> \in Panel \X BOOLEAN
  BY DEF TypeOK
<1>2. lists[<<p, d>>] > 0 /\ lists' = [lists EXCEPT ![<<p, d>>] = @ - 1]
  BY DEF Answered
<1>3. lists[<<p, d>>] - 1 \in Nat
  BY <1>1, <1>2
<1>4. \A x \in Panel \X BOOLEAN :
        lists'[x] = IF x = <<p, d>> THEN lists[<<p, d>>] - 1 ELSE lists[x]
  BY <1>1, <1>2
<1>5. lists' \in [Panel \X BOOLEAN -> Nat]
  BY <1>1, <1>2, <1>3
<1> QED
  BY <1>2, <1>3, <1>4, <1>5

\* The panel whose list has come is shown next, if it was another one.
LEMMA ListShows ==
  ASSUME TypeOK, NEW p \in Panel, NEW d \in BOOLEAN, PushChosen(p), ShowPanel(p, d),
         UNCHANGED shown
  PROVE  /\ entries' \in Seq(Page) /\ pos' \in DOMAIN entries'
         /\ uri' = uri \/ uri'.menu = p
         /\ currentPanel' \in Panel \cup {None} /\ fx' \in [Panel -> Seq(Effect)]
         /\ d => /\ currentPanel' = p /\ Ends(p)'
                 /\ \A q \in Panel \ {p} : fx'[q] = fx[q]
         /\ ~d => UNCHANGED <<currentPanel, fx>>
<1>1. /\ entries \in Seq(Page) /\ pos \in DOMAIN entries
      /\ currentPanel \in Panel \cup {None} /\ fx \in [Panel -> Seq(Effect)]
  BY TypesInParts DEF MenuTypes
<1>2. /\ entries' \in Seq(Page) /\ pos' \in DOMAIN entries'
      /\ uri' = uri \/ uri'.menu = p
  <2>1. CASE uri.graph = None
    <3>1. At(p, First) \in Page /\ At(p, First).menu = p /\ Pushed(At(p, First))
      BY <2>1, Names, DogHouseAssumption DEF PushChosen, Page
    <3> QED
      BY <3>1, PushedNow
  <2>2. CASE uri.graph # None
    BY <1>1, <2>2 DEF PushChosen, Stays, uri
  <2> QED
    BY <2>1, <2>2
<1>3. CASE d
  <2>1. currentPanel' = p /\ fx' = [fx EXCEPT ![p] = Append(@, "show")]
    BY <1>3 DEF ShowPanel
  <2>2. fx[p] \in Seq(Effect) /\ "show" \in Effect
    BY <1>1 DEF Effect
  <2>3. /\ Append(fx[p], "show") \in Seq(Effect) /\ Append(fx[p], "show") # <<>>
        /\ Append(fx[p], "show")[Len(Append(fx[p], "show"))] = "show"
    BY <2>2
  <2>4. /\ fx' \in [Panel -> Seq(Effect)] /\ fx'[p] = Append(fx[p], "show")
        /\ \A q \in Panel \ {p} : fx'[q] = fx[q]
    BY <1>1, <2>1, <2>3
  <2>5. Ends(p)'
    BY <2>3, <2>4 DEF Ends
  <2> QED
    BY <1>2, <1>3, <2>1, <2>4, <2>5
<1>4. CASE ~d
  <2>1. UNCHANGED <<currentPanel, fx>>
    BY <1>4 DEF ShowPanel
  <2> QED
    BY <1>1, <1>2, <1>4, <2>1
<1> QED
  BY <1>3, <1>4

\* The end of an effect changes nothing of what is seen in the end.
LEMMA EffectTypes ==
  ASSUME TypeOK, NEW p \in Panel, EffectEnds(p)
  PROVE  /\ fx' \in [Panel -> Seq(Effect)] /\ shown' \subseteq Panel
         /\ \A q \in Panel : Ends(q)' = Ends(q)
<1>1. fx \in [Panel -> Seq(Effect)] /\ shown \subseteq Panel
  BY TypesInParts DEF MenuTypes
<1>2. /\ fx[p] \in Seq(Effect) /\ fx[p] # <<>>
      /\ fx' = [fx EXCEPT ![p] = Tail(@)]
      /\ shown' = IF Head(fx[p]) = "show" THEN shown \cup {p} ELSE shown \ {p}
  BY <1>1 DEF EffectEnds
<1>3. Tail(fx[p]) \in Seq(Effect)
  BY <1>2
<1>4. /\ fx' \in [Panel -> Seq(Effect)] /\ fx'[p] = Tail(fx[p])
      /\ \A q \in Panel \ {p} : fx'[q] = fx[q]
  BY <1>1, <1>2, <1>3
<1>5. ASSUME NEW q \in Panel PROVE Ends(q)' = Ends(q)
  <2>1. CASE q # p
    <3>1. fx'[q] = fx[q] /\ (q \in shown' <=> q \in shown)
      BY <1>2, <1>4, <2>1
    <3> QED
      BY <3>1 DEF Ends
  <2>2. CASE q = p /\ Tail(fx[p]) = <<>>
    <3>1. Len(fx[p]) = 1 /\ fx[p][1] = Head(fx[p])
      <4>1. Len(Tail(fx[p])) = 0
        <5>1. ASSUME NEW t, t = <<>> PROVE Len(t) = 0
          BY <5>1
        <5> QED
          BY <2>2, <5>1
      <4>3. Len(Tail(fx[p])) = Len(fx[p]) - 1
        BY <1>2
      <4>2. Len(fx[p]) \in Nat /\ fx[p][1] = Head(fx[p])
        BY <1>2
      <4> QED
        BY <4>1, <4>3, <4>2
    <3>2. p \in shown' <=> Head(fx[p]) = "show"
      BY <1>2
    <3> QED
      BY <1>2, <1>4, <2>2, <3>1, <3>2 DEF Ends
  <2>3. CASE q = p /\ Tail(fx[p]) # <<>>
    <3>1. Tail(fx[p])[Len(Tail(fx[p]))] = fx[p][Len(fx[p])]
      BY <1>2, <2>3
    <3> QED
      BY <1>2, <1>4, <2>3, <3>1 DEF Ends
  <2> QED
    BY <2>1, <2>2, <2>3
<1> QED
  BY <1>1, <1>2, <1>4, <1>5

-----------------------------------------------------------------------------
LEMMA ActsCounted ==
  ASSUME TypeOK, Acts
  PROVE  /\ booted /\ acts' \in 0 .. MaxActs /\ hasty' \in BOOLEAN /\ failed' = failed
         /\ ~hasty' => ~hasty /\ ~Waiting /\ ~Moving
<1>1. acts \in 0 .. MaxActs /\ MaxActs \in Nat
  BY TypesInParts, DogHouseAssumption DEF UserTypes
<1>2. acts < MaxActs /\ acts' = acts + 1
  BY DEF Acts
<1>3. acts' \in 0 .. MaxActs
  BY <1>1, <1>2
<1>4. hasty' = (hasty \/ Waiting \/ Moving)
  BY DEF Acts
<1>5. hasty' \in BOOLEAN
  BY <1>4
<1> QED
  BY <1>3, <1>4, <1>5 DEF Acts

LEMMA TypesStep == TypeOK /\ [Next]_vars => TypeOK'
<1> SUFFICES ASSUME TypeOK, [Next]_vars PROVE MenuTypes' /\ UserTypes'
  BY DEF TypeOK, MenuTypes, UserTypes, Page, Effect
<1>1. MenuTypes /\ UserTypes
  BY TypesInParts
<1>2. CASE Boot
  <2>1. MenuTypes'
    BY <1>2, BootTurns, TurnTypes
  <2>2. UserTypes'
    BY <1>1, <1>2 DEF Boot, UserTypes, userVars
  <2> QED
    BY <2>1, <2>2
<1>3. CASE PageLoads
  <2>1. PopState(pos) /\ pops = <<>> /\ pos \in DOMAIN entries
    BY <1>1, <1>3 DEF PageLoads, MenuTypes
  <2>2. Restoring(entries[pos]) = {}
    BY <2>1 DEF Restoring
  <2>3. /\ pops' \in Seq([popped : BOOLEAN, initial : Page])
        /\ entries' = entries /\ pos' = pos /\ checked' = checked
        /\ UNCHANGED <<currentPanel, lists, fx, shown, marked>>
    BY <2>1, <2>2, PopOutcome
  <2>4. MenuTypes'
    BY <1>1, <2>3 DEF MenuTypes
  <2>5. UserTypes'
    BY <1>1, <1>3, <2>3 DEF PageLoads, UserTypes, userVars
  <2> QED
    BY <2>4, <2>5
<1>4. ASSUME NEW d \in BOOLEAN, GraphListComes(d) PROVE MenuTypes' /\ UserTypes'
  <2>1. /\ Answered("graph", d) /\ PushChosen("graph") /\ ShowPanel("graph", d)
        /\ UNCHANGED <<booted, browser, pops, checked, shown, marked, userVars>>
    BY <1>4 DEF GraphListComes
  <2>2. lists' \in [Panel \X BOOLEAN -> Nat]
    BY <2>1, ListTypes, Names
  <2>3. /\ entries' \in Seq(Page) /\ pos' \in DOMAIN entries'
        /\ currentPanel' \in Panel \cup {None} /\ fx' \in [Panel -> Seq(Effect)]
    BY <2>1, ListShows, Names
  <2> QED
    BY <1>1, <2>1, <2>2, <2>3 DEF MenuTypes, UserTypes, userVars
<1>5. ASSUME NEW d \in BOOLEAN, TerminalListComes(d) PROVE MenuTypes' /\ UserTypes'
  <2>1. /\ Answered("gremlin", d) /\ PushChosen("gremlin") /\ ShowPanel("gremlin", d)
        /\ marked' = ChosenGraph
        /\ UNCHANGED <<booted, browser, pops, checked, shown, userVars>>
    BY <1>5 DEF TerminalListComes
  <2>2. lists' \in [Panel \X BOOLEAN -> Nat]
    BY <2>1, ListTypes, Names
  <2>3. /\ entries' \in Seq(Page) /\ pos' \in DOMAIN entries'
        /\ currentPanel' \in Panel \cup {None} /\ fx' \in [Panel -> Seq(Effect)]
    BY <2>1, ListShows, Names
  <2>4. marked' \in Graph \cup {None}
    <3>1. uri \in Page
      BY <1>1 DEF MenuTypes, uri
    <3>2. uri.graph \in Graph \cup {None}
      BY <3>1 DEF Page, Uri, NoMenu
    <3> QED
      BY <2>1, <3>2, DogHouseAssumption DEF ChosenGraph
  <2> QED
    BY <1>1, <2>1, <2>2, <2>3, <2>4 DEF MenuTypes, UserTypes, userVars
<1>6. ASSUME NEW p \in Panel, NEW d \in BOOLEAN, ListFails(p, d)
      PROVE  MenuTypes' /\ UserTypes'
  <2>1. /\ Answered(p, d) /\ failed' = TRUE
        /\ UNCHANGED <<pageVars, checked, currentPanel, fx, shown, marked,
                       acts, hasty, ignored>>
    BY <1>6 DEF ListFails
  <2>2. lists' \in [Panel \X BOOLEAN -> Nat]
    BY <2>1, ListTypes
  <2> QED
    BY <1>1, <2>1, <2>2 DEF MenuTypes, UserTypes, pageVars
<1>7. ASSUME NEW p \in posts, ExecComes(p) PROVE MenuTypes' /\ UserTypes'
  BY <1>1, <1>7 DEF ExecComes, MenuTypes, UserTypes, pageVars, menuVars, userVars
<1>8. ASSUME NEW p \in Panel, ClickMenu(p) PROVE MenuTypes' /\ UserTypes'
  <2>1. MenuTypes'
    BY <1>8, ClickTurns, TurnTypes
  <2>2. Acts /\ UNCHANGED <<booted, browser, pops, ignored>>
    BY <1>8 DEF ClickMenu
  <2> QED
    BY <1>1, <2>1, <2>2, ActsCounted DEF UserTypes
<1>9. ASSUME NEW p \in Panel, NEW g \in Graph, ClickGraph(p, g)
      PROVE  MenuTypes' /\ UserTypes'
  <2>1. /\ Acts /\ Pushed(At(p, g))
        /\ marked' = (IF p = "gremlin" THEN g ELSE marked)
        /\ UNCHANGED <<booted, browser, pops, ignored, checked, currentPanel, lists, fx,
                       shown>>
    BY <1>9 DEF ClickGraph
  <2>2. entries' \in Seq(Page) /\ pos' \in DOMAIN entries'
    BY <2>1, Names, PushedNow DEF Page
  <2> QED
    BY <1>1, <2>1, <2>2, ActsCounted DEF MenuTypes, UserTypes
<1>10. ASSUME NEW i \in Line, Keyboard(i) PROVE MenuTypes' /\ UserTypes'
  <2>1. Acts /\ UNCHANGED <<ignored, pageVars, menuVars>>
    BY <1>10 DEF Keyboard
  <2> QED
    BY <1>1, <2>1, ActsCounted DEF MenuTypes, UserTypes, pageVars, menuVars
<1>11. ASSUME NEW to \in DOMAIN entries, GoTo(to) PROVE MenuTypes' /\ UserTypes'
  <2>1. /\ Acts /\ PopState(to) /\ UNCHANGED <<booted, browser>>
        /\ ignored' = (Restoring(entries[to]) = {} \/ entries[to].menu = None)
    BY <1>11 DEF GoTo
  <2>2. ignored' \in BOOLEAN
    BY <2>1
  <2>3. pops' \in Seq([popped : BOOLEAN, initial : Page])
    BY <2>1, PopOutcome
  <2>4. MenuTypes'
    <3>1. CASE Restoring(entries[to]) = {} \/ entries[to].menu = None
      BY <1>1, <2>1, <3>1, PopOutcome DEF MenuTypes
    <3>2. CASE ~(Restoring(entries[to]) = {} \/ entries[to].menu = None)
      BY <2>1, <3>2, PopOutcome, TurnTypes
    <3> QED
      BY <3>1, <3>2
  <2> QED
    BY <1>1, <2>1, <2>2, <2>3, <2>4, ActsCounted DEF UserTypes
<1>12. ASSUME NEW p \in Panel, EffectEnds(p) PROVE MenuTypes' /\ UserTypes'
  <2>1. fx' \in [Panel -> Seq(Effect)] /\ shown' \subseteq Panel
    BY <1>12, EffectTypes
  <2>2. UNCHANGED <<pageVars, checked, currentPanel, lists, marked, userVars>>
    BY <1>12 DEF EffectEnds
  <2> QED
    BY <1>1, <2>1, <2>2 DEF MenuTypes, UserTypes, pageVars, userVars
<1>13. CASE UNCHANGED vars
  BY <1>1, <1>13 DEF MenuTypes, UserTypes, vars, pageVars, menuVars, userVars
<1> QED
  BY <1>2, <1>3, <1>4, <1>5, <1>6, <1>7, <1>8, <1>9, <1>10, <1>11, <1>12, <1>13
  DEF Next, Replies, User

-----------------------------------------------------------------------------
(***************************************************************************)
(* Turning to a panel hides the current one only for a list that is under  *)
(* way; from a page at rest, all that is then under way is for that panel. *)
(***************************************************************************)
LEMMA TurnsToSome ==
  ASSUME TypeOK, BootInv, SomeInv, NEW m \in Panel, Turns(m), ~failed
  PROVE  SomeInv'
<1>1. PICK n \in Nat \ {0} : SlidePanel(m, n)
  BY DEF Turns
<1>2. /\ UNCHANGED <<currentPanel, shown>>
      /\ lists \in [Panel \X BOOLEAN -> Nat] /\ lists' \in [Panel \X BOOLEAN -> Nat]
      /\ \A x \in Panel \X BOOLEAN : lists'[x] >= lists[x]
      /\ IsPanelDifferent(m) => lists'[<<m, TRUE>>] > 0
      /\ ~IsPanelDifferent(m) => currentPanel = m /\ fx'[m] = fx[m]
  BY <1>1, SlideShows, TypesInParts DEF MenuTypes
<1>3. CASE IsPanelDifferent(m)
  BY <1>2, <1>3 DEF SomeInv, Comes
<1>4. CASE ~IsPanelDifferent(m)
  <2>1. currentPanel = m /\ currentPanel # None
    BY <1>2, <1>4, Names
  <2>2. booted
    BY <2>1 DEF BootInv
  <2>3. CASE Comes
    <3>1. PICK p \in Panel : lists[<<p, TRUE>>] > 0
      BY <2>3 DEF Comes
    <3>2. lists'[<<p, TRUE>>] > 0
      <4>1. <<p, TRUE>> \in Panel \X BOOLEAN
        OBVIOUS
      <4>2. /\ lists'[<<p, TRUE>>] >= lists[<<p, TRUE>>]
            /\ lists[<<p, TRUE>>] \in Nat /\ lists'[<<p, TRUE>>] \in Nat
        BY <1>2, <4>1
      <4> QED
        BY <3>1, <4>2
    <3> QED
      BY <3>2 DEF SomeInv, Comes
  <2>4. CASE Ends(currentPanel)
    <3>1. Ends(m)'
      BY <1>2, <1>4, <2>1, <2>4 DEF Ends
    <3> QED
      BY <1>2, <2>1, <3>1 DEF SomeInv
  <2> QED
    BY <2>2, <2>3, <2>4 DEF SomeInv
<1> QED
  BY <1>3, <1>4

AtRest == /\ \A x \in Panel \X BOOLEAN : lists[x] = 0
          /\ \A p \in Panel : fx[p] = <<>>

LEMMA Rest == TypeOK /\ ~Waiting /\ ~Moving => AtRest
<1> SUFFICES ASSUME TypeOK, ~Waiting, ~Moving PROVE AtRest
  OBVIOUS
<1>1. lists \in [Panel \X BOOLEAN -> Nat]
  BY TypesInParts DEF MenuTypes
<1>2. \A x \in Panel \X BOOLEAN : ~(lists[x] > 0) /\ lists[x] \in Nat
  BY <1>1 DEF Waiting
<1>3. \A x \in Panel \X BOOLEAN : lists[x] = 0
  BY <1>2
<1> QED
  BY <1>3 DEF Moving, AtRest

LEMMA TargetAtRest ==
  ASSUME AtRest, NEW p \in Panel, Target(p)
  PROVE  /\ currentPanel = p /\ Ends(p)
         /\ \A q \in Panel \ {p} : ~Ends(q)
<1>1. lists[<<p, TRUE>>] = 0
  BY DEF AtRest
<1>2. ~(lists[<<p, TRUE>>] > 0)
  BY <1>1
<1> QED
  BY <1>2 DEF Target

LEMMA TurnsTo ==
  ASSUME TypeOK, NEW m \in Panel, Turns(m), AtRest,
         (currentPanel = None /\ shown = {}) \/ \E p \in Panel : Target(p)
  PROVE  Target(m)'
<1>1. PICK n \in Nat \ {0} : SlidePanel(m, n)
  BY DEF Turns
<1>2. /\ UNCHANGED <<currentPanel, shown>>
      /\ lists' \in [Panel \X BOOLEAN -> Nat]
      /\ \A x \in Panel \X BOOLEAN : x[1] # m => lists'[x] = lists[x]
      /\ IsPanelDifferent(m) => lists'[<<m, TRUE>>] > 0
      /\ ~IsPanelDifferent(m) => currentPanel = m
      /\ \A q \in Panel : IF q = currentPanel /\ q # m THEN ~Ends(q)'
                                                       ELSE fx'[q] = fx[q]
  BY <1>1, SlideShows
<1>3. \A q \in Panel : q # currentPanel => ~Ends(q)
  <2>1. CASE currentPanel = None /\ shown = {}
    BY <2>1 DEF AtRest, Ends
  <2>2. CASE \E p \in Panel : Target(p)
    BY <2>2, TargetAtRest
  <2> QED
    BY <2>1, <2>2
<1>4. currentPanel \in Panel => Ends(currentPanel)
  <2>1. CASE currentPanel = None /\ shown = {}
    BY <2>1, Names
  <2>2. CASE \E p \in Panel : Target(p)
    BY <2>2, TargetAtRest
  <2> QED
    BY <2>1, <2>2
<1>5. \A x \in Panel \X BOOLEAN : lists'[x] > 0 => x[1] = m
  <2> SUFFICES ASSUME NEW x \in Panel \X BOOLEAN, x[1] # m PROVE ~(lists'[x] > 0)
    OBVIOUS
  <2>1. lists'[x] = 0
    BY <1>2 DEF AtRest
  <2> QED
    BY <2>1
<1>6. \A q \in Panel \ {m} : ~Ends(q)'
  <2> TAKE q \in Panel \ {m}
  <2>1. CASE q = currentPanel
    BY <1>2, <2>1
  <2>2. CASE q # currentPanel
    <3>1. fx'[q] = fx[q] /\ ~Ends(q)
      BY <1>2, <1>3, <2>2
    <3> QED
      BY <1>2, <3>1 DEF Ends
  <2> QED
    BY <2>1, <2>2
<1>7. lists'[<<m, TRUE>>] > 0 \/ (Ends(m)' /\ currentPanel' = m)
  <2>1. CASE IsPanelDifferent(m)
    BY <1>2, <2>1
  <2>2. CASE ~IsPanelDifferent(m)
    <3>1. currentPanel = m /\ fx'[m] = fx[m] /\ Ends(m)
      BY <1>2, <1>4, <2>2
    <3> QED
      BY <1>2, <3>1 DEF Ends
  <2> QED
    BY <2>1, <2>2
<1>8. checked' = m /\ uri'.menu = m
  BY DEF Turns
<1> QED
  BY <1>5, <1>6, <1>7, <1>8 DEF Target

-----------------------------------------------------------------------------
(***************************************************************************)
(* The invariant.                                                          *)
(***************************************************************************)
LEMMA PanelFirst == Init => PanelInv
BY DEF Init, PanelInv, BootInv, SomeInv, TargetInv

\* A list that has come or failed is no longer under way, the others are.
LEMMA ListComesSome ==
  ASSUME TypeOK, SomeInv, NEW p \in Panel, NEW d \in BOOLEAN, Answered(p, d),
         PushChosen(p), ShowPanel(p, d), UNCHANGED <<booted, failed, shown>>
  PROVE  SomeInv'
<1>1. /\ d => currentPanel' = p /\ Ends(p)'
      /\ ~d => UNCHANGED <<currentPanel, fx>>
  BY ListShows
<1>2. \A x \in Panel \X BOOLEAN : x # <<p, d>> => lists'[x] = lists[x]
  BY ListTypes
<1>3. CASE d
  BY <1>1, <1>3 DEF SomeInv
<1>4. CASE ~d
  <2>1. \A q \in Panel : lists'[<<q, TRUE>>] = lists[<<q, TRUE>>]
    BY <1>2, <1>4
  <2>2. \A q \in Panel : Ends(q)' = Ends(q)
    BY <1>1, <1>4 DEF Ends
  <2> QED
    BY <1>1, <1>4, <2>1, <2>2 DEF SomeInv, Comes
<1> QED
  BY <1>3, <1>4

LEMMA ListComesTarget ==
  ASSUME TypeOK, NEW p \in Panel, NEW d \in BOOLEAN, Answered(p, d),
         PushChosen(p), ShowPanel(p, d), UNCHANGED <<shown, checked, ignored>>,
         NEW t \in Panel, Target(t)
  PROVE  Target(t)'
<1>1. /\ d => /\ currentPanel' = p /\ Ends(p)'
              /\ \A q \in Panel \ {p} : fx'[q] = fx[q]
      /\ ~d => UNCHANGED <<currentPanel, fx>>
      /\ uri' = uri \/ uri'.menu = p
  BY ListShows
<1>2. /\ \A x \in Panel \X BOOLEAN : lists'[x] > 0 => lists[x] > 0
      /\ \A x \in Panel \X BOOLEAN : x # <<p, d>> => lists'[x] = lists[x]
  BY ListTypes
<1>3. p = t
  <2>1. <<p, d>> \in Panel \X BOOLEAN /\ lists[<<p, d>>] > 0
    BY DEF Answered
  <2> QED
    BY <2>1 DEF Target
<1>4. \A x \in Panel \X BOOLEAN : lists'[x] > 0 => x[1] = t
  BY <1>2 DEF Target
<1>5. ~ignored' => checked' = t /\ uri'.menu = t
  BY <1>1, <1>3 DEF Target
<1>6. \A q \in Panel \ {t} : ~Ends(q)'
  <2> TAKE q \in Panel \ {t}
  <2>1. fx'[q] = fx[q]
    BY <1>1, <1>3
  <2> QED
    BY <2>1 DEF Target, Ends
<1>7. lists'[<<t, TRUE>>] > 0 \/ (Ends(t)' /\ currentPanel' = t)
  <2>1. CASE d
    BY <1>1, <1>3, <2>1
  <2>2. CASE ~d
    <3>1. lists'[<<t, TRUE>>] = lists[<<t, TRUE>>]
      BY <1>2, <2>2
    <3>2. Ends(t)' = Ends(t)
      BY <1>1, <2>2 DEF Ends
    <3> QED
      BY <1>1, <2>2, <3>1, <3>2 DEF Target
  <2> QED
    BY <2>1, <2>2
<1> QED
  BY <1>4, <1>5, <1>6, <1>7 DEF Target

\* A step that leaves the panels and the menu alone.
LEMMA PanelsLeft ==
  ASSUME PanelInv,
         UNCHANGED <<booted, currentPanel, lists, shown, fx, checked>>,
         failed' = failed, ~hasty' => ~hasty,
         booted /\ ~failed /\ ~hasty' /\ ~ignored => uri'.menu = uri.menu,
         ignored' = ignored
  PROVE  PanelInv'
<1>1. \A p \in Panel : Ends(p)' = Ends(p)
  BY DEF Ends
<1>2. BootInv'
  BY DEF PanelInv, BootInv
<1>3. SomeInv'
  BY <1>1 DEF PanelInv, SomeInv, Comes
<1>4. TargetInv'
  <2> SUFFICES ASSUME booted', ~failed', ~hasty' PROVE \E p \in Panel : Target(p)'
    BY DEF TargetInv
  <2>1. PICK p \in Panel : Target(p)
    BY DEF PanelInv, TargetInv
  <2>2. Target(p)'
    BY <1>1, <2>1 DEF Target
  <2> QED
    BY <2>2
<1> QED
  BY <1>2, <1>3, <1>4 DEF PanelInv

LEMMA PanelStep == TypeOK /\ PanelInv /\ [Next]_vars => PanelInv'
<1> SUFFICES ASSUME TypeOK, PanelInv, [Next]_vars PROVE PanelInv'
  OBVIOUS
<1>1. BootInv /\ SomeInv /\ TargetInv
  BY DEF PanelInv
<1>2. CASE Boot
  <2>1. /\ ~booted /\ booted' /\ UNCHANGED userVars
    BY <1>2 DEF Boot
  <2>2. PICK m \in Panel : Turns(m)
    BY <1>2, BootTurns
  <2>3. AtRest /\ currentPanel = None /\ shown = {}
    BY <1>1, <2>1 DEF BootInv, AtRest
  <2>4. Target(m)'
    BY <2>2, <2>3, TurnsTo
  <2>5. SomeInv'
    <3>1. CASE failed
      BY <2>1, <3>1 DEF SomeInv, userVars
    <3>2. CASE ~failed
      BY <1>1, <2>2, <3>2, TurnsToSome
    <3> QED
      BY <3>1, <3>2
  <2> QED
    BY <2>1, <2>4, <2>5 DEF PanelInv, BootInv, TargetInv
<1>3. CASE PageLoads
  <2>1. /\ PopState(pos) /\ pops = <<>> /\ pos \in DOMAIN entries
        /\ UNCHANGED <<booted, userVars>>
    BY <1>3, TypesInParts DEF PageLoads, MenuTypes
  <2>2. Restoring(entries[pos]) = {}
    BY <2>1 DEF Restoring
  <2>3. /\ entries' = entries /\ pos' = pos /\ checked' = checked
        /\ UNCHANGED <<currentPanel, lists, fx, shown>>
    BY <2>1, <2>2, PopOutcome
  <2> QED
    BY <2>1, <2>3, PanelsLeft DEF userVars, uri
<1>4. ASSUME NEW p \in Panel, NEW d \in BOOLEAN, Answered(p, d), PushChosen(p),
             ShowPanel(p, d), UNCHANGED <<booted, checked, shown, userVars>>
      PROVE  PanelInv'
  <2>1. UNCHANGED <<hasty, failed, ignored>>
    BY <1>4 DEF userVars
  <2>2. SomeInv'
    BY <1>1, <1>4, <2>1, ListComesSome
  <2>3. TargetInv'
    <3> SUFFICES ASSUME booted', ~failed', ~hasty' PROVE \E t \in Panel : Target(t)'
      BY DEF TargetInv
    <3>1. PICK t \in Panel : Target(t)
      BY <1>1, <1>4, <2>1 DEF TargetInv
    <3> QED
      BY <1>4, <2>1, <3>1, ListComesTarget
  <2>4. BootInv'
    <3>1. booted
      <4>1. <<p, d>> \in Panel \X BOOLEAN /\ lists[<<p, d>>] # 0
        BY <1>4 DEF Answered
      <4> QED
        BY <1>1, <4>1 DEF BootInv
    <3> QED
      BY <1>4, <3>1 DEF BootInv
  <2> QED
    BY <2>2, <2>3, <2>4 DEF PanelInv
<1>5. ASSUME NEW d \in BOOLEAN, GraphListComes(d) PROVE PanelInv'
  BY <1>4, <1>5, Names DEF GraphListComes
<1>6. ASSUME NEW d \in BOOLEAN, TerminalListComes(d) PROVE PanelInv'
  BY <1>4, <1>6, Names DEF TerminalListComes
<1>7. ASSUME NEW p \in Panel, NEW d \in BOOLEAN, ListFails(p, d) PROVE PanelInv'
  <2>1. /\ Answered(p, d) /\ failed' /\ UNCHANGED pageVars
    BY <1>7 DEF ListFails
  <2>2. booted
    <3>1. <<p, d>> \in Panel \X BOOLEAN /\ lists[<<p, d>>] # 0
      BY <2>1 DEF Answered
    <3> QED
      BY <1>1, <3>1 DEF BootInv
  <2> QED
    BY <2>1, <2>2 DEF PanelInv, BootInv, SomeInv, TargetInv, pageVars
<1>8. ASSUME NEW p \in posts, ExecComes(p) PROVE PanelInv'
  <2>1. UNCHANGED <<pageVars, menuVars, userVars>>
    BY <1>8 DEF ExecComes
  <2> QED
    BY <2>1, PanelsLeft DEF pageVars, menuVars, userVars, uri
<1>9. ASSUME Acts, NEW m \in Panel, Turns(m), UNCHANGED booted PROVE PanelInv'
  <2>1. /\ booted /\ failed' = failed
        /\ ~hasty' => ~hasty /\ ~Waiting /\ ~Moving
    BY <1>9, ActsCounted
  <2>2. SomeInv'
    <3>1. CASE failed
      BY <2>1, <3>1 DEF SomeInv
    <3>2. CASE ~failed
      BY <1>1, <1>9, <3>2, TurnsToSome
    <3> QED
      BY <3>1, <3>2
  <2>3. TargetInv'
    <3> SUFFICES ASSUME ~failed', ~hasty' PROVE Target(m)'
      BY DEF TargetInv
    <3>1. AtRest
      BY <2>1, Rest
    <3>2. \E p \in Panel : Target(p)
      BY <1>1, <2>1 DEF TargetInv
    <3> QED
      BY <1>9, <3>1, <3>2, TurnsTo
  <2> QED
    BY <1>9, <2>1, <2>2, <2>3 DEF PanelInv, BootInv
<1>10. ASSUME NEW p \in Panel, ClickMenu(p) PROVE PanelInv'
  <2>1. Acts /\ UNCHANGED booted
    BY <1>10 DEF ClickMenu
  <2> QED
    BY <1>9, <1>10, <2>1, ClickTurns
<1>11. ASSUME NEW p \in Panel, NEW g \in Graph, ClickGraph(p, g) PROVE PanelInv'
  <2>1. /\ Acts /\ Pushed(At(p, g)) /\ p \in shown
        /\ UNCHANGED <<booted, ignored, checked, currentPanel, lists, fx, shown>>
    BY <1>11 DEF ClickGraph
  <2>2. /\ booted /\ failed' = failed
        /\ ~hasty' => ~hasty /\ ~Waiting /\ ~Moving
    BY <2>1, ActsCounted
  <2>3. uri'.menu = p
    BY <2>1, Names, PushedNow DEF Page
  <2>4. ASSUME ~failed, ~hasty', ~ignored PROVE uri'.menu = uri.menu
    <3>1. AtRest
      BY <2>2, <2>4, Rest
    <3>2. PICK t \in Panel : Target(t)
      BY <1>1, <2>2, <2>4 DEF TargetInv
    <3>3. \A q \in Panel \ {t} : ~Ends(q)
      BY <3>1, <3>2, TargetAtRest
    <3>4. Ends(p)
      BY <2>1, <3>1 DEF Ends, AtRest
    <3> QED
      BY <2>3, <2>4, <3>2, <3>3, <3>4 DEF Target
  <2> QED
    BY <2>1, <2>2, <2>4, PanelsLeft
<1>12. ASSUME NEW i \in Line, Keyboard(i) PROVE PanelInv'
  <2>1. Acts /\ UNCHANGED <<ignored, pageVars, menuVars>>
    BY <1>12 DEF Keyboard
  <2>2. failed' = failed /\ (~hasty' => ~hasty)
    BY <2>1, ActsCounted
  <2> QED
    BY <2>1, <2>2, PanelsLeft DEF pageVars, menuVars, uri
<1>13. ASSUME NEW to \in DOMAIN entries, GoTo(to) PROVE PanelInv'
  <2>1. /\ Acts /\ PopState(to) /\ UNCHANGED booted
        /\ ignored' = (Restoring(entries[to]) = {} \/ entries[to].menu = None)
    BY <1>13 DEF GoTo
  <2>2. CASE ~(Restoring(entries[to]) = {} \/ entries[to].menu = None)
    BY <1>9, <2>1, <2>2, PopOutcome
  <2>3. CASE Restoring(entries[to]) = {} \/ entries[to].menu = None
    <3>1. ignored' /\ UNCHANGED <<currentPanel, lists, fx, shown>>
      BY <2>1, <2>3, PopOutcome
    <3>2. /\ booted /\ failed' = failed
          /\ ~hasty' => ~hasty
      BY <2>1, ActsCounted
    <3>3. \A p \in Panel : Ends(p)' = Ends(p)
      BY <3>1 DEF Ends
    <3>4. SomeInv'
      BY <1>1, <3>1, <3>2, <3>3 DEF SomeInv, Comes
    <3>5. TargetInv'
      <4> SUFFICES ASSUME ~failed', ~hasty' PROVE \E p \in Panel : Target(p)'
        BY DEF TargetInv
      <4>1. PICK p \in Panel : Target(p)
        BY <1>1, <3>2 DEF TargetInv
      <4>2. Target(p)'
        BY <3>1, <3>3, <4>1 DEF Target
      <4> QED
        BY <4>2
    <3> QED
      BY <2>1, <3>2, <3>4, <3>5 DEF PanelInv, BootInv
  <2> QED
    BY <2>2, <2>3
<1>14. ASSUME NEW p \in Panel, EffectEnds(p) PROVE PanelInv'
  <2>1. /\ fx[p] # <<>>
        /\ UNCHANGED <<pageVars, checked, currentPanel, lists, userVars>>
    BY <1>14 DEF EffectEnds
  <2>2. \A q \in Panel : Ends(q)' = Ends(q)
    BY <1>14, EffectTypes
  <2>3. UNCHANGED <<booted, hasty, failed, ignored>> /\ uri' = uri
    BY <2>1 DEF pageVars, userVars, uri
  <2>4. BootInv'
    BY <1>1, <2>1, <2>3 DEF BootInv
  <2>5. SomeInv'
    BY <1>1, <2>1, <2>2, <2>3 DEF SomeInv, Comes
  <2>6. TargetInv'
    <3> SUFFICES ASSUME booted', ~failed', ~hasty' PROVE \E t \in Panel : Target(t)'
      BY DEF TargetInv
    <3>1. PICK t \in Panel : Target(t)
      BY <1>1, <2>3 DEF TargetInv
    <3>2. Target(t)'
      BY <2>1, <2>2, <2>3, <3>1 DEF Target
    <3> QED
      BY <3>2
  <2> QED
    BY <2>4, <2>5, <2>6 DEF PanelInv
<1>15. CASE UNCHANGED vars
  BY <1>15, PanelsLeft DEF vars, pageVars, menuVars, userVars, uri
<1> QED
  BY <1>2, <1>3, <1>5, <1>6, <1>7, <1>8, <1>10, <1>11, <1>12, <1>13, <1>14, <1>15
  DEF Next, Replies, User

\* For a user who waits, what is seen when nothing is under way is the panel
\* of the address, under its button; for any user, some panel is.
LEMMA PanelSeen == TypeOK /\ PanelInv => PanelFollowsAddress /\ SomePanel
<1> SUFFICES ASSUME TypeOK, PanelInv, Quiet, ~failed
             PROVE  /\ ~hasty /\ ~ignored => shown = {uri.menu} /\ checked = uri.menu
                    /\ shown # {}
  BY DEF PanelFollowsAddress, SomePanel
<1>1. AtRest /\ shown \subseteq Panel
  BY Rest, TypesInParts DEF Quiet, MenuTypes
<1>2. \A p \in Panel : Ends(p) <=> p \in shown
  BY <1>1 DEF AtRest, Ends
<1>3. ASSUME ~hasty, ~ignored PROVE shown = {uri.menu} /\ checked = uri.menu
  <2>1. PICK p \in Panel : Target(p)
    BY <1>3 DEF PanelInv, TargetInv, Quiet
  <2>2. Ends(p) /\ \A q \in Panel \ {p} : ~Ends(q)
    BY <1>1, <2>1, TargetAtRest
  <2> QED
    BY <1>1, <1>2, <1>3, <2>1, <2>2 DEF Target
<1>4. shown # {}
  <2>1. \A p \in Panel : ~(lists[<<p, TRUE>>] > 0)
    <3> TAKE p \in Panel
    <3>1. lists[<<p, TRUE>>] = 0
      BY <1>1 DEF AtRest
    <3> QED
      BY <3>1
  <2>2. currentPanel \in Panel /\ Ends(currentPanel)
    BY <2>1 DEF PanelInv, SomeInv, Comes, Quiet
  <2> QED
    BY <1>2, <2>2
<1> QED
  BY <1>3, <1>4

(***************************************************************************)
(* Whichever of the user and the lists is faster, however often the menu   *)
(* is clicked and the history stepped through, a page at rest shows some   *)
(* panel if the lists came, and to a user who waited exactly the panel of  *)
(* the address under its button (main-menu.js, history.js, rexster.js).    *)
(***************************************************************************)
THEOREM PanelsKeepStep == Spec => []PanelsInStep
<1>1. Init => TypeOK /\ PanelInv
  BY TypesFirst, PanelFirst
<1>2. TypeOK /\ PanelInv /\ [Next]_vars => TypeOK' /\ PanelInv'
  BY TypesStep, PanelStep
<1>3. TypeOK /\ PanelInv => PanelsInStep
  BY PanelSeen DEF PanelsInStep
<1> QED
  BY <1>1, <1>2, <1>3, PTL DEF Spec

-----------------------------------------------------------------------------
(***************************************************************************)
(* The console: its records, and what the functions of terminal.js do.     *)
(***************************************************************************)

\* A set of numbers has a least element: FirstOf finds the first of the active
\* lines, and a line that is reached by a run of handlers is one of its steps.
LEMMA Least ==
  ASSUME NEW T \in SUBSET Nat, T # {}
  PROVE  \E n \in T : \A m \in T : n <= m
<1>1. PICK R : R = OpToRel(<, Nat)
  OBVIOUS
<1>2. IsWellFoundedOn(R, Nat)
  BY <1>1, NatLessThanWellFounded
<1>3. \A x, y \in Nat : <<x, y>> \in R <=> x < y
  BY <1>1 DEF OpToRel
<1>4. PICK n \in T : \A m \in T : ~(<<m, n>> \in R)
  BY <1>2, WFMin, Zenon
<1>5. \A m \in T : ~(m < n)
  <2> TAKE m \in T
  <2>1. m \in Nat /\ n \in Nat
    OBVIOUS
  <2> QED
    BY <1>3, <1>4, <2>1
<1> QED
  <2>1. \A m \in T : n <= m
    BY <1>5
  <2> QED
    BY <2>1

\* The records of the console, with the lines and ReadLines by their numbers.
LineRec == [active : BOOLEAN, bound : Seq(Nat), text : Text,
            asked : Nat, failed : Nat, got : Seq(Nat)]
ReaderRec == [active : SUBSET Nat, history : Seq(Text), ptr : Nat]
Anything == Graph \cup {None, Undefined}
Post == [reader : Nat, line : Nat, text : Text, graph : Anything, nth : Nat]
Term == [line : Seq(LineRec), reader : Seq(ReaderRec), posts : SUBSET Post]

\* The handlers of a line belong to ReadLines that there are, and a line that can
\* be typed in has one.
LineOK(c, i) ==
  /\ \A k \in DOMAIN c.line[i].bound : c.line[i].bound[k] \in DOMAIN c.reader
  /\ c.line[i].active => c.line[i].bound # <<>>

\* A ReadLine has activated a line, and points into its history.
ReaderOK(c, r) ==
  /\ c.reader[r].active # {} /\ c.reader[r].active \subseteq DOMAIN c.line
  /\ c.reader[r].ptr <= Len(c.reader[r].history)

\* A call knows its ReadLine and its line.
PostOK(c, p) == p.reader \in DOMAIN c.reader /\ p.line \in DOMAIN c.line

\* What holds of every console, also between the handlers of one key.
Good(c) ==
  /\ c \in Term
  /\ \A i \in DOMAIN c.line : LineOK(c, i)
  /\ \A r \in DOMAIN c.reader : ReaderOK(c, r)
  /\ \A p \in c.posts : PostOK(c, p)

\* There is a line to type in.
Prompts(c) == \E i \in DOMAIN c.line : c.line[i].active

\* A line after addInputLine has bound the handlers of the ReadLine r to it.
Bound(l, r) == [l EXCEPT !.bound = Append(@, r)]

LEMMA BoundLine ==
  ASSUME NEW l \in LineRec, NEW r \in Nat
  PROVE  /\ Bound(l, r) \in LineRec
         /\ Bound(l, r).active = l.active /\ Bound(l, r).text = l.text
         /\ Bound(l, r).asked = l.asked /\ Bound(l, r).failed = l.failed
         /\ Bound(l, r).got = l.got /\ Bound(l, r).bound = Append(l.bound, r)
<1>1. l.bound \in Seq(Nat)
  BY DEF LineRec
<1>2. Append(l.bound, r) \in Seq(Nat)
  BY <1>1
<1> DEFINE a == Append(l.bound, r)
<1>3. Bound(l, r) = [l EXCEPT !.bound = a]
  BY DEF Bound
<1> HIDE DEF a
<1>4. Bound(l, r) \in LineRec /\ Bound(l, r).bound = a
  BY <1>2, <1>3 DEF LineRec, a
<1> QED
  BY <1>3, <1>4 DEF LineRec, a

LEMMA NewLineIs ==
  /\ NewLine \in LineRec /\ NewLine.active /\ NewLine.bound = <<>>
  /\ NewLine.asked = 0 /\ NewLine.failed = 0 /\ NewLine.got = <<>>
<1>1. <<>> \in Seq(Nat) /\ Blank \in Text
  BY DEF Text
<1> QED
  BY <1>1 DEF NewLine, LineRec

\* addInputLine adds one line, and binds the ReadLine to every active one.
LEMMA Added ==
  ASSUME NEW c \in Term, NEW r \in DOMAIN c.reader
  PROVE  LET d == AddInputLine(c, r)
             n == Len(c.line)
             on == ActiveLines(c.line) \cup {n + 1}
         IN  /\ d \in Term /\ d.posts = c.posts /\ Len(d.line) = n + 1
             /\ d.reader = [c.reader EXCEPT ![r].active = on]
             /\ \A i \in 1 .. n :
                  d.line[i] = IF c.line[i].active THEN Bound(c.line[i], r) ELSE c.line[i]
             /\ d.line[n + 1] = Bound(NewLine, r)
<1> DEFINE n == Len(c.line)
           ls == Append(c.line, NewLine)
           on == ActiveLines(c.line) \cup {n + 1}
           new == [i \in DOMAIN ls |-> IF i \in on THEN Bound(ls[i], r) ELSE ls[i]]
<1>1. c.line \in Seq(LineRec) /\ c.reader \in Seq(ReaderRec) /\ n \in Nat /\ r \in Nat
  BY DEF Term
<1>2. /\ ls \in Seq(LineRec) /\ DOMAIN ls = 1 .. n + 1 /\ ls[n + 1] = NewLine
      /\ \A i \in 1 .. n : ls[i] = c.line[i]
  BY <1>1, NewLineIs
<1>3. ActiveLines(ls) = on
  <2>1. ASSUME NEW i \in 1 .. n + 1 PROVE ls[i].active <=> i \in on
    <3>1. CASE i = n + 1
      BY <1>2, <3>1, NewLineIs
    <3>2. CASE i # n + 1
      <4>1. i \in 1 .. n
        BY <1>1, <3>2
      <4>2. DOMAIN c.line = 1 .. n
        BY <1>1
      <4> QED
        BY <1>2, <3>2, <4>1, <4>2 DEF ActiveLines
    <3> QED
      BY <3>1, <3>2
  <2>2. on \subseteq 1 .. n + 1
    BY <1>1 DEF ActiveLines
  <2>3. ActiveLines(ls) = {i \in 1 .. n + 1 : ls[i].active}
    BY <1>2 DEF ActiveLines
  <2> QED
    BY <2>1, <2>2, <2>3
<1>4. AddInputLine(c, r) = [c EXCEPT !.line = new, !.reader[r].active = on]
  BY <1>3 DEF AddInputLine, Bound
<1>5. /\ new \in Seq(LineRec) /\ Len(new) = n + 1
      /\ \A i \in 1 .. n + 1 : new[i] = IF i \in on THEN Bound(ls[i], r) ELSE ls[i]
  <2>1. \A i \in 1 .. n + 1 : ls[i] \in LineRec
    BY <1>1, <1>2
  <2>2. \A i \in 1 .. n + 1 : (IF i \in on THEN Bound(ls[i], r) ELSE ls[i]) \in LineRec
    BY <1>1, <2>1, BoundLine
  <2>3. n + 1 \in Nat
    BY <1>1
  <2> HIDE DEF on, ls
  <2> QED
    BY <1>2, <2>2, <2>3
<1>6. /\ \A i \in 1 .. n :
           new[i] = IF c.line[i].active THEN Bound(c.line[i], r) ELSE c.line[i]
      /\ new[n + 1] = Bound(NewLine, r)
  <2>1. \A i \in 1 .. n : i \in on <=> c.line[i].active
    BY <1>1 DEF ActiveLines
  <2>2. n + 1 \in on /\ n + 1 \in 1 .. n + 1 /\ \A i \in 1 .. n : i \in 1 .. n + 1
    BY <1>1
  <2> HIDE DEF new, ls, on
  <2> QED
    BY <1>2, <1>5, <2>1, <2>2
<1>7. on \in SUBSET Nat
  BY <1>1 DEF ActiveLines
<1> HIDE DEF new, on, n, ls
<1>8. [c.reader EXCEPT ![r].active = on] \in Seq(ReaderRec)
  <2>1. [c.reader[r] EXCEPT !.active = on] \in ReaderRec
    <3>1. c.reader[r] \in ReaderRec
      BY <1>1
    <3> QED
      BY <1>7, <3>1 DEF ReaderRec
  <2> QED
    BY <1>1, <2>1
<1>9. LET d == AddInputLine(c, r)
      IN  /\ d \in Term /\ d.posts = c.posts /\ d.line = new
          /\ d.reader = [c.reader EXCEPT ![r].active = on]
  <2> DEFINE rs == [c.reader EXCEPT ![r].active = on]
  <2>1. AddInputLine(c, r) = [[c EXCEPT !.line = new] EXCEPT !.reader = rs]
    BY <1>4, <1>1 DEF Term
  <2> HIDE DEF rs
  <2>2. rs \in Seq(ReaderRec)
    BY <1>8 DEF rs
  <2>3. LET d == [[c EXCEPT !.line = new] EXCEPT !.reader = rs]
        IN  d \in Term /\ d.posts = c.posts /\ d.line = new /\ d.reader = rs
    BY <1>5, <2>2 DEF Term
  <2> QED
    BY <2>1, <2>3 DEF rs
<1> QED
  BY <1>5, <1>6, <1>9 DEF on, n

\* A ReadLine that has added a line has lines, and every line its handlers.
LEMMA AddedGood ==
  ASSUME NEW c \in Term, NEW r \in DOMAIN c.reader,
         \A i \in DOMAIN c.line : LineOK(c, i),
         \A q \in DOMAIN c.reader \ {r} : ReaderOK(c, q),
         c.reader[r].ptr <= Len(c.reader[r].history),
         \A p \in c.posts : PostOK(c, p)
  PROVE  LET d == AddInputLine(c, r)
         IN  /\ Good(d) /\ Prompts(d) /\ d.posts = c.posts
             /\ Len(d.line) = Len(c.line) + 1 /\ Len(d.reader) = Len(c.reader)
<1> DEFINE d == AddInputLine(c, r)
           n == Len(c.line)
           on == ActiveLines(c.line) \cup {n + 1}
<1>1. /\ d \in Term /\ d.posts = c.posts /\ Len(d.line) = n + 1
      /\ d.reader = [c.reader EXCEPT ![r].active = on]
      /\ \A i \in 1 .. n :
           d.line[i] = IF c.line[i].active THEN Bound(c.line[i], r) ELSE c.line[i]
      /\ d.line[n + 1] = Bound(NewLine, r)
  BY Added
<1>2. /\ c.line \in Seq(LineRec) /\ c.reader \in Seq(ReaderRec) /\ n \in Nat /\ r \in Nat
      /\ DOMAIN c.line = 1 .. n
  BY DEF Term
<1> HIDE DEF d
<1>3. /\ DOMAIN d.line = 1 .. n + 1 /\ DOMAIN d.reader = DOMAIN c.reader
      /\ Len(d.reader) = Len(c.reader)
  <2>1. d.line \in Seq(LineRec)
    BY <1>1 DEF Term
  <2> QED
    BY <1>1, <1>2, <2>1
<1>4. ASSUME NEW i \in 1 .. n PROVE LineOK(d, i)
  <2>1. c.line[i] \in LineRec /\ LineOK(c, i)
    BY <1>2
  <2>2. CASE ~c.line[i].active
    BY <1>1, <1>3, <2>1, <2>2 DEF LineOK
  <2>3. CASE c.line[i].active
    <3>1. d.line[i].bound = Append(c.line[i].bound, r)
      <4>1. d.line[i] = Bound(c.line[i], r)
        BY <1>1, <2>3
      <4> QED
        BY <1>2, <2>1, <4>1, BoundLine
    <3>2. c.line[i].bound \in Seq(Nat)
      BY <2>1 DEF LineRec
    <3>3. \A k \in DOMAIN c.line[i].bound : c.line[i].bound[k] \in DOMAIN c.reader
      BY <2>1 DEF LineOK
    <3>4. \A k \in DOMAIN d.line[i].bound : d.line[i].bound[k] \in DOMAIN c.reader
      <4> DEFINE b == c.line[i].bound
                 a == Append(b, r)
      <4>1. b \in Seq(Nat) /\ \A k \in DOMAIN b : b[k] \in DOMAIN c.reader
        BY <3>2, <3>3
      <4> HIDE DEF b
      <4>2. \A k \in DOMAIN a : a[k] = r \/ (k \in DOMAIN b /\ a[k] = b[k])
        BY <4>1
      <4>3. \A k \in DOMAIN a : a[k] \in DOMAIN c.reader
        <5> HIDE DEF a
        <5> QED
          BY <4>1, <4>2
      <4>4. d.line[i].bound = a
        BY <3>1 DEF b
      <4> HIDE DEF a
      <4> QED
        BY <4>3, <4>4
    <3>5. d.line[i].bound # <<>>
      <4> DEFINE b == c.line[i].bound
      <4>1. b \in Seq(Nat)
        BY <3>2
      <4> HIDE DEF b
      <4>2. Append(b, r) # <<>>
        BY <4>1
      <4>3. d.line[i].bound = Append(b, r)
        BY <3>1 DEF b
      <4> QED
        BY <4>2, <4>3, Zenon
    <3> QED
      BY <1>3, <3>4, <3>5 DEF LineOK
  <2> QED
    BY <2>2, <2>3
<1>5. LineOK(d, n + 1) /\ d.line[n + 1].active
  <2>1. d.line[n + 1].bound = Append(<<>>, r) /\ d.line[n + 1].active
    BY <1>1, <1>2, NewLineIs, BoundLine
  <2>2. /\ \A k \in DOMAIN Append(<<>>, r) : Append(<<>>, r)[k] = r
        /\ Append(<<>>, r) # <<>>
    OBVIOUS
  <2> QED
    BY <1>3, <2>1, <2>2 DEF LineOK
<1>6. ASSUME NEW q \in DOMAIN d.reader PROVE ReaderOK(d, q)
  <2>1. on # {} /\ on \subseteq 1 .. n + 1
    BY <1>2 DEF ActiveLines
  <2>2. c.reader[r] \in ReaderRec /\ c.reader[q] \in ReaderRec
    BY <1>2, <1>3
  <2> HIDE DEF on
  <2>3. CASE q = r
    <3>1. d.reader[q] = [c.reader[r] EXCEPT !.active = on]
      BY <1>1, <1>2, <2>3
    <3>2. /\ d.reader[q].active = on /\ d.reader[q].ptr = c.reader[r].ptr
          /\ d.reader[q].history = c.reader[r].history
      BY <2>2, <3>1 DEF ReaderRec
    <3> QED
      BY <1>3, <2>1, <3>2 DEF ReaderOK
  <2>4. CASE q # r
    <3>1. d.reader[q] = c.reader[q]
      BY <1>1, <1>2, <1>3, <2>4
    <3>2. ReaderOK(c, q)
      BY <1>3, <2>4
    <3>3. 1 .. n \subseteq 1 .. n + 1
      BY <1>2
    <3> QED
      BY <1>2, <1>3, <3>1, <3>2, <3>3 DEF ReaderOK
  <2> QED
    BY <2>3, <2>4
<1>7. \A p \in d.posts : PostOK(d, p)
  BY <1>1, <1>2, <1>3 DEF PostOK
<1>8. Good(d) /\ Prompts(d)
  <2>1. \A i \in 1 .. n + 1 : i \in 1 .. n \/ i = n + 1
    BY <1>2
  <2>2. n + 1 \in 1 .. n + 1
    BY <1>2
  <2> QED
    BY <1>1, <1>3, <1>4, <1>5, <1>6, <1>7, <2>1, <2>2 DEF Good, Prompts
<1> QED
  BY <1>1, <1>3, <1>8 DEF d

-----------------------------------------------------------------------------
LEMMA TermParts ==
  ASSUME NEW c \in Term
  PROVE  /\ c.line \in Seq(LineRec) /\ c.reader \in Seq(ReaderRec) /\ c.posts \subseteq Post
         /\ DOMAIN c.line = 1 .. Len(c.line) /\ Len(c.line) \in Nat
         /\ DOMAIN c.reader = 1 .. Len(c.reader) /\ Len(c.reader) \in Nat
         /\ \A i \in DOMAIN c.line : c.line[i] \in LineRec /\ i \in Nat
         /\ \A r \in DOMAIN c.reader : c.reader[r] \in ReaderRec /\ r \in Nat
<1>1. c.line \in Seq(LineRec) /\ c.reader \in Seq(ReaderRec) /\ c.posts \subseteq Post
  BY DEF Term
<1> QED
  BY <1>1

\* A change that takes no handler away, and activates no line.
LEMMA GoodKept ==
  ASSUME NEW c, NEW d \in Term, Good(c),
         Len(d.line) = Len(c.line), Len(d.reader) = Len(c.reader),
         \A i \in DOMAIN c.line : /\ d.line[i].bound = c.line[i].bound
                                  /\ d.line[i].active => c.line[i].active,
         \A r \in DOMAIN c.reader : /\ d.reader[r].active = c.reader[r].active
                                    /\ d.reader[r].ptr <= Len(d.reader[r].history),
         \A p \in d.posts : PostOK(c, p)
  PROVE  Good(d)
<1>1. /\ c \in Term
      /\ \A i \in DOMAIN c.line : LineOK(c, i)
      /\ \A r \in DOMAIN c.reader : ReaderOK(c, r)
  BY DEF Good
<1>2. DOMAIN d.line = DOMAIN c.line /\ DOMAIN d.reader = DOMAIN c.reader
  <2>1. /\ DOMAIN c.line = 1 .. Len(c.line) /\ DOMAIN c.reader = 1 .. Len(c.reader)
        /\ DOMAIN d.line = 1 .. Len(d.line) /\ DOMAIN d.reader = 1 .. Len(d.reader)
    BY <1>1, TermParts
  <2> QED
    BY <2>1
<1>3. \A i \in DOMAIN d.line : LineOK(d, i)
  BY <1>1, <1>2 DEF LineOK
<1>4. \A r \in DOMAIN d.reader : ReaderOK(d, r)
  BY <1>1, <1>2 DEF ReaderOK
<1>5. \A p \in d.posts : PostOK(d, p)
  BY <1>2 DEF PostOK
<1> QED
  BY <1>3, <1>4, <1>5 DEF Good

\* A console whose lines are replaced one by one is a console.
LEMMA LinesSet ==
  ASSUME NEW c \in Term, NEW ls \in Seq(LineRec)
  PROVE  LET d == [c EXCEPT !.line = ls]
         IN  d \in Term /\ d.line = ls /\ d.reader = c.reader /\ d.posts = c.posts
BY DEF Term

LEMMA SeqMade ==
  ASSUME NEW S, NEW n \in Nat, NEW f \in [1 .. n -> S]
  PROVE  f \in Seq(S) /\ Len(f) = n
OBVIOUS

\* A line that newPromptLine has disabled.
Off(l) == [l EXCEPT !.active = FALSE]

LEMMA OffLine ==
  ASSUME NEW l \in LineRec
  PROVE  /\ Off(l) \in LineRec /\ ~Off(l).active
         /\ Off(l).bound = l.bound /\ Off(l).asked = l.asked /\ Off(l).failed = l.failed
         /\ Off(l).got = l.got
BY DEF Off, LineRec

LEMMA DisabledIs ==
  ASSUME NEW c \in Term, NEW r \in DOMAIN c.reader
  PROVE  LET d == Disabled(c, r)
         IN  /\ d \in Term /\ d.posts = c.posts /\ d.reader = c.reader
             /\ Len(d.line) = Len(c.line)
             /\ \A i \in DOMAIN c.line :
                  d.line[i] = IF i \in c.reader[r].active THEN Off(c.line[i]) ELSE c.line[i]
<1> DEFINE n == Len(c.line)
           ls == [i \in 1 .. n |-> IF i \in c.reader[r].active THEN Off(c.line[i])
                                                               ELSE c.line[i]]
<1>1. DOMAIN c.line = 1 .. n /\ n \in Nat /\ \A i \in 1 .. n : c.line[i] \in LineRec
  BY TermParts
<1>2. \A i \in 1 .. n : ls[i] \in LineRec
  BY <1>1, OffLine
<1>3. ls \in Seq(LineRec) /\ Len(ls) = n
  <2>1. ls \in [1 .. n -> LineRec]
    BY <1>2
  <2> HIDE DEF ls
  <2> QED
    BY <1>1, <2>1, SeqMade
<1>4. Disabled(c, r) = [c EXCEPT !.line = ls]
  <2>1. ls = [i \in DOMAIN c.line |-> IF i \in c.reader[r].active THEN Off(c.line[i])
                                                                ELSE c.line[i]]
    BY <1>1
  <2> HIDE DEF ls
  <2>2. Disabled(c, r) = [c EXCEPT !.line =
          [i \in DOMAIN c.line |-> IF i \in c.reader[r].active THEN Off(c.line[i])
                                                                ELSE c.line[i]]]
    BY Zenon DEF Disabled, Off
  <2> QED
    BY <2>1, <2>2
<1>5. \A i \in DOMAIN c.line :
        ls[i] = IF i \in c.reader[r].active THEN Off(c.line[i]) ELSE c.line[i]
  BY <1>1
<1> HIDE DEF ls
<1> QED
  BY <1>3, <1>4, <1>5, LinesSet

\* A line under which the response to the line i is put.
Answer(l, i) == [l EXCEPT !.got = Append(@, i)]

LEMMA AnswerLine ==
  ASSUME NEW l \in LineRec, NEW i \in Nat
  PROVE  /\ Answer(l, i) \in LineRec /\ Answer(l, i).active = l.active
         /\ Answer(l, i).bound = l.bound /\ Answer(l, i).asked = l.asked
         /\ Answer(l, i).failed = l.failed /\ Answer(l, i).got = Append(l.got, i)
<1>1. l.got \in Seq(Nat)
  BY DEF LineRec
<1>2. Append(l.got, i) \in Seq(Nat)
  BY <1>1
<1> DEFINE a == Append(l.got, i)
<1>3. Answer(l, i) = [l EXCEPT !.got = a]
  BY DEF Answer
<1> HIDE DEF a
<1> QED
  BY <1>2, <1>3 DEF LineRec, a

LEMMA ResponseIs ==
  ASSUME NEW c \in Term, NEW p \in Post, p.reader \in DOMAIN c.reader
  PROVE  LET d == InsertResponse(c, p)
         IN  /\ d \in Term /\ d.posts = c.posts /\ d.reader = c.reader
             /\ Len(d.line) = Len(c.line)
             /\ \A i \in DOMAIN c.line :
                  d.line[i] = IF i \in c.reader[p.reader].active
                              THEN Answer(c.line[i], p.line) ELSE c.line[i]
<1> DEFINE n == Len(c.line)
           on == c.reader[p.reader].active
           ls == [i \in 1 .. n |-> IF i \in on THEN Answer(c.line[i], p.line)
                                               ELSE c.line[i]]
<1>1. DOMAIN c.line = 1 .. n /\ n \in Nat /\ \A i \in 1 .. n : c.line[i] \in LineRec
  BY TermParts
<1>2. \A i \in 1 .. n : ls[i] \in LineRec
  <2>1. p.line \in Nat
    BY DEF Post
  <2> HIDE DEF on
  <2> QED
    BY <1>1, <2>1, AnswerLine
<1>3. ls \in Seq(LineRec) /\ Len(ls) = n
  <2>1. ls \in [1 .. n -> LineRec]
    BY <1>2
  <2> HIDE DEF ls
  <2> QED
    BY <1>1, <2>1, SeqMade
<1>4. InsertResponse(c, p) = [c EXCEPT !.line = ls]
  <2>1. ls = [i \in DOMAIN c.line |-> IF i \in on THEN Answer(c.line[i], p.line)
                                                  ELSE c.line[i]]
    BY <1>1
  <2> HIDE DEF ls
  <2>2. InsertResponse(c, p) = [c EXCEPT !.line =
          [i \in DOMAIN c.line |-> IF i \in c.reader[p.reader].active
                                   THEN Answer(c.line[i], p.line) ELSE c.line[i]]]
    BY DEF InsertResponse, Answer
  <2> QED
    BY <2>1, <2>2
<1>5. \A i \in DOMAIN c.line :
        ls[i] = IF i \in on THEN Answer(c.line[i], p.line) ELSE c.line[i]
  BY <1>1
<1> HIDE DEF ls
<1> QED
  BY <1>3, <1>4, <1>5, LinesSet

\* What was entered is the last of the history, and the pointer is behind it.
LEMMA SavedIs ==
  ASSUME NEW c \in Term, NEW p \in Post, p.reader \in DOMAIN c.reader
  PROVE  LET d == SaveToHistory(c, p)
         IN  /\ d \in Term /\ d.posts = c.posts /\ d.line = c.line
             /\ Len(d.reader) = Len(c.reader)
             /\ \A r \in DOMAIN c.reader : d.reader[r].active = c.reader[r].active
             /\ \A r \in DOMAIN c.reader : r # p.reader => d.reader[r] = c.reader[r]
             /\ d.reader[p.reader].ptr <= Len(d.reader[p.reader].history)
<1> DEFINE q == p.reader
           rd == c.reader[q]
           h == Append(rd.history, p.text)
           new == [rd EXCEPT !.history = h, !.ptr = Len(rd.history) + 1]
           rs == [c.reader EXCEPT ![q] = new]
<1>1. /\ c.reader \in Seq(ReaderRec) /\ rd \in ReaderRec /\ q \in DOMAIN c.reader
      /\ p.text \in Text
  BY TermParts DEF Post
<1>2. rd.history \in Seq(Text)
  BY <1>1 DEF ReaderRec
<1>3. h \in Seq(Text) /\ Len(h) = Len(rd.history) + 1 /\ Len(rd.history) + 1 \in Nat
  BY <1>1, <1>2
<1>4. SaveToHistory(c, p) = [c EXCEPT !.reader = rs]
  <2>1. SaveToHistory(c, p)
        = [[c EXCEPT !.reader[q].history = h] EXCEPT !.reader[q].ptr = Len(rd.history) + 1]
    BY DEF SaveToHistory
  <2> QED
    BY <1>1, <2>1 DEF Term, ReaderRec
<1> HIDE DEF h
<1>5. new \in ReaderRec /\ new.active = rd.active /\ new.ptr = Len(new.history)
  <2> HIDE DEF rd
  <2> QED
    BY <1>1, <1>2, <1>3 DEF ReaderRec
<1> HIDE DEF new
<1>6. /\ rs \in Seq(ReaderRec) /\ Len(rs) = Len(c.reader) /\ rs[q] = new
      /\ \A r \in DOMAIN c.reader : r # q => rs[r] = c.reader[r]
  BY <1>1, <1>5
<1> HIDE DEF rs
<1>7. LET d == [c EXCEPT !.reader = rs]
      IN  d \in Term /\ d.posts = c.posts /\ d.line = c.line /\ d.reader = rs
  BY <1>6 DEF Term
<1>8. Len(new.history) \in Nat
  BY <1>5 DEF ReaderRec
<1> QED
  BY <1>4, <1>5, <1>6, <1>7, <1>8

-----------------------------------------------------------------------------
(***************************************************************************)
(* Every function of terminal.js keeps the console.                        *)
(***************************************************************************)
LEMMA GoodParts ==
  ASSUME NEW c, Good(c)
  PROVE  /\ c \in Term
         /\ \A i \in DOMAIN c.line : LineOK(c, i)
         /\ \A r \in DOMAIN c.reader : ReaderOK(c, r)
         /\ \A p \in c.posts : PostOK(c, p)
BY DEF Good

\* Disabling the lines of a ReadLine keeps the console.
LEMMA DisabledGood ==
  ASSUME NEW c, Good(c), NEW r \in DOMAIN c.reader
  PROVE  LET d == Disabled(c, r)
         IN  /\ Good(d) /\ d.posts = c.posts /\ d.reader = c.reader
             /\ Len(d.line) = Len(c.line)
<1> DEFINE d == Disabled(c, r)
<1>1. c \in Term /\ \A q \in DOMAIN c.reader : ReaderOK(c, q)
  BY GoodParts
<1>2. /\ d \in Term /\ d.posts = c.posts /\ d.reader = c.reader
      /\ Len(d.line) = Len(c.line)
      /\ \A i \in DOMAIN c.line :
           d.line[i] = IF i \in c.reader[r].active THEN Off(c.line[i]) ELSE c.line[i]
  BY <1>1, DisabledIs
<1> HIDE DEF d
<1>3. ASSUME NEW i \in DOMAIN c.line
      PROVE  /\ d.line[i].bound = c.line[i].bound
             /\ d.line[i].active => c.line[i].active
  <2>1. c.line[i] \in LineRec
    BY <1>1, TermParts
  <2> QED
    BY <1>2, <2>1, OffLine
<1>4. \A q \in DOMAIN c.reader : d.reader[q].ptr <= Len(d.reader[q].history)
  BY <1>1, <1>2 DEF ReaderOK
<1>5. Good(d)
  BY <1>1, <1>2, <1>3, <1>4, GoodKept, GoodParts
<1> QED
  BY <1>2, <1>5 DEF d

\* newPromptLine keeps the console, and it has a line to type in then.
LEMMA NewPromptGood ==
  ASSUME NEW c, Good(c), NEW r \in DOMAIN c.reader
  PROVE  LET d == NewPromptLine(c, r)
         IN  /\ Good(d) /\ Prompts(d) /\ d.posts = c.posts
             /\ Len(d.line) = Len(c.line) + 1 /\ Len(d.reader) = Len(c.reader)
<1> DEFINE e == Disabled(c, r)
<1>1. /\ Good(e) /\ e.posts = c.posts /\ e.reader = c.reader
      /\ Len(e.line) = Len(c.line)
  BY DisabledGood
<1>2. NewPromptLine(c, r) = AddInputLine(e, r)
  BY DEF NewPromptLine
<1> HIDE DEF e
<1>3. /\ e \in Term /\ r \in DOMAIN e.reader
      /\ \A i \in DOMAIN e.line : LineOK(e, i)
      /\ \A q \in DOMAIN e.reader : ReaderOK(e, q)
      /\ \A p \in e.posts : PostOK(e, p)
  BY <1>1, GoodParts
<1>4. e.reader[r].ptr <= Len(e.reader[r].history)
  BY <1>3 DEF ReaderOK
<1> QED
  BY <1>1, <1>2, <1>3, <1>4, AddedGood

\* What MakeReader starts from: the new ReadLine has no line yet.
Unready(c) == [c EXCEPT !.reader = Append(@, NewReader)]

LEMMA UnreadyIs ==
  ASSUME NEW c \in Term
  PROVE  LET e == Unready(c)
         IN  /\ e \in Term /\ e.posts = c.posts /\ e.line = c.line
             /\ e.reader = Append(c.reader, NewReader)
             /\ NewReader \in ReaderRec
<1>1. c.reader \in Seq(ReaderRec)
  BY TermParts
<1>2. NewReader \in ReaderRec
  <2>1. <<>> \in Seq(Text)
    OBVIOUS
  <2> QED
    BY <2>1 DEF NewReader, ReaderRec
<1> DEFINE rs == Append(c.reader, NewReader)
<1>3. rs \in Seq(ReaderRec)
  BY <1>1, <1>2
<1>4. Unready(c) = [c EXCEPT !.reader = rs]
  BY DEF Unready
<1> HIDE DEF rs
<1>5. LET e == [c EXCEPT !.reader = rs]
      IN  e \in Term /\ e.posts = c.posts /\ e.line = c.line /\ e.reader = rs
  BY <1>3 DEF Term
<1> QED
  BY <1>2, <1>4, <1>5 DEF rs

\* initTerminal keeps the console, and it has a line to type in then.
LEMMA MakeReaderGood ==
  ASSUME NEW c, Good(c)
  PROVE  LET d == MakeReader(c)
         IN  /\ Good(d) /\ Prompts(d) /\ d.posts = c.posts
             /\ Len(d.line) = Len(c.line) + 1 /\ Len(d.reader) = Len(c.reader) + 1
<1> DEFINE e == Unready(c)
           r == Len(c.reader) + 1
<1>1. /\ c \in Term /\ e \in Term /\ e.posts = c.posts /\ e.line = c.line
      /\ e.reader = Append(c.reader, NewReader) /\ NewReader \in ReaderRec
  BY GoodParts, UnreadyIs
<1>2. MakeReader(c) = AddInputLine(e, r)
  BY DEF MakeReader, Unready
<1> HIDE DEF e
<1>3. /\ c.reader \in Seq(ReaderRec) /\ DOMAIN c.reader = 1 .. Len(c.reader)
      /\ Len(c.reader) \in Nat
  BY <1>1, TermParts
<1>4. /\ DOMAIN e.reader = 1 .. r /\ Len(e.reader) = r /\ e.reader[r] = NewReader
      /\ \A q \in 1 .. Len(c.reader) : e.reader[q] = c.reader[q]
      /\ r \in DOMAIN e.reader /\ DOMAIN c.reader \subseteq DOMAIN e.reader
      /\ DOMAIN e.reader \ {r} \subseteq DOMAIN c.reader
  BY <1>1, <1>3
<1> HIDE DEF r
<1>5. \A i \in DOMAIN e.line : LineOK(e, i)
  BY <1>1, <1>4, GoodParts DEF LineOK
<1>6. \A q \in DOMAIN e.reader \ {r} : ReaderOK(e, q)
  <2> TAKE q \in DOMAIN e.reader \ {r}
  <2>1. q \in DOMAIN c.reader /\ e.reader[q] = c.reader[q]
    BY <1>3, <1>4
  <2>2. ReaderOK(c, q)
    BY <2>1, GoodParts
  <2> QED
    BY <1>1, <2>1, <2>2 DEF ReaderOK
<1>7. e.reader[r].ptr <= Len(e.reader[r].history)
  <2>1. NewReader.ptr = 0 /\ Len(NewReader.history) = 0
    BY DEF NewReader
  <2> QED
    BY <1>4, <2>1
<1>8. \A p \in e.posts : PostOK(e, p)
  BY <1>1, <1>4, GoodParts DEF PostOK
<1>9. /\ Good(AddInputLine(e, r)) /\ Prompts(AddInputLine(e, r))
      /\ AddInputLine(e, r).posts = e.posts
      /\ Len(AddInputLine(e, r).line) = Len(e.line) + 1
      /\ Len(AddInputLine(e, r).reader) = Len(e.reader)
  BY <1>1, <1>4, <1>5, <1>6, <1>7, <1>8, AddedGood
<1> QED
  BY <1>1, <1>2, <1>4, <1>9 DEF r

-----------------------------------------------------------------------------
\* A line whose text has been posted once more.
Asked(l) == [l EXCEPT !.asked = @ + 1]

LEMMA AskedLine ==
  ASSUME NEW l \in LineRec
  PROVE  /\ Asked(l) \in LineRec /\ Asked(l).active = l.active
         /\ Asked(l).bound = l.bound /\ Asked(l).asked = l.asked + 1
         /\ Asked(l).failed = l.failed /\ Asked(l).got = l.got
<1> DEFINE n == l.asked + 1
<1>1. n \in Nat
  BY DEF LineRec
<1>2. Asked(l) = [l EXCEPT !.asked = n]
  BY DEF Asked
<1> HIDE DEF n
<1>3. [l EXCEPT !.asked = n] \in LineRec
  BY <1>1 DEF LineRec
<1> QED
  BY <1>2, <1>3 DEF LineRec, n

\* The call that posts the text of the line i for the graph g.
Entered(c, r, i, g) ==
  [reader |-> r, line |-> i, text |-> c.line[i].text, graph |-> g,
   nth |-> c.line[i].asked + 1]

LEMMA EnteredIs ==
  ASSUME NEW c \in Term, NEW r \in DOMAIN c.reader, NEW i \in DOMAIN c.line,
         NEW g \in Anything, c.line[i].text # Blank
  PROVE  LET d == ProcessInput(c, r, i, g)
         IN  /\ d \in Term /\ d.posts = c.posts \cup {Entered(c, r, i, g)}
             /\ d.reader = c.reader /\ Len(d.line) = Len(c.line)
             /\ d.line[i] = Asked(c.line[i])
             /\ \A j \in DOMAIN c.line : j # i => d.line[j] = c.line[j]
<1> DEFINE p == Entered(c, r, i, g)
           ls == [c.line EXCEPT ![i] = Asked(c.line[i])]
           ps == c.posts \cup {p}
           l == c.line[i]
<1>1. /\ c.line \in Seq(LineRec) /\ c.posts \subseteq Post /\ c.line[i] \in LineRec
      /\ i \in Nat /\ r \in Nat
  BY TermParts
<1>2. p \in Post
  <2>1. l.text \in Text /\ l.asked + 1 \in Nat
    <3>1. l \in LineRec
      BY <1>1
    <3> HIDE DEF l
    <3> QED
      BY <3>1 DEF LineRec
  <2> QED
    BY <1>1, <2>1 DEF Entered, Post
<1>3. Asked(c.line[i]) \in LineRec
  BY <1>1, AskedLine
<1>4. /\ ls \in Seq(LineRec) /\ Len(ls) = Len(c.line) /\ ls[i] = Asked(c.line[i])
      /\ \A j \in DOMAIN c.line : j # i => ls[j] = c.line[j]
  BY <1>1, <1>3
<1>5. ProcessInput(c, r, i, g) = [[c EXCEPT !.posts = ps] EXCEPT !.line = ls]
  BY DEF ProcessInput, Entered, Asked, Term
<1> HIDE DEF ls, p
<1>6. ps \subseteq Post
  BY <1>1, <1>2
<1> HIDE DEF ps
<1>7. LET d == [[c EXCEPT !.posts = ps] EXCEPT !.line = ls]
      IN  d \in Term /\ d.posts = ps /\ d.line = ls /\ d.reader = c.reader
  BY <1>4, <1>6 DEF Term
<1> QED
  BY <1>4, <1>5, <1>7 DEF ps, p

\* Posting what was entered keeps the console.
LEMMA EnteredGood ==
  ASSUME NEW c, Good(c), NEW r \in DOMAIN c.reader, NEW i \in DOMAIN c.line,
         NEW g \in Anything, c.line[i].text # Blank
  PROVE  Good(ProcessInput(c, r, i, g))
<1> DEFINE d == ProcessInput(c, r, i, g)
<1>1. c \in Term /\ \A q \in DOMAIN c.reader : ReaderOK(c, q)
  BY GoodParts
<1>2. /\ d \in Term /\ d.posts = c.posts \cup {Entered(c, r, i, g)}
      /\ d.reader = c.reader /\ Len(d.line) = Len(c.line)
      /\ d.line[i] = Asked(c.line[i])
      /\ \A j \in DOMAIN c.line : j # i => d.line[j] = c.line[j]
  BY <1>1, EnteredIs
<1> HIDE DEF d
<1>3. \A j \in DOMAIN c.line : /\ d.line[j].bound = c.line[j].bound
                               /\ d.line[j].active => c.line[j].active
  <2> TAKE j \in DOMAIN c.line
  <2>1. c.line[j] \in LineRec
    BY <1>1, TermParts
  <2> QED
    BY <1>2, <2>1, AskedLine
<1>4. \A q \in DOMAIN c.reader : d.reader[q].ptr <= Len(d.reader[q].history)
  BY <1>1, <1>2 DEF ReaderOK
<1>5. \A p \in d.posts : PostOK(c, p)
  <2>1. PostOK(c, Entered(c, r, i, g))
    BY DEF PostOK, Entered
  <2> QED
    BY <1>2, <2>1, GoodParts
<1>6. Good(d)
  BY <1>1, <1>2, <1>3, <1>4, <1>5, GoodKept
<1> QED
  BY <1>6 DEF d

-----------------------------------------------------------------------------
\* The line that an arrow key writes into is one of the ReadLine.
LEMMA FirstIs ==
  ASSUME NEW S \in SUBSET Nat, S # {}
  PROVE  FirstOf(S) \in S
<1>1. \E i \in S : \A j \in S : i <= j
  BY Least
<1> QED
  BY <1>1 DEF FirstOf

\* The arrow keys keep the pointer in the history.
LEMMA PointerIs ==
  ASSUME NEW rd \in ReaderRec, NEW way, rd.ptr <= Len(rd.history)
  PROVE  LET e == AdjustHistoryPointer(rd, way)
         IN  /\ e \in ReaderRec /\ e.active = rd.active /\ e.history = rd.history
             /\ e.ptr <= Len(e.history) /\ CommandAt(e) \in Text
<1> DEFINE e == AdjustHistoryPointer(rd, way)
<1>1. rd.ptr \in Nat /\ rd.history \in Seq(Text) /\ Len(rd.history) \in Nat
  BY DEF ReaderRec
<1>2. PICK n \in Nat : e = [rd EXCEPT !.ptr = n] /\ n <= Len(rd.history)
  <2>1. CASE way = "previous"
    <3> DEFINE n == IF rd.ptr >= 1 THEN rd.ptr - 1 ELSE rd.ptr
    <3>1. n \in Nat /\ n <= Len(rd.history)
      BY <1>1
    <3>2. e = [rd EXCEPT !.ptr = n]
      BY <2>1 DEF AdjustHistoryPointer
    <3> QED
      BY <3>1, <3>2
  <2>2. CASE way # "previous"
    <3> DEFINE n == IF rd.ptr + 1 < Len(rd.history) THEN rd.ptr + 1 ELSE rd.ptr
    <3>1. n \in Nat /\ n <= Len(rd.history)
      BY <1>1
    <3>2. e = [rd EXCEPT !.ptr = n]
      BY <2>2 DEF AdjustHistoryPointer
    <3> QED
      BY <3>1, <3>2
  <2> QED
    BY <2>1, <2>2
<1> HIDE DEF e
<1>3. e \in ReaderRec /\ e.active = rd.active /\ e.history = rd.history /\ e.ptr = n
  BY <1>2 DEF ReaderRec
<1>4. CommandAt(e) \in Text
  BY <1>1, <1>2, <1>3 DEF CommandAt, Text
<1> QED
  BY <1>2, <1>3, <1>4 DEF e

\* A line that an arrow key or the user has written into.
Written(l, t) == [l EXCEPT !.text = t]

LEMMA WrittenLine ==
  ASSUME NEW l \in LineRec, NEW t \in Text
  PROVE  /\ Written(l, t) \in LineRec /\ Written(l, t).active = l.active
         /\ Written(l, t).bound = l.bound /\ Written(l, t).asked = l.asked
         /\ Written(l, t).failed = l.failed /\ Written(l, t).got = l.got
         /\ Written(l, t).text = t
BY DEF Written, LineRec

\* Of a line, all but its text.
SameLine(l, m) ==
  /\ l.active = m.active /\ l.bound = m.bound /\ l.asked = m.asked
  /\ l.failed = m.failed /\ l.got = m.got

\* The arrow keys write into one line and change nothing else of the lines.
LEMMA CommandIs ==
  ASSUME NEW c, Good(c), NEW r \in DOMAIN c.reader, NEW way
  PROVE  LET d == GetCommand(c, r, way)
         IN  /\ Good(d) /\ d.posts = c.posts
             /\ Len(d.line) = Len(c.line) /\ Len(d.reader) = Len(c.reader)
             /\ \A i \in DOMAIN c.line : SameLine(d.line[i], c.line[i])
             /\ \A q \in DOMAIN c.reader : d.reader[q].active = c.reader[q].active
<1>1. c \in Term /\ \A q \in DOMAIN c.reader : ReaderOK(c, q)
  BY GoodParts
<1>2. CASE c.reader[r].history = <<>>
  BY <1>2 DEF GetCommand, SameLine
<1>3. CASE c.reader[r].history # <<>>
  <2> DEFINE rd == AdjustHistoryPointer(c.reader[r], way)
             k == FirstOf(rd.active)
             t == CommandAt(rd)
             rs == [c.reader EXCEPT ![r] = rd]
             ls == [c.line EXCEPT ![k] = Written(c.line[k], t)]
             d == GetCommand(c, r, way)
  <2>1. /\ c.line \in Seq(LineRec) /\ c.reader \in Seq(ReaderRec)
        /\ c.reader[r] \in ReaderRec
        /\ c.reader[r].active # {} /\ c.reader[r].active \subseteq DOMAIN c.line
        /\ c.reader[r].ptr <= Len(c.reader[r].history)
    BY <1>1, TermParts DEF ReaderOK
  <2>2. /\ rd \in ReaderRec /\ rd.active = c.reader[r].active
        /\ rd.history = c.reader[r].history
        /\ rd.ptr <= Len(rd.history) /\ t \in Text
    BY <2>1, PointerIs
  <2>3. d = [[c EXCEPT !.reader = rs] EXCEPT !.line = ls]
    BY <1>1, <1>3 DEF GetCommand, Written, Term
  <2> HIDE DEF rd, t, d
  <2>4. k \in DOMAIN c.line
    <3>1. rd.active \in SUBSET Nat /\ rd.active # {} /\ rd.active \subseteq DOMAIN c.line
      BY <2>1, <2>2 DEF ReaderRec
    <3> QED
      BY <3>1, FirstIs
  <2> HIDE DEF k
  <2>5. /\ ls \in Seq(LineRec) /\ Len(ls) = Len(c.line)
        /\ ls[k] = Written(c.line[k], t)
        /\ \A i \in DOMAIN c.line : i # k => ls[i] = c.line[i]
    <3>1. Written(c.line[k], t) \in LineRec
      BY <2>1, <2>2, <2>4, WrittenLine
    <3> QED
      BY <2>1, <2>4, <3>1
  <2>6. /\ rs \in Seq(ReaderRec) /\ Len(rs) = Len(c.reader)
        /\ rs[r] = rd /\ \A q \in DOMAIN c.reader : q # r => rs[q] = c.reader[q]
    BY <2>1, <2>2
  <2> HIDE DEF ls, rs
  <2>7. d \in Term /\ d.posts = c.posts /\ d.line = ls /\ d.reader = rs
    BY <1>1, <2>3, <2>5, <2>6 DEF Term
  <2>8. \A i \in DOMAIN c.line : SameLine(d.line[i], c.line[i])
    <3> TAKE i \in DOMAIN c.line
    <3>1. c.line[i] \in LineRec
      BY <2>1
    <3> QED
      BY <2>2, <2>5, <2>7, <3>1, WrittenLine DEF SameLine
  <2>9. \A q \in DOMAIN c.reader : /\ d.reader[q].active = c.reader[q].active
                                   /\ d.reader[q].ptr <= Len(d.reader[q].history)
    <3> TAKE q \in DOMAIN c.reader
    <3>1. ReaderOK(c, q)
      BY <1>1
    <3> QED
      BY <2>2, <2>6, <2>7, <3>1 DEF ReaderOK
  <2>10. Good(d)
    BY <1>1, <2>5, <2>6, <2>7, <2>8, <2>9, GoodKept, GoodParts DEF SameLine
  <2> QED
    BY <2>5, <2>6, <2>7, <2>8, <2>9, <2>10 DEF d
<1> QED
  BY <1>2, <1>3

-----------------------------------------------------------------------------
(***************************************************************************)
(* A key: the handlers of its line, one after the other.                   *)
(***************************************************************************)

\* What a key handler may do to the console at the graph g.
Goes(c, d, key, g) ==
  /\ Good(d) /\ Len(c.line) <= Len(d.line) /\ Len(d.reader) = Len(c.reader)
  /\ Prompts(c) => Prompts(d)
  /\ \A p \in d.posts : p \in c.posts \/ (key = "enter" /\ p.graph = g)

\* One handler of a key keeps the console.
LEMMA HandlerGoes ==
  ASSUME NEW c, Good(c), NEW r \in DOMAIN c.reader, NEW i \in DOMAIN c.line,
         NEW key, NEW g \in Anything
  PROVE  Goes(c, KeyHandler(c, r, i, key, g), key, g)
<1>1. Len(c.line) \in Nat /\ c \in Term
  BY GoodParts, TermParts
<1>2. CASE key # "enter"
  <2> DEFINE d == GetCommand(c, r, key)
  <2>1. /\ Good(d) /\ d.posts = c.posts
        /\ Len(d.line) = Len(c.line) /\ Len(d.reader) = Len(c.reader)
        /\ \A j \in DOMAIN c.line : SameLine(d.line[j], c.line[j])
    BY CommandIs
  <2>2. KeyHandler(c, r, i, key, g) = d
    BY <1>2 DEF KeyHandler
  <2> HIDE DEF d
  <2>3. DOMAIN d.line = DOMAIN c.line
    <3>1. DOMAIN d.line = 1 .. Len(d.line) /\ DOMAIN c.line = 1 .. Len(c.line)
      BY <1>1, <2>1, GoodParts, TermParts
    <3> QED
      BY <2>1, <3>1
  <2>4. Prompts(c) => Prompts(d)
    BY <2>1, <2>3 DEF Prompts, SameLine
  <2> QED
    BY <1>1, <2>1, <2>2, <2>4 DEF Goes
<1>3. CASE key = "enter" /\ c.line[i].text = Blank
  <2> DEFINE d == NewPromptLine(c, r)
  <2>1. /\ Good(d) /\ Prompts(d) /\ d.posts = c.posts
        /\ Len(d.line) = Len(c.line) + 1 /\ Len(d.reader) = Len(c.reader)
    BY NewPromptGood
  <2>2. KeyHandler(c, r, i, key, g) = d
    BY <1>3 DEF KeyHandler, ProcessInput
  <2> HIDE DEF d
  <2> QED
    BY <1>1, <2>1, <2>2 DEF Goes
<1>4. CASE key = "enter" /\ c.line[i].text # Blank
  <2> DEFINE d == ProcessInput(c, r, i, g)
  <2>1. /\ d \in Term /\ d.posts = c.posts \cup {Entered(c, r, i, g)}
        /\ d.reader = c.reader /\ Len(d.line) = Len(c.line)
        /\ d.line[i] = Asked(c.line[i])
        /\ \A j \in DOMAIN c.line : j # i => d.line[j] = c.line[j]
    BY <1>1, <1>4, EnteredIs
  <2>2. KeyHandler(c, r, i, key, g) = d
    BY <1>4 DEF KeyHandler
  <2>3. Good(d)
    BY <1>4, EnteredGood
  <2> HIDE DEF d
  <2>4. DOMAIN d.line = DOMAIN c.line
    <3>1. DOMAIN d.line = 1 .. Len(d.line) /\ DOMAIN c.line = 1 .. Len(c.line)
      BY <1>1, <2>1, TermParts
    <3> QED
      BY <2>1, <3>1
  <2>5. Asked(c.line[i]).active = c.line[i].active
    BY <1>1, TermParts, AskedLine
  <2>6. Prompts(c) => Prompts(d)
    BY <2>1, <2>4, <2>5 DEF Prompts
  <2>7. Entered(c, r, i, g).graph = g
    BY DEF Entered
  <2> QED
    BY <1>1, <1>4, <2>1, <2>2, <2>3, <2>6, <2>7 DEF Goes
<1> QED
  BY <1>2, <1>3, <1>4

-----------------------------------------------------------------------------
(***************************************************************************)
(* A keydown is the run of the handlers that are bound to the line, the    *)
(* first in the state of the page, each in that of the one before it.      *)
(***************************************************************************)
IsRun(f, n, c, i, key, g) ==
  f = [k \in 0 .. n |->
         IF k = 0 THEN c
         ELSE KeyHandler(f[k - 1], c.line[i].bound[k], i, key, g)]

\* A run of handlers goes on by the next one.
LEMMA RunExtends ==
  ASSUME NEW c, NEW i, NEW key, NEW g, NEW n \in Nat, NEW f, IsRun(f, n, c, i, key, g)
  PROVE  \E h : IsRun(h, n + 1, c, i, key, g)
<1> DEFINE H(d, k) == KeyHandler(d, c.line[i].bound[k], i, key, g)
           h == [k \in 0 .. n + 1 |-> IF k = n + 1 THEN H(f[n], n + 1) ELSE f[k]]
<1>1. f = [k \in 0 .. n |-> IF k = 0 THEN c ELSE H(f[k - 1], k)]
  BY DEF IsRun
<1>a. IsRun(h, n + 1, c, i, key, g) <=>
        h = [k \in 0 .. n + 1 |-> IF k = 0 THEN c ELSE H(h[k - 1], k)]
  BY DEF IsRun
<1> HIDE DEF H
<1>2. \A k \in 0 .. n + 1 : h[k] = IF k = 0 THEN c ELSE H(h[k - 1], k)
  <2> TAKE k \in 0 .. n + 1
  <2>1. CASE k = 0
    BY <1>1, <2>1
  <2>2. CASE k = n + 1
    <3>1. n \in 0 .. n + 1 /\ n # n + 1 /\ k - 1 = n /\ k # 0
      BY <2>2
    <3>2. h[n] = f[n] /\ h[k] = H(f[n], n + 1)
      BY <2>2, <3>1
    <3> HIDE DEF h
    <3> QED
      BY <2>2, <3>1, <3>2
  <2>3. CASE k # 0 /\ k # n + 1
    <3>1. k \in 0 .. n /\ k - 1 \in 0 .. n + 1 /\ k - 1 # n + 1
      BY <2>3
    <3>2. h[k] = f[k] /\ h[k - 1] = f[k - 1] /\ f[k] = H(f[k - 1], k)
      BY <1>1, <2>3, <3>1
    <3> HIDE DEF h
    <3> QED
      BY <2>3, <3>2
  <2> QED
    BY <2>1, <2>2, <2>3
<1>3. h = [k \in 0 .. n + 1 |-> h[k]]
  OBVIOUS
<1> HIDE DEF h
<1>4. h = [k \in 0 .. n + 1 |-> IF k = 0 THEN c ELSE H(h[k - 1], k)]
  BY <1>2, <1>3
<1> QED
  BY <1>4, <1>a

\* There is a run over all the handlers of a line.
LEMMA RunExists ==
  ASSUME NEW c, NEW i, NEW key, NEW g, NEW n \in Nat
  PROVE  \E f : IsRun(f, n, c, i, key, g)
<1> DEFINE T == {m \in Nat : ~ \E f : IsRun(f, m, c, i, key, g)}
<1> SUFFICES ASSUME T # {} PROVE FALSE
  OBVIOUS
<1>1. PICK m \in T : \A k \in T : m <= k
  BY Least
<1>2. m \in Nat /\ ~ \E f : IsRun(f, m, c, i, key, g)
  OBVIOUS
<1>3. CASE m = 0
  <2> DEFINE f == [k \in 0 .. 0 |-> c]
  <2>1. f = [k \in 0 .. 0 |-> IF k = 0 THEN c
                              ELSE KeyHandler(f[k - 1], c.line[i].bound[k], i, key, g)]
    OBVIOUS
  <2> QED
    BY <1>2, <1>3, <2>1 DEF IsRun
<1>4. CASE m # 0
  <2>1. m - 1 \in Nat /\ (m - 1) + 1 = m /\ ~(m <= m - 1)
    BY <1>2, <1>4
  <2>2. m - 1 \notin T
    BY <1>1, <2>1
  <2>3. PICK f : IsRun(f, m - 1, c, i, key, g)
    BY <2>1, <2>2
  <2> QED
    BY <1>2, <2>1, <2>3, RunExtends
<1> QED
  BY <1>3, <1>4

\* What Keydown computes is the end of such a run.
LEMMA KeydownRuns ==
  ASSUME NEW c, NEW i, NEW key, NEW g, NEW n \in Nat, n = Len(c.line[i].bound)
  PROVE  \E f : IsRun(f, n, c, i, key, g) /\ Keydown(c, i, key, g) = f[n]
<1> DEFINE m == Len(c.line[i].bound)
           after == CHOOSE f : IsRun(f, m, c, i, key, g)
<1>1. Keydown(c, i, key, g) = after[m]
  BY DEF Keydown, IsRun
<1> HIDE DEF after
<1>2. IsRun(after, n, c, i, key, g)
  <2>1. \E f : IsRun(f, n, c, i, key, g)
    BY RunExists
  <2>2. n = m
    OBVIOUS
  <2> HIDE DEF m
  <2> QED
    BY <2>1, <2>2 DEF after
<1> HIDE DEF m
<1>3. n = m
  BY DEF m
<1> QED
  BY <1>1, <1>2, <1>3

\* A line with the handlers of one ReadLine calls that one.
LEMMA KeydownOnce ==
  ASSUME NEW c, NEW i, NEW key, NEW g, 1 = Len(c.line[i].bound)
  PROVE  Keydown(c, i, key, g) = KeyHandler(c, c.line[i].bound[1], i, key, g)
<1>1. ASSUME NEW n \in Nat, n = Len(c.line[i].bound)
      PROVE  \E f : IsRun(f, n, c, i, key, g) /\ Keydown(c, i, key, g) = f[n]
  BY <1>1, KeydownRuns
<1>2. PICK f : IsRun(f, 1, c, i, key, g) /\ Keydown(c, i, key, g) = f[1]
  BY <1>1
<1>3. f[0] = c /\ f[1] = KeyHandler(f[0], c.line[i].bound[1], i, key, g)
  <2> DEFINE H(d, k) == KeyHandler(d, c.line[i].bound[k], i, key, g)
  <2>1. f = [k \in 0 .. 1 |-> IF k = 0 THEN c ELSE H(f[k - 1], k)]
    BY <1>2 DEF IsRun
  <2>2. H(f[0], 1) = KeyHandler(f[0], c.line[i].bound[1], i, key, g)
    OBVIOUS
  <2> HIDE DEF H
  <2>3. f[0] = c /\ f[1] = H(f[1 - 1], 1)
    BY <2>1
  <2>4. 1 - 1 = 0
    OBVIOUS
  <2> QED
    BY <2>2, <2>3, <2>4
<1> QED
  BY <1>2, <1>3

\* A key keeps the console, whatever handlers are bound to its line: the first
\* step of the run that does not is one after a step that does.
LEMMA KeydownGoes ==
  ASSUME NEW c, Good(c), NEW i \in DOMAIN c.line, NEW key, NEW g \in Anything
  PROVE  Goes(c, Keydown(c, i, key, g), key, g)
<1> DEFINE n == Len(c.line[i].bound)
<1>1. /\ c \in Term /\ LineOK(c, i) /\ c.line[i] \in LineRec
      /\ DOMAIN c.line = 1 .. Len(c.line) /\ Len(c.line) \in Nat
      /\ DOMAIN c.reader = 1 .. Len(c.reader)
  BY GoodParts, TermParts
<1>2. c.line[i].bound \in Seq(Nat) /\ n \in Nat /\ DOMAIN c.line[i].bound = 1 .. n
  BY <1>1 DEF LineRec
<1>3. \A k \in 1 .. n : c.line[i].bound[k] \in DOMAIN c.reader
  BY <1>1, <1>2 DEF LineOK
<1>4. PICK f : IsRun(f, n, c, i, key, g) /\ Keydown(c, i, key, g) = f[n]
  BY <1>2, KeydownRuns
<1> DEFINE H(d, k) == KeyHandler(d, c.line[i].bound[k], i, key, g)
<1>5. \A k \in 0 .. n : f[k] = IF k = 0 THEN c ELSE H(f[k - 1], k)
  <2>1. f = [k \in 0 .. n |-> IF k = 0 THEN c ELSE H(f[k - 1], k)]
    BY <1>4 DEF IsRun
  <2> HIDE DEF H
  <2> QED
    BY <2>1
<1>6. ASSUME NEW d, NEW k \in 1 .. n, Goes(c, d, key, g) PROVE Goes(c, H(d, k), key, g)
  <2>1. /\ Good(d) /\ Len(c.line) <= Len(d.line) /\ Len(d.reader) = Len(c.reader)
        /\ Prompts(c) => Prompts(d)
        /\ \A p \in d.posts : p \in c.posts \/ (key = "enter" /\ p.graph = g)
    BY <1>6 DEF Goes
  <2>2. /\ DOMAIN d.line = 1 .. Len(d.line) /\ Len(d.line) \in Nat
        /\ DOMAIN d.reader = 1 .. Len(d.reader)
    BY <2>1, GoodParts, TermParts
  <2>3. i \in DOMAIN d.line /\ c.line[i].bound[k] \in DOMAIN d.reader
    BY <1>1, <1>3, <2>1, <2>2
  <2>4. Goes(d, H(d, k), key, g)
    BY <2>1, <2>3, HandlerGoes
  <2> HIDE DEF H
  <2>5. Len(H(d, k).line) \in Nat
    BY <2>4, GoodParts, TermParts DEF Goes
  <2> QED
    BY <1>1, <2>1, <2>2, <2>4, <2>5 DEF Goes
<1> HIDE DEF H, n
<1> DEFINE T == {k \in Nat : k <= n /\ ~Goes(c, f[k], key, g)}
<1>7. T = {}
  <2> SUFFICES ASSUME T # {} PROVE FALSE
    OBVIOUS
  <2>1. PICK k \in T : \A m \in T : k <= m
    BY Least
  <2>2. k \in Nat /\ k <= n /\ ~Goes(c, f[k], key, g)
    OBVIOUS
  <2>3. CASE k = 0
    <3>1. f[k] = c
      BY <1>2, <1>5, <2>3
    <3>2. Goes(c, c, key, g)
      BY <1>1 DEF Goes
    <3> QED
      BY <2>2, <3>1, <3>2
  <2>4. CASE k # 0
    <3>1. k \in 1 .. n /\ k - 1 \in Nat /\ k - 1 <= n /\ ~(k <= k - 1) /\ k \in 0 .. n
      BY <1>2, <2>2, <2>4
    <3>2. k - 1 \notin T
      BY <2>1, <3>1
    <3>3. Goes(c, f[k - 1], key, g)
      BY <3>1, <3>2
    <3>4. f[k] = H(f[k - 1], k)
      BY <1>5, <2>4, <3>1
    <3> QED
      BY <1>6, <2>2, <3>1, <3>3, <3>4
  <2> QED
    BY <2>3, <2>4
<1>8. Goes(c, f[n], key, g)
  <2>1. n \in Nat /\ n <= n /\ n \notin T
    BY <1>2, <1>7
  <2> QED
    BY <2>1
<1> QED
  BY <1>4, <1>8

-----------------------------------------------------------------------------
(***************************************************************************)
(* A console that is alone on its page.                                    *)
(***************************************************************************)

\* A line that is not waiting: all of its calls but one at most have failed, and what
\* is under it is its own response.
Settled(l, i) == l.asked \in {l.failed, l.failed + 1} /\ l.got \in {<<>>, <<i>>}

\* The line i of the console c, when it can be typed in.
Sole(c, i) ==
  /\ \A j \in DOMAIN c.line : c.line[j].active => j = i
  /\ \E r \in DOMAIN c.reader : c.line[i].bound = <<r>> /\ c.reader[r].active = {i}
  /\ c.line[i].got = <<>>
  /\ c.line[i].asked = c.line[i].failed + (IF c.posts = {} THEN 0 ELSE 1)

\* At most one line can be typed in, by one ReadLine; a call under way is its.
Single(c) ==
  /\ \A i \in DOMAIN c.line :
       IF c.line[i].active THEN Sole(c, i) ELSE Settled(c.line[i], i)
  /\ \A p \in c.posts : /\ c.posts = {p} /\ c.line[p.line].active
                        /\ c.line[p.line].bound = <<p.reader>>

\* A line that can be typed in is settled when no call is under way.
LEMMA SoleSettled ==
  ASSUME NEW c \in Term, NEW i \in DOMAIN c.line, Single(c), c.posts = {}
  PROVE  Settled(c.line[i], i)
<1>1. c.line[i].failed \in Nat
  <2>1. c.line[i] \in LineRec
    BY TermParts
  <2> QED
    BY <2>1 DEF LineRec
<1> QED
  BY <1>1 DEF Single, Sole, Settled

\* A ReadLine that adds its line to a page without one is alone.
LEMMA SingleAdded ==
  ASSUME NEW c \in Term, NEW r \in DOMAIN c.reader, ~Prompts(c), c.posts = {},
         \A i \in DOMAIN c.line : Settled(c.line[i], i)
  PROVE  Single(AddInputLine(c, r))
<1> DEFINE d == AddInputLine(c, r)
           n == Len(c.line)
           on == ActiveLines(c.line) \cup {n + 1}
<1>1. /\ d \in Term /\ d.posts = c.posts /\ Len(d.line) = n + 1
      /\ d.reader = [c.reader EXCEPT ![r].active = on]
      /\ \A i \in 1 .. n :
           d.line[i] = IF c.line[i].active THEN Bound(c.line[i], r) ELSE c.line[i]
      /\ d.line[n + 1] = Bound(NewLine, r)
  BY Added
<1>2. /\ c.reader \in Seq(ReaderRec) /\ c.reader[r] \in ReaderRec /\ r \in Nat
      /\ DOMAIN c.line = 1 .. n /\ n \in Nat /\ DOMAIN d.line = 1 .. n + 1
  <2>1. DOMAIN d.line = 1 .. Len(d.line)
    BY <1>1, TermParts
  <2> QED
    BY <1>1, <2>1, TermParts
<1>3. on = {n + 1}
  BY DEF ActiveLines, Prompts
<1> HIDE DEF d, on
<1>4. \A i \in 1 .. n : d.line[i] = c.line[i] /\ ~c.line[i].active
  BY <1>1, <1>2 DEF Prompts
<1>5. /\ d.line[n + 1].active /\ d.line[n + 1].got = <<>>
      /\ d.line[n + 1].asked = 0 /\ d.line[n + 1].failed = 0
      /\ d.line[n + 1].bound = <<r>>
  <2>1. Append(<<>>, r) = <<r>>
    OBVIOUS
  <2> QED
    BY <1>1, <1>2, <2>1, NewLineIs, BoundLine
<1>6. r \in DOMAIN d.reader /\ d.reader[r].active = {n + 1}
  <2>1. d.reader[r] = [c.reader[r] EXCEPT !.active = on] /\ DOMAIN d.reader = DOMAIN c.reader
    BY <1>1, <1>2
  <2> QED
    BY <1>2, <1>3, <2>1 DEF ReaderRec
<1>7. \A i \in 1 .. n + 1 : i \in 1 .. n \/ i = n + 1
  BY <1>2
<1>8. Sole(d, n + 1)
  <2>1. \A j \in DOMAIN d.line : d.line[j].active => j = n + 1
    BY <1>2, <1>4, <1>7
  <2>2. d.posts = {}
    BY <1>1
  <2> QED
    BY <1>5, <1>6, <2>1, <2>2 DEF Sole
<1>9. Single(d)
  <2>1. d.posts = {}
    BY <1>1
  <2> QED
    BY <1>2, <1>4, <1>5, <1>7, <1>8, <2>1 DEF Single
<1> QED
  BY <1>9 DEF d

\* The answer to the one call, or an empty line, ends the line that is active.
LEMMA SingleNext ==
  ASSUME NEW c \in Term, NEW r \in DOMAIN c.reader, c.posts = {},
         \A i \in DOMAIN c.line : Settled(c.line[i], i),
         \A i \in DOMAIN c.line : c.line[i].active => i \in c.reader[r].active
  PROVE  Single(NewPromptLine(c, r))
<1> DEFINE e == Disabled(c, r)
<1>1. /\ e \in Term /\ e.posts = c.posts /\ e.reader = c.reader
      /\ Len(e.line) = Len(c.line)
      /\ \A i \in DOMAIN c.line :
           e.line[i] = IF i \in c.reader[r].active THEN Off(c.line[i]) ELSE c.line[i]
  BY DisabledIs
<1>2. NewPromptLine(c, r) = AddInputLine(e, r)
  BY DEF NewPromptLine
<1> HIDE DEF e
<1>3. DOMAIN e.line = DOMAIN c.line
  <2>1. DOMAIN e.line = 1 .. Len(e.line) /\ DOMAIN c.line = 1 .. Len(c.line)
    BY <1>1, TermParts
  <2> QED
    BY <1>1, <2>1
<1>4. ASSUME NEW i \in DOMAIN c.line PROVE ~e.line[i].active /\ Settled(e.line[i], i)
  <2>1. c.line[i] \in LineRec
    BY TermParts
  <2> QED
    BY <1>1, <2>1, OffLine DEF Settled
<1> QED
  BY <1>1, <1>2, <1>3, <1>4, SingleAdded DEF Prompts

\* A new ReadLine on a page without a line is alone.
LEMMA SingleMade ==
  ASSUME NEW c, Good(c), Single(c), ~Prompts(c), c.posts = {}
  PROVE  Single(MakeReader(c))
<1> DEFINE e == Unready(c)
           r == Len(c.reader) + 1
<1>1. /\ c \in Term /\ e \in Term /\ e.posts = c.posts /\ e.line = c.line
      /\ e.reader = Append(c.reader, NewReader)
  BY GoodParts, UnreadyIs
<1>2. MakeReader(c) = AddInputLine(e, r)
  BY DEF MakeReader, Unready
<1> HIDE DEF e
<1>3. r \in DOMAIN e.reader
  <2>1. c.reader \in Seq(ReaderRec)
    BY <1>1, TermParts
  <2> QED
    BY <1>1, <2>1
<1>4. \A i \in DOMAIN e.line : Settled(e.line[i], i)
  BY <1>1, SoleSettled
<1>5. ~Prompts(e)
  BY <1>1 DEF Prompts
<1> QED
  BY <1>1, <1>2, <1>3, <1>4, <1>5, SingleAdded

\* What the arrow keys and the typing change is not what Single is about.
LEMMA SingleSame ==
  ASSUME NEW c \in Term, NEW d \in Term, Single(c), d.posts = c.posts,
         \A p \in c.posts : p.line \in DOMAIN c.line,
         Len(d.line) = Len(c.line), Len(d.reader) = Len(c.reader),
         \A i \in DOMAIN c.line : SameLine(d.line[i], c.line[i]),
         \A r \in DOMAIN c.reader : d.reader[r].active = c.reader[r].active
  PROVE  Single(d)
<1>1. DOMAIN d.line = DOMAIN c.line /\ DOMAIN d.reader = DOMAIN c.reader
  <2>1. /\ DOMAIN d.line = 1 .. Len(d.line) /\ DOMAIN c.line = 1 .. Len(c.line)
        /\ DOMAIN d.reader = 1 .. Len(d.reader) /\ DOMAIN c.reader = 1 .. Len(c.reader)
    BY TermParts
  <2> QED
    BY <2>1
<1>2. ASSUME NEW i \in DOMAIN d.line, d.line[i].active PROVE Sole(d, i)
  <2>1. SameLine(d.line[i], c.line[i]) /\ Sole(c, i)
    BY <1>1, <1>2 DEF Single, SameLine
  <2>2. \A j \in DOMAIN d.line : d.line[j].active => j = i
    BY <1>1, <2>1 DEF Sole, SameLine
  <2> QED
    BY <1>1, <2>1, <2>2 DEF Sole, SameLine
<1>3. ASSUME NEW i \in DOMAIN d.line, ~d.line[i].active PROVE Settled(d.line[i], i)
  BY <1>1, <1>3 DEF Single, SameLine, Settled
<1>4. ASSUME NEW p \in d.posts
      PROVE  /\ d.posts = {p} /\ d.line[p.line].active
             /\ d.line[p.line].bound = <<p.reader>>
  BY <1>1, <1>4 DEF Single, SameLine
<1> QED
  BY <1>2, <1>3, <1>4 DEF Single

\* What is posted is the only call.
LEMMA SingleEntered ==
  ASSUME NEW c, Good(c), Single(c), c.posts = {}, NEW r \in DOMAIN c.reader,
         NEW i \in DOMAIN c.line, c.line[i].active, c.line[i].bound = <<r>>,
         NEW g \in Anything, c.line[i].text # Blank
  PROVE  Single(ProcessInput(c, r, i, g))
<1> DEFINE d == ProcessInput(c, r, i, g)
           p == Entered(c, r, i, g)
<1>1. /\ c \in Term
      /\ d \in Term /\ d.posts = {p} /\ d.reader = c.reader /\ Len(d.line) = Len(c.line)
      /\ d.line[i] = Asked(c.line[i])
      /\ \A j \in DOMAIN c.line : j # i => d.line[j] = c.line[j]
  BY GoodParts, EnteredIs
<1> HIDE DEF d
<1>2. DOMAIN d.line = DOMAIN c.line
  <2>1. DOMAIN d.line = 1 .. Len(d.line) /\ DOMAIN c.line = 1 .. Len(c.line)
    BY <1>1, TermParts
  <2> QED
    BY <1>1, <2>1
<1>3. /\ d.line[i].active = c.line[i].active /\ d.line[i].bound = c.line[i].bound
      /\ d.line[i].asked = c.line[i].asked + 1 /\ d.line[i].failed = c.line[i].failed
      /\ d.line[i].got = c.line[i].got /\ c.line[i].failed \in Nat
  <2>1. c.line[i] \in LineRec
    BY <1>1, TermParts
  <2>2. c.line[i].failed \in Nat
    BY <2>1 DEF LineRec
  <2> QED
    BY <1>1, <2>1, <2>2, AskedLine
<1>4. Sole(c, i)
  BY DEF Single
<1>5. p.line = i /\ p.reader = r
  BY DEF Entered
<1> HIDE DEF p
<1>6. \A j \in DOMAIN d.line : j # i => ~d.line[j].active /\ Settled(d.line[j], j)
  BY <1>1, <1>2, <1>4 DEF Sole, Single
<1>7. Sole(d, i)
  <2>1. \E q \in DOMAIN d.reader : d.line[i].bound = <<q>> /\ d.reader[q].active = {i}
    BY <1>1, <1>3, <1>4 DEF Sole
  <2>2. d.line[i].got = <<>> /\ d.line[i].asked = d.line[i].failed + 1
    BY <1>3, <1>4 DEF Sole
  <2>3. d.posts # {}
    BY <1>1
  <2> QED
    BY <1>6, <2>1, <2>2, <2>3 DEF Sole
<1>8. Single(d)
  BY <1>1, <1>3, <1>5, <1>6, <1>7 DEF Single
<1> QED
  BY <1>8 DEF d

\* A key in the one line that is active, when no call is under way.
LEMMA SingleKey ==
  ASSUME NEW c, Good(c), Single(c), c.posts = {},
         NEW i \in DOMAIN c.line, c.line[i].active, NEW key, NEW g \in Anything
  PROVE  Single(Keydown(c, i, key, g))
<1>1. PICK r \in DOMAIN c.reader : c.line[i].bound = <<r>> /\ c.reader[r].active = {i}
  BY DEF Single, Sole
<1>2. Keydown(c, i, key, g) = KeyHandler(c, r, i, key, g)
  <2>1. 1 = Len(c.line[i].bound) /\ c.line[i].bound[1] = r
    <3>1. Len(<<r>>) = 1 /\ <<r>>[1] = r
      OBVIOUS
    <3> QED
      BY <1>1, <3>1
  <2>2. Keydown(c, i, key, g) = KeyHandler(c, c.line[i].bound[1], i, key, g)
    BY <2>1, KeydownOnce
  <2> QED
    BY <2>1, <2>2
<1>3. c \in Term
  BY GoodParts
<1>4. CASE key # "enter"
  <2> DEFINE d == GetCommand(c, r, key)
  <2>1. /\ Good(d) /\ d.posts = c.posts
        /\ Len(d.line) = Len(c.line) /\ Len(d.reader) = Len(c.reader)
        /\ \A j \in DOMAIN c.line : SameLine(d.line[j], c.line[j])
        /\ \A q \in DOMAIN c.reader : d.reader[q].active = c.reader[q].active
    BY CommandIs
  <2>2. KeyHandler(c, r, i, key, g) = d
    BY <1>4 DEF KeyHandler
  <2> HIDE DEF d
  <2>3. Single(d)
    BY <1>3, <2>1, GoodParts, SingleSame
  <2> QED
    BY <1>2, <2>2, <2>3
<1>5. CASE key = "enter" /\ c.line[i].text = Blank
  <2>1. KeyHandler(c, r, i, key, g) = NewPromptLine(c, r)
    BY <1>5 DEF KeyHandler, ProcessInput
  <2>2. \A j \in DOMAIN c.line : Settled(c.line[j], j)
    BY <1>3, SoleSettled
  <2>3. \A j \in DOMAIN c.line : c.line[j].active => j \in c.reader[r].active
    BY <1>1 DEF Single, Sole
  <2> QED
    BY <1>2, <1>3, <2>1, <2>2, <2>3, SingleNext
<1>6. CASE key = "enter" /\ c.line[i].text # Blank
  <2>1. KeyHandler(c, r, i, key, g) = ProcessInput(c, r, i, g)
    BY <1>6 DEF KeyHandler
  <2> QED
    BY <1>1, <1>2, <1>6, <2>1, SingleEntered
<1> QED
  BY <1>4, <1>5, <1>6

-----------------------------------------------------------------------------
(***************************************************************************)
(* The response, the call that fails, the lines that are taken away.       *)
(***************************************************************************)

\* The call p is over.
Over(c, p) == [c EXCEPT !.posts = @ \ {p}]

LEMMA OverGood ==
  ASSUME NEW c, Good(c), NEW p
  PROVE  LET d == Over(c, p)
         IN  Good(d) /\ d.posts = c.posts \ {p} /\ d.line = c.line /\ d.reader = c.reader
<1> DEFINE ps == c.posts \ {p}
           d == Over(c, p)
<1>1. c \in Term /\ ps \subseteq Post
  BY GoodParts, TermParts
<1>2. d = [c EXCEPT !.posts = ps]
  BY DEF Over
<1> HIDE DEF ps, d
<1>3. d \in Term /\ d.posts = ps /\ d.line = c.line /\ d.reader = c.reader
  BY <1>1, <1>2 DEF Term
<1>4. \A r \in DOMAIN c.reader : d.reader[r].ptr <= Len(d.reader[r].history)
  BY <1>3, GoodParts DEF ReaderOK
<1>5. \A q \in d.posts : PostOK(c, q)
  BY <1>3, GoodParts DEF ps
<1>6. Good(d)
  BY <1>3, <1>4, <1>5, GoodKept
<1> QED
  BY <1>3, <1>6 DEF d, ps

\* The callback of the call p.
Response(c, p) == SaveToHistory(InsertResponse(Over(c, p), p), p)

\* The response under its lines and in the history keeps the console.
LEMMA ResponseGood ==
  ASSUME NEW c, Good(c), NEW p \in c.posts
  PROVE  LET d == Response(c, p)
         IN  /\ Good(d) /\ d.posts = c.posts \ {p}
             /\ Len(d.line) = Len(c.line) /\ Len(d.reader) = Len(c.reader)
             /\ \A i \in DOMAIN c.line :
                  d.line[i] = IF i \in c.reader[p.reader].active
                              THEN Answer(c.line[i], p.line) ELSE c.line[i]
             /\ \A r \in DOMAIN c.reader : d.reader[r].active = c.reader[r].active
<1> DEFINE a == Over(c, p)
           b == InsertResponse(a, p)
           d == SaveToHistory(b, p)
<1>1. /\ c \in Term /\ p \in Post /\ p.reader \in DOMAIN c.reader
      /\ p.line \in DOMAIN c.line
      /\ \A r \in DOMAIN c.reader : ReaderOK(c, r)
  BY GoodParts, TermParts DEF PostOK
<1>2. Good(a) /\ a.posts = c.posts \ {p} /\ a.line = c.line /\ a.reader = c.reader
  BY OverGood
<1> HIDE DEF a
<1>3. /\ b \in Term /\ b.posts = a.posts /\ b.reader = a.reader
      /\ Len(b.line) = Len(a.line)
      /\ \A i \in DOMAIN a.line :
           b.line[i] = IF i \in a.reader[p.reader].active
                       THEN Answer(a.line[i], p.line) ELSE a.line[i]
  BY <1>1, <1>2, GoodParts, ResponseIs
<1> HIDE DEF b
<1>4. /\ d \in Term /\ d.posts = b.posts /\ d.line = b.line
      /\ Len(d.reader) = Len(b.reader)
      /\ \A r \in DOMAIN b.reader : d.reader[r].active = b.reader[r].active
      /\ \A r \in DOMAIN b.reader : r # p.reader => d.reader[r] = b.reader[r]
      /\ d.reader[p.reader].ptr <= Len(d.reader[p.reader].history)
  BY <1>1, <1>2, <1>3, SavedIs
<1> HIDE DEF d
<1>5. \A i \in DOMAIN c.line : /\ d.line[i].bound = c.line[i].bound
                               /\ d.line[i].active => c.line[i].active
  <2> TAKE i \in DOMAIN c.line
  <2>1. c.line[i] \in LineRec /\ p.line \in Nat
    BY <1>1, TermParts
  <2>2. d.line[i] = IF i \in c.reader[p.reader].active
                    THEN Answer(c.line[i], p.line) ELSE c.line[i]
    BY <1>2, <1>3, <1>4
  <2>3. /\ Answer(c.line[i], p.line).bound = c.line[i].bound
        /\ Answer(c.line[i], p.line).active = c.line[i].active
    BY <2>1, AnswerLine
  <2> QED
    BY <2>2, <2>3
<1>6. \A r \in DOMAIN c.reader : /\ d.reader[r].active = c.reader[r].active
                                 /\ d.reader[r].ptr <= Len(d.reader[r].history)
  <2> TAKE r \in DOMAIN c.reader
  <2>1. ReaderOK(c, r)
    BY <1>1
  <2> QED
    BY <1>2, <1>3, <1>4, <2>1 DEF ReaderOK
<1>7. Good(d)
  BY <1>2, <1>3, <1>4, <1>5, <1>6, GoodKept, GoodParts
<1> QED
  BY <1>2, <1>3, <1>4, <1>6, <1>7 DEF Response, a, b, d

\* The one call that is under way is answered under its own line.
LEMMA SingleAnswered ==
  ASSUME NEW c, Good(c), Single(c), NEW p \in c.posts
  PROVE  Single(NewPromptLine(Response(c, p), p.reader))
<1> DEFINE d == Response(c, p)
<1>1. /\ c \in Term /\ p.reader \in DOMAIN c.reader /\ p.line \in DOMAIN c.line
  BY GoodParts DEF PostOK
<1>2. /\ Good(d) /\ d.posts = c.posts \ {p}
      /\ Len(d.line) = Len(c.line) /\ Len(d.reader) = Len(c.reader)
      /\ \A i \in DOMAIN c.line :
           d.line[i] = IF i \in c.reader[p.reader].active
                       THEN Answer(c.line[i], p.line) ELSE c.line[i]
      /\ \A r \in DOMAIN c.reader : d.reader[r].active = c.reader[r].active
  BY ResponseGood
<1> HIDE DEF d
<1>3. /\ c.posts = {p} /\ c.line[p.line].active /\ c.line[p.line].bound = <<p.reader>>
  BY DEF Single
<1>4. Sole(c, p.line)
  BY <1>1, <1>3 DEF Single
<1>5. c.reader[p.reader].active = {p.line}
  <2>1. PICK r \in DOMAIN c.reader :
          c.line[p.line].bound = <<r>> /\ c.reader[r].active = {p.line}
    BY <1>4 DEF Sole
  <2>2. <<r>>[1] = r /\ <<p.reader>>[1] = p.reader
    OBVIOUS
  <2>3. r = p.reader
    BY <1>3, <2>1, <2>2
  <2> QED
    BY <2>1, <2>3
<1>6. DOMAIN d.line = DOMAIN c.line /\ DOMAIN d.reader = DOMAIN c.reader /\ d \in Term
  <2>1. /\ DOMAIN d.line = 1 .. Len(d.line) /\ DOMAIN c.line = 1 .. Len(c.line)
        /\ DOMAIN d.reader = 1 .. Len(d.reader) /\ DOMAIN c.reader = 1 .. Len(c.reader)
    BY <1>1, <1>2, GoodParts, TermParts
  <2> QED
    BY <1>2, <2>1, GoodParts
<1>7. ASSUME NEW i \in DOMAIN d.line PROVE Settled(d.line[i], i)
  <2>1. c.line[i] \in LineRec /\ c.line[i].failed \in Nat /\ i \in Nat
    <3>1. c.line[i] \in LineRec /\ i \in Nat
      BY <1>1, <1>6, TermParts
    <3> QED
      BY <3>1 DEF LineRec
  <2>2. CASE i = p.line
    <3>1. d.line[i] = Answer(c.line[i], i)
      BY <1>2, <1>5, <1>6, <2>2
    <3>2. c.line[i].got = <<>> /\ c.line[i].asked = c.line[i].failed + 1
      BY <1>3, <1>4, <2>2 DEF Sole
    <3>3. Append(<<>>, i) = <<i>>
      OBVIOUS
    <3>5. /\ Answer(c.line[i], i).got = Append(c.line[i].got, i)
          /\ Answer(c.line[i], i).asked = c.line[i].asked
          /\ Answer(c.line[i], i).failed = c.line[i].failed
      BY <2>1, AnswerLine
    <3>4. /\ d.line[i].got = <<i>> /\ d.line[i].asked = c.line[i].asked
          /\ d.line[i].failed = c.line[i].failed
      BY <3>1, <3>2, <3>3, <3>5
    <3> QED
      BY <3>2, <3>4 DEF Settled
  <2>3. CASE i # p.line
    <3>1. d.line[i] = c.line[i] /\ ~c.line[i].active
      BY <1>2, <1>4, <1>5, <1>6, <2>3 DEF Sole
    <3> QED
      BY <1>6, <3>1 DEF Single
  <2> QED
    BY <2>2, <2>3
<1>8. \A i \in DOMAIN d.line : d.line[i].active => i \in d.reader[p.reader].active
  <2> TAKE i \in DOMAIN d.line
  <2>1. CASE i = p.line
    BY <1>1, <1>2, <1>5, <2>1
  <2>2. CASE i # p.line
    BY <1>2, <1>4, <1>5, <1>6, <2>2 DEF Sole
  <2> QED
    BY <2>1, <2>2
<1>9. d.posts = {}
  BY <1>2, <1>3
<1>10. Single(NewPromptLine(d, p.reader))
  BY <1>1, <1>6, <1>7, <1>8, <1>9, SingleNext
<1> QED
  BY <1>10 DEF d

-----------------------------------------------------------------------------
\* A line of which one more call has failed.
Failed(l) == [l EXCEPT !.failed = @ + 1]

LEMMA FailedLine ==
  ASSUME NEW l \in LineRec
  PROVE  /\ Failed(l) \in LineRec /\ Failed(l).active = l.active
         /\ Failed(l).bound = l.bound /\ Failed(l).asked = l.asked
         /\ Failed(l).failed = l.failed + 1 /\ Failed(l).got = l.got
<1> DEFINE n == l.failed + 1
<1>1. n \in Nat
  BY DEF LineRec
<1>2. Failed(l) = [l EXCEPT !.failed = n]
  BY DEF Failed
<1> HIDE DEF n
<1>3. [l EXCEPT !.failed = n] \in LineRec
  BY <1>1 DEF LineRec
<1> QED
  BY <1>2, <1>3 DEF LineRec, n

\* The call p has failed: its line counts that, and nothing else.
Lost(c, p) ==
  [line |-> [c.line EXCEPT ![p.line] = Failed(c.line[p.line])],
   reader |-> c.reader, posts |-> c.posts \ {p}]

\* A call that fails keeps the console.
LEMMA LostGood ==
  ASSUME NEW c, Good(c), NEW p \in c.posts
  PROVE  LET d == Lost(c, p)
         IN  /\ Good(d) /\ d.posts = c.posts \ {p} /\ d.reader = c.reader
             /\ DOMAIN d.line = DOMAIN c.line
             /\ d.line[p.line] = Failed(c.line[p.line])
             /\ \A i \in DOMAIN c.line : i # p.line => d.line[i] = c.line[i]
<1> DEFINE ls == [c.line EXCEPT ![p.line] = Failed(c.line[p.line])]
           ps == c.posts \ {p}
           d == Lost(c, p)
<1>1. /\ c \in Term /\ c.line \in Seq(LineRec) /\ c.reader \in Seq(ReaderRec)
      /\ p.line \in DOMAIN c.line /\ ps \subseteq Post
      /\ c.line[p.line] \in LineRec
      /\ \A r \in DOMAIN c.reader : ReaderOK(c, r)
  BY GoodParts, TermParts DEF PostOK
<1>2. Failed(c.line[p.line]) \in LineRec
  BY <1>1, FailedLine
<1>3. /\ ls \in Seq(LineRec) /\ Len(ls) = Len(c.line) /\ DOMAIN ls = DOMAIN c.line
      /\ ls[p.line] = Failed(c.line[p.line])
      /\ \A i \in DOMAIN c.line : i # p.line => ls[i] = c.line[i]
  BY <1>1, <1>2
<1>4. d = [line |-> ls, reader |-> c.reader, posts |-> ps]
  BY DEF Lost
<1> HIDE DEF ls, ps, d
<1>5. d \in Term /\ d.line = ls /\ d.reader = c.reader /\ d.posts = ps
  BY <1>1, <1>3, <1>4 DEF Term
<1>6. \A i \in DOMAIN c.line : /\ d.line[i].bound = c.line[i].bound
                               /\ d.line[i].active => c.line[i].active
  BY <1>1, <1>3, <1>5, FailedLine
<1>7. \A r \in DOMAIN c.reader : d.reader[r].ptr <= Len(d.reader[r].history)
  BY <1>1, <1>5 DEF ReaderOK
<1>8. \A q \in d.posts : PostOK(c, q)
  BY <1>5, GoodParts DEF ps
<1>9. Good(d)
  BY <1>3, <1>5, <1>6, <1>7, <1>8, GoodKept
<1> QED
  BY <1>3, <1>5, <1>9 DEF d, ps

\* After a call that fails, its line is the one to type in.
LEMMA SingleLost ==
  ASSUME NEW c, Good(c), Single(c), NEW p \in c.posts
  PROVE  Single(Lost(c, p))
<1> DEFINE d == Lost(c, p)
<1>1. /\ Good(d) /\ d.posts = c.posts \ {p} /\ d.reader = c.reader
      /\ DOMAIN d.line = DOMAIN c.line
      /\ d.line[p.line] = Failed(c.line[p.line])
      /\ \A i \in DOMAIN c.line : i # p.line => d.line[i] = c.line[i]
  BY LostGood
<1>2. p.line \in DOMAIN c.line /\ c.line[p.line] \in LineRec
  BY GoodParts, TermParts DEF PostOK
<1> HIDE DEF d
<1>3. c.posts = {p} /\ c.line[p.line].active /\ Sole(c, p.line)
  BY <1>2 DEF Single
<1>4. d.posts = {}
  BY <1>1, <1>3
<1>5. /\ d.line[p.line].active = c.line[p.line].active
      /\ d.line[p.line].bound = c.line[p.line].bound
      /\ d.line[p.line].got = c.line[p.line].got
      /\ d.line[p.line].asked = c.line[p.line].asked
      /\ d.line[p.line].failed = c.line[p.line].failed + 1
  BY <1>1, <1>2, FailedLine
<1>6. \A i \in DOMAIN d.line : i # p.line => ~d.line[i].active /\ Settled(d.line[i], i)
  BY <1>1, <1>3 DEF Sole, Single
<1>7. Sole(d, p.line)
  <2>1. d.line[p.line].asked = d.line[p.line].failed + 0
    <3>1. c.line[p.line].failed \in Nat
      BY <1>2 DEF LineRec
    <3>2. c.line[p.line].asked = c.line[p.line].failed + 1
      BY <1>3 DEF Sole
    <3> QED
      BY <1>5, <3>1, <3>2
  <2>2. \E r \in DOMAIN d.reader :
          d.line[p.line].bound = <<r>> /\ d.reader[r].active = {p.line}
    BY <1>1, <1>3, <1>5 DEF Sole
  <2>3. d.line[p.line].got = <<>>
    BY <1>3, <1>5 DEF Sole
  <2> QED
    BY <1>4, <1>6, <2>1, <2>2, <2>3 DEF Sole
<1>8. Single(d)
  BY <1>3, <1>4, <1>5, <1>6, <1>7 DEF Single
<1> QED
  BY <1>8 DEF d

-----------------------------------------------------------------------------
\* The lines of the console are taken away.
Emptied(c) == [c EXCEPT !.line = RemoveLines(@)]

\* A line that is taken off the page.
Removed(l) == [l EXCEPT !.active = FALSE, !.bound = <<>>]

LEMMA RemovedLine ==
  ASSUME NEW l \in LineRec
  PROVE  /\ Removed(l) \in LineRec /\ ~Removed(l).active /\ Removed(l).bound = <<>>
         /\ Removed(l).asked = l.asked /\ Removed(l).failed = l.failed
         /\ Removed(l).got = l.got
<1>1. <<>> \in Seq(Nat)
  OBVIOUS
<1> QED
  BY <1>1 DEF Removed, LineRec

\* Taking the lines off the page keeps the console, without a line to type in.
LEMMA EmptiedGood ==
  ASSUME NEW c, Good(c)
  PROVE  LET d == Emptied(c)
         IN  /\ Good(d) /\ d.posts = c.posts /\ d.reader = c.reader
             /\ d.line = RemoveLines(c.line) /\ ~Prompts(d)
             /\ c.posts = {} /\ Single(c) => Single(d)
<1> DEFINE n == Len(c.line)
           ls == [i \in 1 .. n |-> Removed(c.line[i])]
           d == Emptied(c)
<1>1. /\ c \in Term /\ DOMAIN c.line = 1 .. n /\ n \in Nat
      /\ \A i \in 1 .. n : c.line[i] \in LineRec
      /\ \A r \in DOMAIN c.reader : ReaderOK(c, r)
      /\ \A p \in c.posts : PostOK(c, p)
  BY GoodParts, TermParts
<1>2. \A i \in 1 .. n : ls[i] \in LineRec
  BY <1>1, RemovedLine
<1>3. ls \in Seq(LineRec) /\ Len(ls) = n
  <2>1. ls \in [1 .. n -> LineRec]
    BY <1>2
  <2> HIDE DEF ls
  <2> QED
    BY <1>1, <2>1, SeqMade
<1>4. RemoveLines(c.line) = ls
  BY <1>1 DEF RemoveLines, Removed
<1>5. \A i \in 1 .. n : ls[i] = Removed(c.line[i])
  OBVIOUS
<1>6. d = [c EXCEPT !.line = ls]
  <2> HIDE DEF ls
  <2> QED
    BY <1>4 DEF Emptied
<1> HIDE DEF ls, d
<1>7. d \in Term /\ d.line = ls /\ d.reader = c.reader /\ d.posts = c.posts
  BY <1>1, <1>3, <1>6, LinesSet
<1>8. DOMAIN d.line = 1 .. n
  BY <1>3, <1>7
<1>9. \A i \in 1 .. n :
        /\ ~d.line[i].active /\ d.line[i].bound = <<>>
        /\ d.line[i].asked = c.line[i].asked /\ d.line[i].failed = c.line[i].failed
        /\ d.line[i].got = c.line[i].got
  BY <1>1, <1>5, <1>7, RemovedLine
<1>10. Good(d)
  <2>1. \A i \in DOMAIN d.line : LineOK(d, i)
    <3>1. DOMAIN <<>> = {}
      OBVIOUS
    <3> QED
      BY <1>8, <1>9, <3>1 DEF LineOK
  <2>2. \A r \in DOMAIN d.reader : ReaderOK(d, r)
    BY <1>1, <1>7, <1>8 DEF ReaderOK
  <2>3. \A p \in d.posts : PostOK(d, p)
    BY <1>1, <1>7, <1>8 DEF PostOK
  <2> QED
    BY <1>7, <2>1, <2>2, <2>3 DEF Good
<1>11. ASSUME c.posts = {}, Single(c) PROVE Single(d)
  <2>1. \A i \in 1 .. n : Settled(c.line[i], i)
    BY <1>1, <1>11, SoleSettled
  <2>2. \A i \in 1 .. n : Settled(d.line[i], i)
    BY <1>9, <2>1 DEF Settled
  <2> QED
    BY <1>7, <1>8, <1>9, <1>11, <2>2 DEF Single
<1> QED
  BY <1>4, <1>7, <1>8, <1>9, <1>10, <1>11 DEF d, Prompts

-----------------------------------------------------------------------------
\* The user types t into the line i.
Typed(c, i, t) == [c EXCEPT !.line[i].text = t]

\* Typing keeps the console.
LEMMA TypedGood ==
  ASSUME NEW c, Good(c), NEW i \in DOMAIN c.line, NEW t \in Text
  PROVE  LET d == Typed(c, i, t)
         IN  /\ Good(d) /\ d.posts = c.posts /\ d.reader = c.reader
             /\ Len(d.line) = Len(c.line) /\ DOMAIN d.line = DOMAIN c.line
             /\ \A j \in DOMAIN c.line : SameLine(d.line[j], c.line[j])
             /\ Single(c) => Single(d)
<1> DEFINE ls == [c.line EXCEPT ![i] = Written(c.line[i], t)]
           d == Typed(c, i, t)
<1>1. /\ c \in Term /\ c.line \in Seq(LineRec) /\ c.line[i] \in LineRec
      /\ \A j \in DOMAIN c.line : c.line[j] \in LineRec
      /\ \A r \in DOMAIN c.reader : ReaderOK(c, r)
      /\ \A p \in c.posts : PostOK(c, p)
  BY GoodParts, TermParts
<1>2. Written(c.line[i], t) \in LineRec
  BY <1>1, WrittenLine
<1>3. /\ ls \in Seq(LineRec) /\ Len(ls) = Len(c.line) /\ DOMAIN ls = DOMAIN c.line
      /\ ls[i] = Written(c.line[i], t)
      /\ \A j \in DOMAIN c.line : j # i => ls[j] = c.line[j]
  BY <1>1, <1>2
<1>4. d = [c EXCEPT !.line = ls]
  BY <1>1 DEF Typed, Written, Term
<1> HIDE DEF ls, d
<1>5. d \in Term /\ d.line = ls /\ d.reader = c.reader /\ d.posts = c.posts
  BY <1>1, <1>3, <1>4, LinesSet
<1>6. \A j \in DOMAIN c.line : SameLine(d.line[j], c.line[j])
  BY <1>1, <1>3, <1>5, WrittenLine DEF SameLine
<1>7. \A r \in DOMAIN c.reader : d.reader[r].ptr <= Len(d.reader[r].history)
  BY <1>1, <1>5 DEF ReaderOK
<1>8. Good(d)
  BY <1>1, <1>3, <1>5, <1>6, <1>7, GoodKept DEF SameLine
<1>9. Single(c) => Single(d)
  BY <1>1, <1>3, <1>5, <1>6, SingleSame DEF PostOK
<1> QED
  BY <1>3, <1>5, <1>6, <1>8, <1>9 DEF d

-----------------------------------------------------------------------------
(***************************************************************************)
(* What is said of the console and of what is under way.                   *)
(***************************************************************************)

\* A list of graphs for the panel p is under way.
Listed(p) == \E d \in BOOLEAN : lists[<<p, d>>] > 0

\* Before domReady there is no console.
BareInv == ~booted => line = <<>> /\ reader = <<>> /\ posts = {}

\* A console that has come has a line to type in, or will when the list of graphs
\* is there that the menu asks for as it takes the lines away.
PromptInv == reader # <<>> /\ ~failed => Prompts(Console) \/ Listed("gremlin")

\* For a user who waits, one panel is turned to at a time: while its list is under
\* way the other will not be seen, and no command is.
LoneInv == ~hasty =>
  /\ \A p, q \in Panel : Listed(p) /\ p # q => ~Listed(q) /\ ~Ends(q)
  /\ \A q \in Panel : q # currentPanel => ~Ends(q)
  /\ posts # {} => \A p \in Panel : ~Listed(p)

\* For a user who waits, the address has the graph that is marked from when a
\* command can be entered until it is answered.
MarkedInv == ~hasty /\ ~ignored =>
  /\ \A p \in posts : p.graph = marked
  /\ Ends("gremlin") /\ (posts # {} \/ Prompts(Console)) => uri.graph = marked

\* For a user who waits, at most one list for the console is under way, the lines
\* are gone until it comes, and the console that it makes is the only one.
OnceInv == ~hasty /\ Len(pops) <= 1 =>
  /\ lists[<<"gremlin", TRUE>>] + lists[<<"gremlin", FALSE>>] <= 1
  /\ Listed("gremlin") => ~Prompts(Console)
  /\ Single(Console)

-----------------------------------------------------------------------------
\* An event of the history binds one more handler.
LEMMA PopCount ==
  ASSUME TypeOK, NEW to, PopState(to)
  PROVE  Len(pops') = Len(pops) + 1 /\ Len(pops) \in Nat
<1> DEFINE u == entries[to]
<1>1. pops \in Seq([popped : BOOLEAN, initial : Page])
  BY TypesInParts DEF UserTypes
<1>2. DOMAIN Handlers(u) = 1 .. Len(pops) + 1 /\ Len(pops) \in Nat
  BY <1>1 DEF Handlers
<1>3. pops' = [i \in DOMAIN Handlers(u) |->
                 [Handlers(u)[i] EXCEPT !.popped = @ \/ pops # <<>>]]
  BY DEF PopState
<1> QED
  BY <1>2, <1>3

\* A step that turns to a panel, and one that leaves the panels and the console.
Slides(m, n) ==
  /\ SlidePanel(m, n) /\ failed' = failed /\ booted'
  /\ ~hasty' => ~hasty /\ (~booted \/ (~Waiting /\ ~Moving))
  /\ Len(pops') <= 1 => Len(pops) <= 1 /\ n = 1

Still ==
  /\ UNCHANGED <<booted, currentPanel, lists, fx, shown, marked, termVars, failed>>
  /\ ~hasty' => ~hasty
  /\ Len(pops') <= 1 => Len(pops) <= 1
  /\ ~ignored' => ~ignored /\ uri' = uri

\* When the page starts, its panel is turned to.
LEMMA BootSlides ==
  ASSUME TypeOK, Boot
  PROVE  \E m \in Panel : Slides(m, 1)
<1>1. entries \in Seq(Page) /\ pos \in DOMAIN entries /\ uri \in Page
  BY DEF TypeOK, Page, uri
<1>2. \E m \in Panel : SlidePanel(m, 1)
  <2>1. CASE uri.menu = None
    <3>1. \E es, at : RestoreApplication(At("graph", None), es, at, 1)
      BY <2>1, Zenon DEF Boot
    <3>2. At("graph", None).menu = "graph"
      BY Names
    <3> QED
      BY <3>1, <3>2, Names DEF RestoreApplication
  <2>2. CASE uri.menu # None
    <3>1. uri.menu \in Panel
      BY <1>1, <2>2, Names
    <3> QED
      BY <2>2, <3>1 DEF Boot, RestoreApplication
  <2> QED
    BY <2>1, <2>2
<1>3. ~booted /\ booted' = TRUE /\ UNCHANGED <<pops, userVars>>
  BY DEF Boot
<1> QED
  BY <1>2, <1>3 DEF Slides, userVars

\* A click in the menu turns to its panel.
LEMMA ClickSlides ==
  ASSUME TypeOK, NEW m \in Panel, ClickMenu(m)
  PROVE  Slides(m, 1)
<1>1. Acts /\ SlidePanel(m, 1) /\ UNCHANGED <<booted, pops>>
  BY DEF ClickMenu
<1> QED
  BY <1>1, ActsCounted DEF Slides

\* A step back or forward turns to a panel, perhaps several times at once, or
\* changes the address only.
LEMMA GoToKind ==
  ASSUME TypeOK, NEW to \in DOMAIN entries, GoTo(to)
  PROVE  Still \/ \E m \in Panel, n \in Nat \ {0} : Slides(m, n)
<1>1. /\ Acts /\ PopState(to) /\ UNCHANGED booted
      /\ ignored' = (Restoring(entries[to]) = {} \/ entries[to].menu = None)
  BY DEF GoTo
<1>2. /\ booted /\ failed' = failed
      /\ ~hasty' => ~hasty /\ ~Waiting /\ ~Moving
  BY <1>1, ActsCounted
<1>3. Len(pops') = Len(pops) + 1 /\ Len(pops) \in Nat
  BY <1>1, PopCount
<1>4. CASE Restoring(entries[to]) = {} \/ entries[to].menu = None
  <2>1. UNCHANGED <<currentPanel, lists, fx, shown, marked>>
    BY <1>1, <1>4, PopOutcome
  <2>2. UNCHANGED termVars
    <3>1. Cardinality(Restoring(entries[to])) = 0 \/ entries[to].menu = None
      BY <1>4, RestoringCount
    <3> QED
      BY <1>1, <3>1 DEF PopState
  <2>3. ignored'
    BY <1>1, <1>4
  <2> QED
    BY <1>1, <1>2, <1>3, <2>1, <2>2, <2>3 DEF Still
<1>5. CASE ~(Restoring(entries[to]) = {} \/ entries[to].menu = None)
  <2>1. PICK m \in Panel, n \in Nat \ {0} : SlidePanel(m, n)
    BY <1>1, <1>5, PopOutcome DEF Turns
  <2>2. Len(pops) # 0
    <3>1. pops # <<>>
      BY <1>5 DEF Restoring
    <3>2. pops \in Seq([popped : BOOLEAN, initial : Page])
      BY TypesInParts DEF UserTypes
    <3> QED
      BY <3>1, <3>2
  <2>3. ~(Len(pops') <= 1)
    BY <1>3, <2>2
  <2> QED
    BY <1>1, <1>2, <2>1, <2>3 DEF Slides
<1> QED
  BY <1>4, <1>5

\* Every step is one of these kinds.
LEMMA Kinds ==
  ASSUME TypeOK, [Next]_vars
  PROVE  \/ Still
         \/ \E m \in Panel, n \in Nat \ {0} : Slides(m, n)
         \/ \E d \in BOOLEAN : GraphListComes(d)
         \/ \E d \in BOOLEAN : TerminalListComes(d)
         \/ \E p \in Panel, d \in BOOLEAN : ListFails(p, d)
         \/ \E p \in posts : ExecComes(p)
         \/ \E p \in Panel, g \in Graph : ClickGraph(p, g)
         \/ \E i \in Line : Keyboard(i)
         \/ \E p \in Panel : EffectEnds(p)
<1>1. 1 \in Nat \ {0}
  OBVIOUS
<1>2. CASE Boot
  BY <1>1, <1>2, BootSlides
<1>3. CASE PageLoads
  <2>1. PopState(pos) /\ pops = <<>> /\ UNCHANGED <<booted, userVars>>
    BY <1>3 DEF PageLoads
  <2>2. Restoring(entries[pos]) = {} /\ pos \in DOMAIN entries
    BY <2>1, TypesInParts DEF Restoring, MenuTypes
  <2>3. entries' = entries /\ pos' = pos /\ UNCHANGED <<currentPanel, lists, fx, shown, marked>>
    BY <2>1, <2>2, PopOutcome
  <2>4. UNCHANGED termVars
    <3>1. Cardinality(Restoring(entries[pos])) = 0
      BY <2>2, RestoringCount
    <3> QED
      BY <2>1, <3>1 DEF PopState
  <2>5. Len(pops) <= 1
    <3>1. Len(<<>>) = 0
      OBVIOUS
    <3> QED
      BY <2>1, <3>1
  <2>6. Still
    BY <2>1, <2>3, <2>4, <2>5 DEF Still, userVars, uri
  <2> QED
    BY <2>6
<1>4. ASSUME NEW p \in Panel, ClickMenu(p) PROVE Slides(p, 1)
  BY <1>4, ClickSlides
<1>5. CASE UNCHANGED vars
  <2>1. Still
    BY <1>5 DEF Still, vars, pageVars, menuVars, userVars, uri
  <2> QED
    BY <2>1
<1>6. CASE Replies
  BY <1>6 DEF Replies
<1>7. CASE User
  BY <1>1, <1>4, <1>7, GoToKind DEF User
<1> QED
  BY <1>2, <1>3, <1>5, <1>6, <1>7 DEF Next

-----------------------------------------------------------------------------
\* The console after a step, as a record.
LEMMA BecomesIs ==
  ASSUME NEW d \in Term, Becomes(d)
  PROVE  Console' = d
BY DEF Becomes, Console, Term

LEMMA ConsoleIs ==
  /\ Console.line = line /\ Console.reader = reader /\ Console.posts = posts
  /\ Console'.line = line' /\ Console'.reader = reader' /\ Console'.posts = posts'
BY DEF Console

\* Turning to the panel of the console takes its lines away.
LEMMA SlideConsole ==
  ASSUME NEW m, NEW n, SlidePanel(m, n)
  PROVE  Console' = IF m = "gremlin" THEN Emptied(Console) ELSE Console
<1>1. CASE m = "gremlin"
  BY <1>1 DEF SlidePanel, Emptied, Console
<1>2. CASE m # "gremlin"
  BY <1>2 DEF SlidePanel, termVars, Console
<1> QED
  BY <1>1, <1>2

\* Turning to a panel asks for its list, and for no other.
LEMMA SlideLists ==
  ASSUME TypeOK, NEW m \in Panel, NEW n \in Nat \ {0}, SlidePanel(m, n)
  PROVE  /\ Listed(m)'
         /\ \A q \in Panel \ {m} : Listed(q)' = Listed(q)
         /\ \E e \in BOOLEAN : lists' = [lists EXCEPT ![<<m, e>>] = @ + n]
<1> DEFINE e == IsPanelDifferent(m)
<1>1. lists \in [Panel \X BOOLEAN -> Nat] /\ e \in BOOLEAN
  BY DEF TypeOK, IsPanelDifferent
<1>2. lists' = [lists EXCEPT ![<<m, e>>] = @ + n]
  BY DEF SlidePanel
<1> HIDE DEF e
<1>3. lists'[<<m, e>>] > 0
  <2>1. <<m, e>> \in Panel \X BOOLEAN /\ lists[<<m, e>>] \in Nat
    BY <1>1
  <2>2. lists'[<<m, e>>] = lists[<<m, e>>] + n
    BY <1>1, <1>2, <2>1
  <2> QED
    BY <2>1, <2>2
<1>4. \A q \in Panel \ {m}, d \in BOOLEAN : lists'[<<q, d>>] = lists[<<q, d>>]
  BY <1>1, <1>2
<1> QED
  BY <1>1, <1>2, <1>3, <1>4 DEF Listed

\* A key keeps the console and what is said of it; what it posts is for the graph
\* of the address.
LEMMA KeyGoes ==
  ASSUME Good(Console), TypeOK, NEW i \in Line, Keyboard(i)
  PROVE  /\ Good(Console') /\ Prompts(Console) /\ Prompts(Console')
         /\ \A p \in posts' : p \in posts \/ p.graph = uri.graph
         /\ reader # <<>> \/ reader' = <<>>
         /\ Acts /\ "gremlin" \in shown /\ UNCHANGED <<ignored, pageVars, menuVars>>
         /\ posts = {} /\ Single(Console) => Single(Console')
<1>1. /\ Acts /\ UNCHANGED ignored /\ "gremlin" \in shown /\ UNCHANGED <<pageVars, menuVars>>
      /\ \/ \E t \in Command \cup {Blank, line[i].text} : PressEnter(i, t, uri.graph)
         \/ \E d \in {"previous", "next"} : PressArrow(i, d)
  BY DEF Keyboard
<1>2. i \in DOMAIN Console.line /\ Console \in Term /\ line[i].text \in Text
  <2>1. Console \in Term
    BY GoodParts
  <2>2. /\ DOMAIN Console.line = 1 .. Len(Console.line)
        /\ \A j \in DOMAIN Console.line : Console.line[j] \in LineRec
    BY <2>1, TermParts
  <2>3. i \in DOMAIN Console.line /\ Console.line = line
    BY <2>2, ConsoleIs DEF Line
  <2> QED
    BY <2>1, <2>2, <2>3 DEF LineRec
<1>3. uri.graph \in Anything /\ Undefined \in Anything
  <2>1. uri \in Page
    BY TypesInParts DEF MenuTypes, uri
  <2> QED
    BY <2>1 DEF Page, Uri, NoMenu, Anything
<1>4. PICK c, key, g :
        /\ g \in Anything /\ Good(c) /\ Len(c.line) = Len(line) /\ Len(c.reader) = Len(reader)
        /\ DOMAIN c.line = DOMAIN line
        /\ c.posts = posts /\ c.line[i].active /\ line[i].active
        /\ key = "enter" => g = uri.graph
        /\ Single(Console) => Single(c)
        /\ Becomes(Keydown(c, i, key, g))
  <2>1. ASSUME NEW t \in Command \cup {Blank, line[i].text}, PressEnter(i, t, uri.graph)
        PROVE  /\ Good(Typed(Console, i, t))
               /\ Len(Typed(Console, i, t).line) = Len(line)
               /\ Len(Typed(Console, i, t).reader) = Len(reader)
               /\ DOMAIN Typed(Console, i, t).line = DOMAIN line
               /\ Typed(Console, i, t).posts = posts
               /\ Typed(Console, i, t).line[i].active /\ line[i].active
               /\ Single(Console) => Single(Typed(Console, i, t))
               /\ Becomes(Keydown(Typed(Console, i, t), i, "enter", uri.graph))
    <3>1. t \in Text
      BY <1>2 DEF Text
    <3>2. line[i].active /\ Becomes(Keydown(Typed(Console, i, t), i, "enter", uri.graph))
      BY <2>1 DEF PressEnter, Typed
    <3>3. LET d == Typed(Console, i, t)
          IN  /\ Good(d) /\ d.posts = Console.posts /\ d.reader = Console.reader
              /\ Len(d.line) = Len(Console.line) /\ DOMAIN d.line = DOMAIN Console.line
              /\ \A j \in DOMAIN Console.line : SameLine(d.line[j], Console.line[j])
              /\ Single(Console) => Single(d)
      BY <1>2, <3>1, TypedGood
    <3>4. SameLine(Typed(Console, i, t).line[i], line[i])
      BY <1>2, <3>3, ConsoleIs
    <3> QED
      BY <3>2, <3>3, <3>4, ConsoleIs DEF SameLine
  <2>2. ASSUME NEW d \in {"previous", "next"}, PressArrow(i, d)
        PROVE  line[i].active /\ Becomes(Keydown(Console, i, d, Undefined)) /\ d # "enter"
    BY <2>2 DEF PressArrow
  <2>3. CASE \E t \in Command \cup {Blank, line[i].text} : PressEnter(i, t, uri.graph)
    <3>1. PICK t \in Command \cup {Blank, line[i].text} : PressEnter(i, t, uri.graph)
      BY <2>3
    <3> QED
      BY <1>3, <2>1, <3>1
  <2>4. CASE \E d \in {"previous", "next"} : PressArrow(i, d)
    <3>1. PICK d \in {"previous", "next"} : PressArrow(i, d)
      BY <2>4
    <3> QED
      BY <1>3, <2>2, <3>1, ConsoleIs
  <2> QED
    BY <1>1, <2>3, <2>4
<1>5. i \in DOMAIN c.line
  BY <1>2, <1>4, ConsoleIs
<1> DEFINE d == Keydown(c, i, key, g)
<1>6. Goes(c, d, key, g)
  BY <1>4, <1>5, KeydownGoes
<1>7. /\ Good(d) /\ Prompts(d) /\ Len(d.reader) = Len(reader)
      /\ \A p \in d.posts : p \in posts \/ p.graph = uri.graph
  BY <1>4, <1>5, <1>6 DEF Goes, Prompts
<1>8. posts = {} /\ Single(Console) => Single(d)
  BY <1>4, <1>5, SingleKey
<1> HIDE DEF d
<1>9. Console' = d
  BY <1>4, <1>7, BecomesIs, GoodParts DEF d
<1>10. reader # <<>> \/ reader' = <<>>
  <2>1. reader' = d.reader /\ d.reader \in Seq(ReaderRec) /\ reader \in Seq(ReaderRec)
    BY <1>2, <1>7, <1>9, ConsoleIs, GoodParts, TermParts
  <2> QED
    BY <1>7, <2>1
<1>11. Prompts(Console)
  BY <1>2, <1>4, ConsoleIs DEF Prompts
<1>12. d.posts = posts'
  BY <1>9, ConsoleIs
<1> QED
  BY <1>1, <1>7, <1>8, <1>9, <1>10, <1>11, <1>12

-----------------------------------------------------------------------------
\* An answer ends its call and keeps the console.
LEMMA ExecConsole ==
  ASSUME Good(Console), NEW p \in posts, ExecComes(p)
  PROVE  /\ Good(Console') /\ (Prompts(Console) => Prompts(Console'))
         /\ posts' = posts \ {p} /\ reader # <<>>
         /\ UNCHANGED <<pageVars, menuVars, userVars>>
         /\ Single(Console) => Single(Console')
<1>1. /\ ExecSucceeds(p) \/ ExecFails(p)
      /\ UNCHANGED <<pageVars, menuVars, userVars>>
  BY DEF ExecComes
<1>2. p \in Console.posts /\ p.reader \in DOMAIN reader /\ p.line \in DOMAIN line
  BY GoodParts, ConsoleIs DEF PostOK
<1>3. reader # <<>>
  BY <1>2
<1>4. CASE ExecSucceeds(p)
  <2> DEFINE c == Response(Console, p)
             d == NewPromptLine(c, p.reader)
  <2>1. Becomes(d)
    BY <1>4 DEF ExecSucceeds, Response, Over
  <2>2. Good(c) /\ c.posts = Console.posts \ {p} /\ Len(c.reader) = Len(Console.reader)
    BY <1>2, ResponseGood
  <2>3. p.reader \in DOMAIN c.reader
    <3>1. Console \in Term /\ c \in Term
      BY <2>2, GoodParts
    <3>2. /\ DOMAIN c.reader = 1 .. Len(c.reader)
          /\ DOMAIN Console.reader = 1 .. Len(Console.reader)
      BY <3>1, TermParts
    <3> QED
      BY <1>2, <2>2, <3>2, ConsoleIs
  <2>4. Single(Console) => Single(d)
    BY <1>2, SingleAnswered
  <2> HIDE DEF c
  <2>5. Good(d) /\ Prompts(d) /\ d.posts = c.posts
    BY <2>2, <2>3, NewPromptGood
  <2> HIDE DEF d
  <2>6. Console' = d
    BY <2>1, <2>5, GoodParts, BecomesIs
  <2>7. posts' = d.posts
    BY <2>6, ConsoleIs
  <2> QED
    BY <1>1, <1>3, <2>2, <2>4, <2>5, <2>6, <2>7, ConsoleIs
<1>5. CASE ExecFails(p)
  <2> DEFINE d == Lost(Console, p)
  <2>1. Console' = d
    <3>1. line' = [line EXCEPT ![p.line] = Failed(line[p.line])]
      BY <1>5, <1>2 DEF ExecFails, Failed
    <3> QED
      BY <1>5, <3>1 DEF ExecFails, Lost, Console
  <2>2. /\ Good(d) /\ d.posts = Console.posts \ {p}
        /\ DOMAIN d.line = DOMAIN Console.line
        /\ d.line[p.line] = Failed(Console.line[p.line])
        /\ \A i \in DOMAIN Console.line : i # p.line => d.line[i] = Console.line[i]
    BY <1>2, LostGood
  <2>3. Single(Console) => Single(d)
    BY <1>2, SingleLost
  <2> HIDE DEF d
  <2>4. Prompts(Console) => Prompts(d)
    <3>1. Failed(Console.line[p.line]).active = Console.line[p.line].active
      <4>1. Console.line[p.line] \in LineRec
        BY <1>2, ConsoleIs, GoodParts, TermParts
      <4> QED
        BY <4>1, FailedLine
    <3> QED
      BY <1>2, <2>2, <3>1 DEF Prompts
  <2>5. posts' = d.posts
    BY <2>1, ConsoleIs
  <2> QED
    BY <1>1, <1>3, <2>1, <2>2, <2>3, <2>4, <2>5, ConsoleIs
<1> QED
  BY <1>1, <1>4, <1>5

\* The list of graphs makes a console with a line to type in.
LEMMA ListConsole ==
  ASSUME Good(Console), NEW d \in BOOLEAN, TerminalListComes(d)
  PROVE  /\ Good(Console') /\ Prompts(Console') /\ posts' = posts
         /\ Single(Console) /\ ~Prompts(Console) /\ posts = {} => Single(Console')
<1> DEFINE e == MakeReader(Console)
<1>1. Becomes(e)
  BY DEF TerminalListComes
<1>2. Good(e) /\ Prompts(e) /\ e.posts = Console.posts
  BY MakeReaderGood
<1>3. Single(Console) /\ ~Prompts(Console) /\ posts = {} => Single(e)
  BY SingleMade, ConsoleIs
<1> HIDE DEF e
<1>4. Console' = e
  BY <1>1, <1>2, GoodParts, BecomesIs
<1>5. posts' = e.posts
  BY <1>4, ConsoleIs
<1> QED
  BY <1>2, <1>3, <1>4, <1>5, ConsoleIs

\* Turning to a panel keeps the console, in its panel without a line to type in.
LEMMA SlideGood ==
  ASSUME Good(Console), NEW m, NEW n, SlidePanel(m, n)
  PROVE  /\ Good(Console') /\ posts' = posts /\ reader' = reader
         /\ IF m = "gremlin" THEN ~Prompts(Console') ELSE Console' = Console
         /\ posts = {} /\ Single(Console) => Single(Console')
<1> DEFINE e == Emptied(Console)
<1>1. /\ Good(e) /\ e.posts = Console.posts /\ e.reader = Console.reader /\ ~Prompts(e)
      /\ Console.posts = {} /\ Single(Console) => Single(e)
  BY EmptiedGood
<1> HIDE DEF e
<1>2. Console' = IF m = "gremlin" THEN e ELSE Console
  BY SlideConsole DEF e
<1>3. CASE m = "gremlin"
  <2>1. posts' = e.posts /\ reader' = e.reader
    BY <1>2, <1>3, ConsoleIs
  <2> QED
    BY <1>1, <1>2, <1>3, <2>1, ConsoleIs
<1>4. CASE m # "gremlin"
  <2>1. Console' = Console
    BY <1>2, <1>4
  <2>2. posts' = posts /\ reader' = reader
    BY <2>1, ConsoleIs
  <2> QED
    BY <1>4, <2>1, <2>2
<1> QED
  BY <1>3, <1>4

\* A console that no step has touched.
LEMMA ConsoleLeft == UNCHANGED termVars => Console' = Console
BY DEF Console, termVars

\* Every step keeps the console.
LEMMA GoodStep ==
  ASSUME TypeOK, BootInv, Good(Console), BareInv, [Next]_vars
  PROVE  Good(Console') /\ BareInv'
<1>1. CASE Still
  BY <1>1, ConsoleLeft DEF Still, BareInv, termVars
<1>2. ASSUME NEW m \in Panel, NEW n \in Nat \ {0}, Slides(m, n)
      PROVE  Good(Console') /\ BareInv'
  BY <1>2, SlideGood DEF Slides, BareInv
<1>3. ASSUME NEW d \in BOOLEAN, GraphListComes(d) PROVE Good(Console') /\ BareInv'
  BY <1>3, ConsoleLeft DEF GraphListComes, BareInv, termVars
<1>4. ASSUME NEW d \in BOOLEAN, TerminalListComes(d)
      PROVE  Good(Console') /\ BareInv'
  <2>1. booted
    <3>1. <<"gremlin", d>> \in Panel \X BOOLEAN /\ lists[<<"gremlin", d>>] # 0
      BY <1>4, Names DEF TerminalListComes, Answered
    <3> QED
      BY <3>1 DEF BootInv
  <2> QED
    BY <1>4, <2>1, ListConsole DEF TerminalListComes, BareInv
<1>5. ASSUME NEW p \in Panel, NEW d \in BOOLEAN, ListFails(p, d)
      PROVE  Good(Console') /\ BareInv'
  BY <1>5, ConsoleLeft DEF ListFails, BareInv, termVars, pageVars
<1>6. ASSUME NEW p \in posts, ExecComes(p) PROVE Good(Console') /\ BareInv'
  <2>1. booted
    BY DEF BareInv
  <2> QED
    BY <1>6, <2>1, ExecConsole DEF BareInv, pageVars
<1>7. ASSUME NEW p \in Panel, NEW g \in Graph, ClickGraph(p, g)
      PROVE  Good(Console') /\ BareInv'
  BY <1>7, ConsoleLeft DEF ClickGraph, BareInv, termVars
<1>8. ASSUME NEW i \in Line, Keyboard(i) PROVE Good(Console') /\ BareInv'
  <2>1. booted
    BY <1>8, KeyGoes, ActsCounted
  <2> QED
    BY <1>8, <2>1, KeyGoes DEF BareInv, pageVars
<1>9. ASSUME NEW p \in Panel, EffectEnds(p) PROVE Good(Console') /\ BareInv'
  BY <1>9, ConsoleLeft DEF EffectEnds, BareInv, termVars, pageVars
<1> QED
  BY <1>1, <1>2, <1>3, <1>4, <1>5, <1>6, <1>7, <1>8, <1>9, Kinds

-----------------------------------------------------------------------------
\* The list that comes or fails was under way; the other lists are left.
LEMMA ListedLess ==
  ASSUME TypeOK, NEW p \in Panel, NEW d \in BOOLEAN, Answered(p, d)
  PROVE  /\ Listed(p)
         /\ \A q \in Panel : Listed(q)' => Listed(q)
         /\ \A q \in Panel \ {p} : Listed(q)' = Listed(q)
<1>1. /\ \A x \in Panel \X BOOLEAN : lists'[x] > 0 => lists[x] > 0
      /\ \A x \in Panel \X BOOLEAN : x # <<p, d>> => lists'[x] = lists[x]
  BY ListTypes
<1>2. lists[<<p, d>>] > 0
  BY DEF Answered
<1>3. \A q \in Panel, e \in BOOLEAN : lists'[<<q, e>>] > 0 => lists[<<q, e>>] > 0
  BY <1>1
<1>4. \A q \in Panel \ {p}, e \in BOOLEAN : lists'[<<q, e>>] = lists[<<q, e>>]
  BY <1>1
<1> QED
  BY <1>2, <1>3, <1>4 DEF Listed

\* At rest no list is under way.
LEMMA NoneListed ==
  ASSUME AtRest, NEW q \in Panel
  PROVE  ~Listed(q)
<1>1. \A d \in BOOLEAN : lists[<<q, d>>] = 0
  BY DEF AtRest
<1>2. \A d \in BOOLEAN : ~(lists[<<q, d>>] > 0)
  BY <1>1
<1> QED
  BY <1>2 DEF Listed

\* A panel is turned to by a user who waits, or when the page starts.
LEMMA SlideRest ==
  ASSUME TypeOK, BootInv, BareInv, NEW m, NEW n, Slides(m, n), ~hasty'
  PROVE  AtRest /\ posts = {}
<1>1. CASE ~booted
  BY <1>1 DEF BootInv, BareInv, AtRest
<1>2. CASE booted
  <2>1. ~Waiting /\ ~Moving
    BY <1>2 DEF Slides
  <2> QED
    BY <2>1, Rest DEF Waiting
<1> QED
  BY <1>1, <1>2

\* Every step keeps a line to type in, or a list that will bring one.
LEMMA PromptStep ==
  ASSUME TypeOK, Good(Console), BareInv, PromptInv, [Next]_vars
  PROVE  PromptInv'
<1>1. CASE Still
  BY <1>1, ConsoleLeft DEF Still, PromptInv, termVars, Listed
<1>2. ASSUME NEW m \in Panel, NEW n \in Nat \ {0}, Slides(m, n) PROVE PromptInv'
  <2>1. SlidePanel(m, n) /\ failed' = failed
    BY <1>2 DEF Slides
  <2>2. CASE m = "gremlin"
    BY <2>1, <2>2, SlideLists DEF PromptInv
  <2>3. CASE m # "gremlin"
    <3>1. Console' = Console /\ reader' = reader
      BY <2>1, <2>3, SlideGood
    <3>2. Listed("gremlin")' = Listed("gremlin")
      BY <2>1, <2>3, SlideLists, Names
    <3> QED
      BY <2>1, <3>1, <3>2 DEF PromptInv
  <2> QED
    BY <2>2, <2>3
<1>3. ASSUME NEW d \in BOOLEAN, GraphListComes(d) PROVE PromptInv'
  <2>1. Answered("graph", d) /\ UNCHANGED <<termVars, failed>>
    BY <1>3 DEF GraphListComes, userVars
  <2>2. Listed("gremlin")' = Listed("gremlin")
    BY <2>1, ListedLess, Names
  <2> QED
    BY <2>1, <2>2, ConsoleLeft DEF PromptInv, termVars
<1>4. ASSUME NEW d \in BOOLEAN, TerminalListComes(d) PROVE PromptInv'
  BY <1>4, ListConsole DEF PromptInv
<1>5. ASSUME NEW p \in Panel, NEW d \in BOOLEAN, ListFails(p, d) PROVE PromptInv'
  BY <1>5 DEF ListFails, PromptInv
<1>6. ASSUME NEW p \in posts, ExecComes(p) PROVE PromptInv'
  <2>1. /\ Prompts(Console) => Prompts(Console')
        /\ reader # <<>> /\ failed' = failed /\ lists' = lists
    BY <1>6, ExecConsole DEF menuVars, userVars
  <2> QED
    BY <2>1 DEF PromptInv, Listed
<1>7. ASSUME NEW p \in Panel, NEW g \in Graph, ClickGraph(p, g) PROVE PromptInv'
  <2>1. UNCHANGED <<lists, termVars>> /\ failed' = failed
    BY <1>7 DEF ClickGraph, Acts
  <2> QED
    BY <2>1, ConsoleLeft DEF PromptInv, termVars, Listed
<1>8. ASSUME NEW i \in Line, Keyboard(i) PROVE PromptInv'
  BY <1>8, KeyGoes DEF PromptInv
<1>9. ASSUME NEW p \in Panel, EffectEnds(p) PROVE PromptInv'
  BY <1>9, ConsoleLeft DEF EffectEnds, PromptInv, termVars, userVars, Listed
<1> QED
  BY <1>1, <1>2, <1>3, <1>4, <1>5, <1>6, <1>7, <1>8, <1>9, Kinds

-----------------------------------------------------------------------------
\* The parts of LoneInv.
OneListed == \A p, q \in Panel : Listed(p) /\ p # q => ~Listed(q) /\ ~Ends(q)
OneEnds == \A q \in Panel : q # currentPanel => ~Ends(q)
Unmixed == posts # {} => \A p \in Panel : ~Listed(p)

LEMMA LoneParts == LoneInv <=> (~hasty => OneListed /\ OneEnds /\ Unmixed)
BY DEF LoneInv, OneListed, OneEnds, Unmixed

\* Turning to a panel from a page at rest leaves one panel to be seen.
LEMMA LoneSlides ==
  ASSUME TypeOK, BootInv, BareInv, LoneInv, Good(Console),
         NEW m \in Panel, NEW n \in Nat \ {0}, Slides(m, n), ~hasty'
  PROVE  /\ OneListed' /\ OneEnds' /\ Unmixed'
         /\ \A q \in Panel \ {m} : ~Ends(q)'
<1>1. AtRest /\ posts = {} /\ ~hasty /\ SlidePanel(m, n)
  BY SlideRest DEF Slides
<1>2. OneEnds
  BY <1>1, LoneParts
<1>3. /\ UNCHANGED <<currentPanel, shown>>
      /\ \A q \in Panel : IF q = currentPanel /\ q # m THEN ~Ends(q)'
                                                       ELSE fx'[q] = fx[q]
  BY <1>1, SlideShows
<1>4. \A q \in Panel \ {m} : ~Listed(q)'
  BY <1>1, SlideLists, NoneListed
<1>5. \A q \in Panel : fx'[q] = fx[q] => Ends(q)' = Ends(q)
  BY <1>3 DEF Ends
<1>6. \A q \in Panel : q # currentPanel => ~Ends(q)'
  BY <1>2, <1>3, <1>5 DEF OneEnds
<1>7. \A q \in Panel \ {m} : ~Ends(q)'
  BY <1>3, <1>6
<1>8. posts' = {}
  BY <1>1, SlideGood
<1> QED
  BY <1>3, <1>4, <1>6, <1>7, <1>8 DEF OneListed, OneEnds, Unmixed

\* So does the list that the user has waited for.
LEMMA LoneComes ==
  ASSUME TypeOK, LoneInv, NEW p \in Panel, NEW d \in BOOLEAN, Answered(p, d),
         PushChosen(p), ShowPanel(p, d), posts' = posts, UNCHANGED <<shown, hasty>>,
         ~hasty
  PROVE  /\ OneListed' /\ OneEnds' /\ Unmixed' /\ posts = {}
         /\ \A q \in Panel \ {p} : ~Ends(q)'
<1>1. OneListed /\ OneEnds /\ Unmixed
  BY LoneParts
<1>2. /\ Listed(p)
      /\ \A q \in Panel : Listed(q)' => Listed(q)
  BY ListedLess
<1>3. posts = {} /\ \A q \in Panel \ {p} : ~Listed(q) /\ ~Ends(q)
  BY <1>1, <1>2 DEF OneListed, Unmixed
<1>4. /\ d => currentPanel' = p /\ \A q \in Panel \ {p} : fx'[q] = fx[q]
      /\ ~d => UNCHANGED <<currentPanel, fx>>
  BY ListShows
<1>5. \A q \in Panel : fx'[q] = fx[q] => Ends(q)' = Ends(q)
  BY DEF Ends
<1>6. \A q \in Panel \ {p} : ~Ends(q)'
  BY <1>3, <1>4, <1>5
<1>7. OneEnds'
  <2>1. CASE d
    BY <1>4, <1>6, <2>1 DEF OneEnds
  <2>2. CASE ~d
    BY <1>1, <1>4, <1>5, <2>2 DEF OneEnds
  <2> QED
    BY <2>1, <2>2
<1> QED
  BY <1>2, <1>3, <1>6, <1>7 DEF OneListed, Unmixed

\* For a user who waits, every step leaves one panel turned to.
LEMMA LoneStep ==
  ASSUME TypeOK, BootInv, BareInv, LoneInv, Good(Console), [Next]_vars
  PROVE  LoneInv'
<1> SUFFICES ASSUME ~hasty' PROVE OneListed' /\ OneEnds' /\ Unmixed'
  BY DEF LoneInv, OneListed, OneEnds, Unmixed
\* Steps that leave the panels.
<1>0. ASSUME UNCHANGED currentPanel, \A q \in Panel : Ends(q)' = Ends(q),
             \A q \in Panel : Listed(q)' => Listed(q), ~hasty,
             posts' # {} => posts # {} \/ \A q \in Panel : ~Listed(q)
      PROVE  OneListed' /\ OneEnds' /\ Unmixed'
  <2>1. OneListed /\ OneEnds /\ Unmixed
    BY <1>0, LoneParts
  <2> QED
    BY <1>0, <2>1 DEF OneListed, OneEnds, Unmixed
<1>a. UNCHANGED <<fx, shown>> => \A q \in Panel : Ends(q)' = Ends(q)
  BY DEF Ends
<1>b. lists' = lists => \A q \in Panel : Listed(q)' => Listed(q)
  BY DEF Listed
<1>1. CASE Still
  <2>1. UNCHANGED <<currentPanel, fx, shown, lists, posts>> /\ ~hasty
    BY <1>1 DEF Still, termVars
  <2> QED
    BY <1>0, <1>a, <1>b, <2>1
<1>2. ASSUME NEW m \in Panel, NEW n \in Nat \ {0}, Slides(m, n)
      PROVE  OneListed' /\ OneEnds' /\ Unmixed'
  BY <1>2, LoneSlides
<1>3. ASSUME NEW d \in BOOLEAN, GraphListComes(d) PROVE OneListed' /\ OneEnds' /\ Unmixed'
  <2>1. /\ Answered("graph", d) /\ PushChosen("graph") /\ ShowPanel("graph", d)
        /\ posts' = posts /\ UNCHANGED <<shown, hasty>>
    BY <1>3 DEF GraphListComes, termVars, userVars
  <2> QED
    BY <2>1, LoneComes, Names
<1>4. ASSUME NEW d \in BOOLEAN, TerminalListComes(d)
      PROVE  OneListed' /\ OneEnds' /\ Unmixed'
  <2>1. /\ Answered("gremlin", d) /\ PushChosen("gremlin") /\ ShowPanel("gremlin", d)
        /\ UNCHANGED <<shown, hasty>>
    BY <1>4 DEF TerminalListComes, userVars
  <2>2. posts' = posts
    BY <1>4, ListConsole
  <2> QED
    BY <2>1, <2>2, LoneComes, Names
<1>5. ASSUME NEW p \in Panel, NEW d \in BOOLEAN, ListFails(p, d)
      PROVE  OneListed' /\ OneEnds' /\ Unmixed'
  <2>1. /\ Answered(p, d) /\ UNCHANGED <<currentPanel, fx, shown, hasty, posts>>
    BY <1>5 DEF ListFails, termVars
  <2> QED
    BY <1>0, <1>a, <2>1, ListedLess
<1>6. ASSUME NEW p \in posts, ExecComes(p) PROVE OneListed' /\ OneEnds' /\ Unmixed'
  <2>1. UNCHANGED <<currentPanel, fx, shown, lists, hasty>> /\ posts # {}
    BY <1>6, ExecConsole DEF menuVars, userVars
  <2> QED
    BY <1>0, <1>a, <1>b, <2>1
<1>7. ASSUME NEW p \in Panel, NEW g \in Graph, ClickGraph(p, g)
      PROVE  OneListed' /\ OneEnds' /\ Unmixed'
  <2>1. UNCHANGED <<currentPanel, fx, shown, lists, posts>> /\ Acts
    BY <1>7 DEF ClickGraph, termVars
  <2>2. ~hasty
    BY <2>1, ActsCounted
  <2> QED
    BY <1>0, <1>a, <1>b, <2>1, <2>2
<1>8. ASSUME NEW i \in Line, Keyboard(i) PROVE OneListed' /\ OneEnds' /\ Unmixed'
  <2>1. UNCHANGED <<currentPanel, fx, shown, lists>> /\ Acts
    BY <1>8, KeyGoes DEF menuVars
  <2>2. ~hasty /\ AtRest
    BY <2>1, ActsCounted, Rest
  <2> QED
    BY <1>0, <1>a, <1>b, <2>1, <2>2, NoneListed
<1>9. ASSUME NEW p \in Panel, EffectEnds(p) PROVE OneListed' /\ OneEnds' /\ Unmixed'
  <2>1. UNCHANGED <<currentPanel, lists, posts, hasty>> /\ \A q \in Panel : Ends(q)' = Ends(q)
    BY <1>9, EffectTypes DEF EffectEnds, termVars, userVars
  <2>2. OneListed /\ OneEnds /\ Unmixed
    BY <2>1, LoneParts
  <2> QED
    BY <1>b, <2>1, <2>2 DEF OneListed, OneEnds, Unmixed
<1> QED
  BY <1>1, <1>2, <1>3, <1>4, <1>5, <1>6, <1>7, <1>8, <1>9, Kinds

-----------------------------------------------------------------------------
\* For a user who waits, every step leaves the address and the mark together while
\* the console is seen.
LEMMA MarkedStep ==
  ASSUME TypeOK, BootInv, BareInv, LoneInv, MarkedInv, Good(Console), [Next]_vars
  PROVE  MarkedInv'
<1> DEFINE To == /\ \A p \in posts' : p.graph = marked'
                 /\ Ends("gremlin")' /\ (posts' # {} \/ Prompts(Console')) =>
                      uri'.graph = marked'
           Now == /\ \A p \in posts : p.graph = marked
                  /\ Ends("gremlin") /\ (posts # {} \/ Prompts(Console)) =>
                       uri.graph = marked
<1> SUFFICES ASSUME ~hasty', ~ignored' PROVE To
  BY DEF MarkedInv
<1>0. ~hasty /\ ~ignored => Now
  BY DEF MarkedInv
<1>a. UNCHANGED <<fx, shown>> => Ends("gremlin")' = Ends("gremlin")
  BY DEF Ends
<1>b. "gremlin" \in Panel /\ "graph" \in Panel /\ "gremlin" # "graph"
  BY Names
<1>1. CASE Still
  <2>1. /\ UNCHANGED <<fx, shown, marked, posts>> /\ ~hasty /\ ~ignored /\ uri' = uri
        /\ Console' = Console
    BY <1>1, ConsoleLeft DEF Still, termVars
  <2> QED
    BY <1>0, <1>a, <2>1
<1>2. ASSUME NEW m \in Panel, NEW n \in Nat \ {0}, Slides(m, n) PROVE To
  <2>1. posts' = {} /\ (m = "gremlin" => ~Prompts(Console'))
    BY <1>2, SlideRest, SlideGood DEF Slides
  <2>2. m # "gremlin" => ~Ends("gremlin")'
    BY <1>2, <1>b, LoneSlides
  <2> QED
    BY <2>1, <2>2
<1>3. ASSUME NEW d \in BOOLEAN, GraphListComes(d) PROVE To
  <2>1. /\ Answered("graph", d) /\ PushChosen("graph") /\ ShowPanel("graph", d)
        /\ posts' = posts /\ UNCHANGED <<shown, hasty>>
    BY <1>3 DEF GraphListComes, termVars, userVars
  <2>2. posts = {} /\ ~Ends("gremlin")'
    BY <1>b, <2>1, LoneComes
  <2> QED
    BY <2>1, <2>2
<1>4. ASSUME NEW d \in BOOLEAN, TerminalListComes(d) PROVE To
  <2>1. /\ Answered("gremlin", d) /\ PushChosen("gremlin") /\ ShowPanel("gremlin", d)
        /\ UNCHANGED <<shown, hasty>> /\ marked' = ChosenGraph
    BY <1>4 DEF TerminalListComes, userVars
  <2>2. posts' = posts
    BY <1>4, ListConsole
  <2>3. posts = {}
    BY <1>b, <2>1, <2>2, LoneComes
  <2>4. uri'.graph = ChosenGraph
    <3>1. CASE uri.graph = None
      <4>1. At("gremlin", First) \in Page /\ At("gremlin", First).graph = First
        BY Names, DogHouseAssumption DEF Page
      <4>2. Pushed(At("gremlin", First))
        BY <2>1, <3>1 DEF PushChosen
      <4> QED
        BY <3>1, <4>1, <4>2, PushedNow DEF ChosenGraph
    <3>2. CASE uri.graph # None
      BY <2>1, <3>2 DEF PushChosen, Stays, ChosenGraph, uri
    <3> QED
      BY <3>1, <3>2
  <2> QED
    BY <2>1, <2>2, <2>3, <2>4
<1>5. ASSUME NEW p \in Panel, NEW d \in BOOLEAN, ListFails(p, d) PROVE To
  <2>1. /\ UNCHANGED <<fx, shown, marked, posts, hasty, ignored, entries, pos>>
        /\ Console' = Console
    BY <1>5, ConsoleLeft DEF ListFails, termVars, pageVars
  <2> QED
    BY <1>0, <1>a, <2>1 DEF uri
<1>6. ASSUME NEW p \in posts, ExecComes(p) PROVE To
  <2>1. /\ UNCHANGED <<fx, shown, marked, hasty, ignored, entries, pos>>
        /\ posts' = posts \ {p}
    BY <1>6, ExecConsole DEF menuVars, userVars, pageVars
  <2> QED
    BY <1>0, <1>a, <2>1 DEF uri
<1>7. ASSUME NEW p \in Panel, NEW g \in Graph, ClickGraph(p, g) PROVE To
  <2>1. /\ UNCHANGED <<fx, shown, posts>> /\ Acts /\ Pushed(At(p, g)) /\ p \in shown
        /\ marked' = IF p = "gremlin" THEN g ELSE marked
    BY <1>7 DEF ClickGraph, termVars
  <2>2. ~hasty /\ AtRest /\ posts' = {}
    BY <2>1, ActsCounted, Rest DEF Waiting
  <2>3. CASE p = "gremlin"
    <3>1. At(p, g) \in Page /\ At(p, g).graph = g
      BY Names DEF Page
    <3>2. uri'.graph = g
      BY <2>1, <3>1, PushedNow
    <3> QED
      BY <2>1, <2>2, <2>3, <3>2
  <2>4. CASE p # "gremlin"
    <3>1. Ends(p)
      BY <2>1, <2>2 DEF AtRest, Ends
    <3>2. OneEnds
      BY <2>2, LoneParts
    <3>3. ~Ends("gremlin")
      BY <1>b, <2>4, <3>1, <3>2 DEF OneEnds
    <3> QED
      BY <1>a, <2>1, <2>2, <3>3
  <2> QED
    BY <2>3, <2>4
<1>8. ASSUME NEW i \in Line, Keyboard(i) PROVE To
  <2>1. /\ UNCHANGED <<fx, shown, marked, ignored, entries, pos>>
        /\ Acts /\ "gremlin" \in shown /\ Prompts(Console)
        /\ \A p \in posts' : p \in posts \/ p.graph = uri.graph
    BY <1>8, KeyGoes DEF menuVars, pageVars
  <2>2. ~hasty /\ AtRest /\ posts = {}
    BY <2>1, ActsCounted, Rest DEF Waiting
  <2>3. Ends("gremlin")
    BY <1>b, <2>1, <2>2 DEF AtRest, Ends
  <2>4. uri.graph = marked
    BY <1>0, <2>1, <2>2, <2>3
  <2>5. uri' = uri
    BY <2>1 DEF uri
  <2> QED
    BY <2>1, <2>2, <2>4, <2>5
<1>9. ASSUME NEW p \in Panel, EffectEnds(p) PROVE To
  <2>1. /\ UNCHANGED <<marked, posts, hasty, ignored, entries, pos>>
        /\ Ends("gremlin")' = Ends("gremlin") /\ Console' = Console
    BY <1>9, <1>b, EffectTypes, ConsoleLeft DEF EffectEnds, termVars, userVars, pageVars
  <2> QED
    BY <1>0, <2>1 DEF uri
<1> HIDE DEF To, Now
<1> QED
  BY <1>1, <1>2, <1>3, <1>4, <1>5, <1>6, <1>7, <1>8, <1>9, Kinds

-----------------------------------------------------------------------------
\* The lists of graphs that will make a console.
Calls == lists[<<"gremlin", TRUE>>] + lists[<<"gremlin", FALSE>>]

\* There is a list under way for the console when their number is not 0.
LEMMA CallsOf ==
  ASSUME NEW ls \in [Panel \X BOOLEAN -> Nat]
  PROVE  /\ ls[<<"gremlin", TRUE>>] \in Nat /\ ls[<<"gremlin", FALSE>>] \in Nat
         /\ (\E d \in BOOLEAN : ls[<<"gremlin", d>>] > 0) <=>
              ls[<<"gremlin", TRUE>>] + ls[<<"gremlin", FALSE>>] # 0
<1>1. \A d \in BOOLEAN : <<"gremlin", d>> \in Panel \X BOOLEAN
  BY Names
<1>2. ls[<<"gremlin", TRUE>>] \in Nat /\ ls[<<"gremlin", FALSE>>] \in Nat
  BY <1>1
<1>3. \A d \in BOOLEAN : d = TRUE \/ d = FALSE
  OBVIOUS
<1>4. (\E d \in BOOLEAN : ls[<<"gremlin", d>>] > 0) <=>
        ls[<<"gremlin", TRUE>>] > 0 \/ ls[<<"gremlin", FALSE>>] > 0
  BY <1>3
<1> DEFINE a == ls[<<"gremlin", TRUE>>]
           b == ls[<<"gremlin", FALSE>>]
<1>5. a \in Nat /\ b \in Nat
  BY <1>2
<1> HIDE DEF a, b
<1>6. a > 0 \/ b > 0 <=> a + b # 0
  BY <1>5
<1>7. (\E d \in BOOLEAN : ls[<<"gremlin", d>>] > 0) <=> a + b # 0
  BY <1>4, <1>6 DEF a, b
<1> QED
  BY <1>2, <1>7 DEF a, b

LEMMA CallsAre ==
  ASSUME TypeOK
  PROVE  Calls \in Nat /\ (Listed("gremlin") <=> Calls # 0)
<1>1. lists \in [Panel \X BOOLEAN -> Nat]
  BY DEF TypeOK
<1>2. lists[<<"gremlin", TRUE>>] \in Nat /\ lists[<<"gremlin", FALSE>>] \in Nat
  BY <1>1, CallsOf
<1>3. (\E d \in BOOLEAN : lists[<<"gremlin", d>>] > 0) <=>
        lists[<<"gremlin", TRUE>>] + lists[<<"gremlin", FALSE>>] # 0
  BY <1>1, CallsOf
<1> QED
  BY <1>2, <1>3 DEF Calls, Listed

\* The list that comes or fails is one less.
LEMMA CallsLess ==
  ASSUME TypeOK, NEW p \in Panel, NEW d \in BOOLEAN, Answered(p, d)
  PROVE  Calls' = IF p = "gremlin" THEN Calls - 1 ELSE Calls
<1>1. lists \in [Panel \X BOOLEAN -> Nat]
  BY DEF TypeOK
<1>2. lists' = [lists EXCEPT ![<<p, d>>] = @ - 1]
  BY DEF Answered
<1>3. \A e \in BOOLEAN : <<"gremlin", e>> \in Panel \X BOOLEAN
  BY Names
<1>4. \A e \in BOOLEAN : lists[<<"gremlin", e>>] \in Nat
  BY <1>1, <1>3
<1>5. \A e \in BOOLEAN :
        lists'[<<"gremlin", e>>] = IF p = "gremlin" /\ d = e
                                   THEN lists[<<"gremlin", e>>] - 1
                                   ELSE lists[<<"gremlin", e>>]
  BY <1>1, <1>2, <1>3
<1>6. (d = TRUE /\ d # FALSE) \/ (d = FALSE /\ d # TRUE)
  OBVIOUS
<1>7. /\ lists[<<"gremlin", TRUE>>] \in Nat /\ lists[<<"gremlin", FALSE>>] \in Nat
      /\ lists'[<<"gremlin", TRUE>>] = IF p = "gremlin" /\ d = TRUE
                                       THEN lists[<<"gremlin", TRUE>>] - 1
                                       ELSE lists[<<"gremlin", TRUE>>]
      /\ lists'[<<"gremlin", FALSE>>] = IF p = "gremlin" /\ d = FALSE
                                        THEN lists[<<"gremlin", FALSE>>] - 1
                                        ELSE lists[<<"gremlin", FALSE>>]
  BY <1>4, <1>5
<1> QED
  BY <1>6, <1>7 DEF Calls

\* Turning to a panel from a page at rest asks once.
LEMMA CallsSlide ==
  ASSUME TypeOK, AtRest, NEW m \in Panel, SlidePanel(m, 1)
  PROVE  Calls' = IF m = "gremlin" THEN 1 ELSE 0
<1>1. lists \in [Panel \X BOOLEAN -> Nat] /\ \A x \in Panel \X BOOLEAN : lists[x] = 0
  BY DEF TypeOK, AtRest
<1>2. PICK e \in BOOLEAN : lists' = [lists EXCEPT ![<<m, e>>] = @ + 1]
  <2>1. 1 \in Nat \ {0}
    OBVIOUS
  <2> QED
    BY <2>1, SlideLists
<1>3. \A f \in BOOLEAN : <<"gremlin", f>> \in Panel \X BOOLEAN
  BY Names
<1>4. \A f \in BOOLEAN :
        lists'[<<"gremlin", f>>] = IF m = "gremlin" /\ e = f THEN 1 ELSE 0
  <2> TAKE f \in BOOLEAN
  <2>1. lists[<<"gremlin", f>>] = 0 /\ lists[<<m, e>>] = 0
    BY <1>1, <1>3
  <2>2. lists'[<<"gremlin", f>>] = IF m = "gremlin" /\ e = f THEN lists[<<m, e>>] + 1
                                   ELSE lists[<<"gremlin", f>>]
    BY <1>1, <1>2, <1>3
  <2> QED
    BY <2>1, <2>2
<1>5. (e = TRUE /\ e # FALSE) \/ (e = FALSE /\ e # TRUE)
  OBVIOUS
<1>6. /\ lists'[<<"gremlin", TRUE>>] = IF m = "gremlin" /\ e = TRUE THEN 1 ELSE 0
      /\ lists'[<<"gremlin", FALSE>>] = IF m = "gremlin" /\ e = FALSE THEN 1 ELSE 0
  BY <1>4
<1> QED
  BY <1>5, <1>6 DEF Calls

\* For a user who waits, every step leaves the console alone on its page.
LEMMA OnceStep ==
  ASSUME TypeOK, BootInv, BareInv, LoneInv, OnceInv, Good(Console), [Next]_vars
  PROVE  OnceInv'
<1> DEFINE To == /\ Calls' <= 1 /\ (Calls' # 0 => ~Prompts(Console'))
                 /\ Single(Console')
           Now == /\ Calls <= 1 /\ (Calls # 0 => ~Prompts(Console))
                  /\ Single(Console)
<1>0. ~hasty /\ Len(pops) <= 1 => Now
  BY CallsAre DEF OnceInv, Calls
<1> SUFFICES ASSUME ~hasty', Len(pops') <= 1 PROVE To
  <2>1. lists' \in [Panel \X BOOLEAN -> Nat]
    BY TypesStep DEF TypeOK
  <2>2. Listed("gremlin")' <=> Calls' # 0
    BY <2>1, CallsOf DEF Calls, Listed
  <2>3. OnceInv' <=> (~hasty' /\ Len(pops') <= 1 =>
          /\ Calls' <= 1
          /\ Listed("gremlin")' => ~Prompts(Console')
          /\ Single(Console'))
    BY DEF OnceInv, Calls
  <2> QED
    BY <2>2, <2>3
<1>a. Calls \in Nat /\ "gremlin" \in Panel /\ "graph" \in Panel /\ "gremlin" # "graph"
  BY CallsAre, Names
<1>b. lists' = lists => Calls' = Calls
  BY DEF Calls
<1>c. AtRest => Calls = 0
  BY <1>a, CallsAre, NoneListed
<1>1. CASE Still
  <2>1. lists' = lists /\ ~hasty /\ Len(pops) <= 1 /\ Console' = Console
    BY <1>1, ConsoleLeft DEF Still
  <2> QED
    BY <1>0, <1>b, <2>1
<1>2. ASSUME NEW m \in Panel, NEW n \in Nat \ {0}, Slides(m, n) PROVE To
  <2>1. /\ SlidePanel(m, 1) /\ ~hasty /\ Len(pops) <= 1 /\ AtRest /\ posts = {}
    BY <1>2, SlideRest DEF Slides
  <2>2. Calls' = IF m = "gremlin" THEN 1 ELSE 0
    BY <2>1, CallsSlide
  <2>3. Single(Console') /\ (m = "gremlin" => ~Prompts(Console'))
    BY <1>0, <2>1, SlideGood
  <2> QED
    BY <2>2, <2>3
<1>3. ASSUME NEW d \in BOOLEAN, GraphListComes(d) PROVE To
  <2>1. Answered("graph", d) /\ UNCHANGED <<hasty, pops>> /\ Console' = Console
    BY <1>3, ConsoleLeft DEF GraphListComes, userVars
  <2>2. Calls' = Calls
    BY <1>a, <2>1, CallsLess
  <2> QED
    BY <1>0, <2>1, <2>2
<1>4. ASSUME NEW d \in BOOLEAN, TerminalListComes(d) PROVE To
  <2>1. Answered("gremlin", d) /\ UNCHANGED <<hasty, pops>>
    BY <1>4 DEF TerminalListComes, userVars
  <2>2. Calls' = Calls - 1 /\ Listed("gremlin")
    BY <1>a, <2>1, CallsLess, ListedLess
  <2>3. Calls = 1 /\ ~Prompts(Console) /\ Single(Console)
    BY <1>0, <1>a, <2>1, <2>2, CallsAre
  <2>4. posts = {}
    BY <1>a, <2>1, <2>2, LoneParts DEF Unmixed
  <2>5. Single(Console')
    BY <1>4, <2>3, <2>4, ListConsole
  <2>6. Calls' = 0
    BY <2>2, <2>3
  <2> QED
    BY <2>5, <2>6
<1>5. ASSUME NEW p \in Panel, NEW d \in BOOLEAN, ListFails(p, d) PROVE To
  <2>1. Answered(p, d) /\ UNCHANGED <<hasty, pops>> /\ Console' = Console
    BY <1>5, ConsoleLeft DEF ListFails, pageVars
  <2>2. Calls' = IF p = "gremlin" THEN Calls - 1 ELSE Calls
    BY <2>1, CallsLess
  <2>3. p = "gremlin" => Calls # 0
    BY <2>1, CallsAre, ListedLess
  <2>4. Calls' <= Calls /\ (Calls' # 0 => Calls # 0)
    BY <1>a, <2>2, <2>3
  <2>5. Calls' \in Int
    BY <1>a, <2>2
  <2> QED
    BY <1>0, <1>a, <2>1, <2>4, <2>5
<1>6. ASSUME NEW p \in posts, ExecComes(p) PROVE To
  <2>1. lists' = lists /\ UNCHANGED <<hasty, pops>>
        /\ (Single(Console) => Single(Console'))
    BY <1>6, ExecConsole DEF menuVars, userVars, pageVars
  <2>2. ~Listed("gremlin")
    BY <1>a, <2>1, LoneParts DEF Unmixed
  <2>3. Calls' = 0
    BY <1>b, <2>1, <2>2, CallsAre
  <2> QED
    BY <1>0, <2>1, <2>3
<1>7. ASSUME NEW p \in Panel, NEW g \in Graph, ClickGraph(p, g) PROVE To
  <2>1. UNCHANGED <<lists, pops>> /\ Acts /\ Console' = Console
    BY <1>7, ConsoleLeft DEF ClickGraph
  <2> QED
    BY <1>0, <1>b, <2>1, ActsCounted
<1>8. ASSUME NEW i \in Line, Keyboard(i) PROVE To
  <2>1. /\ UNCHANGED <<lists, pops>> /\ Acts
        /\ posts = {} /\ Single(Console) => Single(Console')
    BY <1>8, KeyGoes DEF menuVars, pageVars
  <2>2. ~hasty /\ AtRest /\ posts = {}
    BY <2>1, ActsCounted, Rest DEF Waiting
  <2>3. Calls' = 0
    BY <1>b, <1>c, <2>1, <2>2
  <2> QED
    BY <1>0, <2>1, <2>2, <2>3
<1>9. ASSUME NEW p \in Panel, EffectEnds(p) PROVE To
  <2>1. UNCHANGED <<lists, pops, hasty>> /\ Console' = Console
    BY <1>9, ConsoleLeft DEF EffectEnds, userVars, pageVars
  <2> QED
    BY <1>0, <1>b, <2>1
<1> HIDE DEF To, Now
<1> QED
  BY <1>1, <1>2, <1>3, <1>4, <1>5, <1>6, <1>7, <1>8, <1>9, Kinds

-----------------------------------------------------------------------------
\* The inductive invariant of the console, beside that of the panels.
ConsoleInv == /\ Good(Console) /\ BareInv /\ PromptInv /\ LoneInv /\ MarkedInv
              /\ OnceInv

LEMMA ConsoleFirst == Init => ConsoleInv
<1> SUFFICES ASSUME Init PROVE ConsoleInv
  OBVIOUS
<1>1. /\ line = <<>> /\ reader = <<>> /\ posts = {}
      /\ \A x \in Panel \X BOOLEAN : lists[x] = 0
      /\ \A p \in Panel : fx[p] = <<>> /\ shown = {}
  BY DEF Init, TerminalInit
<1>2. Console.line = <<>> /\ Console.reader = <<>> /\ Console.posts = {}
  BY <1>1, ConsoleIs
<1>3. DOMAIN Console.line = {} /\ DOMAIN Console.reader = {}
  BY <1>2
<1>4. Good(Console)
  <2>1. <<>> \in Seq(LineRec) /\ <<>> \in Seq(ReaderRec) /\ {} \in SUBSET Post
    OBVIOUS
  <2>2. Console \in Term
    BY <1>1, <2>1 DEF Console, Term
  <2> QED
    BY <1>2, <1>3, <2>2 DEF Good
<1>5. AtRest
  BY <1>1 DEF AtRest
<1>6. \A p \in Panel : ~Listed(p) /\ ~Ends(p)
  BY <1>1, <1>5, NoneListed DEF Ends
<1>7. ~Prompts(Console) /\ Single(Console)
  BY <1>2, <1>3 DEF Prompts, Single
<1>8. LoneInv
  BY <1>1, <1>6 DEF LoneInv
<1>9. MarkedInv
  BY <1>1, <1>7 DEF MarkedInv
<1>10. OnceInv
  <2>1. lists[<<"gremlin", TRUE>>] = 0 /\ lists[<<"gremlin", FALSE>>] = 0
    BY <1>1, Names
  <2> QED
    BY <1>7, <2>1 DEF OnceInv
<1> QED
  BY <1>1, <1>4, <1>8, <1>9, <1>10 DEF ConsoleInv, BareInv, PromptInv

LEMMA ConsoleStep ==
  ASSUME TypeOK, BootInv, ConsoleInv, [Next]_vars
  PROVE  ConsoleInv'
<1>1. Good(Console) /\ BareInv /\ PromptInv /\ LoneInv /\ MarkedInv /\ OnceInv
  BY DEF ConsoleInv
<1>2. Good(Console)' <=> Good(Console')
  BY DEF Good, LineOK, ReaderOK, PostOK
<1>3. Good(Console') /\ BareInv'
  BY <1>1, GoodStep
<1>4. PromptInv' /\ LoneInv' /\ MarkedInv' /\ OnceInv'
  BY <1>1, PromptStep, LoneStep, MarkedStep, OnceStep
<1> QED
  BY <1>2, <1>3, <1>4 DEF ConsoleInv

\* The invariant says what ConsoleAnswers says.
LEMMA AnswersSeen == TypeOK /\ ConsoleInv => ConsoleAnswers
<1> SUFFICES ASSUME TypeOK, ConsoleInv
             PROVE  TerminalTypeOK /\ PromptAlive /\ CommandRunsOnce
  BY DEF ConsoleAnswers
<1>1. /\ Console \in Term
      /\ \A i \in DOMAIN line : LineOK(Console, i)
      /\ \A r \in DOMAIN reader : ReaderOK(Console, r)
      /\ \A p \in posts : PostOK(Console, p)
  BY ConsoleIs DEF ConsoleInv, Good
<1>2. /\ DOMAIN line = Line /\ DOMAIN reader = Reader
      /\ \A i \in Line : line[i] \in LineRec
      /\ \A r \in Reader : reader[r] \in ReaderRec
  BY <1>1, TermParts, ConsoleIs DEF Line, Reader
<1>3. TerminalTypeOK
  <2>1. \A i \in Line : /\ line[i].text \in Text
                        /\ \A k \in DOMAIN line[i].bound : line[i].bound[k] \in Reader
    BY <1>1, <1>2, ConsoleIs DEF LineOK, LineRec
  <2>2. \A r \in Reader : /\ reader[r].active \subseteq Line /\ reader[r].active # {}
                          /\ reader[r].ptr \in 0 .. Len(reader[r].history)
    <3> TAKE r \in Reader
    <3>1. reader[r].ptr \in Nat /\ reader[r].history \in Seq(Text)
      BY <1>2 DEF ReaderRec
    <3>2. reader[r].active \subseteq Line /\ reader[r].active # {}
          /\ reader[r].ptr <= Len(reader[r].history)
      BY <1>1, <1>2, ConsoleIs DEF ReaderOK
    <3> QED
      BY <3>1, <3>2
  <2>3. \A p \in posts : p.reader \in Reader /\ p.line \in Line
    BY <1>1, <1>2, ConsoleIs DEF PostOK
  <2> QED
    BY <2>1, <2>2, <2>3 DEF TerminalTypeOK
<1>4. PromptAlive
  <2> SUFFICES ASSUME reader # <<>>, ~failed, \A d \in BOOLEAN : lists[<<"gremlin", d>>] = 0
               PROVE  /\ \E i \in Line : line[i].active
                      /\ \A i \in Line : line[i].active => line[i].bound # <<>>
    BY DEF PromptAlive
  <2>1. ~Listed("gremlin")
    <3>1. \A d \in BOOLEAN : ~(lists[<<"gremlin", d>>] > 0)
      <4> TAKE d \in BOOLEAN
      <4>1. lists[<<"gremlin", d>>] = 0
        OBVIOUS
      <4> QED
        BY <4>1
    <3> QED
      BY <3>1 DEF Listed
  <2>2. Prompts(Console)
    BY <2>1 DEF ConsoleInv, PromptInv
  <2> QED
    BY <1>1, <1>2, <2>2, ConsoleIs DEF Prompts, LineOK
<1>5. CommandRunsOnce
  <2> SUFFICES ASSUME ~hasty, Len(pops) <= 1, NEW i \in Line
               PROVE  /\ line[i].asked - line[i].failed <= 1
                      /\ line[i].got \in {<<>>, <<i>>}
    BY DEF CommandRunsOnce
  <2>1. Single(Console)
    BY DEF ConsoleInv, OnceInv
  <2>2. i \in DOMAIN Console.line /\ line[i].asked \in Nat /\ line[i].failed \in Nat
    BY <1>2, ConsoleIs DEF LineRec
  <2>3. Sole(Console, i) \/ Settled(line[i], i)
    BY <2>1, <2>2, ConsoleIs DEF Single
  <2>4. CASE Sole(Console, i)
    <3>1. line[i].got = <<>> /\ line[i].asked \in {line[i].failed, line[i].failed + 1}
      <4>1. line[i].got = <<>>
            /\ line[i].asked = line[i].failed + (IF posts = {} THEN 0 ELSE 1)
        BY <2>4, ConsoleIs DEF Sole
      <4> QED
        BY <2>2, <4>1
    <3> QED
      BY <2>2, <3>1
  <2>5. CASE Settled(line[i], i)
    BY <2>2, <2>5 DEF Settled
  <2> QED
    BY <2>3, <2>4, <2>5
<1> QED
  BY <1>3, <1>4, <1>5

(***************************************************************************)
(* However clicks, answers and lists overlap, a console that has come has a*)
(* line to type in with its key handlers, once no list is under way; and for*)
(* a user who waits a command is posted once and answered under its own line*)
(* (newPromptLine, addInputLine, processInput, initTerminal).              *)
(***************************************************************************)
THEOREM ConsoleKeeps == Spec => []ConsoleAnswers
<1>1. Init => TypeOK /\ PanelInv /\ ConsoleInv
  BY TypesFirst, PanelFirst, ConsoleFirst
<1>2. TypeOK /\ PanelInv /\ ConsoleInv /\ [Next]_vars =>
        TypeOK' /\ PanelInv' /\ ConsoleInv'
  BY TypesStep, PanelStep, ConsoleStep DEF PanelInv
<1>3. TypeOK /\ ConsoleInv => ConsoleAnswers
  BY AnswersSeen
<1> QED
  BY <1>1, <1>2, <1>3, PTL DEF Spec

(***************************************************************************)
(* For a user who waits, a command goes to the graph that the menu of the  *)
(* console marks, though it is sent with the graph of the address          *)
(* (slideGremlinPanel, inputHandler).                                      *)
(***************************************************************************)
THEOREM CommandsMarked == Spec => []CommandOnMarkedGraph
<1>1. Init => TypeOK /\ PanelInv /\ ConsoleInv
  BY TypesFirst, PanelFirst, ConsoleFirst
<1>2. TypeOK /\ PanelInv /\ ConsoleInv /\ [Next]_vars =>
        TypeOK' /\ PanelInv' /\ ConsoleInv'
  BY TypesStep, PanelStep, ConsoleStep DEF PanelInv
<1>3. ConsoleInv => CommandOnMarkedGraph
  BY DEF ConsoleInv, MarkedInv, CommandOnMarkedGraph
<1> QED
  BY <1>1, <1>2, <1>3, PTL DEF Spec
=============================================================================
