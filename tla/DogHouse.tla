------------------------------ MODULE DogHouse ------------------------------
(***************************************************************************)
(* The main page of the Dog House: the address of the page and its history *)
(* (history.js, rexster.js), the main menu (main-menu.js) with the effects *)
(* that slide its panels, and the Gremlin console in one of them.          *)
(*                                                                         *)
(* A click, a key, an event of the browser's history, a reply of the       *)
(* server and the end of an effect are a step each, in the order in which  *)
(* the browser happens to deliver them.  The other panel's content is      *)
(* GraphPanel; here an address is a menu and a graph.                      *)
(***************************************************************************)
EXTENDS Terminal

CONSTANTS
  Graph,         \* the graphs of the server
  First,         \* the first of its list
  None,
  Opened,        \* the addresses that the page may be opened at
  LoadPop,       \* the browser fires popstate when the page has loaded
  MaxActs        \* what the user does, at most (bound)

Panel == {"graph", "gremlin"}
Uri == [menu : Panel, graph : Graph \cup {None}]
\* Browsers without pushState, with it, and with history.state as well.
Browser == {"old", "push", "state"}
NoMenu == [menu |-> None, graph |-> None]
At(menu, g) == [menu |-> menu, graph |-> g]

ASSUME DogHouseAssumption ==
  /\ First \in Graph /\ None \notin Graph \cup Panel
  /\ Opened \subseteq Uri \cup {NoMenu}
  /\ LoadPop \in BOOLEAN
  /\ MaxActs \in Nat

VARIABLES
  booted, browser,     \* domReady has come; what the browser can do
  entries, pos,        \* the history of the tab and the entry it is at
  pops,                \* the popstate handlers that are bound, in order
  checked,             \* the button of the menu that is pressed
  currentPanel,
  lists,               \* calls of getGraphs under way, by panel and different
  fx, shown,           \* the effects queued for each panel, and what is seen
  marked,              \* the graph marked in the menu of the console
  acts,                \* how much the user has done so far
  hasty, failed,       \* it happened that: the user did not wait; a list did not come
  ignored              \* the last step back or forward changed the address only

pageVars == <<booted, browser, entries, pos, pops>>
menuVars == <<checked, currentPanel, lists, fx, shown, marked>>
termVars == <<line, reader, posts>>
userVars == <<acts, hasty, failed, ignored>>
vars == <<pageVars, menuVars, termVars, userVars>>

native == browser # "old"    \* has("native-history-state")

TypeOK ==
  /\ booted \in BOOLEAN /\ browser \in Browser
  /\ entries \in Seq(Uri \cup {NoMenu}) /\ pos \in DOMAIN entries
  /\ pops \in Seq([popped : BOOLEAN, initial : Uri \cup {NoMenu}])
  /\ checked \in Panel /\ currentPanel \in Panel \cup {None}
  /\ lists \in [Panel \X BOOLEAN -> Nat]
  /\ fx \in [Panel -> Seq({"hide", "show"})]
  /\ shown \subseteq Panel
  /\ marked \in Graph \cup {None}
  /\ acts \in 0 .. MaxActs
  /\ hasty \in BOOLEAN /\ failed \in BOOLEAN /\ ignored \in BOOLEAN

Init ==
  /\ booted = FALSE /\ browser \in Browser
  /\ \E u \in Opened : entries = <<u>>
  /\ ~native => entries = <<NoMenu>>
  /\ pos = 1 /\ pops = <<>>
  /\ checked = "graph" /\ currentPanel = None
  /\ lists = [x \in Panel \X BOOLEAN |-> 0]
  /\ fx = [p \in Panel |-> <<>>] /\ shown = {}
  /\ marked = None
  /\ acts = 0 /\ hasty = FALSE /\ failed = FALSE
  /\ ignored = FALSE
  /\ TerminalInit

(***************************************************************************)
(* history.js.  Without pushState the page keeps the one address itself.   *)
(***************************************************************************)
uri == entries[pos]

Copies(x, n) == [i \in 1 .. n |-> x]

\* historyPush, n times in a row: what was ahead is dropped.
Push(es, at, u, n) ==
  IF native THEN SubSeq(es, 1, at) \o Copies(u, n) ELSE <<u>>

Pushed(u) == entries' = Push(entries, pos, u, 1) /\ pos' = Len(entries')

Stays == UNCHANGED <<entries, pos>>

(***************************************************************************)
(* main-menu.js: slideGraphPanel and slideGremlinPanel, n times in a row.  *)
(* Whether the panel is another one is settled when the call is made; the  *)
(* current panel is set when the list of graphs has come.                  *)
(***************************************************************************)
IsPanelDifferent(panel) == currentPanel = None \/ currentPanel # panel

HideCurrent(panel, n) ==
  fx' = IF currentPanel # None /\ IsPanelDifferent(panel)
        THEN [fx EXCEPT ![currentPanel] = @ \o Copies("hide", n)]
        ELSE fx

SlidePanel(panel, n) ==
  /\ HideCurrent(panel, n)
  /\ lists' = [lists EXCEPT ![<<panel, IsPanelDifferent(panel)>>] = @ + n]
  /\ IF panel = "gremlin"
     THEN line' = RemoveLines(line) /\ UNCHANGED <<reader, posts>>
     ELSE UNCHANGED termVars
  /\ UNCHANGED <<currentPanel, shown, marked>>

\* initMainMenu: without a graph in the address its button is clicked,
\* which pushes the address of the menu.
RestoreApplication(u, es, at, n) ==
  LET new == IF u.graph = None THEN Push(es, at, At(u.menu, None), n) ELSE es
  IN  /\ entries' = new
      /\ pos' = IF u.graph = None THEN Len(new) ELSE at
      /\ checked' = u.menu
      /\ SlidePanel(u.menu, n)

Boot ==
  /\ ~booted
  /\ booted' = TRUE
  /\ IF uri.menu = None
     THEN LET es == Push(entries, pos, At("graph", None), 1)
          IN  RestoreApplication(At("graph", None), es, Len(es), 1)
     ELSE RestoreApplication(uri, entries, pos, 1)
  /\ UNCHANGED <<browser, pops, userVars>>

(***************************************************************************)
(* The callback of the menu: the panel is shown if it was another one.     *)
(***************************************************************************)
\* Mutant: the current panel is only set the first time.
ShowPanel_First(panel, different) ==
  /\ currentPanel' = IF currentPanel = None THEN panel ELSE currentPanel
  /\ fx' = IF different THEN [fx EXCEPT ![panel] = Append(@, "show")] ELSE fx

ShowPanel(panel, different) ==
  IF different
  THEN /\ currentPanel' = panel
       /\ fx' = [fx EXCEPT ![panel] = Append(@, "show")]
  ELSE UNCHANGED <<currentPanel, fx>>

Answered(panel, different) ==
  /\ lists[<<panel, different>>] > 0
  /\ lists' = [lists EXCEPT ![<<panel, different>>] = @ - 1]

\* The address may by now be that of the other menu: its graph is taken.
ChosenGraph == IF uri.graph = None THEN First ELSE uri.graph

\* Mutant: the first graph is marked, its address is not pushed.
PushChosen_Silently(panel) == Stays

PushChosen(panel) ==
  IF uri.graph = None THEN Pushed(At(panel, First)) ELSE Stays

GraphListComes(different) ==
  /\ Answered("graph", different)
  /\ PushChosen("graph")
  /\ ShowPanel("graph", different)
  /\ UNCHANGED <<booted, browser, pops, checked, shown, marked, termVars, userVars>>

TerminalListComes(different) ==
  /\ Answered("gremlin", different)
  /\ PushChosen("gremlin")
  /\ marked' = ChosenGraph
  /\ ShowPanel("gremlin", different)
  /\ Becomes(MakeReader(Console))
  /\ UNCHANGED <<booted, browser, pops, checked, shown, userVars>>

\* A message for the graph panel, nothing for the console.
ListFails(panel, different) ==
  /\ Answered(panel, different)
  /\ failed' = TRUE
  /\ UNCHANGED <<pageVars, checked, currentPanel, fx, shown, marked, termVars,
                 acts, hasty, ignored>>

(***************************************************************************)
(* The effects of a panel run one after the other, in the order of their   *)
(* calls (queue, delay and dequeue of jQuery); the delay before a panel is *)
(* shown is part of the time that its effect takes.                        *)
(***************************************************************************)
EffectEnds(panel) ==
  /\ fx[panel] # <<>>
  /\ fx' = [fx EXCEPT ![panel] = Tail(@)]
  /\ shown' = IF Head(fx[panel]) = "show" THEN shown \cup {panel}
                                          ELSE shown \ {panel}
  /\ UNCHANGED <<pageVars, checked, currentPanel, lists, marked, termVars, userVars>>

(***************************************************************************)
(* The user.                                                               *)
(***************************************************************************)
Waiting == posts # {} \/ \E x \in Panel \X BOOLEAN : lists[x] > 0
Moving == \E p \in Panel : fx[p] # <<>>

Acts ==
  /\ booted /\ acts < MaxActs
  /\ acts' = acts + 1
  /\ hasty' = (hasty \/ Waiting \/ Moving)
  /\ UNCHANGED failed

ClickMenu(panel) ==
  /\ Acts /\ UNCHANGED ignored
  /\ checked' = panel
  /\ Pushed(At(panel, None))
  /\ SlidePanel(panel, 1)
  /\ UNCHANGED <<booted, browser, pops>>

\* A graph in the menu of a panel.
ClickGraph(panel, g) ==
  /\ Acts /\ UNCHANGED ignored /\ panel \in shown
  /\ marked' = IF panel = "gremlin" THEN g ELSE marked
  /\ Pushed(At(panel, g))
  /\ UNCHANGED <<booted, browser, pops, checked, currentPanel, lists, fx, shown,
                 termVars>>

Keyboard(i) ==
  /\ Acts /\ UNCHANGED ignored /\ "gremlin" \in shown
  /\ \/ \E t \in Command \cup {Blank, line[i].text} : PressEnter(i, t, uri.graph)
     \/ \E d \in {"previous", "next"} : PressArrow(i, d)
  /\ UNCHANGED <<pageVars, menuVars>>

ExecComes(p) ==
  /\ ExecSucceeds(p) \/ ExecFails(p)
  /\ UNCHANGED <<pageVars, menuVars, userVars>>

(***************************************************************************)
(* rexster.js: each popstate binds one more handler.  The browser calls    *)
(* those of the list that it had when the event came, and the list is      *)
(* jQuery's only from the second event on.  A handler ignores its first    *)
(* event at the address it was bound at, in a browser without the state.   *)
(***************************************************************************)
PopHandler(u) == [popped |-> browser = "state", initial |-> u]

InitialPop(h, u) == ~h.popped /\ h.initial = u

Handlers(u) == Append(pops, PopHandler(u))

\* The handlers that restore the page, at the address u.
Restoring(u) ==
  IF pops = <<>> THEN {}
  ELSE {i \in DOMAIN Handlers(u) : ~InitialPop(Handlers(u)[i], u)}

PopState(to) ==
  LET u == entries[to]
      n == Cardinality(Restoring(u))
  IN  /\ pops' = [i \in DOMAIN Handlers(u) |->
                    [Handlers(u)[i] EXCEPT !.popped = @ \/ pops # <<>>]]
      /\ IF n = 0 \/ u.menu = None
         THEN /\ pos' = to
              /\ checked' = IF n = 0 THEN checked ELSE "graph"
              /\ UNCHANGED <<entries, currentPanel, lists, fx, shown, marked,
                             termVars>>
         ELSE RestoreApplication(u, entries, to, n)

GoTo(to) ==
  /\ Acts /\ native /\ to # pos
  /\ ignored' = (Restoring(entries[to]) = {} \/ entries[to].menu = None)
  /\ PopState(to)
  /\ UNCHANGED <<booted, browser>>

\* The event that some browsers fire when the page has loaded.
PageLoads ==
  /\ LoadPop /\ booted /\ native /\ pops = <<>> /\ acts = 0
  /\ PopState(pos)
  /\ UNCHANGED <<booted, browser, userVars>>

Replies ==
  \/ \E d \in BOOLEAN : GraphListComes(d) \/ TerminalListComes(d)
  \/ \E p \in Panel, d \in BOOLEAN : ListFails(p, d)
  \/ \E p \in posts : ExecComes(p)

User ==
  \/ \E p \in Panel : ClickMenu(p)
  \/ \E p \in Panel, g \in Graph : ClickGraph(p, g)
  \/ \E i \in Line : Keyboard(i)
  \/ \E to \in DOMAIN entries : GoTo(to)

Next == Boot \/ PageLoads \/ Replies \/ User \/ \E p \in Panel : EffectEnds(p)

Spec == Init /\ [][Next]_vars

-----------------------------------------------------------------------------
\* Nothing is under way.
Quiet == booted /\ ~Waiting /\ ~Moving

(***************************************************************************)
(* A user who waits for the page sees the panel of the address, and only   *)
(* that, under its button in the menu, after any number of clicks and of   *)
(* steps back: the panel that was hidden was the current one, whatever     *)
(* list came when (slideGraphPanel, slideGremlinPanel, restoreApplication).*)
(***************************************************************************)
PanelFollowsAddress ==
  Quiet /\ ~hasty /\ ~failed /\ ~ignored =>
    shown = {uri.menu} /\ checked = uri.menu

(***************************************************************************)
(* A user who does not wait may see a panel too many, or that of the other *)
(* button, but never an empty page, as long as the lists come: a panel is  *)
(* hidden only for one whose list is under way, though the two settle      *)
(* which panel is the current one at different times.                      *)
(***************************************************************************)
SomePanel == Quiet /\ ~failed => shown # {}

(***************************************************************************)
(* However clicks, answers and lists overlap, and though the lines of a    *)
(* console are taken away while its answers are under way, a console that  *)
(* has come has a line to type in, and a line that can be typed in has its *)
(* key handlers (newPromptLine, addInputLine).                             *)
(***************************************************************************)
PromptAlive ==
  reader # <<>> /\ ~failed /\ (\A d \in BOOLEAN : lists[<<"gremlin", d>>] = 0) =>
    /\ \E i \in Line : line[i].active
    /\ \A i \in Line : line[i].active => line[i].bound # <<>>

(***************************************************************************)
(* For a user who waits, a command is posted once and answered under its   *)
(* own line, also when the menu was clicked again or a call failed before: *)
(* no line keeps the handlers of two consoles, and an answer finds the     *)
(* line it was entered in.                                                 *)
(***************************************************************************)
CommandRunsOnce ==
  ~hasty /\ Len(pops) <= 1 =>
    \A i \in Line : /\ line[i].asked - line[i].failed <= 1
                    /\ line[i].got \in {<<>>, <<i>>}

(***************************************************************************)
(* For a user who waits, a command goes to the graph that the menu of the  *)
(* console marks, though it is sent with the graph of the address.         *)
(***************************************************************************)
CommandOnMarkedGraph ==
  ~hasty /\ ~ignored => \A p \in posts : p.graph = marked

(***************************************************************************)
(* The two together, with the types: whichever of the user and the lists   *)
(* is faster, the page is never empty, and with a user who waits it is the *)
(* one of the address.                                                     *)
(***************************************************************************)
PanelsInStep == TypeOK /\ PanelFollowsAddress /\ SomePanel

(***************************************************************************)
(* The console goes on answering, each command once and in its own place   *)
(* (initTerminal, processInput, the callback of the post to exec).         *)
(***************************************************************************)
ConsoleAnswers == TerminalTypeOK /\ PromptAlive /\ CommandRunsOnce
=============================================================================
