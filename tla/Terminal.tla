------------------------------ MODULE Terminal ------------------------------
(***************************************************************************)
(* The Gremlin console of the Dog House (terminal.js).  Every call of      *)
(* initTerminal makes a ReadLine when the list of graphs comes; a ReadLine *)
(* adds a line to the page and binds its key handlers, posts what is       *)
(* entered, and adds the next line when the answer is there.               *)
(*                                                                         *)
(* A handler of the page is one step: the page has one thread.  A line is  *)
(* enabled exactly while it has the class "active".  The line and the      *)
(* ReadLine are numbered in the order in which they are made; the handlers *)
(* of a line are its ReadLines in the order of their bind.  Which line has *)
(* the focus, the spinner, and scopeHistory, which nothing reads, are left *)
(* out.                                                                    *)
(***************************************************************************)
EXTENDS Naturals, Sequences, FiniteSets

CONSTANTS
  Command,    \* what the user enters
  Blank,      \* an empty line
  Undefined   \* what a property that is not there gives

VARIABLES
  line,       \* the lines of the console
  reader,     \* the ReadLine objects
  posts       \* the calls of /doghouse/exec that are under way

Text == Command \cup {Blank, Undefined}
Line == 1 .. Len(line)
Reader == 1 .. Len(reader)

TerminalTypeOK ==
  /\ \A i \in Line :
       /\ line[i].text \in Text
       /\ \A k \in DOMAIN line[i].bound : line[i].bound[k] \in Reader
  /\ \A r \in Reader :
       /\ reader[r].active \subseteq Line /\ reader[r].active # {}
       /\ reader[r].ptr \in 0 .. Len(reader[r].history)
  /\ \A p \in posts : p.reader \in Reader /\ p.line \in Line

NewLine == [active |-> TRUE, bound |-> <<>>, text |-> Blank,
            asked |-> 0, failed |-> 0, got |-> <<>>]
NewReader == [active |-> {}, history |-> <<>>, ptr |-> 0]

\* The console is handled as a record, for the handlers that run in turn.
Console == [line |-> line, reader |-> reader, posts |-> posts]

Becomes(c) == line' = c.line /\ reader' = c.reader /\ posts' = c.posts

TerminalInit == line = <<>> /\ reader = <<>> /\ posts = {}

(***************************************************************************)
(* addInputLine: the key handlers of the ReadLine are bound to every       *)
(* active line of the page, not only to the one that is added.             *)
(***************************************************************************)
ActiveLines(ls) == {i \in DOMAIN ls : ls[i].active}

AddInputLine(c, r) ==
  LET ls == Append(c.line, NewLine)
      on == ActiveLines(ls)
  IN  [c EXCEPT
        !.line = [i \in DOMAIN ls |->
                    IF i \in on THEN [ls[i] EXCEPT !.bound = Append(@, r)]
                    ELSE ls[i]],
        !.reader[r].active = on]

\* The lines are disabled that the ReadLine has activated.
Disabled(c, r) ==
  [c EXCEPT !.line = [i \in DOMAIN @ |->
     IF i \in c.reader[r].active THEN [@[i] EXCEPT !.active = FALSE] ELSE @[i]]]

\* Mutant: an answer ends the line and adds none.
NewPromptLine_Last(c, r) == Disabled(c, r)

NewPromptLine(c, r) == AddInputLine(Disabled(c, r), r)

\* The lines are taken off the page, and their handlers with them.
RemoveLines(ls) ==
  [i \in DOMAIN ls |-> [ls[i] EXCEPT !.active = FALSE, !.bound = <<>>]]

MakeReader(c) ==
  AddInputLine([c EXCEPT !.reader = Append(@, NewReader)], Len(c.reader) + 1)

(***************************************************************************)
(* processInput and inputHandler: what was entered is posted, for the      *)
(* graph that the address of the page names at that time.                  *)
(***************************************************************************)
ProcessInput(c, r, i, g) ==
  IF c.line[i].text = Blank
  THEN NewPromptLine(c, r)
  ELSE [c EXCEPT
         !.posts = @ \cup {[reader |-> r, line |-> i, text |-> c.line[i].text,
                            graph |-> g, nth |-> c.line[i].asked + 1]},
         !.line[i].asked = @ + 1]

\* The response is put under every line that the ReadLine has activated.
InsertResponse(c, p) ==
  [c EXCEPT !.line = [i \in DOMAIN c.line |->
     IF i \in c.reader[p.reader].active
     THEN [c.line[i] EXCEPT !.got = Append(@, p.line)] ELSE c.line[i]]]

SaveToHistory(c, p) ==
  [c EXCEPT !.reader[p.reader].history = Append(@, p.text),
            !.reader[p.reader].ptr = Len(c.reader[p.reader].history) + 1]

ExecSucceeds(p) ==
  /\ p \in posts
  /\ Becomes(NewPromptLine(
       SaveToHistory(InsertResponse([Console EXCEPT !.posts = @ \ {p}], p), p),
       p.reader))

\* There is no handler for an error: the line stays as it is.
ExecFails(p) ==
  /\ p \in posts
  /\ posts' = posts \ {p}
  /\ line' = [line EXCEPT ![p.line].failed = @ + 1]
  /\ UNCHANGED reader

(***************************************************************************)
(* The arrow keys: getCommand and adjustHistoryPointer.  The pointer is    *)
(* the index of the code, from 0.                                          *)
(***************************************************************************)
AdjustHistoryPointer(rd, direction) ==
  IF direction = "previous"
  THEN [rd EXCEPT !.ptr = IF @ >= 1 THEN @ - 1 ELSE @]
  ELSE [rd EXCEPT !.ptr = IF @ + 1 < Len(rd.history) THEN @ + 1 ELSE @]

CommandAt(rd) ==
  IF rd.ptr < Len(rd.history) THEN rd.history[rd.ptr + 1] ELSE Undefined

FirstOf(lines) == CHOOSE i \in lines : \A j \in lines : i <= j

GetCommand(c, r, direction) ==
  IF c.reader[r].history = <<>> THEN c
  ELSE LET rd == AdjustHistoryPointer(c.reader[r], direction)
       IN  [c EXCEPT !.reader[r] = rd,
                     !.line[FirstOf(rd.active)].text = CommandAt(rd)]

(***************************************************************************)
(* The keydown of a line calls the handlers that are bound to it when the  *)
(* key is pressed, each in the state that those before have left.          *)
(***************************************************************************)
KeyHandler(c, r, i, key, g) ==
  IF key = "enter" THEN ProcessInput(c, r, i, g) ELSE GetCommand(c, r, key)

Keydown(c, i, key, g) ==
  LET bound == c.line[i].bound
      after[k \in 0 .. Len(bound)] ==
        IF k = 0 THEN c ELSE KeyHandler(after[k - 1], bound[k], i, key, g)
  IN  after[Len(bound)]

\* The user has typed t, or left what an arrow key put there.
PressEnter(i, t, g) ==
  /\ line[i].active
  /\ Becomes(Keydown([Console EXCEPT !.line[i].text = t], i, "enter", g))

PressArrow(i, direction) ==
  /\ line[i].active
  /\ Becomes(Keydown(Console, i, direction, Undefined))
=============================================================================
