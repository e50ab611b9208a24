--------------------------- MODULE RequireLoader ---------------------------
(***************************************************************************)
(* The loader that starts the pages of the Dog House: RequireJS with       *)
(* jQuery in one file (require-jquery.js), its plugins order.js and        *)
(* domReady.js, and the main script of the page (rexster.js).              *)
(*                                                                         *)
(* c is the one context of the loader with the queue of definitions that   *)
(* it shares with the page.  A function of the loader is an operator from  *)
(* one context to the next.  The functions call one another: c.calls has,  *)
(* in the midst of an event, the calls that are still to be made, the next *)
(* one first, and Run makes them.  An error that is thrown (req.onError)   *)
(* drops them, and the event ends with what was done so far.               *)
(*                                                                         *)
(* Left out, as no page uses them: more than one context, packages,        *)
(* priority, the text of plugins, exports and the names of CommonJS,       *)
(* catchError, web workers, errors thrown by the modules themselves.       *)
(***************************************************************************)
EXTENDS Naturals, SequencesExt

CONSTANTS
  Module,        \* the names of the modules
  jquery, order, domReady,
  ui,            \* the module that waits for the ready event of jQuery
  DepsOptions,   \* the graphs of modules that may be on the server
  Named, Plain,  \* modules that name themselves, that define nothing
  Loaders,       \* kinds of browser: "async", "interactive", "cache"
  MaxRunning     \* scripts that have run and whose events are to come (bound)

(***************************************************************************)
(* The managers: a module, a resource order!m, the stand-in for such a     *)
(* resource while the plugin is not there, a require call of the plugin    *)
(* for m, and the require call of the page.  A resource is asked for once. *)
(***************************************************************************)
M(m) == <<"module", m>>
Ordered(m) == <<"order!", m>>
StandIn(m) == <<"placeholder", m>>
LoaderOf(m) == <<"require", m>>
Page == <<"page", order>>

Id == {"module", "order!", "placeholder", "require"} \X Module \cup {Page}

ASSUME LoaderAssumption ==
  /\ {jquery, order, domReady, ui} \subseteq Module
  /\ DepsOptions \subseteq [{M(m) : m \in Module} \cup {Page} -> Seq(Id)]
  /\ Named \cup Plain \subseteq Module /\ Named \cap Plain = {}
  /\ \A d \in DepsOptions, m \in Plain \cup {jquery} : d[M(m)] = <<>>
  /\ MaxRunning \in Nat
  /\ Loaders \subseteq {"async", "interactive", "cache"}

VARIABLES
  deps,       \* what each module and the page depend on
  browser,
  c,          \* the context of the loader
  script,     \* the script elements: none, fetching, fetched, running, done
  caching,    \* the prefetch of order.js, by module
  inOrder,    \* the scripts that the browser runs in the order of their insertion
  html,       \* how many of the scripts of the page have run after the first
  timeout0,   \* the first timer is still to come
  doc         \* document.readyState

vars == <<deps, browser, c, script, caching, inOrder, html, timeout0, doc>>

NewManager == [pending |-> {}, listeners |-> <<>>, depArray |-> <<>>,
               loading |-> FALSE, isDone |-> FALSE]

NewContext ==
  [globalQueue |-> <<<<"named", jquery>>>>, defQueue |-> <<>>,
   defined |-> {}, notLoaded |-> {}, loaded |-> {}, specified |-> {},
   waiting |-> {}, waitAry |-> <<>>, paused |-> <<>>, urlFetched |-> {},
   scriptCount |-> 0, requireWait |-> TRUE, resumeDepth |-> 0,
   checkTimer |-> FALSE, expired |-> FALSE, checkLoadedDepth |-> 0, traced |-> <<>>,
   manager |-> [id \in Id |-> NewManager],
   jQuery |-> FALSE, incremented |-> FALSE, readyWait |-> 1,
   bound |-> FALSE, isReady |-> FALSE, readyFired |-> FALSE,
   order |-> <<>>, skipAsync |-> {}, attach |-> <<>>, prefetch |-> {},
   ran |-> {}, odd |-> {}, domLoaded |-> FALSE, app |-> "none",
   calls |-> <<>>, errors |-> {}]

\* req.onError
Throw(x, e) == [x EXCEPT !.calls = <<>>, !.traced = <<>>, !.errors = @ \cup {e}]

\* These calls, a name with its arguments each, come before those still to come.
Do(x, calls) == [x EXCEPT !.calls = calls \o @]

(***************************************************************************)
(* The hold on the ready event of jQuery.                                  *)
(***************************************************************************)
HoldReady(x) == [x EXCEPT !.readyWait = @ + 1, !.incremented = TRUE]

\* jQuery.ready(true)
ReleaseReady(x) ==
  LET y == [x EXCEPT !.readyWait = @ - 1, !.incremented = FALSE]
  IN  IF y.readyWait = 0 THEN [y EXCEPT !.isReady = TRUE, !.readyFired = TRUE] ELSE y

\* jQuery.ready, from the event of the document.
JQueryReady(x) ==
  IF x.isReady \/ ~x.bound THEN x
  ELSE [x EXCEPT !.isReady = TRUE, !.readyWait = @ - 1,
                 !.readyFired = @ \/ x.readyWait = 1]

ResourcesReady(x) == IF x.incremented THEN ReleaseReady(x) ELSE x

CheckReadyState(x) == IF x.waiting = {} THEN ResourcesReady(x) ELSE x

CheckDone(x) == CheckReadyState([x EXCEPT !.checkLoadedDepth = 0])

(***************************************************************************)
(* getManager, queueDependency, addWait.                                   *)
(***************************************************************************)
AddWait(x, id) ==
  IF id \in x.waiting THEN x
  ELSE [x EXCEPT !.waiting = @ \cup {id}, !.waitAry = Append(@, id)]

Queued(x, id) ==
  IF id \in x.specified THEN x
  ELSE AddWait([x EXCEPT !.specified = @ \cup {id}, !.notLoaded = @ \cup {id},
                         !.paused = Append(@, id)], id)

AddListener(x, id, l) == [x EXCEPT !.manager[id].listeners = Append(@, l)]

\* The listener of a manager, for its dependency on d.
Arg(id, d) == [kind |-> "arg", to |-> id, dep |-> d]

\* Without the plugin the stand-in listens to the resource that the plugin
\* will make.
DependOn(x, id, d) ==
  IF d[1] = "order!" /\ M(order) \notin x.defined
  THEN AddListener(
         AddListener([Queued(x, M(order)) EXCEPT !.specified = @ \cup {StandIn(d[2])}],
                     M(order), [kind |-> "plugin", to |-> StandIn(d[2]), dep |-> d]),
         StandIn(d[2]), Arg(id, d))
  ELSE AddListener(Queued(x, d), d, Arg(id, d))

\* req.load
Load(x, m) ==
  LET y == [x EXCEPT !.scriptCount = @ + 1, !.attach = Append(@, m)]
  IN  IF y.jQuery /\ ~y.incremented THEN HoldReady(y) ELSE y

(***************************************************************************)
(* takeGlobalQueue: what the page has defined goes before the last entry   *)
(* of the context's queue.                                                 *)
(***************************************************************************)
TakeGlobalQueue(x) ==
  LET n == Len(x.defQueue)
      at == IF n = 0 THEN 0 ELSE n - 1
  IN  [x EXCEPT !.globalQueue = <<>>,
         !.defQueue = SubSeq(@, 1, at) \o x.globalQueue \o SubSeq(@, at + 1, n)]

\* Mutant: a manager runs as soon as one of its dependencies is there.
ArgCallback_First(x, id, d) ==
  IF d \notin x.manager[id].pending THEN x
  ELSE LET y == [x EXCEPT !.manager[id].pending = @ \ {d}]
       IN  IF id \in y.ran THEN y ELSE Do(y, <<<<"execManager", id>>>>)

\* makeArgCallback
ArgCallback(x, id, d) ==
  IF d \notin x.manager[id].pending THEN x
  ELSE Do([x EXCEPT !.manager[id].pending = @ \ {d}],
          IF x.manager[id].pending = {d} THEN <<<<"execManager", id>>>> ELSE <<>>)

Listen(x, l) ==
  CASE l.kind = "arg" -> ArgCallback(x, l.to, l.dep)
    [] l.kind = "plugin" ->
         AddListener(Queued(x, l.dep), l.dep,
                     [kind |-> "resource", to |-> l.to, dep |-> l.dep])
    [] l.kind = "resource" -> Do(x, <<<<"execManager", l.to>>>>)

\* domReady: the callback of the page runs when the document has loaded.
DomReady(x) == [x EXCEPT !.app = IF x.domLoaded THEN "run" ELSE "waiting"]

\* What a plugin calls when its resource is there.
LoadResource(x, id) ==
  Do(x, <<<<"execManager", id>>, <<"resource", id>>, <<"resume">>>>)

Resource(x, id) == [x EXCEPT !.loaded = @ \cup {id}, !.notLoaded = @ \ {id}]

Callback(x, id) ==
  CASE id[1] = "require" -> LoadResource(x, Ordered(id[2]))
    [] id = Page -> DomReady(x)
    [] id = M(domReady) -> [x EXCEPT !.domLoaded = doc = "complete"]
    [] OTHER -> x

\* What the properties ask of a callback that runs.
Remembered(x, id) ==
  [x EXCEPT !.ran = @ \cup {id},
     !.odd = @ \cup {<<"twice", id>> : i \in {id} \cap x.ran}
               \cup {<<"early", id, d>> : d \in ToSet(x.manager[id].depArray) \ x.ran}]

(***************************************************************************)
(* execManager: the callback, then the end of the wait, then the managers  *)
(* that listen, in the order in which they asked.                          *)
(***************************************************************************)
ExecManager(x, id) == Callback(Do(Remembered(x, id), <<<<"executed", id>>>>), id)

EndWait(x, id) ==
  LET left == x.waiting \ {id}
  IN  Do([x EXCEPT !.defined = IF id[1] \in {"module", "order!"} THEN @ \cup {id} ELSE @,
                   !.manager[id].isDone = id \in x.waiting,
                   !.waiting = left,
                   !.waitAry = IF id \in x.waiting /\ left = {} THEN <<>> ELSE @],
         <<<<"listen", id, 1>>>>)

Listeners(x, id, i) ==
  IF i > Len(x.manager[id].listeners) THEN x
  ELSE Listen(Do(x, <<<<"listen", id, i + 1>>>>), x.manager[id].listeners[i])

JQueryCheck(x) ==
  IF x.jQuery THEN x
  ELSE Do([x EXCEPT !.jQuery = TRUE], <<<<"main", M(jquery)>>, <<"holdReady">>>>)

\* A second definition of a module is ignored.
Known(x, id) == id[1] = "module" /\ id \in x.defined \cup x.loaded

Main(x, id) ==
  IF Known(x, id) THEN x
  ELSE Do([x EXCEPT !.specified = @ \cup {id},
                    !.loaded = IF id[1] = "module" THEN @ \cup {id} ELSE @,
                    !.notLoaded = @ \ {id}],
          (IF id = M(jquery) THEN <<<<"jQueryCheck">>>> ELSE <<>>) \o <<<<"depend", id>>>>)

\* main: the dependencies that are not there yet.
Depend(x, id) ==
  LET array == IF id[1] = "require" THEN <<M(id[2])>> ELSE deps[id]
      todo == {d \in ToSet(array) : d \notin x.defined \/ d \in x.waiting}
      y == FoldLeft(LAMBDA v, d : DependOn(v, id, d),
                    [x EXCEPT !.manager[id].depArray = array,
                              !.manager[id].pending = todo],
                    SelectSeq(array, LAMBDA d : d \in todo))
  IN  IF todo = {} THEN Do(y, <<<<"execManager", id>>>>) ELSE AddWait(y, id)

(***************************************************************************)
(* The call of a plugin.                                                   *)
(***************************************************************************)
\* order.js, in the three kinds of browser.
OrderLoad(x, m) ==
  LET y == [x EXCEPT !.skipAsync = @ \cup {m}]
      asked == Do(y, <<<<"require", LoaderOf(m)>>>>)
  IN  CASE browser = "async" -> asked
        [] browser = "interactive" ->
             IF m \in x.urlFetched \/ M(m) \in x.loaded THEN asked
             ELSE [asked EXCEPT !.urlFetched = @ \cup {m}, !.scriptCount = @ + 1,
                                !.attach = Append(@, m), !.order = Append(@, m)]
        [] browser = "cache" ->
             IF M(m) \in x.specified THEN asked
             ELSE [y EXCEPT !.order = Append(@, m), !.prefetch = @ \cup {m}]

CallPlugin(x, id) ==
  CASE x.manager[id].loading -> x
    [] ~x.manager[id].loading /\ id \in x.defined -> LoadResource(x, id)
    [] OTHER -> OrderLoad([x EXCEPT !.manager[id].loading = TRUE], id[2])

(***************************************************************************)
(* resume: the definitions in the queue, the scripts that are paused, and  *)
(* outside of every other resume the check.                                *)
(***************************************************************************)
Resume(x) ==
  Do([x EXCEPT !.resumeDepth = @ + 1],
     <<<<"defineQueued">>, <<"loadPaused">>, <<"checkOutside">>, <<"resumed">>>>)

DefineQueued(x) ==
  IF x.defQueue = <<>> THEN x
  ELSE LET d == Head(x.defQueue)
           y == [x EXCEPT !.defQueue = Tail(@)]
       IN  IF d[1] = "anonymous" THEN Throw(y, "mismatch")
           ELSE Do(y, <<<<"main", M(d[2])>>, <<"defineQueued">>>>)

LoadPaused(x) ==
  IF x.paused = <<>> THEN x
  ELSE Do([x EXCEPT !.paused = <<>>],
          [i \in DOMAIN x.paused |-> <<"load", x.paused[i]>>]
            \o <<<<"startTime">>, <<"loadPaused">>>>)

LoadOne(x, id) ==
  CASE id[1] = "order!" -> CallPlugin(x, id)
    [] id[1] # "order!" /\ (id[2] \in x.urlFetched \/ id \in x.loaded) -> x
    [] OTHER -> Load([x EXCEPT !.urlFetched = @ \cup {id[2]}], id[2])

(***************************************************************************)
(* forceExec: a manager of a cycle is given what its dependencies have by  *)
(* now.  One object, the last of traced, goes with all calls that come     *)
(* from one of checkLoaded.                                                *)
(***************************************************************************)
\* Mutant: modules that depend on each other wait for each other.
ForceExec_Never(x, id) == x

ForceExec(x, id) ==
  IF x.manager[id].isDone \/ id \in Last(x.traced) THEN x
  ELSE LET array == x.manager[id].depArray
       IN  Do([x EXCEPT !.traced[Len(x.traced)] = @ \cup ({id} \ {Page})],
              [i \in DOMAIN array |-> <<"forceDep", id, array[i]>>])

ForceDep(x, id, d) ==
  IF d \notin x.waiting \/ x.manager[d].isDone \/ d \notin x.loaded THEN x
  ELSE Do(x, <<<<"forceExec", d>>, <<"argCallback", id, d>>>>)

ForceWaiting(x, i) ==
  IF i > Len(x.waitAry) THEN x
  ELSE Do([x EXCEPT !.traced = Append(@, {})],
          <<<<"forceExec", x.waitAry[i]>>, <<"traced">>, <<"forceWaiting", i + 1>>>>)

\* The timeout names what is not loaded; without one the check comes again.
CheckLoaded(x) ==
  CASE x.notLoaded \cup x.loaded = {} /\ x.waiting = {} -> x
    [] x.expired /\ x.notLoaded # {} -> Throw(x, "timeout")
    [] ~x.expired /\ x.notLoaded # {} -> [x EXCEPT !.checkTimer = TRUE]
    [] x.notLoaded = {} /\ x.scriptCount > 0 -> [x EXCEPT !.checkTimer = TRUE]
    [] OTHER ->
         IF x.waiting = {} THEN CheckDone(x)
         ELSE Do(x, <<<<"forceWaiting", 1>>, <<"checkAgain">>, <<"checkDone">>>>)

CheckAgain(x) ==
  Do(x, (IF x.paused = <<>> THEN <<>> ELSE <<<<"resume">>>>) \o <<<<"checkDeeper">>>>)

CheckDeeper(x) ==
  IF x.checkLoadedDepth = 5 THEN x
  ELSE Do([x EXCEPT !.checkLoadedDepth = @ + 1], <<<<"checkLoaded">>>>)

\* context.require
RequireLoop(x) ==
  IF x.requireWait \/ x.scriptCount > 0 \/ x.paused = <<>> THEN x
  ELSE Do(TakeGlobalQueue(x), <<<<"resume">>, <<"requireLoop">>>>)

(***************************************************************************)
(* completeLoad: the definition in the queue that is anonymous, or that    *)
(* names the module, is the one of the script; those before it name others.*)
(***************************************************************************)
TakeDefinition(x, m) ==
  IF x.defQueue = <<>> THEN Do(x, <<<<"main", M(m)>>>>)
  ELSE LET d == Head(x.defQueue)
           y == [x EXCEPT !.defQueue = Tail(@)]
       IN  IF d[1] = "anonymous" \/ d[2] = m
           THEN Do([y EXCEPT !.odd = @ \cup {<<"taken", k>> : k \in {d[2]} \ {m}}],
                   <<<<"main", M(m)>>>>)
           ELSE Do(y, <<<<"main", M(d[2])>>, <<"takeDefinition", m>>>>)

CompleteLoad(x, m) ==
  Do(TakeGlobalQueue(x),
     <<<<"takeDefinition", m>>, <<"jQueryCheck">>, <<"scriptCounted">>, <<"resume">>>>)

(***************************************************************************)
(* A call, and all that are to be made.                                    *)
(***************************************************************************)
Call(x, f) ==
  CASE f[1] = "execManager"     -> ExecManager(x, f[2])
    [] f[1] = "executed"        -> EndWait(x, f[2])
    [] f[1] = "listen"          -> Listeners(x, f[2], f[3])
    [] f[1] = "argCallback"     -> ArgCallback(x, f[2], f[3])
    [] f[1] = "resource"        -> Resource(x, f[2])
    [] f[1] = "main"            -> Main(x, f[2])
    [] f[1] = "depend"          -> Depend(x, f[2])
    [] f[1] = "jQueryCheck"     -> JQueryCheck(x)
    [] f[1] = "holdReady"       -> IF x.scriptCount > 0 THEN HoldReady(x) ELSE x
    [] f[1] = "resume"          -> Resume(x)
    [] f[1] = "defineQueued"    -> DefineQueued(x)
    [] f[1] = "loadPaused"      -> LoadPaused(x)
    [] f[1] = "load"            -> LoadOne(x, f[2])
    [] f[1] = "startTime"       -> [x EXCEPT !.expired = FALSE]
    [] f[1] = "checkOutside"    -> IF x.resumeDepth = 1 THEN CheckLoaded(x) ELSE x
    [] f[1] = "resumed"         -> [x EXCEPT !.resumeDepth = @ - 1]
    [] f[1] = "checkLoaded"     -> CheckLoaded(x)
    [] f[1] = "forceWaiting"    -> ForceWaiting(x, f[2])
    [] f[1] = "forceExec"       -> ForceExec(x, f[2])
    [] f[1] = "forceDep"        -> ForceDep(x, f[2], f[3])
    [] f[1] = "traced"          -> [x EXCEPT !.traced = Front(@)]
    [] f[1] = "checkAgain"      -> CheckAgain(x)
    [] f[1] = "checkDeeper"     -> CheckDeeper(x)
    [] f[1] = "checkDone"       -> CheckDone(x)
    [] f[1] = "checkReadyState" -> CheckReadyState(x)
    [] f[1] = "require"         -> Do(x, <<<<"main", f[2]>>, <<"requireLoop">>>>)
    [] f[1] = "requireLoop"     -> RequireLoop(x)
    [] f[1] = "takeDefinition"  -> TakeDefinition(x, f[2])
    [] f[1] = "scriptCounted"   -> [x EXCEPT !.scriptCount = @ - 1]
    [] f[1] = "resumeIfIdle"    -> IF x.scriptCount = 0 THEN Resume(x) ELSE x
    [] f[1] = "orderDone"       -> [x EXCEPT !.order = SubSeq(@, f[2] + 1, Len(@))]

RECURSIVE Run(_)
Run(x) ==
  IF x.calls = <<>> THEN x
  ELSE Run(Call([x EXCEPT !.calls = Tail(@)], Head(x.calls)))

Init ==
  /\ deps \in DepsOptions /\ browser \in Loaders
  /\ c = NewContext
  /\ script = [m \in Module |-> "none"] /\ caching = [m \in Module |-> "none"]
  /\ inOrder = <<>> /\ html = 0 /\ timeout0 = TRUE /\ doc = "loading"

(***************************************************************************)
(* An event of the browser ends with the context x: the script elements    *)
(* are there that it has attached.  s, others and asked are the scripts,   *)
(* those of them that run in order, and the prefetches before that.        *)
(***************************************************************************)
Attached(s, x) ==
  [m \in Module |-> IF m \in ToSet(x.attach) THEN "fetching" ELSE s[m]]

\* Mutant: every script runs when it has come.
InsertedInOrder_None(x) == <<>>

InsertedInOrder(x) == SelectSeq(x.attach, LAMBDA m : m \in x.skipAsync)

Ends(x, s, others, asked) ==
  /\ c' = [x EXCEPT !.attach = <<>>, !.prefetch = {}]
  /\ caching' = [m \in Module |-> IF m \in x.prefetch THEN "fetching" ELSE asked[m]]
  /\ script' = Attached(s, x)
  /\ inOrder' = others \o InsertedInOrder(x)
  /\ UNCHANGED deps /\ UNCHANGED browser

\* An event in which these calls are made.
Event(x, calls) == Ends(Run(Do(x, calls)), script, inOrder, caching)

\* main.js, then rexster.js.
PageScript ==
  /\ html < 2 /\ html' = html + 1
  /\ Event(c, IF html = 0 THEN <<<<"requireLoop">>>> ELSE <<<<"require", Page>>>>)
  /\ UNCHANGED <<timeout0, doc>>

FirstTimeout ==
  /\ timeout0 /\ timeout0' = FALSE
  /\ Event(TakeGlobalQueue([c EXCEPT !.requireWait = FALSE]),
           <<<<"jQueryCheck">>, <<"resumeIfIdle">>, <<"checkReadyState">>>>)
  /\ UNCHANGED <<html, doc>>

\* bindReady of jQuery, which is called by the script of ui; after the
\* document has loaded the event is made up for.
Bound(x, m) == IF m = ui THEN [x EXCEPT !.bound = TRUE] ELSE x

Definition(m) ==
  IF m \in Plain THEN <<>>
  ELSE <<IF m \in Named THEN <<"named", m>> ELSE <<"anonymous", m>>>>

(***************************************************************************)
(* A script runs, and its load event comes before any other script runs;   *)
(* those that order.js has asked for run in the order of their insertion.  *)
(***************************************************************************)
ScriptRuns(m) ==
  /\ browser # "interactive" /\ script[m] = "fetching"
  /\ m \in ToSet(inOrder) => m = Head(inOrder)
  /\ Ends(Run(CompleteLoad(Bound([c EXCEPT !.globalQueue = @ \o Definition(m)], m), m)),
          [script EXCEPT ![m] = "done"], SelectSeq(inOrder, LAMBDA k : k # m), caching)
  /\ UNCHANGED <<html, timeout0, doc>>

(***************************************************************************)
(* In a browser with interactive scripts other scripts may run before the  *)
(* event of one; define takes the name of the script that is running.      *)
(***************************************************************************)
Executed(x, m) ==
  Bound([x EXCEPT !.defQueue = @ \o (IF m \in Plain THEN <<>> ELSE <<<<"named", m>>>>)], m)

FewRunning == Cardinality({k \in Module : script[k] = "running"}) < MaxRunning

ScriptExecutes(m) ==
  /\ browser = "interactive" /\ m \notin ToSet(c.order)
  /\ script[m] = "fetching" /\ FewRunning
  /\ script' = [script EXCEPT ![m] = "running"]
  /\ c' = Executed(c, m)
  /\ UNCHANGED <<deps, browser, caching, inOrder, html, timeout0, doc>>

ScriptLoaded(m) ==
  /\ script[m] = "running"
  /\ Ends(Run(CompleteLoad(c, m)), [script EXCEPT ![m] = "done"], inOrder, caching)
  /\ UNCHANGED <<html, timeout0, doc>>

\* The first entries of the sequence, as far as they have come.
Ready(seq, come) ==
  LET n == CHOOSE k \in 0 .. Len(seq) :
             /\ \A i \in 1 .. k : seq[i] \in come
             /\ k < Len(seq) => seq[k + 1] \notin come
  IN  SubSeq(seq, 1, n)

(***************************************************************************)
(* order.js: a script that is fetched is put into the page, where it runs  *)
(* at once, when those asked for before it are.                            *)
(***************************************************************************)
ScriptFetched(m) ==
  /\ browser = "interactive" /\ m \in ToSet(c.order)
  /\ script[m] = "fetching" /\ FewRunning
  /\ LET done == Ready(c.order, {k \in Module : k = m \/ script[k] = "fetched"})
     IN  /\ script' = [k \in Module |-> IF k \in ToSet(done) THEN "running"
                                       ELSE IF k = m THEN "fetched" ELSE script[k]]
         /\ c' = [FoldLeft(Executed, c, done) EXCEPT !.order = SubSeq(@, Len(done) + 1, Len(@))]
  /\ UNCHANGED <<deps, browser, caching, inOrder, html, timeout0, doc>>

\* order.js: a script that is in the cache is asked for in its turn.
ScriptCached(m) ==
  /\ caching[m] = "fetching"
  /\ LET done == Ready(c.order, {k \in Module : k = m \/ caching[k] = "cached"})
         calls == [i \in DOMAIN done |-> <<"require", LoaderOf(done[i])>>]
     IN  Ends(Run(Do(c, calls \o <<<<"orderDone", Len(done)>>>>)), script, inOrder,
              [caching EXCEPT ![m] = "cached"])
  /\ UNCHANGED <<html, timeout0, doc>>

CheckTimer ==
  /\ c.checkTimer
  /\ Event([c EXCEPT !.checkTimer = FALSE], <<<<"checkLoaded">>>>)
  /\ UNCHANGED <<html, timeout0, doc>>

\* Seven seconds after the last script was asked for.
TimePasses ==
  /\ ~c.expired /\ c.urlFetched # {} /\ c.notLoaded # {}
  /\ c' = [c EXCEPT !.expired = TRUE]
  /\ UNCHANGED <<deps, browser, script, caching, inOrder, html, timeout0, doc>>

(***************************************************************************)
(* The document is parsed, later it and what it holds are loaded; domReady *)
(* takes whichever event comes after its own script, or neither.           *)
(***************************************************************************)
DocumentReady ==
  /\ doc # "complete" /\ html = 2
  /\ doc' = IF doc = "loading" THEN "interactive" ELSE "complete"
  /\ LET x == JQueryReady(c)
     IN  c' = IF M(domReady) \notin c.defined THEN x
              ELSE [x EXCEPT !.domLoaded = TRUE,
                             !.app = IF @ = "waiting" THEN "run" ELSE @]
  /\ UNCHANGED <<deps, browser, script, caching, inOrder, html, timeout0>>

\* The timer of bindReady, when the document had loaded before.
ReadyTimer ==
  /\ doc = "complete" /\ c.bound /\ ~c.isReady
  /\ c' = JQueryReady(c)
  /\ UNCHANGED <<deps, browser, script, caching, inOrder, html, timeout0, doc>>

Arrives(m) == ScriptRuns(m) \/ ScriptExecutes(m) \/ ScriptLoaded(m)
                \/ ScriptFetched(m) \/ ScriptCached(m)

Next ==
  \/ PageScript \/ FirstTimeout \/ CheckTimer \/ TimePasses
  \/ DocumentReady \/ ReadyTimer
  \/ \E m \in Module : Arrives(m)

Spec == Init /\ [][Next]_vars

-----------------------------------------------------------------------------
TypeOK ==
  /\ deps \in DepsOptions /\ browser \in Loaders
  /\ c.defined \cup c.notLoaded \cup c.loaded \cup c.specified \cup c.waiting \subseteq Id
  /\ c.waiting \subseteq ToSet(c.waitAry)
  /\ ToSet(c.paused) \subseteq Id /\ c.urlFetched \subseteq Module
  /\ c.scriptCount \in Nat /\ c.resumeDepth \in Nat /\ c.readyWait \in 0 .. 2
  /\ \A id \in Id : c.manager[id].pending \subseteq Id
  /\ c.app \in {"none", "waiting", "run"} /\ c.errors \subseteq {"timeout", "mismatch"}
  /\ c.calls = <<>> /\ c.traced = <<>> /\ c.attach = <<>>
  /\ script \in [Module -> {"none", "fetching", "fetched", "running", "done"}]
  /\ caching \in [Module -> {"none", "fetching", "cached"}]
  /\ html \in 0 .. 2 /\ doc \in {"loading", "interactive", "complete"}

(***************************************************************************)
(* In whatever order the scripts come, a module runs once, and after what  *)
(* it depends on, but for modules that depend on each other (makeArgCallback,*)
(* execManager, forceExec); also when the loader has given up before.      *)
(***************************************************************************)
RunsOnceInTurn ==
  \A o \in c.odd : o[1] = "early" => \E i \in DOMAIN deps[o[3]] : deps[o[3]][i] = o[2]

RunsOnce == \A o \in c.odd : o[1] # "twice"

(***************************************************************************)
(* A definition is taken for the script that has made it, whichever events *)
(* come between the two (takeGlobalQueue, completeLoad, define).           *)
(***************************************************************************)
OwnDefinition ==
  "mismatch" \notin c.errors /\ \A o \in c.odd : o[1] # "taken"

(***************************************************************************)
(* The scripts that are asked for in order run in that order, in each kind *)
(* of browser (order.js).                                                  *)
(***************************************************************************)
OrderKept ==
  \A i, j \in DOMAIN deps[Page] :
    LET a == deps[Page][i]  b == deps[Page][j]
        Ran(d) == script[d[2]] \in {"running", "done"}
    IN  i < j /\ a[1] = "order!" /\ b[1] = "order!" /\ Ran(b) => Ran(a)

(***************************************************************************)
(* jQuery tells that it is ready when every module is there, neither while *)
(* some wait nor between the scripts (jQueryHoldReady, resourcesReady).    *)
(***************************************************************************)
ReadyMeansLoaded ==
  c.readyFired => c.waiting = {} /\ c.scriptCount = 0 /\ doc # "loading"

(***************************************************************************)
(* When every script has come, no timer is left and the loader has not     *)
(* given up, the page has started, jQuery is ready and nothing waits, also *)
(* when modules depend on each other (checkLoaded, checkReadyState).       *)
(***************************************************************************)
Settled ==
  /\ html = 2 /\ ~timeout0 /\ doc = "complete" /\ ~c.checkTimer
  /\ \A m \in Module : script[m] \in {"none", "done"} /\ caching[m] # "fetching"
  /\ c.bound => c.isReady

PageStarts ==
  Settled /\ c.errors = {} =>
    c.app = "run" /\ c.readyFired /\ c.waiting = {}

(***************************************************************************)
(* Every module runs its own definition, once and in turn.                 *)
(***************************************************************************)
RunsInTurn == TypeOK /\ RunsOnceInTurn /\ RunsOnce /\ OwnDefinition

(***************************************************************************)
(* jQuery is ready not before the modules are there, and it is when they   *)
(* are: the hold that the loader has put on it is released once.           *)
(***************************************************************************)
ReadyInTime == ReadyMeansLoaded /\ PageStarts
=============================================================================
