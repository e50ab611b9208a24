--------------------------- MODULE SessionMonitor ---------------------------
(***************************************************************************)
(* When RexProSessionMonitor looks at the sessions, and which it destroys. *)
(* Time is counted in units of MIN_UPDATE_INTERVAL (one second, the length *)
(* of a sleep).  A pass reads the idle time of a session, compares it with *)
(* the limit and destroys the session in three steps; between them the     *)
(* sessions are used, created and killed and the settings change.  What a  *)
(* destroy does to the rest of the server is in RexProServer.              *)
(***************************************************************************)
EXTENDS Naturals, FiniteSetsExt

CONSTANTS
  Key,       \* sessions
  Setting,   \* <<session-check-interval, session-max-idle>> of a rexster.xml
  MinIdle,   \* MIN_IDLE_TIME, in units
  Delay,     \* bound: how late the thread may wake up, how long a pass may take
  Horizon    \* bound: clocks stop here; beyond every interval and idle time

MinInterval == 1

ASSUME MonitorAssumption ==
  /\ Setting \subseteq Nat \X Nat
  /\ MinIdle \in Nat \ {0} /\ Delay \in Nat
  /\ Horizon \in Nat
  /\ \A s \in Setting : Horizon > s[1] /\ Horizon > s[2] /\ Horizon > MinIdle

VARIABLES
  asked,       \* what rexster.xml says
  interval,    \* updateInterval
  maxIdle,     \* maxIdleTime
  pc,          \* where the monitor thread is in run()
  left,        \* the keys the iterator of the pass still returns
  at,          \* sessionKey
  idle,        \* the idle time that was read of it
  spent,       \* how long the thread has been asleep, or in its pass
  sinceCheck,  \* now - lastCheck
  sessions,    \* RexProSessions.sessions
  age,         \* getIdleTime of each
  shortest,    \* history: the shortest interval in force since the last check
  disturbed    \* history: since idle was read the session was used, or the
               \* file's limit was not the one in force throughout

settings == <<asked, interval, maxIdle>>
thread == <<pc, left, at, idle>>
vars == <<settings, thread, spent, sinceCheck, sessions, age, shortest, disturbed>>

TypeOK ==
  /\ asked \in Setting
  /\ interval \in Nat /\ interval >= MinInterval
  /\ maxIdle \in Nat /\ maxIdle >= MinIdle
  /\ pc \in {"asleep", "pass", "found", "read", "expired", "dead"}
  /\ left \subseteq Key /\ at \in Key /\ idle \in 0..Horizon
  /\ spent \in 0..1 + Delay
  /\ sinceCheck \in 0..Horizon
  /\ sessions \subseteq Key
  /\ age \in [Key -> 0..Horizon]
  /\ shortest \in Nat /\ disturbed \in BOOLEAN

-----------------------------------------------------------------------------
\* reconfigure() raises settings to their minimum.
AtLeast(min, value) == Max({min, value})

\* The condition under which a wake-up becomes a check.
Due(i, elapsed) == i > elapsed

\* Mutant: lastCheck is never moved.
AfterCheck_NotMoved(elapsed) == elapsed

\* now - lastCheck once a check is over.
AfterCheck(elapsed) == 0

\* Mutant: a session is destroyed when it reaches the limit.
Expired_AtLimit(i) == i >= maxIdle

Expired(i) == i > maxIdle

Later(t) == IF t < Horizon THEN t + 1 ELSE t

\* The second half of a reconfigure() is still to come.
Halfway == maxIdle # AtLeast(MinIdle, asked[2])

-----------------------------------------------------------------------------
\* The constructor runs with the minimums until the server's first
\* reconfigure(), which comes before any session.
Init ==
  /\ asked \in Setting
  /\ interval = AtLeast(MinInterval, asked[1])
  /\ maxIdle = AtLeast(MinIdle, asked[2])
  /\ pc = "asleep" /\ left = {} /\ at \in Key /\ idle = 0
  /\ spent = 0
  /\ sinceCheck = 0
  /\ sessions = {}
  /\ age = [k \in Key |-> 0]
  /\ shortest = interval /\ disturbed = FALSE

\* reconfigure() sets two AtomicLongs, one after the other.
Reconfigure ==
  /\ ~Halfway
  /\ \E s \in Setting \ {asked} :
       /\ asked' = s
       /\ interval' = AtLeast(MinInterval, s[1])
       /\ shortest' = IF interval' < shortest THEN interval' ELSE shortest
  /\ disturbed' = TRUE
  /\ UNCHANGED <<maxIdle, thread, spent, sinceCheck, sessions, age>>

ReconfigureIdle ==
  /\ Halfway
  /\ maxIdle' = AtLeast(MinIdle, asked[2])
  /\ disturbed' = TRUE
  /\ UNCHANGED <<asked, interval, thread, spent, sinceCheck, sessions, age, shortest>>

\* A session is created, or a script on it ends: lastTimeUsed is now.
Use(k) ==
  /\ k \notin sessions \/ age[k] > 0
  /\ sessions' = sessions \cup {k}
  /\ age' = [age EXCEPT ![k] = 0]
  /\ disturbed' = (disturbed \/ k = at)
  /\ UNCHANGED <<settings, thread, spent, sinceCheck, shortest>>

\* A client kills its session, or the server stops.
Kill(k) ==
  /\ k \in sessions
  /\ sessions' = sessions \ {k}
  /\ age' = [age EXCEPT ![k] = 0]
  /\ UNCHANGED <<settings, thread, spent, sinceCheck, shortest, disturbed>>

\* A unit of time passes, for the thread and for every session.
Tick ==
  /\ \/ pc = "asleep" /\ spent < 1 + Delay /\ spent' = spent + 1
     \/ pc \in {"pass", "found", "read", "expired"} /\ spent < Delay /\ spent' = spent + 1
     \/ pc = "dead" /\ spent' = spent
  /\ sinceCheck' = Later(sinceCheck)
  /\ age' = [k \in Key |-> IF k \in sessions THEN Later(age[k]) ELSE 0]
  /\ UNCHANGED <<settings, thread, sessions, shortest, disturbed>>

\* The thread wakes up.  The iterator of a pass returns every session there
\* is, and those that are created meanwhile or not.
Wake ==
  /\ pc = "asleep" /\ spent >= 1
  /\ spent' = 0
  /\ IF Due(interval, sinceCheck)
     THEN /\ pc' = "pass"
          /\ \E late \in SUBSET (Key \ sessions) : left' = sessions \cup late
     ELSE UNCHANGED <<pc, left>>
  /\ UNCHANGED <<settings, at, idle, sinceCheck, sessions, age, shortest, disturbed>>

\* The next key; one that is not in the map any more is passed over.
Find(k) ==
  /\ pc = "pass" /\ k \in left
  /\ left' = left \ {k}
  /\ IF k \in sessions THEN pc' = "found" /\ at' = k ELSE UNCHANGED <<pc, at>>
  /\ UNCHANGED <<settings, idle, spent, sinceCheck, sessions, age, shortest, disturbed>>

\* getSession(sessionKey).getIdleTime(): without the session the exception
\* ends the thread.
Read ==
  /\ pc = "found"
  /\ IF at \in sessions
     THEN pc' = "read" /\ idle' = age[at] /\ disturbed' = Halfway
     ELSE pc' = "dead" /\ UNCHANGED <<idle, disturbed>>
  /\ UNCHANGED <<settings, left, at, spent, sinceCheck, sessions, age, shortest>>

Compare ==
  /\ pc = "read"
  /\ pc' = IF Expired(idle) THEN "expired" ELSE "pass"
  /\ UNCHANGED <<settings, left, at, idle, spent, sinceCheck, sessions, age, shortest, disturbed>>

\* Whatever happened since the test, the session goes.
Destroy ==
  /\ pc = "expired"
  /\ pc' = "pass"
  /\ sessions' = sessions \ {at}
  /\ age' = [age EXCEPT ![at] = 0]
  /\ UNCHANGED <<settings, left, at, idle, spent, sinceCheck, shortest, disturbed>>

\* lastCheck moves only here, after a check.
Sleep ==
  /\ pc = "pass" /\ left = {}
  /\ pc' = "asleep" /\ spent' = 0
  /\ sinceCheck' = AfterCheck(sinceCheck)
  /\ shortest' = interval
  /\ UNCHANGED <<settings, left, at, idle, sessions, age, disturbed>>

Next ==
  \/ Reconfigure \/ ReconfigureIdle \/ Tick
  \/ \E k \in Key : Use(k) \/ Kill(k) \/ Find(k)
  \/ Wake \/ Read \/ Compare \/ Destroy \/ Sleep

Spec == Init /\ [][Next]_vars

-----------------------------------------------------------------------------
\* No session is idle for longer than a file's session-max-idle and the time
\* since the last check, and there is a check at every wake-up while the
\* intervals are longer than a sleep can be: not one per session-check-interval,
\* as the comparison of run() is the other way round than its documentation.
\* An interval of one second, in force at a wake-up, ends the checks until a
\* longer one than the time without them is asked for; a thread that has died
\* checks no more.
ExpiryIsPrompt ==
  /\ TypeOK
  /\ pc # "dead" => \A k \in sessions : \E s \in Setting :
       age[k] <= AtLeast(MinIdle, s[2]) + Delay + sinceCheck
  /\ pc # "dead" /\ shortest > 1 + Delay => sinceCheck <= 1 + 2 * Delay

\* The monitor takes a session before the file's limit only if, since its own
\* idle time was read in this pass, it was used or the settings were changing.
NeverTooEarly ==
  [][\A k \in sessions \ sessions' : pc' # pc => age[k] > asked[2] \/ disturbed]_vars
=============================================================================
