------------------------ MODULE SessionMonitorProofs ------------------------
(***************************************************************************)
(* Theorems about SessionMonitor, for every configuration file, delay and  *)
(* set of sessions.  In a pass, every session that is no longer to come    *)
(* was compared with the limit since the pass began, so that at its end    *)
(* none is past the limit by more than the pass took; lastCheck moves only *)
(* then.                                                                   *)
(***************************************************************************)
EXTENDS SessionMonitor, TLAPS

\* What reconfigure() makes of a setting.
LEMMA AtLeastMax ==
  ASSUME NEW min \in Nat, NEW value \in Nat
  PROVE  /\ AtLeast(min, value) \in {min, value}
         /\ AtLeast(min, value) >= min /\ AtLeast(min, value) >= value
<1>1. \E x \in {min, value} : \A y \in {min, value} : x >= y
  <2>1. CASE min >= value
    BY <2>1
  <2>2. CASE value >= min
    BY <2>2
  <2> QED
    BY <2>1, <2>2
<1>2. /\ Max({min, value}) \in {min, value}
      /\ \A y \in {min, value} : Max({min, value}) >= y
  BY <1>1 DEF Max
<1> QED
  BY <1>2 DEF AtLeast

\* The settings in force are those of a file, the interval that of the file
\* that was read last.
InForce ==
  /\ interval = AtLeast(MinInterval, asked[1])
  /\ shortest <= interval
  /\ \E s \in Setting : maxIdle = AtLeast(MinIdle, s[2])

InPass == pc \in {"pass", "found", "read", "expired"}

MInv == TypeOK /\ InForce /\ (InPass => spent <= Delay)

LEMMA SettingIsNat ==
  ASSUME NEW s \in Setting
  PROVE  /\ s[1] \in Nat /\ s[2] \in Nat /\ MinInterval \in Nat
         /\ AtLeast(MinInterval, s[1]) \in Nat /\ AtLeast(MinInterval, s[1]) >= MinInterval
         /\ AtLeast(MinInterval, s[1]) >= s[1]
         /\ AtLeast(MinIdle, s[2]) \in Nat /\ AtLeast(MinIdle, s[2]) >= MinIdle
         /\ AtLeast(MinIdle, s[2]) >= s[2]
<1>1. s[1] \in Nat /\ s[2] \in Nat /\ MinIdle \in Nat /\ MinInterval \in Nat
  BY MonitorAssumption DEF MinInterval
<1>2. /\ AtLeast(MinInterval, s[1]) \in {MinInterval, s[1]}
      /\ AtLeast(MinInterval, s[1]) >= MinInterval /\ AtLeast(MinInterval, s[1]) >= s[1]
  BY <1>1, AtLeastMax
<1>3. /\ AtLeast(MinIdle, s[2]) \in {MinIdle, s[2]}
      /\ AtLeast(MinIdle, s[2]) >= MinIdle /\ AtLeast(MinIdle, s[2]) >= s[2]
  BY <1>1, AtLeastMax
<1> QED
  BY <1>1, <1>2, <1>3

LEMMA InitMInv == Init => MInv
<1> SUFFICES ASSUME Init PROVE MInv
  OBVIOUS
<1>1. asked \in Setting
  BY DEF Init
<1>2. interval \in Nat /\ interval >= MinInterval /\ maxIdle \in Nat /\ maxIdle >= MinIdle
  BY <1>1, SettingIsNat DEF Init
<1>3. InForce /\ shortest \in Nat
  BY <1>1, <1>2 DEF Init, InForce
<1>4. spent \in 0..1 + Delay /\ sinceCheck \in 0..Horizon /\ idle \in 0..Horizon
  BY MonitorAssumption DEF Init
<1>5. age \in [Key -> 0..Horizon] /\ sessions \subseteq Key /\ left \subseteq Key /\ at \in Key
  BY MonitorAssumption DEF Init
<1>6. disturbed \in BOOLEAN /\ pc = "asleep"
  BY DEF Init
<1> QED
  BY <1>1, <1>2, <1>3, <1>4, <1>5, <1>6 DEF MInv, TypeOK, InPass

LEMMA LaterType ==
  ASSUME NEW t \in 0..Horizon
  PROVE  Later(t) \in 0..Horizon /\ Later(t) <= t + 1 /\ Later(t) >= t
BY MonitorAssumption DEF Later

LEMMA NextKeepsMInv == MInv /\ [Next]_vars => MInv'
<1> SUFFICES ASSUME MInv, [Next]_vars PROVE MInv'
  OBVIOUS
<1> USE MonitorAssumption DEF MInv, InForce, InPass, settings, thread
<1>1. CASE Reconfigure
  <2>1. PICK s \in Setting : /\ asked' = s
                             /\ interval' = AtLeast(MinInterval, s[1])
                             /\ shortest' = IF interval' < shortest THEN interval' ELSE shortest
    BY <1>1 DEF Reconfigure
  <2>2. interval' \in Nat /\ interval' >= MinInterval
    BY <2>1, SettingIsNat
  <2>3. shortest' \in Nat /\ shortest' <= interval'
    BY <2>1, <2>2 DEF TypeOK
  <2> QED
    BY <1>1, <2>1, <2>2, <2>3 DEF Reconfigure, TypeOK
<1>2. CASE ReconfigureIdle
  BY <1>2, SettingIsNat DEF ReconfigureIdle, TypeOK
<1>3. CASE Tick
  <2>1. sinceCheck' \in 0..Horizon
    BY <1>3, LaterType DEF Tick, TypeOK
  <2>2. age' \in [Key -> 0..Horizon]
    BY <1>3, LaterType DEF Tick, TypeOK
  <2>3. spent' \in 0..1 + Delay /\ (InPass => spent' <= Delay)
    BY <1>3 DEF Tick, TypeOK
  <2> QED
    BY <1>3, <2>1, <2>2, <2>3 DEF Tick, TypeOK
<1>4. ASSUME NEW k \in Key, Use(k) PROVE MInv'
  BY <1>4 DEF Use, TypeOK
<1>5. ASSUME NEW k \in Key, Kill(k) PROVE MInv'
  BY <1>5 DEF Kill, TypeOK
<1>6. ASSUME NEW k \in Key, Find(k) PROVE MInv'
  BY <1>6 DEF Find, TypeOK
<1>7. CASE Wake
  <2>1. left' \subseteq Key /\ pc' \in {pc, "pass"} /\ spent' = 0
    BY <1>7 DEF Wake, TypeOK
  <2> QED
    BY <1>7, <2>1 DEF Wake, TypeOK
<1>8. CASE Read
  BY <1>8 DEF Read, TypeOK, Halfway
<1>9. CASE Compare
  BY <1>9 DEF Compare, TypeOK
<1>10. CASE Destroy
  BY <1>10 DEF Destroy, TypeOK
<1>11. CASE Sleep
  BY <1>11 DEF Sleep, TypeOK, AfterCheck
<1>12. CASE UNCHANGED vars
  BY <1>12 DEF vars, TypeOK
<1> QED
  BY <1>1, <1>2, <1>3, <1>4, <1>5, <1>6, <1>7, <1>8, <1>9, <1>10, <1>11, <1>12 DEF Next

\* The settings in force are those of a file, raised to their minimums.
THEOREM SettingsInForce == Spec => []MInv
  BY InitMInv, NextKeepsMInv, PTL DEF Spec

-----------------------------------------------------------------------------
\* What the thread knows of the session it looks at, if nothing disturbed it.
NInv ==
  pc \in {"read", "expired"} /\ ~disturbed =>
    /\ ~Halfway
    /\ at \in sessions => age[at] >= idle
    /\ pc = "expired" => idle > maxIdle

LEMMA NextKeepsNInv ==
  ASSUME MInv, NInv, [Next]_vars PROVE NInv'
<1> USE MonitorAssumption DEF MInv, NInv, settings, thread, TypeOK, Halfway
<1>1. CASE Reconfigure \/ ReconfigureIdle
  BY <1>1 DEF Reconfigure, ReconfigureIdle
<1>2. CASE Tick
  <2>1. ASSUME at \in sessions PROVE age'[at] >= age[at] /\ age'[at] \in Nat /\ age[at] \in Nat /\ idle \in Nat
    BY <1>2, <2>1, LaterType DEF Tick
  <2> QED
    BY <1>2, <2>1 DEF Tick
<1>3. ASSUME NEW k \in Key, Use(k) PROVE NInv'
  BY <1>3 DEF Use
<1>4. ASSUME NEW k \in Key, Kill(k) PROVE NInv'
  BY <1>4 DEF Kill
<1>5. ASSUME NEW k \in Key, Find(k) PROVE NInv'
  BY <1>5 DEF Find
<1>6. CASE Wake
  BY <1>6 DEF Wake
<1>7. CASE Read
  <2>1. CASE at \in sessions
    <3>1. pc' = "read" /\ idle' = age[at] /\ disturbed' = Halfway
      BY <1>7, <2>1 DEF Read
    <3>2. Halfway' = Halfway /\ at' = at /\ sessions' = sessions /\ age' = age /\ age[at] \in Nat
      BY <1>7 DEF Read
    <3>3. ~disturbed' => maxIdle' = AtLeast(MinIdle, asked[2])'
      <4>1. Halfway = (maxIdle # AtLeast(MinIdle, asked[2]))
        BY Zenon DEF Halfway
      <4>2. maxIdle' = maxIdle /\ asked' = asked
        BY <1>7 DEF Read
      <4> QED
        BY <3>1, <4>1, <4>2, Zenon
    <3> QED
      BY <3>1, <3>2, <3>3
  <2>2. CASE at \notin sessions
    BY <1>7, <2>2 DEF Read
  <2> QED
    BY <2>1, <2>2
<1>8. CASE Compare
  BY <1>8 DEF Compare, Expired
<1>9. CASE Destroy \/ Sleep
  BY <1>9 DEF Destroy, Sleep
<1>10. CASE UNCHANGED vars
  BY <1>10 DEF vars
<1> QED
  BY <1>1, <1>2, <1>3, <1>4, <1>5, <1>6, <1>7, <1>8, <1>9, <1>10 DEF Next

\* The monitor takes a session before the file's limit only if it was used, or
\* the settings were changing, after its own idle time was read: never for an
\* idle time that was read of another session or in another pass.
THEOREM NeverEarly == Spec => NeverTooEarly
<1>1. Init => NInv
  BY DEF Init, NInv
<1>2. MInv /\ NInv /\ [Next]_vars => NInv'
  BY NextKeepsNInv
<1>3. MInv /\ NInv /\ [Next]_vars =>
        [\A k \in sessions \ sessions' : pc' # pc => age[k] > asked[2] \/ disturbed]_vars
  <2> SUFFICES ASSUME MInv, NInv, Next, NEW k \in sessions \ sessions', pc' # pc, ~disturbed
               PROVE  age[k] > asked[2]
    OBVIOUS
  <2>1. Destroy
    BY DEF Next, Reconfigure, ReconfigureIdle, Use, Kill, Tick, Wake, Find, Read, Compare, Sleep, thread
  <2>2. k = at /\ at \in sessions /\ age[at] >= idle /\ idle > maxIdle
    BY <2>1 DEF Destroy, NInv
  <2>3. /\ maxIdle = AtLeast(MinIdle, asked[2]) /\ asked \in Setting
        /\ maxIdle \in Nat /\ age[at] \in Nat /\ idle \in Nat
    BY <2>1, MonitorAssumption DEF Destroy, NInv, Halfway, MInv, TypeOK
  <2> QED
    BY <2>2, <2>3, SettingIsNat
<1> QED
  BY <1>1, <1>2, <1>3, SettingsInForce, PTL DEF Spec, NeverTooEarly

-----------------------------------------------------------------------------
\* A session is past the limit of a file by no more than t.
Past(k, t) == \E s \in Setting : age[k] <= AtLeast(MinIdle, s[2]) + t

\* The session the thread has taken up, and not yet done with.
InHand(k) == pc \in {"found", "read", "expired"} /\ k = at

PInv ==
  /\ pc # "dead" => \A k \in sessions : Past(k, Delay + sinceCheck)
  /\ InPass => \A k \in sessions \ left : InHand(k) \/ Past(k, spent)
  /\ pc = "read" /\ at \in sessions => age[at] <= idle + spent
  /\ shortest > 1 + Delay /\ pc = "asleep" => sinceCheck <= spent
  /\ shortest > 1 + Delay /\ InPass => sinceCheck <= 1 + Delay + spent

LEMMA PastOfZero ==
  ASSUME MInv, NEW k \in Key, age'[k] = 0, NEW t \in Nat
  PROVE  \E s \in Setting : age'[k] <= AtLeast(MinIdle, s[2]) + t
BY SettingIsNat DEF MInv, TypeOK

LEMMA PastTick ==
  ASSUME MInv, Tick, NEW k \in sessions, NEW t \in Nat, NEW u \in Nat, Past(k, t), u >= t + 1
  PROVE  \E s \in Setting : age'[k] <= AtLeast(MinIdle, s[2]) + u
<1>1. k \in Key /\ age'[k] = Later(age[k]) /\ age[k] \in 0..Horizon
  BY DEF Tick, MInv, TypeOK
<1>2. PICK s \in Setting : age[k] <= AtLeast(MinIdle, s[2]) + t
  BY DEF Past
<1>3. Later(age[k]) <= age[k] + 1 /\ Later(age[k]) \in 0..Horizon
  BY <1>1, LaterType
<1>4. AtLeast(MinIdle, s[2]) \in Nat
  BY SettingIsNat
<1>5. age'[k] <= AtLeast(MinIdle, s[2]) + u
  BY <1>1, <1>2, <1>3, <1>4
<1> QED
  BY <1>5

LEMMA TickKeepsPInv ==
  ASSUME MInv, MInv', PInv, Tick PROVE PInv'
<1> USE MonitorAssumption
<1>1. /\ sinceCheck \in 0..Horizon /\ sinceCheck' \in 0..Horizon /\ Delay \in Nat
      /\ sinceCheck' = Later(sinceCheck) /\ spent \in Nat /\ spent' \in Nat
      /\ UNCHANGED <<pc, left, at, idle, sessions, shortest>>
      /\ pc # "dead" => spent' = spent + 1
      /\ InPass' = InPass /\ shortest \in Nat
  BY DEF Tick, MInv, TypeOK, thread, settings, InPass
<1>2. ASSUME pc # "dead", NEW k \in sessions PROVE Past(k, Delay + sinceCheck)'
  <2>1. k \in Key /\ age[k] \in 0..Horizon /\ age'[k] \in 0..Horizon /\ Past(k, Delay + sinceCheck)
    BY <1>2 DEF PInv, MInv, TypeOK
  <2>2. CASE sinceCheck < Horizon
    <3>1. sinceCheck' = sinceCheck + 1
      BY <1>1, <2>2 DEF Later
    <3>2. \E s \in Setting : age'[k] <= AtLeast(MinIdle, s[2]) + (Delay + sinceCheck')
      BY <1>1, <2>1, <3>1, PastTick
    <3> QED
      BY <1>1, <3>2 DEF Past
  <2>3. CASE sinceCheck >= Horizon
    <3>1. sinceCheck' = Horizon
      BY <1>1, <2>3 DEF Later
    <3>2. asked' \in Setting /\ AtLeast(MinIdle, asked'[2]) \in Nat
      BY SettingIsNat DEF MInv, TypeOK
    <3>3. age'[k] <= AtLeast(MinIdle, asked'[2]) + (Delay + sinceCheck')
      BY <2>1, <3>1, <3>2
    <3> QED
      BY <3>2, <3>3 DEF Past
  <2> QED
    BY <1>1, <2>2, <2>3
<1>3. ASSUME InPass, NEW k \in sessions \ left PROVE (InHand(k) \/ Past(k, spent))'
  <2>1. CASE InHand(k)
    BY <1>1, <2>1 DEF InHand
  <2>2. CASE Past(k, spent)
    <3>1. spent' = spent + 1
      BY <1>1, <1>3 DEF InPass
    <3>2. \E s \in Setting : age'[k] <= AtLeast(MinIdle, s[2]) + spent'
      BY <1>1, <2>2, <3>1, PastTick
    <3> QED
      BY <3>2 DEF Past
  <2> QED
    BY <1>3, <2>1, <2>2 DEF PInv
<1>4. ASSUME pc = "read", at \in sessions PROVE age'[at] <= idle + spent'
  <2>1. /\ at \in Key /\ age[at] \in 0..Horizon /\ age'[at] = Later(age[at])
        /\ idle \in Nat /\ age[at] <= idle + spent
    BY <1>4 DEF Tick, PInv, MInv, TypeOK
  <2>2. Later(age[at]) <= age[at] + 1 /\ Later(age[at]) \in 0..Horizon
    BY <2>1, LaterType
  <2> QED
    BY <1>1, <1>4, <2>1, <2>2
<1>5. sinceCheck' <= sinceCheck + 1
  BY <1>1, LaterType
<1>6. ASSUME shortest > 1 + Delay, pc = "asleep" PROVE sinceCheck' <= spent'
  BY <1>1, <1>5, <1>6 DEF PInv
<1>7. ASSUME shortest > 1 + Delay, InPass PROVE sinceCheck' <= 1 + Delay + spent'
  BY <1>1, <1>5, <1>7 DEF PInv, InPass
<1> QED
  BY <1>1, <1>2, <1>3, <1>4, <1>6, <1>7 DEF PInv

\* What a step may do to the ages that keeps a session within a limit.
LEMMA KeepsPast ==
  ASSUME MInv, MInv', PInv, UNCHANGED <<pc, left, at, idle, spent, sinceCheck>>,
         \/ shortest' = shortest
         \/ shortest' <= shortest,
         \A k \in sessions' : age'[k] = 0 \/ (k \in sessions /\ age'[k] = age[k])
  PROVE  PInv'
<1> USE MonitorAssumption
<1>1. /\ Delay + sinceCheck \in Nat /\ spent \in Nat /\ idle \in Nat /\ at \in Key
      /\ sessions' \subseteq Key /\ shortest \in Nat /\ shortest' \in Nat /\ InPass' = InPass
  BY DEF MInv, TypeOK, InPass
<1>2. ASSUME NEW k \in sessions', NEW t \in Nat, k \in sessions => Past(k, t)
      PROVE  \E s \in Setting : age'[k] <= AtLeast(MinIdle, s[2]) + t
  BY <1>1, <1>2, PastOfZero DEF Past
<1>3. ASSUME pc # "dead", NEW k \in sessions' PROVE Past(k, Delay + sinceCheck)'
  BY <1>1, <1>2, <1>3 DEF PInv, Past
<1>4. ASSUME InPass, NEW k \in sessions' \ left PROVE (InHand(k) \/ Past(k, spent))'
  <2>1. CASE InHand(k)
    BY <2>1 DEF InHand
  <2>2. CASE ~InHand(k)
    BY <1>1, <1>2, <1>4, <2>2 DEF PInv, Past
  <2> QED
    BY <2>1, <2>2
<1>5. ASSUME pc = "read", at \in sessions' PROVE age'[at] <= idle + spent
  BY <1>1, <1>5 DEF PInv
<1> QED
  BY <1>1, <1>3, <1>4, <1>5 DEF PInv

LEMMA SleepKeepsPInv ==
  ASSUME MInv, PInv, Sleep PROVE PInv'
<1> USE MonitorAssumption
<1>1. /\ pc = "pass" /\ left = {} /\ pc' = "asleep" /\ sinceCheck' = 0 /\ spent' = 0
      /\ spent \in Nat /\ spent <= Delay /\ sessions' = sessions /\ age' = age
  BY DEF Sleep, AfterCheck, MInv, TypeOK, InPass
<1>2. ASSUME NEW k \in sessions PROVE Past(k, Delay + sinceCheck)'
  <2>1. PICK s \in Setting : age[k] <= AtLeast(MinIdle, s[2]) + spent
    BY <1>1, <1>2 DEF PInv, InPass, InHand, Past
  <2>2. AtLeast(MinIdle, s[2]) \in Nat /\ age[k] \in Nat
    BY <1>2, SettingIsNat DEF MInv, TypeOK
  <2> QED
    BY <1>1, <2>1, <2>2 DEF Past
<1> QED
  BY <1>1, <1>2 DEF PInv, InPass

LEMMA NextKeepsPInv ==
  ASSUME MInv, MInv', PInv, [Next]_vars PROVE PInv'
<1> USE MonitorAssumption DEF settings, thread
<1>1. CASE Reconfigure
  <2>1. shortest' <= shortest
    BY <1>1 DEF Reconfigure, MInv, TypeOK
  <2> QED
    BY <1>1, <2>1, KeepsPast DEF Reconfigure
<1>2. CASE ReconfigureIdle
  BY <1>2, KeepsPast DEF ReconfigureIdle
<1>3. CASE Tick
  BY <1>3, TickKeepsPInv
<1>4. ASSUME NEW u \in Key, Use(u) PROVE PInv'
  <2>1. \A k \in sessions' : age'[k] = 0 \/ (k \in sessions /\ age'[k] = age[k])
    BY <1>4 DEF Use, MInv, TypeOK
  <2> QED
    BY <1>4, <2>1, KeepsPast DEF Use
<1>5. ASSUME NEW u \in Key, Kill(u) PROVE PInv'
  <2>1. \A k \in sessions' : age'[k] = 0 \/ (k \in sessions /\ age'[k] = age[k])
    BY <1>5 DEF Kill, MInv, TypeOK
  <2> QED
    BY <1>5, <2>1, KeepsPast DEF Kill
<1>6. ASSUME NEW u \in Key, Find(u) PROVE PInv'
  <2>1. /\ pc = "pass" /\ pc' \in {"pass", "found"} /\ left' = left \ {u}
        /\ u \in sessions => pc' = "found" /\ at' = u
        /\ UNCHANGED <<spent, sinceCheck, sessions, age, shortest>>
    BY <1>6 DEF Find
  <2>2. ASSUME NEW k \in sessions' \ left' PROVE (InHand(k) \/ Past(k, spent))'
    <3>1. CASE k = u
      BY <2>1, <2>2, <3>1 DEF InHand
    <3>2. CASE k # u
      BY <2>1, <2>2, <3>2 DEF PInv, InPass, InHand, Past
    <3> QED
      BY <3>1, <3>2
  <2> QED
    BY <2>1, <2>2 DEF PInv, InPass, Past
<1>7. CASE Wake
  <2>1. CASE Due(interval, sinceCheck)
    <3>1. /\ pc = "asleep" /\ pc' = "pass" /\ spent' = 0 /\ sessions \subseteq left'
          /\ UNCHANGED <<sinceCheck, sessions, age, shortest>>
      BY <1>7, <2>1 DEF Wake
    <3>2. shortest > 1 + Delay => sinceCheck <= 1 + Delay + 0
      BY <3>1 DEF PInv, MInv, TypeOK
    <3> QED
      BY <3>1, <3>2 DEF PInv, InPass, Past
  <2>2. CASE ~Due(interval, sinceCheck)
    <3>1. /\ pc = "asleep" /\ pc' = "asleep" /\ spent' = 0
          /\ UNCHANGED <<sinceCheck, sessions, age, shortest>>
      BY <1>7, <2>2 DEF Wake
    <3>2. ~(shortest > 1 + Delay)
      BY <2>2, <3>1 DEF Due, PInv, MInv, InForce, TypeOK
    <3> QED
      BY <3>1, <3>2 DEF PInv, InPass, Past
  <2> QED
    BY <2>1, <2>2
<1>8. CASE Read
  <2>1. CASE at \in sessions
    <3>1. /\ pc = "found" /\ pc' = "read" /\ idle' = age[at] /\ at \in Key
          /\ UNCHANGED <<left, at, spent, sinceCheck, sessions, age, shortest>>
          /\ age[at] \in Nat /\ spent \in Nat
      BY <1>8, <2>1 DEF Read, MInv, TypeOK
    <3> QED
      BY <3>1 DEF PInv, InPass, InHand, Past
  <2>2. CASE at \notin sessions
    BY <1>8, <2>2 DEF Read, PInv, InPass
  <2> QED
    BY <2>1, <2>2
<1>9. CASE Compare
  <2>1. /\ pc = "read" /\ pc' = (IF Expired(idle) THEN "expired" ELSE "pass")
        /\ UNCHANGED <<left, at, idle, spent, sinceCheck, sessions, age, shortest>>
    BY <1>9 DEF Compare
  <2>2. ASSUME NEW k \in sessions \ left PROVE (InHand(k) \/ Past(k, spent))'
    <3>1. CASE k = at /\ Expired(idle)
      BY <2>1, <3>1 DEF InHand
    <3>2. CASE k = at /\ ~Expired(idle)
      <4>1. PICK s \in Setting : maxIdle = AtLeast(MinIdle, s[2])
        BY DEF MInv, InForce
      <4>2. /\ age[at] <= idle + spent /\ idle <= maxIdle
            /\ age[at] \in Nat /\ idle \in Nat /\ spent \in Nat /\ maxIdle \in Nat
        BY <2>1, <2>2, <3>2 DEF PInv, Expired, MInv, TypeOK
      <4>3. age[at] <= AtLeast(MinIdle, s[2]) + spent
        BY <4>1, <4>2
      <4> QED
        BY <2>1, <3>2, <4>3 DEF Past
    <3>3. CASE k # at
      BY <2>1, <2>2, <3>3 DEF PInv, InPass, InHand, Past
    <3> QED
      BY <3>1, <3>2, <3>3
  <2> QED
    BY <2>1, <2>2 DEF PInv, InPass, Past
<1>10. CASE Destroy
  <2>1. /\ pc = "expired" /\ pc' = "pass" /\ sessions' = sessions \ {at}
        /\ UNCHANGED <<left, at, idle, spent, sinceCheck, shortest>>
        /\ \A k \in sessions' : k \in sessions /\ k # at /\ age'[k] = age[k]
    BY <1>10 DEF Destroy, MInv, TypeOK
  <2>2. ASSUME NEW k \in sessions' PROVE Past(k, Delay + sinceCheck)'
    BY <2>1, <2>2 DEF PInv, Past
  <2>3. ASSUME NEW k \in sessions' \ left PROVE Past(k, spent)'
    BY <2>1, <2>3 DEF PInv, InPass, InHand, Past
  <2> QED
    BY <2>1, <2>2, <2>3 DEF PInv, InPass
<1>11. CASE Sleep
  BY <1>11, SleepKeepsPInv
<1>12. CASE UNCHANGED vars
  BY <1>12, KeepsPast DEF vars
<1> QED
  BY <1>1, <1>2, <1>3, <1>4, <1>5, <1>6, <1>7, <1>8, <1>9, <1>10, <1>11, <1>12 DEF Next

\* Whatever files come and go, and whatever is used or killed during a pass: a
\* session is past a limit by no more than the time since the last check, and
\* a wake-up is a check as long as the intervals in force are longer than a
\* sleep can be.
THEOREM Prompt == Spec => []ExpiryIsPrompt
<1>1. Init => PInv
  BY DEF Init, PInv, InPass
<1>2. MInv /\ PInv => ExpiryIsPrompt
  <2> SUFFICES ASSUME MInv, PInv PROVE ExpiryIsPrompt
    OBVIOUS
  <2>1. pc # "dead" => \A k \in sessions : \E s \in Setting :
           age[k] <= AtLeast(MinIdle, s[2]) + Delay + sinceCheck
    <3> SUFFICES ASSUME pc # "dead", NEW k \in sessions
                 PROVE  \E s \in Setting : age[k] <= AtLeast(MinIdle, s[2]) + Delay + sinceCheck
      OBVIOUS
    <3>1. PICK s \in Setting : age[k] <= AtLeast(MinIdle, s[2]) + (Delay + sinceCheck)
      BY DEF PInv, Past
    <3>2. AtLeast(MinIdle, s[2]) \in Nat /\ Delay \in Nat /\ sinceCheck \in Nat /\ age[k] \in Nat
      BY SettingIsNat, MonitorAssumption DEF MInv, TypeOK
    <3> QED
      BY <3>1, <3>2
  <2>2. pc # "dead" /\ shortest > 1 + Delay => sinceCheck <= 1 + 2 * Delay
    <3>1. /\ Delay \in Nat /\ sinceCheck \in Nat /\ spent \in 0..1 + Delay
          /\ InPass => spent <= Delay
          /\ pc = "dead" \/ pc = "asleep" \/ InPass
      BY MonitorAssumption DEF MInv, TypeOK, InPass
    <3> QED
      BY <3>1 DEF PInv
  <2> QED
    BY <2>1, <2>2 DEF ExpiryIsPrompt, MInv
<1>3. MInv /\ MInv' /\ PInv /\ [Next]_vars => PInv'
  BY NextKeepsPInv
<1>4. Spec => []PInv
  BY <1>1, <1>3, SettingsInForce, PTL DEF Spec
<1> QED
  BY <1>2, <1>4, SettingsInForce, PTL
=============================================================================
