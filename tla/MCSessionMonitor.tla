-------------------------- MODULE MCSessionMonitor --------------------------
(* Instances of SessionMonitor for TLC: settings in seconds, with a minute  *)
(* of MIN_IDLE_TIME shortened to two of them.                               *)
EXTENDS SessionMonitor

\* Intervals of one second, of no more than a late sleep and of more, and idle
\* times on both sides of MIN_IDLE_TIME.
BothSides == {<<1, 3>>, <<2, 1>>, <<5, 4>>}
=============================================================================
