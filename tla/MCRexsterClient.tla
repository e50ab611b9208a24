--------------------------- MODULE MCRexsterClient ---------------------------
(* Clients, calls and hosts for the runs of RexsterClient.                  *)
EXTENDS RexsterClient, TLC

CONSTANTS k1, k2, c1, c2

\* One client that tries once and one that tries as often as it has hosts.
OneEach == [c \in Call |-> IF c = c1 THEN k1 ELSE k2]
OnceAndThrice == [k \in Client |-> IF k = k1 THEN 1 ELSE 3]
TwoHosts == {0, 1}
=============================================================================
