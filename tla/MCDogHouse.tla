----------------------------- MODULE MCDogHouse -----------------------------
(***************************************************************************)
(* Two graphs and one command; the page is opened without an address of a  *)
(* menu, or at the console with its second graph; three acts of the user,  *)
(* which is enough to go to the other panel, back, and to enter something. *)
(***************************************************************************)
EXTENDS DogHouse
CONSTANTS c1, g1, g2

Somewhere == {NoMenu, At("gremlin", g2)}
=============================================================================
