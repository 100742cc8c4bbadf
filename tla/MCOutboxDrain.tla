--------------------------- MODULE MCOutboxDrain ---------------------------
(***************************************************************************)
(* Instances of OutboxDrain for TLC.                                       *)
(***************************************************************************)
EXTENDS OutboxDrain

CONSTANTS m1, m2, m3

\* With a page budget of two bytes m1 fits no page and m2 fills one.
Uneven == [m \in Messages |-> CASE m = m1 -> 3 [] m = m2 -> 2 [] m = m3 -> 1]
=============================================================================
