---------------------------- MODULE MCMessenger ----------------------------
(***************************************************************************)
(* Instances of Messenger for TLC.                                         *)
(***************************************************************************)
EXTENDS Messenger

CONSTANTS m1, m2, p1

\* Every message goes to the same peer.
OnePeer == [m \in Messages |-> p1]

\* Every envelope fits a page.
UnitSize == [m \in Messages |-> 1]
=============================================================================
