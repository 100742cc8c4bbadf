-------------------------- MODULE ReliableDelivery --------------------------
(***************************************************************************)
(* What the Universal Messenger promises the protocols built on it, for    *)
(* messages whose protocol validates responses: a message is owed until it *)
(* is confirmed or given up; it is confirmed only after the receiver has   *)
(* handled it; neither fact is ever taken back; and a confirmed message is *)
(* never owed anew.                                                        *)
(***************************************************************************)
CONSTANT Messages

VARIABLES owed,       \* kept for retry by the sender
          handled,    \* completed and recorded by the receiver
          confirmed   \* recorded as delivered by the sender

deliveryVars == <<owed, handled, confirmed>>

DeliveryInit == owed = {} /\ handled = {} /\ confirmed = {}

\* A first attempt failed; the sender keeps the message.
Owe(m) ==
    /\ m \notin confirmed
    /\ owed' = owed \cup {m}
    /\ UNCHANGED <<handled, confirmed>>

\* The receiver's handler completed.
Handle(m) ==
    /\ m \notin handled
    /\ handled' = handled \cup {m}
    /\ UNCHANGED <<owed, confirmed>>

\* The answer arrived; the message leaves the sender's debts, or stays on them
\* when the sender dies before it can cross it off.
Confirm(m) ==
    /\ m \in handled
    /\ confirmed' = confirmed \cup {m}
    /\ owed' \in {owed, owed \ {m}}
    /\ UNCHANGED handled

\* Messages too old to be retried are given up.
GiveUp(S) ==
    /\ owed' = owed \ S
    /\ UNCHANGED <<handled, confirmed>>

DeliveryNext ==
    \/ \E m \in Messages : Owe(m) \/ Handle(m) \/ Confirm(m)
    \/ \E S \in SUBSET Messages : GiveUp(S)

DeliverySpec == DeliveryInit /\ [][DeliveryNext]_deliveryVars
=============================================================================
