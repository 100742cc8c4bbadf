--------------------------- MODULE DeliveryProofs ---------------------------
(***************************************************************************)
(* Theorems about the steps of the Universal Messenger: no delivered       *)
(* message goes out again, and the messenger implements the abstract       *)
(* delivery service.                                                       *)
(***************************************************************************)
EXTENDS MessengerProofs

-----------------------------------------------------------------------------
(***************************************************************************)
(* Which steps take a slot.                                                *)
(***************************************************************************)

\* A step that takes no slot.
NoSlotTaken == \A m \in Messages : attempt[m] = "none" => attempt'[m] = "none"

\* Only Send and RetryOutboxEntry take a slot.
LEMMA SlotTakers ==
    TypeOK /\ [Next]_vars =>
        NoSlotTaken \/ \E m \in Messages : Send(m) \/ RetryOutboxEntry(m)
<1> SUFFICES ASSUME TypeOK, [Next]_vars,
                    ~ \E m \in Messages : Send(m) \/ RetryOutboxEntry(m)
             PROVE  NoSlotTaken
    OBVIOUS
<1> USE DEF NoSlotTaken, TypeOK, OutboxTypeOK, drainAllVars, outboxVars, drainVars
<1>1. ASSUME NEW m \in Messages, Caller(m)
      PROVE  NoSlotTaken
      BY <1>1 DEF Caller, SendAnswered, SendSucceeds, CallerDelivers, EndAttempt,
                  RequestRecovers, RecoveryAborted, SendQueues, CallerQueues,
                  SendThrows, CallersThrow
<1>2. CASE Drain
      BY <1>2 DEF Drain, ProcessOutboxTick, DrainTick, DropExpiredOutbox, DrainEnds,
                  StopOutboxDrain, StopDrain, RetryAnswered, RetrySucceeds,
                  RetryDelivers, RetryErrs, RetryFails, EndAttempt
<1>3. CASE Clock
      BY <1>3 DEF Clock, BackoffElapses, RowFallsDue, MaxAgePasses, RowAges,
                  RateLimitLapses, WalkEnds, CallersThrow
<1>4. CASE Network
      BY <1>4 DEF Network, Lose, RouterResends, LoseLate
<1>5. CASE Receiver
      BY <1>5 DEF Receiver, Receive, ReceiveLate, HandlerApplies, HandlerReturns,
                  HandlerThrows
<1>6. CASE Failures
      BY <1>6 DEF Failures, Restart, StopReturns, SenderCrash, CrashAfterRecord,
                  ProcessEnds, ReceiverCrash
<1>7. CASE UNCHANGED vars
      BY <1>7 DEF vars
<1> QED
    BY <1>1, <1>2, <1>3, <1>4, <1>5, <1>6, <1>7 DEF Next

\* No message recorded as delivered is put on the wire again, except the retry
\* of a row that a crash between record('out') and markDelivered left behind.
THEOREM DeliveredIsNotResent == Spec => NoResendAfterDelivery
<1> DEFINE Fresh == \A m \in Messages :
          (attempt[m] = "none" /\ attempt'[m] # "none" /\ m \in outRec) => m \in torn
<1>1. ASSUME IInv, [Next]_vars PROVE Fresh
    <2> USE DEF IInv, TypeOK, OutboxTypeOK
    <2>1. CASE NoSlotTaken
          BY <2>1 DEF NoSlotTaken
    <2>2. ASSUME NEW m \in Messages, Send(m)
          PROVE  Fresh
          BY <1>1, <2>2 DEF Send, CallerBegins, TryBeginAttempt
    <2>3. ASSUME NEW m \in Messages, RetryOutboxEntry(m)
          PROVE  Fresh
          BY <1>1, <2>3 DEF RetryOutboxEntry, TakeEntry, Admitted, HasEntry,
                            TryBeginAttempt, DeliveredLeavesOutbox
    <2> QED
        BY <1>1, <2>1, <2>2, <2>3, SlotTakers
<1> HIDE DEF Fresh
<1>2. IInv /\ [Next]_vars => [Fresh]_vars
      BY <1>1
<1>3. Spec => [][Fresh]_vars
      BY <1>2, Invariance, PTL DEF Spec
<1> QED
    BY <1>3 DEF Fresh, NoResendAfterDelivery
-----------------------------------------------------------------------------
(***************************************************************************)
(* The refinement of ReliableDelivery.                                     *)
(***************************************************************************)

\* The steps the service does not see.
LEMMA UnseenSteps ==
    ASSUME [Next]_vars,
           ~ \E m \in Messages : \/ SendSucceeds(m) \/ RetrySucceeds(m)
                                 \/ CrashAfterRecord(m) \/ HandlerReturns(m)
                                 \/ \E err \in Errors : SendQueues(m, err) \/ RetryErrs(m, err),
           ~ DropExpiredOutbox
    PROVE  UNCHANGED <<row, inRec, outRec>>
<1> USE DEF drainAllVars, outboxVars, drainVars, recvVars
<1>1. ASSUME NEW m \in Messages, Caller(m)
      PROVE  UNCHANGED <<row, inRec, outRec>>
      BY <1>1 DEF Caller, SendAnswered, Send, CallerBegins, RequestRecovers,
                  RecoveryAborted, SendThrows, CallersThrow
<1>2. CASE Drain
      BY <1>2 DEF Drain, ProcessOutboxTick, DrainTick, StopOutboxDrain, StopDrain,
                  RetryOutboxEntry, TakeEntry, RetryAnswered
<1>3. CASE Clock
      BY <1>3 DEF Clock, BackoffElapses, RowFallsDue, MaxAgePasses, RowAges,
                  RateLimitLapses, WalkEnds, CallersThrow
<1>4. CASE Network
      BY <1>4 DEF Network, Lose, RouterResends, LoseLate
<1>5. CASE Receiver
      BY <1>5 DEF Receiver, Receive, ReceiveLate, HandlerApplies, HandlerThrows
<1>6. CASE Failures
      BY <1>6 DEF Failures, Restart, StopReturns, SenderCrash, ProcessEnds, ReceiverCrash
<1>7. CASE UNCHANGED vars
      BY <1>7 DEF vars
<1> QED
    BY <1>1, <1>2, <1>3, <1>4, <1>5, <1>6, <1>7 DEF Next

\* Every step of sender, network and receiver is a step of the service or is
\* not seen by it.
LEMMA DeliverySimulated ==
    IInv /\ [Next]_vars => [Delivery!DeliveryNext]_(Delivery!deliveryVars)
<1> DEFINE Seen == Delivery!DeliveryNext \/ UNCHANGED Delivery!deliveryVars
<1> SUFFICES ASSUME IInv, [Next]_vars
             PROVE  Seen
    OBVIOUS
<1> USE KindAssumption, BudgetAssumption DEF IInv, TypeOK, OutboxTypeOK
\* A delivery is recorded, and its row is deleted or, after a crash, kept.
<1>1. ASSUME NEW m \in Messages, outRec' = outRec \cup {m}, inRec' = inRec,
             \/ row' = row
             \/ row' = [n \in Messages |-> IF n \in {m} THEN 0 ELSE row[n]],
             m \in Validated => m \in inRec
      PROVE  Seen
    <2>1. CASE m \in Validated
          BY <1>1, <2>1 DEF Delivery!DeliveryNext, Delivery!Confirm
    <2>2. CASE m \notin Validated
          BY <1>1, <2>2 DEF Delivery!deliveryVars
    <2> QED
        BY <2>1, <2>2
<1>2. ASSUME NEW m \in Messages, SendSucceeds(m)
      PROVE  Seen
    <2>1. m \in Validated => m \in inRec
          BY <1>2 DEF SendSucceeds, Accepted, AnswerInv
    <2> QED
        BY <1>1, <1>2, <2>1 DEF SendSucceeds, RecordDelivery, CallerDelivers, DeleteRows, recvVars
<1>3. ASSUME NEW m \in Messages, RetrySucceeds(m)
      PROVE  Seen
    <2>1. m \in Validated => m \in inRec
          BY <1>3 DEF RetrySucceeds, Accepted, AnswerInv
    <2> QED
        BY <1>1, <1>3, <2>1 DEF RetrySucceeds, RecordDelivery, RetryDelivers, DeleteRows, recvVars
<1>4. ASSUME NEW m \in Messages, CrashAfterRecord(m)
      PROVE  Seen
    <2>1. m \in Validated => m \in inRec
          BY <1>4 DEF CrashAfterRecord, Finishing, Accepted, AnswerInv
    <2> QED
        BY <1>1, <1>4, <2>1 DEF CrashAfterRecord, ProcessEnds, outboxVars, recvVars
<1>5. ASSUME NEW m \in Messages, HandlerReturns(m)
      PROVE  Seen
    <2>1. CASE m \in Validated
          BY <1>5, <2>1 DEF HandlerReturns, HandlerInv, drainAllVars, outboxVars,
                            Delivery!DeliveryNext, Delivery!Handle
    <2>2. CASE m \notin Validated
          BY <1>5, <2>2 DEF HandlerReturns, drainAllVars, outboxVars, Delivery!deliveryVars
    <2> QED
        BY <2>1, <2>2
<1>6. ASSUME NEW m \in Messages, NEW err \in Errors, SendQueues(m, err)
      PROVE  Seen
    <2>1. m \notin outRec
          BY <1>6 DEF SendQueues, CallerQueues, FreshInv, Callers
    <2>2. row' = [row EXCEPT ![m] = Bumped(m)] /\ Bumped(m) > 0
          BY <1>6 DEF SendQueues, CallerQueues, Reschedule, Bumped
    <2>3. outRec' = outRec /\ inRec' = inRec
          BY <1>6 DEF SendQueues, recvVars
    <2>4. CASE m \in Validated
          BY <2>1, <2>2, <2>3, <2>4 DEF Delivery!DeliveryNext, Delivery!Owe
    <2>5. CASE m \notin Validated
          BY <2>2, <2>3, <2>5 DEF Delivery!deliveryVars
    <2> QED
        BY <2>4, <2>5
<1>7. ASSUME NEW m \in Messages, NEW err \in Errors, RetryErrs(m, err)
      PROVE  Seen
    <2>1. row' = row \/ (row[m] > 0 /\ Bumped(m) > 0 /\ row' = [row EXCEPT ![m] = Bumped(m)])
          BY <1>7 DEF RetryErrs, RetryFails, HasEntry, Reschedule, Bumped, outboxVars
    <2>2. outRec' = outRec /\ inRec' = inRec
          BY <1>7 DEF RetryErrs, recvVars
    <2> QED
        BY <2>1, <2>2 DEF Delivery!deliveryVars
<1>8. CASE DropExpiredOutbox
    <2>1. /\ row' = [m \in Messages |-> IF m \in expired THEN 0 ELSE row[m]]
          /\ outRec' = outRec /\ inRec' = inRec
          BY <1>8 DEF DropExpiredOutbox, DrainEnds, DeleteRows, recvVars
    <2>2. Delivery!GiveUp(expired \cap Validated)
          BY <2>1 DEF Delivery!GiveUp
    <2> QED
        BY <2>2 DEF Delivery!DeliveryNext, Delivery!GiveUp
<1>9. CASE UNCHANGED <<row, inRec, outRec>>
      BY <1>9 DEF Delivery!deliveryVars
<1> HIDE DEF Seen
<1> QED
    BY <1>2, <1>3, <1>4, <1>5, <1>6, <1>7, <1>8, <1>9, UnseenSteps

\* Every behaviour of sender, network and receiver, with its losses, duplicates,
\* retries and restarts, is a behaviour of the abstract delivery service.
THEOREM MessengerImplementsDelivery == Spec => ImplementsDelivery
<1>1. Init => Delivery!DeliveryInit
      BY KindAssumption DEF Init, OutboxInit, Delivery!DeliveryInit
<1> QED
    BY <1>1, DeliverySimulated, Invariance, PTL
       DEF Spec, ImplementsDelivery, Delivery!DeliverySpec
=============================================================================
