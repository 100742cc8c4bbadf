-------------------------- MODULE MessengerProofs --------------------------
(***************************************************************************)
(* Theorems about the outbox, its drain and the Universal Messenger, for   *)
(* every set of messages and peers and every value of the budgets.         *)
(***************************************************************************)
EXTENDS Messenger, TLAPS

-----------------------------------------------------------------------------
(***************************************************************************)
(* The outbox by itself.                                                   *)
(***************************************************************************)

\* A page is only loaded by a running drain.
PageHasDrain == page # {} => active

OutboxInv == OutboxTypeOK /\ RetryOwnsRowAndDrain /\ PageHasDrain

\* Every action of the outbox keeps its invariant.
LEMMA OutboxStep == OutboxInv /\ [OutboxNext]_drainAllVars => OutboxInv'
<1> SUFFICES ASSUME OutboxInv, [OutboxNext]_drainAllVars PROVE OutboxInv'
    OBVIOUS
<1> USE BudgetAssumption, RequestOwnedAssumption
<1> USE DEF OutboxInv, OutboxTypeOK, RetryOwnsRowAndDrain, PageHasDrain, Retrying,
            Owners, Callers, outboxVars, drainVars, HasEntry
<1>1. ASSUME NEW m \in Messages, CallerBegins(m) PROVE OutboxInv'
      BY <1>1 DEF CallerBegins, TryBeginAttempt
<1>2. ASSUME NEW m \in Messages, CallerDelivers(m) PROVE OutboxInv'
      BY <1>2 DEF CallerDelivers, DeleteRows, NotDue, EndAttempt
<1>3. ASSUME NEW m \in Messages, CallerQueues(m) PROVE OutboxInv'
      BY <1>3 DEF CallerQueues, Reschedule, NotDue, Bumped, EndAttempt
<1>4. ASSUME NEW S \in SUBSET Messages, CallersThrow(S) PROVE OutboxInv'
      BY <1>4 DEF CallersThrow
<1>5. ASSUME NEW m \in Messages, RowFallsDue(m) PROVE OutboxInv'
      BY <1>5 DEF RowFallsDue
<1>6. ASSUME NEW m \in Messages, RowAges(m) PROVE OutboxInv'
      BY <1>6 DEF RowAges
<1>7. ASSUME NEW m \in Messages, TakeEntry(m) PROVE OutboxInv'
      BY <1>7 DEF TakeEntry, Admitted, TryBeginAttempt
<1>8. ASSUME NEW m \in Messages, RetryDelivers(m) PROVE OutboxInv'
      BY <1>8 DEF RetryDelivers, DeleteRows, NotDue, EndAttempt
<1>9. ASSUME NEW m \in Messages, RetryFails(m) PROVE OutboxInv'
      BY <1>9 DEF RetryFails, Reschedule, NotDue, Bumped, EndAttempt
<1>10. CASE DrainTick
      BY <1>10 DEF DrainTick, Eligible
<1>11. CASE DrainEnds
  <2>1. OutboxTypeOK'
    <3>1. row' \in [Messages -> 0..StallThreshold]
          BY <1>11 DEF DrainEnds, DeleteRows
    <3>2. due' \subseteq Messages /\ ahead' \subseteq Messages \X Messages
          BY <1>11 DEF DrainEnds, DeleteRows, NotDue
    <3>3. expired' \subseteq Messages
          BY <1>11 DEF DrainEnds, DeleteRows
    <3>4. active' \in BOOLEAN
          BY <1>11 DEF DrainEnds
    <3> QED
        BY <1>11, <3>1, <3>2, <3>3, <3>4 DEF DrainEnds
  <2>2. page' = {} /\ Retrying' = {}
        BY <1>11 DEF DrainEnds
  <2> QED
      BY <2>1, <2>2
<1>12. CASE StopDrain
      BY <1>12 DEF StopDrain
<1>13. CASE StopReturns \/ ProcessEnds
      BY <1>13 DEF StopReturns, ProcessEnds
<1>14. CASE UNCHANGED drainAllVars
      BY <1>14 DEF drainAllVars
<1> QED
    BY <1>1, <1>2, <1>3, <1>4, <1>5, <1>6, <1>7, <1>8, <1>9, <1>10, <1>11, <1>12,
       <1>13, <1>14 DEF OutboxNext, CallerSettles, RetrySettles

\* The empty outbox of a new store and a new process.
LEMMA OutboxStart == OutboxInit => OutboxInv
<1> SUFFICES ASSUME OutboxInit PROVE OutboxInv
    OBVIOUS
<1>1. row \in [Messages -> 0..StallThreshold] /\ attempt \in [Messages -> Owners]
      BY BudgetAssumption DEF OutboxInit, Owners
<1>2. /\ due \subseteq Messages /\ ahead \subseteq Messages \X Messages
      /\ expired \subseteq Messages /\ page \subseteq Messages
      BY DEF OutboxInit
<1>3. active \in BOOLEAN /\ stopping \in BOOLEAN
      BY DEF OutboxInit
<1>4. Retrying = {} /\ page = {}
      BY DEF OutboxInit, Retrying
<1> QED
    BY <1>1, <1>2, <1>3, <1>4 DEF OutboxInv, OutboxTypeOK, RetryOwnsRowAndDrain, PageHasDrain

\* In every behaviour of the outbox a retry has a row and a running drain, which
\* stopOutboxDrain therefore joins.
THEOREM OutboxSafe == OutboxSpec => [](OutboxTypeOK /\ RetryOwnsRowAndDrain)
<1>1. OutboxInv => OutboxTypeOK /\ RetryOwnsRowAndDrain
      BY DEF OutboxInv
<1> QED
    BY <1>1, OutboxStart, OutboxStep, PTL DEF OutboxSpec

-----------------------------------------------------------------------------
(***************************************************************************)
(* The messenger.                                                          *)
(***************************************************************************)

\* The wire part of the type invariant is kept by every action.
LEMMA WireTypeStep == TypeOK /\ [Next]_vars => WireTypeOK'
<1> SUFFICES ASSUME TypeOK, [Next]_vars PROVE WireTypeOK'
    OBVIOUS
<1> USE PeerAssumption, KindAssumption, BoundAssumption, BudgetAssumption
<1> USE DEF TypeOK, OutboxTypeOK, WireTypeOK, Phases, Copies, walkVars, wireVars, recvVars
<1>1. ASSUME NEW m \in Messages, SendAnswered(m)
      PROVE  WireTypeOK'
      BY <1>1 DEF SendAnswered
<1>2. ASSUME NEW m \in Messages, Send(m)
      PROVE  WireTypeOK'
      BY <1>2 DEF Send, CallerBegins, TryBeginAttempt, OnTheWire
<1>3. ASSUME NEW m \in Messages, SendSucceeds(m)
      PROVE  WireTypeOK'
      BY <1>3 DEF SendSucceeds, CallerDelivers, RecordDelivery, OffTheWire, Accepted, ClearRateLimitIfDrained, EndAttempt, DeleteRows
<1>4. ASSUME NEW m \in Messages, NEW err \in Errors, SendQueues(m, err)
      PROVE  WireTypeOK'
      BY <1>4 DEF SendQueues, CallerQueues, Reschedule, Bumped, EndAttempt, ScheduleRecovery, ResolvePeerOnce, Straggle, OffTheWire
<1>5. ASSUME NEW m \in Messages, NEW err \in Errors, SendThrows(m, err)
      PROVE  WireTypeOK'
      BY <1>5 DEF SendThrows, CallersThrow, Straggle, OffTheWire
<1>6. ASSUME NEW m \in Messages, RequestRecovers(m)
      PROVE  WireTypeOK'
      BY <1>6 DEF RequestRecovers, ResolvePeerOnce, Straggle
<1>7. ASSUME NEW m \in Messages, RecoveryAborted(m)
      PROVE  WireTypeOK'
      BY <1>7 DEF RecoveryAborted, CallersThrow, OffTheWire
<1>8. ASSUME NEW m \in Messages, RetryOutboxEntry(m)
      PROVE  WireTypeOK'
      BY <1>8 DEF RetryOutboxEntry, TakeEntry, Admitted, TryBeginAttempt, OnTheWire
<1>9. ASSUME NEW m \in Messages, RetryAnswered(m)
      PROVE  WireTypeOK'
      BY <1>9 DEF RetryAnswered, Accepted
<1>10. ASSUME NEW m \in Messages, RetrySucceeds(m)
      PROVE  WireTypeOK'
      BY <1>10 DEF RetrySucceeds, RetryDelivers, RecordDelivery, OffTheWire, Accepted, ClearRateLimitIfDrained, EndAttempt, DeleteRows
<1>11. ASSUME NEW m \in Messages, NEW err \in Errors, RetryErrs(m, err)
      PROVE  WireTypeOK'
      BY <1>11 DEF RetryErrs, RetryFails, Reschedule, Bumped, EndAttempt, ScheduleRecovery, ResolvePeerOnce, Straggle, OffTheWire
<1>12. ASSUME NEW m \in Messages, BackoffElapses(m)
      PROVE  WireTypeOK'
      BY <1>12 DEF BackoffElapses, RowFallsDue
<1>13. ASSUME NEW m \in Messages, MaxAgePasses(m)
      PROVE  WireTypeOK'
      BY <1>13 DEF MaxAgePasses, RowAges
<1>14. ASSUME NEW p \in Peers, RateLimitLapses(p)
      PROVE  WireTypeOK'
      BY <1>14 DEF RateLimitLapses
<1>15. ASSUME NEW p \in Peers, WalkEnds(p)
      PROVE  WireTypeOK'
      BY <1>15 DEF WalkEnds, Awaiting, CallersThrow
<1>16. ASSUME NEW m \in Messages, Lose(m)
      PROVE  WireTypeOK'
      BY <1>16 DEF Lose
<1>17. ASSUME NEW m \in Messages, RouterResends(m)
      PROVE  WireTypeOK'
      BY <1>17 DEF RouterResends, Straggle
<1>18. ASSUME NEW m \in Messages, LoseLate(m)
      PROVE  WireTypeOK'
      BY <1>18 DEF LoseLate
<1>19. ASSUME NEW m \in Messages, Receive(m)
      PROVE  WireTypeOK'
      BY <1>19 DEF Receive, Admit
<1>20. ASSUME NEW m \in Messages, ReceiveLate(m)
      PROVE  WireTypeOK'
      BY <1>20 DEF ReceiveLate, Admit
<1>21. ASSUME NEW m \in Messages, HandlerApplies(m)
      PROVE  WireTypeOK'
      BY <1>21 DEF HandlerApplies
<1>22. ASSUME NEW m \in Messages, HandlerReturns(m)
      PROVE  WireTypeOK'
      BY <1>22 DEF HandlerReturns
<1>23. ASSUME NEW m \in Messages, HandlerThrows(m)
      PROVE  WireTypeOK'
      BY <1>23 DEF HandlerThrows
<1>24. ASSUME NEW m \in Messages, CrashAfterRecord(m)
      PROVE  WireTypeOK'
      BY <1>24 DEF CrashAfterRecord, Finishing, Accepted, ProcessEnds, MemoryLost
<1>25. ASSUME NEW p \in Peers, ReceiverCrash(p)
      PROVE  WireTypeOK'
      BY <1>25 DEF ReceiverCrash
<1>26. CASE ProcessOutboxTick
      BY <1>26 DEF ProcessOutboxTick, DrainTick
<1>27. CASE DropExpiredOutbox
      BY <1>27 DEF DropExpiredOutbox, DrainEnds, DeleteRows, ClearRateLimitIfDrained
<1>28. CASE StopOutboxDrain
      BY <1>28 DEF StopOutboxDrain, StopDrain
<1>29. CASE Restart
      BY <1>29 DEF Restart, StopReturns, ProcessEnds, MemoryLost
<1>30. CASE SenderCrash
      BY <1>30 DEF SenderCrash, ProcessEnds, MemoryLost
<1>31. CASE UNCHANGED vars
      BY <1>31 DEF vars, drainAllVars, outboxVars, drainVars
<1> QED
    BY <1>1, <1>2, <1>3, <1>4, <1>5, <1>6, <1>7, <1>8, <1>9, <1>10, <1>11,
       <1>12, <1>13, <1>14, <1>15, <1>16, <1>17, <1>18, <1>19, <1>20, <1>21,
       <1>22, <1>23, <1>24, <1>25, <1>26, <1>27, <1>28, <1>29, <1>30, <1>31
       DEF Next, Caller, Drain, Clock, Network, Receiver, Failures

\* Every step of the messenger is a step of its outbox or leaves the outbox alone.
LEMMA OutboxSimulated == [Next]_vars => [OutboxNext]_drainAllVars
<1> SUFFICES ASSUME [Next]_vars PROVE [OutboxNext]_drainAllVars
    OBVIOUS
<1> USE DEF drainAllVars
<1>1. ASSUME NEW m \in Messages, SendAnswered(m)
      PROVE  [OutboxNext]_drainAllVars
      BY <1>1 DEF SendAnswered
<1>2. ASSUME NEW m \in Messages, Send(m)
      PROVE  [OutboxNext]_drainAllVars
      BY <1>2 DEF Send, OutboxNext
<1>3. ASSUME NEW m \in Messages, SendSucceeds(m)
      PROVE  [OutboxNext]_drainAllVars
      BY <1>3 DEF SendSucceeds, OutboxNext, CallerSettles
<1>4. ASSUME NEW m \in Messages, NEW err \in Errors, SendQueues(m, err)
      PROVE  [OutboxNext]_drainAllVars
      BY <1>4 DEF SendQueues, OutboxNext, CallerSettles
<1>5. ASSUME NEW m \in Messages, NEW err \in Errors, SendThrows(m, err)
      PROVE  [OutboxNext]_drainAllVars
      BY <1>5 DEF SendThrows, OutboxNext, CallerSettles
<1>6. ASSUME NEW m \in Messages, RequestRecovers(m)
      PROVE  [OutboxNext]_drainAllVars
      BY <1>6 DEF RequestRecovers
<1>7. ASSUME NEW m \in Messages, RecoveryAborted(m)
      PROVE  [OutboxNext]_drainAllVars
      BY <1>7 DEF RecoveryAborted, OutboxNext, CallerSettles
<1>8. ASSUME NEW m \in Messages, RetryOutboxEntry(m)
      PROVE  [OutboxNext]_drainAllVars
      BY <1>8 DEF RetryOutboxEntry, OutboxNext
<1>9. ASSUME NEW m \in Messages, RetryAnswered(m)
      PROVE  [OutboxNext]_drainAllVars
      BY <1>9 DEF RetryAnswered
<1>10. ASSUME NEW m \in Messages, RetrySucceeds(m)
      PROVE  [OutboxNext]_drainAllVars
      BY <1>10 DEF RetrySucceeds, OutboxNext, RetrySettles
<1>11. ASSUME NEW m \in Messages, NEW err \in Errors, RetryErrs(m, err)
      PROVE  [OutboxNext]_drainAllVars
      BY <1>11 DEF RetryErrs, OutboxNext, RetrySettles
<1>12. ASSUME NEW m \in Messages, BackoffElapses(m)
      PROVE  [OutboxNext]_drainAllVars
      BY <1>12 DEF BackoffElapses, OutboxNext
<1>13. ASSUME NEW m \in Messages, MaxAgePasses(m)
      PROVE  [OutboxNext]_drainAllVars
      BY <1>13 DEF MaxAgePasses, OutboxNext
<1>14. ASSUME NEW p \in Peers, RateLimitLapses(p)
      PROVE  [OutboxNext]_drainAllVars
      BY <1>14 DEF RateLimitLapses
<1>15. ASSUME NEW p \in Peers, WalkEnds(p)
      PROVE  [OutboxNext]_drainAllVars
  <2>1. Awaiting(p) \in SUBSET Messages
        BY DEF Awaiting
  <2> QED
      BY <1>15, <2>1 DEF WalkEnds, OutboxNext
<1>16. ASSUME NEW m \in Messages, Lose(m)
      PROVE  [OutboxNext]_drainAllVars
      BY <1>16 DEF Lose
<1>17. ASSUME NEW m \in Messages, RouterResends(m)
      PROVE  [OutboxNext]_drainAllVars
      BY <1>17 DEF RouterResends
<1>18. ASSUME NEW m \in Messages, LoseLate(m)
      PROVE  [OutboxNext]_drainAllVars
      BY <1>18 DEF LoseLate
<1>19. ASSUME NEW m \in Messages, Receive(m)
      PROVE  [OutboxNext]_drainAllVars
      BY <1>19 DEF Receive
<1>20. ASSUME NEW m \in Messages, ReceiveLate(m)
      PROVE  [OutboxNext]_drainAllVars
      BY <1>20 DEF ReceiveLate
<1>21. ASSUME NEW m \in Messages, HandlerApplies(m)
      PROVE  [OutboxNext]_drainAllVars
      BY <1>21 DEF HandlerApplies
<1>22. ASSUME NEW m \in Messages, HandlerReturns(m)
      PROVE  [OutboxNext]_drainAllVars
      BY <1>22 DEF HandlerReturns
<1>23. ASSUME NEW m \in Messages, HandlerThrows(m)
      PROVE  [OutboxNext]_drainAllVars
      BY <1>23 DEF HandlerThrows
<1>24. ASSUME NEW m \in Messages, CrashAfterRecord(m)
      PROVE  [OutboxNext]_drainAllVars
      BY <1>24 DEF CrashAfterRecord, OutboxNext
<1>25. ASSUME NEW p \in Peers, ReceiverCrash(p)
      PROVE  [OutboxNext]_drainAllVars
      BY <1>25 DEF ReceiverCrash
<1>26. CASE ProcessOutboxTick
      BY <1>26 DEF ProcessOutboxTick, OutboxNext
<1>27. CASE DropExpiredOutbox
      BY <1>27 DEF DropExpiredOutbox, OutboxNext
<1>28. CASE StopOutboxDrain
      BY <1>28 DEF StopOutboxDrain, OutboxNext
<1>29. CASE Restart
      BY <1>29 DEF Restart, OutboxNext
<1>30. CASE SenderCrash
      BY <1>30 DEF SenderCrash, OutboxNext
<1>31. CASE UNCHANGED vars
      BY <1>31 DEF vars, drainAllVars, outboxVars, drainVars
<1> QED
    BY <1>1, <1>2, <1>3, <1>4, <1>5, <1>6, <1>7, <1>8, <1>9, <1>10, <1>11,
       <1>12, <1>13, <1>14, <1>15, <1>16, <1>17, <1>18, <1>19, <1>20, <1>21,
       <1>22, <1>23, <1>24, <1>25, <1>26, <1>27, <1>28, <1>29, <1>30, <1>31
       DEF Next, Caller, Drain, Clock, Network, Receiver, Failures

\* The messenger drives its outbox only through the outbox's own operations, so
\* what holds of every OutboxSpec behaviour holds of the messenger's outbox.
THEOREM MessengerImplementsOutbox == Spec => ImplementsOutbox
<1>1. Init => OutboxInit
      BY DEF Init
<1> QED
    BY <1>1, OutboxSimulated, PTL DEF Spec, ImplementsOutbox, OutboxSpec

-----------------------------------------------------------------------------
(***************************************************************************)
(* The inductive invariant.                                                *)
(***************************************************************************)

\* An answer is only ever given for a recorded message; a retry that is past the
\* validator has the handler's answer.
AnswerInv ==
    \A m \in Messages :
        /\ net[m] = "answer" => m \in inRec
        /\ (phase[m] = "completing" /\ m \in Validated) => m \in inRec

\* A caller's attempt is for a message not yet recorded as delivered.
FreshInv == \A m \in Messages : attempt[m] \in Callers => m \notin outRec

\* A handler runs only for a message not yet recorded as handled.
HandlerInv == \A m \in Messages : handling[m] # "no" => m \notin inRec

\* Only a request-owned message is attempted by a request.
OwnerInv == \A m \in Messages : attempt[m] = "request" => m \in RequestOwned

IInv ==
    /\ TypeOK /\ OutboxInv /\ SlotHeldWhileWaiting /\ AnswerInv /\ FreshInv /\ HandlerInv /\ OwnerInv
    /\ EffectsAccounted /\ DeliveredWasHandled /\ DeliveredLeavesOutbox /\ DurableSloOwned

\* Slots and phases stay in step.
LEMMA SlotStep == IInv /\ [Next]_vars => SlotHeldWhileWaiting'
<1> SUFFICES ASSUME IInv, [Next]_vars PROVE SlotHeldWhileWaiting'
    OBVIOUS
<1> USE DEF IInv, TypeOK, OutboxTypeOK, WireTypeOK, SlotHeldWhileWaiting, Phases, Copies, Owners, Callers,
            drainAllVars, outboxVars, drainVars, wireVars
<1>1. ASSUME NEW m \in Messages, SendAnswered(m)
      PROVE  SlotHeldWhileWaiting'
      BY <1>1 DEF SendAnswered
<1>2. ASSUME NEW m \in Messages, Send(m)
      PROVE  SlotHeldWhileWaiting'
      BY <1>2 DEF Send, CallerBegins, TryBeginAttempt, OnTheWire
<1>3. ASSUME NEW m \in Messages, SendSucceeds(m)
      PROVE  SlotHeldWhileWaiting'
      BY <1>3 DEF SendSucceeds, CallerDelivers, RecordDelivery, OffTheWire, Accepted, ClearRateLimitIfDrained, EndAttempt, DeleteRows
<1>4. ASSUME NEW m \in Messages, NEW err \in Errors, SendQueues(m, err)
      PROVE  SlotHeldWhileWaiting'
      BY <1>4 DEF SendQueues, CallerQueues, Reschedule, Bumped, EndAttempt, ScheduleRecovery, ResolvePeerOnce, Straggle, OffTheWire
<1>5. ASSUME NEW m \in Messages, NEW err \in Errors, SendThrows(m, err)
      PROVE  SlotHeldWhileWaiting'
      BY <1>5 DEF SendThrows, CallersThrow, Straggle, OffTheWire
<1>6. ASSUME NEW m \in Messages, RequestRecovers(m)
      PROVE  SlotHeldWhileWaiting'
      BY <1>6 DEF RequestRecovers, ResolvePeerOnce, Straggle
<1>7. ASSUME NEW m \in Messages, RecoveryAborted(m)
      PROVE  SlotHeldWhileWaiting'
      BY <1>7 DEF RecoveryAborted, CallersThrow, OffTheWire
<1>8. ASSUME NEW m \in Messages, RetryOutboxEntry(m)
      PROVE  SlotHeldWhileWaiting'
      BY <1>8 DEF RetryOutboxEntry, TakeEntry, Admitted, TryBeginAttempt, OnTheWire
<1>9. ASSUME NEW m \in Messages, RetryAnswered(m)
      PROVE  SlotHeldWhileWaiting'
      BY <1>9 DEF RetryAnswered, Accepted
<1>10. ASSUME NEW m \in Messages, RetrySucceeds(m)
      PROVE  SlotHeldWhileWaiting'
      BY <1>10 DEF RetrySucceeds, RetryDelivers, RecordDelivery, OffTheWire, Accepted, ClearRateLimitIfDrained, EndAttempt, DeleteRows
<1>11. ASSUME NEW m \in Messages, NEW err \in Errors, RetryErrs(m, err)
      PROVE  SlotHeldWhileWaiting'
      BY <1>11 DEF RetryErrs, RetryFails, Reschedule, Bumped, EndAttempt, ScheduleRecovery, ResolvePeerOnce, Straggle, OffTheWire
<1>12. ASSUME NEW m \in Messages, BackoffElapses(m)
      PROVE  SlotHeldWhileWaiting'
      BY <1>12 DEF BackoffElapses, RowFallsDue
<1>13. ASSUME NEW m \in Messages, MaxAgePasses(m)
      PROVE  SlotHeldWhileWaiting'
      BY <1>13 DEF MaxAgePasses, RowAges
<1>14. ASSUME NEW p \in Peers, RateLimitLapses(p)
      PROVE  SlotHeldWhileWaiting'
      BY <1>14 DEF RateLimitLapses
<1>15. ASSUME NEW p \in Peers, WalkEnds(p)
      PROVE  SlotHeldWhileWaiting'
      BY <1>15 DEF WalkEnds, Awaiting, CallersThrow
<1>16. ASSUME NEW m \in Messages, Lose(m)
      PROVE  SlotHeldWhileWaiting'
      BY <1>16 DEF Lose
<1>17. ASSUME NEW m \in Messages, RouterResends(m)
      PROVE  SlotHeldWhileWaiting'
      BY <1>17 DEF RouterResends, Straggle
<1>18. ASSUME NEW m \in Messages, LoseLate(m)
      PROVE  SlotHeldWhileWaiting'
      BY <1>18 DEF LoseLate
<1>19. ASSUME NEW m \in Messages, Receive(m)
      PROVE  SlotHeldWhileWaiting'
      BY <1>19 DEF Receive, Admit
<1>20. ASSUME NEW m \in Messages, ReceiveLate(m)
      PROVE  SlotHeldWhileWaiting'
      BY <1>20 DEF ReceiveLate, Admit
<1>21. ASSUME NEW m \in Messages, HandlerApplies(m)
      PROVE  SlotHeldWhileWaiting'
      BY <1>21 DEF HandlerApplies
<1>22. ASSUME NEW m \in Messages, HandlerReturns(m)
      PROVE  SlotHeldWhileWaiting'
      BY <1>22 DEF HandlerReturns
<1>23. ASSUME NEW m \in Messages, HandlerThrows(m)
      PROVE  SlotHeldWhileWaiting'
      BY <1>23 DEF HandlerThrows
<1>24. ASSUME NEW m \in Messages, CrashAfterRecord(m)
      PROVE  SlotHeldWhileWaiting'
      BY <1>24 DEF CrashAfterRecord, Finishing, Accepted, ProcessEnds, MemoryLost
<1>25. ASSUME NEW p \in Peers, ReceiverCrash(p)
      PROVE  SlotHeldWhileWaiting'
      BY <1>25 DEF ReceiverCrash
<1>26. CASE ProcessOutboxTick
      BY <1>26 DEF ProcessOutboxTick, DrainTick
<1>27. CASE DropExpiredOutbox
      BY <1>27 DEF DropExpiredOutbox, DrainEnds, DeleteRows, ClearRateLimitIfDrained
<1>28. CASE StopOutboxDrain
      BY <1>28 DEF StopOutboxDrain, StopDrain
<1>29. CASE Restart
      BY <1>29 DEF Restart, StopReturns, ProcessEnds, MemoryLost
<1>30. CASE SenderCrash
      BY <1>30 DEF SenderCrash, ProcessEnds, MemoryLost
<1>31. CASE UNCHANGED vars
      BY <1>31 DEF vars, drainAllVars, outboxVars, drainVars
<1> QED
    BY <1>1, <1>2, <1>3, <1>4, <1>5, <1>6, <1>7, <1>8, <1>9, <1>10, <1>11,
       <1>12, <1>13, <1>14, <1>15, <1>16, <1>17, <1>18, <1>19, <1>20, <1>21,
       <1>22, <1>23, <1>24, <1>25, <1>26, <1>27, <1>28, <1>29, <1>30, <1>31
       DEF Next, Caller, Drain, Clock, Network, Receiver, Failures

\* Answers and validated retries stay backed by the receiver's record.
LEMMA AnswerStep == IInv /\ [Next]_vars => AnswerInv'
<1> SUFFICES ASSUME IInv, [Next]_vars PROVE AnswerInv'
    OBVIOUS
<1> USE DEF IInv, TypeOK, WireTypeOK, AnswerInv, SlotHeldWhileWaiting, Phases, Copies,
            drainAllVars, outboxVars, drainVars, wireVars, recvVars
<1>1. ASSUME NEW m \in Messages, SendAnswered(m)
      PROVE  AnswerInv'
      BY <1>1 DEF SendAnswered
<1>2. ASSUME NEW m \in Messages, Send(m)
      PROVE  AnswerInv'
      BY <1>2 DEF Send, CallerBegins, TryBeginAttempt, OnTheWire
<1>3. ASSUME NEW m \in Messages, SendSucceeds(m)
      PROVE  AnswerInv'
      BY <1>3 DEF SendSucceeds, CallerDelivers, RecordDelivery, OffTheWire, Accepted, ClearRateLimitIfDrained, EndAttempt, DeleteRows
<1>4. ASSUME NEW m \in Messages, NEW err \in Errors, SendQueues(m, err)
      PROVE  AnswerInv'
      BY <1>4 DEF SendQueues, CallerQueues, Reschedule, Bumped, EndAttempt, ScheduleRecovery, ResolvePeerOnce, Straggle, OffTheWire
<1>5. ASSUME NEW m \in Messages, NEW err \in Errors, SendThrows(m, err)
      PROVE  AnswerInv'
      BY <1>5 DEF SendThrows, CallersThrow, Straggle, OffTheWire
<1>6. ASSUME NEW m \in Messages, RequestRecovers(m)
      PROVE  AnswerInv'
      BY <1>6 DEF RequestRecovers, ResolvePeerOnce, Straggle
<1>7. ASSUME NEW m \in Messages, RecoveryAborted(m)
      PROVE  AnswerInv'
      BY <1>7 DEF RecoveryAborted, CallersThrow, OffTheWire
<1>8. ASSUME NEW m \in Messages, RetryOutboxEntry(m)
      PROVE  AnswerInv'
      BY <1>8 DEF RetryOutboxEntry, TakeEntry, Admitted, TryBeginAttempt, OnTheWire
<1>9. ASSUME NEW m \in Messages, RetryAnswered(m)
      PROVE  AnswerInv'
      BY <1>9 DEF RetryAnswered, Accepted
<1>10. ASSUME NEW m \in Messages, RetrySucceeds(m)
      PROVE  AnswerInv'
      BY <1>10 DEF RetrySucceeds, RetryDelivers, RecordDelivery, OffTheWire, Accepted, ClearRateLimitIfDrained, EndAttempt, DeleteRows
<1>11. ASSUME NEW m \in Messages, NEW err \in Errors, RetryErrs(m, err)
      PROVE  AnswerInv'
      BY <1>11 DEF RetryErrs, RetryFails, Reschedule, Bumped, EndAttempt, ScheduleRecovery, ResolvePeerOnce, Straggle, OffTheWire
<1>12. ASSUME NEW m \in Messages, BackoffElapses(m)
      PROVE  AnswerInv'
      BY <1>12 DEF BackoffElapses, RowFallsDue
<1>13. ASSUME NEW m \in Messages, MaxAgePasses(m)
      PROVE  AnswerInv'
      BY <1>13 DEF MaxAgePasses, RowAges
<1>14. ASSUME NEW p \in Peers, RateLimitLapses(p)
      PROVE  AnswerInv'
      BY <1>14 DEF RateLimitLapses
<1>15. ASSUME NEW p \in Peers, WalkEnds(p)
      PROVE  AnswerInv'
      BY <1>15 DEF WalkEnds, Awaiting, CallersThrow
<1>16. ASSUME NEW m \in Messages, Lose(m)
      PROVE  AnswerInv'
      BY <1>16 DEF Lose
<1>17. ASSUME NEW m \in Messages, RouterResends(m)
      PROVE  AnswerInv'
      BY <1>17 DEF RouterResends, Straggle
<1>18. ASSUME NEW m \in Messages, LoseLate(m)
      PROVE  AnswerInv'
      BY <1>18 DEF LoseLate
<1>19. ASSUME NEW m \in Messages, Receive(m)
      PROVE  AnswerInv'
      BY <1>19 DEF Receive, Admit
<1>20. ASSUME NEW m \in Messages, ReceiveLate(m)
      PROVE  AnswerInv'
      BY <1>20 DEF ReceiveLate, Admit
<1>21. ASSUME NEW m \in Messages, HandlerApplies(m)
      PROVE  AnswerInv'
      BY <1>21 DEF HandlerApplies
<1>22. ASSUME NEW m \in Messages, HandlerReturns(m)
      PROVE  AnswerInv'
      BY <1>22 DEF HandlerReturns
<1>23. ASSUME NEW m \in Messages, HandlerThrows(m)
      PROVE  AnswerInv'
      BY <1>23 DEF HandlerThrows
<1>24. ASSUME NEW m \in Messages, CrashAfterRecord(m)
      PROVE  AnswerInv'
      BY <1>24 DEF CrashAfterRecord, Finishing, Accepted, ProcessEnds, MemoryLost
<1>25. ASSUME NEW p \in Peers, ReceiverCrash(p)
      PROVE  AnswerInv'
      BY <1>25 DEF ReceiverCrash
<1>26. CASE ProcessOutboxTick
      BY <1>26 DEF ProcessOutboxTick, DrainTick
<1>27. CASE DropExpiredOutbox
      BY <1>27 DEF DropExpiredOutbox, DrainEnds, DeleteRows, ClearRateLimitIfDrained
<1>28. CASE StopOutboxDrain
      BY <1>28 DEF StopOutboxDrain, StopDrain
<1>29. CASE Restart
      BY <1>29 DEF Restart, StopReturns, ProcessEnds, MemoryLost
<1>30. CASE SenderCrash
      BY <1>30 DEF SenderCrash, ProcessEnds, MemoryLost
<1>31. CASE UNCHANGED vars
      BY <1>31 DEF vars, drainAllVars, outboxVars, drainVars
<1> QED
    BY <1>1, <1>2, <1>3, <1>4, <1>5, <1>6, <1>7, <1>8, <1>9, <1>10, <1>11,
       <1>12, <1>13, <1>14, <1>15, <1>16, <1>17, <1>18, <1>19, <1>20, <1>21,
       <1>22, <1>23, <1>24, <1>25, <1>26, <1>27, <1>28, <1>29, <1>30, <1>31
       DEF Next, Caller, Drain, Clock, Network, Receiver, Failures

\* A caller never holds the slot of a delivered message, and a delivered message
\* keeps a row only when a crash tore its delivery.
LEMMA FreshStep == IInv /\ [Next]_vars => FreshInv' /\ DeliveredLeavesOutbox'
<1> SUFFICES ASSUME IInv, [Next]_vars PROVE FreshInv' /\ DeliveredLeavesOutbox'
    OBVIOUS
<1> USE DEF IInv, TypeOK, OutboxTypeOK, WireTypeOK, FreshInv, DeliveredLeavesOutbox, SlotHeldWhileWaiting,
            Owners, Callers, HasEntry, drainAllVars, outboxVars, drainVars, wireVars
<1>1. ASSUME NEW m \in Messages, SendAnswered(m)
      PROVE  FreshInv' /\ DeliveredLeavesOutbox'
      BY <1>1 DEF SendAnswered
<1>2. ASSUME NEW m \in Messages, Send(m)
      PROVE  FreshInv' /\ DeliveredLeavesOutbox'
      BY <1>2 DEF Send, CallerBegins, TryBeginAttempt, OnTheWire
<1>3. ASSUME NEW m \in Messages, SendSucceeds(m)
      PROVE  FreshInv' /\ DeliveredLeavesOutbox'
      BY <1>3 DEF SendSucceeds, CallerDelivers, RecordDelivery, OffTheWire, Accepted, ClearRateLimitIfDrained, EndAttempt, DeleteRows
<1>4. ASSUME NEW m \in Messages, NEW err \in Errors, SendQueues(m, err)
      PROVE  FreshInv' /\ DeliveredLeavesOutbox'
      BY <1>4 DEF SendQueues, CallerQueues, Reschedule, Bumped, EndAttempt, ScheduleRecovery, ResolvePeerOnce, Straggle, OffTheWire
<1>5. ASSUME NEW m \in Messages, NEW err \in Errors, SendThrows(m, err)
      PROVE  FreshInv' /\ DeliveredLeavesOutbox'
      BY <1>5 DEF SendThrows, CallersThrow, Straggle, OffTheWire
<1>6. ASSUME NEW m \in Messages, RequestRecovers(m)
      PROVE  FreshInv' /\ DeliveredLeavesOutbox'
      BY <1>6 DEF RequestRecovers, ResolvePeerOnce, Straggle
<1>7. ASSUME NEW m \in Messages, RecoveryAborted(m)
      PROVE  FreshInv' /\ DeliveredLeavesOutbox'
      BY <1>7 DEF RecoveryAborted, CallersThrow, OffTheWire
<1>8. ASSUME NEW m \in Messages, RetryOutboxEntry(m)
      PROVE  FreshInv' /\ DeliveredLeavesOutbox'
      BY <1>8 DEF RetryOutboxEntry, TakeEntry, Admitted, TryBeginAttempt, OnTheWire
<1>9. ASSUME NEW m \in Messages, RetryAnswered(m)
      PROVE  FreshInv' /\ DeliveredLeavesOutbox'
      BY <1>9 DEF RetryAnswered, Accepted
<1>10. ASSUME NEW m \in Messages, RetrySucceeds(m)
      PROVE  FreshInv' /\ DeliveredLeavesOutbox'
      BY <1>10 DEF RetrySucceeds, RetryDelivers, RecordDelivery, OffTheWire, Accepted, ClearRateLimitIfDrained, EndAttempt, DeleteRows
<1>11. ASSUME NEW m \in Messages, NEW err \in Errors, RetryErrs(m, err)
      PROVE  FreshInv' /\ DeliveredLeavesOutbox'
      BY <1>11 DEF RetryErrs, RetryFails, Reschedule, Bumped, EndAttempt, ScheduleRecovery, ResolvePeerOnce, Straggle, OffTheWire
<1>12. ASSUME NEW m \in Messages, BackoffElapses(m)
      PROVE  FreshInv' /\ DeliveredLeavesOutbox'
      BY <1>12 DEF BackoffElapses, RowFallsDue
<1>13. ASSUME NEW m \in Messages, MaxAgePasses(m)
      PROVE  FreshInv' /\ DeliveredLeavesOutbox'
      BY <1>13 DEF MaxAgePasses, RowAges
<1>14. ASSUME NEW p \in Peers, RateLimitLapses(p)
      PROVE  FreshInv' /\ DeliveredLeavesOutbox'
      BY <1>14 DEF RateLimitLapses
<1>15. ASSUME NEW p \in Peers, WalkEnds(p)
      PROVE  FreshInv' /\ DeliveredLeavesOutbox'
      BY <1>15 DEF WalkEnds, Awaiting, CallersThrow
<1>16. ASSUME NEW m \in Messages, Lose(m)
      PROVE  FreshInv' /\ DeliveredLeavesOutbox'
      BY <1>16 DEF Lose
<1>17. ASSUME NEW m \in Messages, RouterResends(m)
      PROVE  FreshInv' /\ DeliveredLeavesOutbox'
      BY <1>17 DEF RouterResends, Straggle
<1>18. ASSUME NEW m \in Messages, LoseLate(m)
      PROVE  FreshInv' /\ DeliveredLeavesOutbox'
      BY <1>18 DEF LoseLate
<1>19. ASSUME NEW m \in Messages, Receive(m)
      PROVE  FreshInv' /\ DeliveredLeavesOutbox'
      BY <1>19 DEF Receive, Admit
<1>20. ASSUME NEW m \in Messages, ReceiveLate(m)
      PROVE  FreshInv' /\ DeliveredLeavesOutbox'
      BY <1>20 DEF ReceiveLate, Admit
<1>21. ASSUME NEW m \in Messages, HandlerApplies(m)
      PROVE  FreshInv' /\ DeliveredLeavesOutbox'
      BY <1>21 DEF HandlerApplies
<1>22. ASSUME NEW m \in Messages, HandlerReturns(m)
      PROVE  FreshInv' /\ DeliveredLeavesOutbox'
      BY <1>22 DEF HandlerReturns
<1>23. ASSUME NEW m \in Messages, HandlerThrows(m)
      PROVE  FreshInv' /\ DeliveredLeavesOutbox'
      BY <1>23 DEF HandlerThrows
<1>24. ASSUME NEW m \in Messages, CrashAfterRecord(m)
      PROVE  FreshInv' /\ DeliveredLeavesOutbox'
      BY <1>24 DEF CrashAfterRecord, Finishing, Accepted, ProcessEnds, MemoryLost
<1>25. ASSUME NEW p \in Peers, ReceiverCrash(p)
      PROVE  FreshInv' /\ DeliveredLeavesOutbox'
      BY <1>25 DEF ReceiverCrash
<1>26. CASE ProcessOutboxTick
      BY <1>26 DEF ProcessOutboxTick, DrainTick
<1>27. CASE DropExpiredOutbox
      BY <1>27 DEF DropExpiredOutbox, DrainEnds, DeleteRows, ClearRateLimitIfDrained
<1>28. CASE StopOutboxDrain
      BY <1>28 DEF StopOutboxDrain, StopDrain
<1>29. CASE Restart
      BY <1>29 DEF Restart, StopReturns, ProcessEnds, MemoryLost
<1>30. CASE SenderCrash
      BY <1>30 DEF SenderCrash, ProcessEnds, MemoryLost
<1>31. CASE UNCHANGED vars
      BY <1>31 DEF vars, drainAllVars, outboxVars, drainVars
<1> QED
    BY <1>1, <1>2, <1>3, <1>4, <1>5, <1>6, <1>7, <1>8, <1>9, <1>10, <1>11,
       <1>12, <1>13, <1>14, <1>15, <1>16, <1>17, <1>18, <1>19, <1>20, <1>21,
       <1>22, <1>23, <1>24, <1>25, <1>26, <1>27, <1>28, <1>29, <1>30, <1>31
       DEF Next, Caller, Drain, Clock, Network, Receiver, Failures

\* The receiver's handler, record and effect counters agree.
LEMMA HandlerStep == IInv /\ [Next]_vars => HandlerInv' /\ EffectsAccounted'
<1> SUFFICES ASSUME IInv, [Next]_vars PROVE HandlerInv' /\ EffectsAccounted'
    OBVIOUS
<1> USE DEF IInv, TypeOK, WireTypeOK, HandlerInv, EffectsAccounted, recvVars
<1>1. ASSUME NEW m \in Messages, SendAnswered(m)
      PROVE  HandlerInv' /\ EffectsAccounted'
      BY <1>1 DEF SendAnswered
<1>2. ASSUME NEW m \in Messages, Send(m)
      PROVE  HandlerInv' /\ EffectsAccounted'
      BY <1>2 DEF Send, CallerBegins, TryBeginAttempt, OnTheWire
<1>3. ASSUME NEW m \in Messages, SendSucceeds(m)
      PROVE  HandlerInv' /\ EffectsAccounted'
      BY <1>3 DEF SendSucceeds, CallerDelivers, RecordDelivery, OffTheWire, Accepted, ClearRateLimitIfDrained, EndAttempt, DeleteRows
<1>4. ASSUME NEW m \in Messages, NEW err \in Errors, SendQueues(m, err)
      PROVE  HandlerInv' /\ EffectsAccounted'
      BY <1>4 DEF SendQueues, CallerQueues, Reschedule, Bumped, EndAttempt, ScheduleRecovery, ResolvePeerOnce, Straggle, OffTheWire
<1>5. ASSUME NEW m \in Messages, NEW err \in Errors, SendThrows(m, err)
      PROVE  HandlerInv' /\ EffectsAccounted'
      BY <1>5 DEF SendThrows, CallersThrow, Straggle, OffTheWire
<1>6. ASSUME NEW m \in Messages, RequestRecovers(m)
      PROVE  HandlerInv' /\ EffectsAccounted'
      BY <1>6 DEF RequestRecovers, ResolvePeerOnce, Straggle
<1>7. ASSUME NEW m \in Messages, RecoveryAborted(m)
      PROVE  HandlerInv' /\ EffectsAccounted'
      BY <1>7 DEF RecoveryAborted, CallersThrow, OffTheWire
<1>8. ASSUME NEW m \in Messages, RetryOutboxEntry(m)
      PROVE  HandlerInv' /\ EffectsAccounted'
      BY <1>8 DEF RetryOutboxEntry, TakeEntry, Admitted, TryBeginAttempt, OnTheWire
<1>9. ASSUME NEW m \in Messages, RetryAnswered(m)
      PROVE  HandlerInv' /\ EffectsAccounted'
      BY <1>9 DEF RetryAnswered, Accepted
<1>10. ASSUME NEW m \in Messages, RetrySucceeds(m)
      PROVE  HandlerInv' /\ EffectsAccounted'
      BY <1>10 DEF RetrySucceeds, RetryDelivers, RecordDelivery, OffTheWire, Accepted, ClearRateLimitIfDrained, EndAttempt, DeleteRows
<1>11. ASSUME NEW m \in Messages, NEW err \in Errors, RetryErrs(m, err)
      PROVE  HandlerInv' /\ EffectsAccounted'
      BY <1>11 DEF RetryErrs, RetryFails, Reschedule, Bumped, EndAttempt, ScheduleRecovery, ResolvePeerOnce, Straggle, OffTheWire
<1>12. ASSUME NEW m \in Messages, BackoffElapses(m)
      PROVE  HandlerInv' /\ EffectsAccounted'
      BY <1>12 DEF BackoffElapses, RowFallsDue
<1>13. ASSUME NEW m \in Messages, MaxAgePasses(m)
      PROVE  HandlerInv' /\ EffectsAccounted'
      BY <1>13 DEF MaxAgePasses, RowAges
<1>14. ASSUME NEW p \in Peers, RateLimitLapses(p)
      PROVE  HandlerInv' /\ EffectsAccounted'
      BY <1>14 DEF RateLimitLapses
<1>15. ASSUME NEW p \in Peers, WalkEnds(p)
      PROVE  HandlerInv' /\ EffectsAccounted'
      BY <1>15 DEF WalkEnds, Awaiting, CallersThrow
<1>16. ASSUME NEW m \in Messages, Lose(m)
      PROVE  HandlerInv' /\ EffectsAccounted'
      BY <1>16 DEF Lose
<1>17. ASSUME NEW m \in Messages, RouterResends(m)
      PROVE  HandlerInv' /\ EffectsAccounted'
      BY <1>17 DEF RouterResends, Straggle
<1>18. ASSUME NEW m \in Messages, LoseLate(m)
      PROVE  HandlerInv' /\ EffectsAccounted'
      BY <1>18 DEF LoseLate
<1>19. ASSUME NEW m \in Messages, Receive(m)
      PROVE  HandlerInv' /\ EffectsAccounted'
      BY <1>19 DEF Receive, Admit
<1>20. ASSUME NEW m \in Messages, ReceiveLate(m)
      PROVE  HandlerInv' /\ EffectsAccounted'
      BY <1>20 DEF ReceiveLate, Admit
<1>21. ASSUME NEW m \in Messages, HandlerApplies(m)
      PROVE  HandlerInv' /\ EffectsAccounted'
      BY <1>21 DEF HandlerApplies
<1>22. ASSUME NEW m \in Messages, HandlerReturns(m)
      PROVE  HandlerInv' /\ EffectsAccounted'
      BY <1>22 DEF HandlerReturns
<1>23. ASSUME NEW m \in Messages, HandlerThrows(m)
      PROVE  HandlerInv' /\ EffectsAccounted'
      BY <1>23 DEF HandlerThrows
<1>24. ASSUME NEW m \in Messages, CrashAfterRecord(m)
      PROVE  HandlerInv' /\ EffectsAccounted'
      BY <1>24 DEF CrashAfterRecord, Finishing, Accepted, ProcessEnds, MemoryLost
<1>25. ASSUME NEW p \in Peers, ReceiverCrash(p)
      PROVE  HandlerInv' /\ EffectsAccounted'
      BY <1>25 DEF ReceiverCrash
<1>26. CASE ProcessOutboxTick
      BY <1>26 DEF ProcessOutboxTick, DrainTick
<1>27. CASE DropExpiredOutbox
      BY <1>27 DEF DropExpiredOutbox, DrainEnds, DeleteRows, ClearRateLimitIfDrained
<1>28. CASE StopOutboxDrain
      BY <1>28 DEF StopOutboxDrain, StopDrain
<1>29. CASE Restart
      BY <1>29 DEF Restart, StopReturns, ProcessEnds, MemoryLost
<1>30. CASE SenderCrash
      BY <1>30 DEF SenderCrash, ProcessEnds, MemoryLost
<1>31. CASE UNCHANGED vars
      BY <1>31 DEF vars, drainAllVars, outboxVars, drainVars
<1> QED
    BY <1>1, <1>2, <1>3, <1>4, <1>5, <1>6, <1>7, <1>8, <1>9, <1>10, <1>11,
       <1>12, <1>13, <1>14, <1>15, <1>16, <1>17, <1>18, <1>19, <1>20, <1>21,
       <1>22, <1>23, <1>24, <1>25, <1>26, <1>27, <1>28, <1>29, <1>30, <1>31
       DEF Next, Caller, Drain, Clock, Network, Receiver, Failures

\* A validated message is recorded as delivered only once it was handled.
LEMMA DeliveredStep == IInv /\ [Next]_vars => DeliveredWasHandled'
<1> SUFFICES ASSUME IInv, [Next]_vars PROVE DeliveredWasHandled'
    OBVIOUS
<1> USE DEF IInv, TypeOK, WireTypeOK, AnswerInv, SlotHeldWhileWaiting, DeliveredWasHandled, recvVars
<1>1. ASSUME NEW m \in Messages, SendAnswered(m)
      PROVE  DeliveredWasHandled'
      BY <1>1 DEF SendAnswered
<1>2. ASSUME NEW m \in Messages, Send(m)
      PROVE  DeliveredWasHandled'
      BY <1>2 DEF Send, CallerBegins, TryBeginAttempt, OnTheWire
<1>3. ASSUME NEW m \in Messages, SendSucceeds(m)
      PROVE  DeliveredWasHandled'
      BY <1>3 DEF SendSucceeds, CallerDelivers, RecordDelivery, OffTheWire, Accepted, ClearRateLimitIfDrained, EndAttempt, DeleteRows
<1>4. ASSUME NEW m \in Messages, NEW err \in Errors, SendQueues(m, err)
      PROVE  DeliveredWasHandled'
      BY <1>4 DEF SendQueues, CallerQueues, Reschedule, Bumped, EndAttempt, ScheduleRecovery, ResolvePeerOnce, Straggle, OffTheWire
<1>5. ASSUME NEW m \in Messages, NEW err \in Errors, SendThrows(m, err)
      PROVE  DeliveredWasHandled'
      BY <1>5 DEF SendThrows, CallersThrow, Straggle, OffTheWire
<1>6. ASSUME NEW m \in Messages, RequestRecovers(m)
      PROVE  DeliveredWasHandled'
      BY <1>6 DEF RequestRecovers, ResolvePeerOnce, Straggle
<1>7. ASSUME NEW m \in Messages, RecoveryAborted(m)
      PROVE  DeliveredWasHandled'
      BY <1>7 DEF RecoveryAborted, CallersThrow, OffTheWire
<1>8. ASSUME NEW m \in Messages, RetryOutboxEntry(m)
      PROVE  DeliveredWasHandled'
      BY <1>8 DEF RetryOutboxEntry, TakeEntry, Admitted, TryBeginAttempt, OnTheWire
<1>9. ASSUME NEW m \in Messages, RetryAnswered(m)
      PROVE  DeliveredWasHandled'
      BY <1>9 DEF RetryAnswered, Accepted
<1>10. ASSUME NEW m \in Messages, RetrySucceeds(m)
      PROVE  DeliveredWasHandled'
      BY <1>10 DEF RetrySucceeds, RetryDelivers, RecordDelivery, OffTheWire, Accepted, ClearRateLimitIfDrained, EndAttempt, DeleteRows
<1>11. ASSUME NEW m \in Messages, NEW err \in Errors, RetryErrs(m, err)
      PROVE  DeliveredWasHandled'
      BY <1>11 DEF RetryErrs, RetryFails, Reschedule, Bumped, EndAttempt, ScheduleRecovery, ResolvePeerOnce, Straggle, OffTheWire
<1>12. ASSUME NEW m \in Messages, BackoffElapses(m)
      PROVE  DeliveredWasHandled'
      BY <1>12 DEF BackoffElapses, RowFallsDue
<1>13. ASSUME NEW m \in Messages, MaxAgePasses(m)
      PROVE  DeliveredWasHandled'
      BY <1>13 DEF MaxAgePasses, RowAges
<1>14. ASSUME NEW p \in Peers, RateLimitLapses(p)
      PROVE  DeliveredWasHandled'
      BY <1>14 DEF RateLimitLapses
<1>15. ASSUME NEW p \in Peers, WalkEnds(p)
      PROVE  DeliveredWasHandled'
      BY <1>15 DEF WalkEnds, Awaiting, CallersThrow
<1>16. ASSUME NEW m \in Messages, Lose(m)
      PROVE  DeliveredWasHandled'
      BY <1>16 DEF Lose
<1>17. ASSUME NEW m \in Messages, RouterResends(m)
      PROVE  DeliveredWasHandled'
      BY <1>17 DEF RouterResends, Straggle
<1>18. ASSUME NEW m \in Messages, LoseLate(m)
      PROVE  DeliveredWasHandled'
      BY <1>18 DEF LoseLate
<1>19. ASSUME NEW m \in Messages, Receive(m)
      PROVE  DeliveredWasHandled'
      BY <1>19 DEF Receive, Admit
<1>20. ASSUME NEW m \in Messages, ReceiveLate(m)
      PROVE  DeliveredWasHandled'
      BY <1>20 DEF ReceiveLate, Admit
<1>21. ASSUME NEW m \in Messages, HandlerApplies(m)
      PROVE  DeliveredWasHandled'
      BY <1>21 DEF HandlerApplies
<1>22. ASSUME NEW m \in Messages, HandlerReturns(m)
      PROVE  DeliveredWasHandled'
      BY <1>22 DEF HandlerReturns
<1>23. ASSUME NEW m \in Messages, HandlerThrows(m)
      PROVE  DeliveredWasHandled'
      BY <1>23 DEF HandlerThrows
<1>24. ASSUME NEW m \in Messages, CrashAfterRecord(m)
      PROVE  DeliveredWasHandled'
      BY <1>24 DEF CrashAfterRecord, Finishing, Accepted, ProcessEnds, MemoryLost
<1>25. ASSUME NEW p \in Peers, ReceiverCrash(p)
      PROVE  DeliveredWasHandled'
      BY <1>25 DEF ReceiverCrash
<1>26. CASE ProcessOutboxTick
      BY <1>26 DEF ProcessOutboxTick, DrainTick
<1>27. CASE DropExpiredOutbox
      BY <1>27 DEF DropExpiredOutbox, DrainEnds, DeleteRows, ClearRateLimitIfDrained
<1>28. CASE StopOutboxDrain
      BY <1>28 DEF StopOutboxDrain, StopDrain
<1>29. CASE Restart
      BY <1>29 DEF Restart, StopReturns, ProcessEnds, MemoryLost
<1>30. CASE SenderCrash
      BY <1>30 DEF SenderCrash, ProcessEnds, MemoryLost
<1>31. CASE UNCHANGED vars
      BY <1>31 DEF vars, drainAllVars, outboxVars, drainVars
<1> QED
    BY <1>1, <1>2, <1>3, <1>4, <1>5, <1>6, <1>7, <1>8, <1>9, <1>10, <1>11,
       <1>12, <1>13, <1>14, <1>15, <1>16, <1>17, <1>18, <1>19, <1>20, <1>21,
       <1>22, <1>23, <1>24, <1>25, <1>26, <1>27, <1>28, <1>29, <1>30, <1>31
       DEF Next, Caller, Drain, Clock, Network, Receiver, Failures

\* The SLO entry of a durable message keeps its owner.
LEMMA SloStep == IInv /\ [Next]_vars => OwnerInv' /\ DurableSloOwned'
<1> SUFFICES ASSUME IInv, [Next]_vars PROVE OwnerInv' /\ DurableSloOwned'
    OBVIOUS
<1> USE BudgetAssumption, RequestOwnedAssumption
<1> USE DEF IInv, TypeOK, OutboxTypeOK, WireTypeOK, OutboxInv, RetryOwnsRowAndDrain, Retrying,
            OwnerInv, DurableSloOwned, SlotHeldWhileWaiting, Owners, Callers, HasEntry,
            drainAllVars, outboxVars, drainVars, wireVars
<1>1. ASSUME NEW m \in Messages, SendAnswered(m)
      PROVE  OwnerInv' /\ DurableSloOwned'
      BY <1>1 DEF SendAnswered
<1>2. ASSUME NEW m \in Messages, Send(m)
      PROVE  OwnerInv' /\ DurableSloOwned'
      BY <1>2 DEF Send, CallerBegins, TryBeginAttempt, OnTheWire
<1>3. ASSUME NEW m \in Messages, SendSucceeds(m)
      PROVE  OwnerInv' /\ DurableSloOwned'
      BY <1>3 DEF SendSucceeds, CallerDelivers, RecordDelivery, OffTheWire, Accepted, ClearRateLimitIfDrained, EndAttempt, DeleteRows
<1>4. ASSUME NEW m \in Messages, NEW err \in Errors, SendQueues(m, err)
      PROVE  OwnerInv' /\ DurableSloOwned'
      BY <1>4 DEF SendQueues, CallerQueues, Reschedule, Bumped, EndAttempt, ScheduleRecovery, ResolvePeerOnce, Straggle, OffTheWire
<1>5. ASSUME NEW m \in Messages, NEW err \in Errors, SendThrows(m, err)
      PROVE  OwnerInv' /\ DurableSloOwned'
      BY <1>5 DEF SendThrows, CallersThrow, Straggle, OffTheWire
<1>6. ASSUME NEW m \in Messages, RequestRecovers(m)
      PROVE  OwnerInv' /\ DurableSloOwned'
      BY <1>6 DEF RequestRecovers, ResolvePeerOnce, Straggle
<1>7. ASSUME NEW m \in Messages, RecoveryAborted(m)
      PROVE  OwnerInv' /\ DurableSloOwned'
      BY <1>7 DEF RecoveryAborted, CallersThrow, OffTheWire
<1>8. ASSUME NEW m \in Messages, RetryOutboxEntry(m)
      PROVE  OwnerInv' /\ DurableSloOwned'
      BY <1>8 DEF RetryOutboxEntry, TakeEntry, Admitted, TryBeginAttempt, OnTheWire
<1>9. ASSUME NEW m \in Messages, RetryAnswered(m)
      PROVE  OwnerInv' /\ DurableSloOwned'
      BY <1>9 DEF RetryAnswered, Accepted
<1>10. ASSUME NEW m \in Messages, RetrySucceeds(m)
      PROVE  OwnerInv' /\ DurableSloOwned'
      BY <1>10 DEF RetrySucceeds, RetryDelivers, RecordDelivery, OffTheWire, Accepted, ClearRateLimitIfDrained, EndAttempt, DeleteRows
<1>11. ASSUME NEW m \in Messages, NEW err \in Errors, RetryErrs(m, err)
      PROVE  OwnerInv' /\ DurableSloOwned'
      BY <1>11 DEF RetryErrs, RetryFails, Reschedule, Bumped, EndAttempt, ScheduleRecovery, ResolvePeerOnce, Straggle, OffTheWire
<1>12. ASSUME NEW m \in Messages, BackoffElapses(m)
      PROVE  OwnerInv' /\ DurableSloOwned'
      BY <1>12 DEF BackoffElapses, RowFallsDue
<1>13. ASSUME NEW m \in Messages, MaxAgePasses(m)
      PROVE  OwnerInv' /\ DurableSloOwned'
      BY <1>13 DEF MaxAgePasses, RowAges
<1>14. ASSUME NEW p \in Peers, RateLimitLapses(p)
      PROVE  OwnerInv' /\ DurableSloOwned'
      BY <1>14 DEF RateLimitLapses
<1>15. ASSUME NEW p \in Peers, WalkEnds(p)
      PROVE  OwnerInv' /\ DurableSloOwned'
      BY <1>15 DEF WalkEnds, Awaiting, CallersThrow
<1>16. ASSUME NEW m \in Messages, Lose(m)
      PROVE  OwnerInv' /\ DurableSloOwned'
      BY <1>16 DEF Lose
<1>17. ASSUME NEW m \in Messages, RouterResends(m)
      PROVE  OwnerInv' /\ DurableSloOwned'
      BY <1>17 DEF RouterResends, Straggle
<1>18. ASSUME NEW m \in Messages, LoseLate(m)
      PROVE  OwnerInv' /\ DurableSloOwned'
      BY <1>18 DEF LoseLate
<1>19. ASSUME NEW m \in Messages, Receive(m)
      PROVE  OwnerInv' /\ DurableSloOwned'
      BY <1>19 DEF Receive, Admit
<1>20. ASSUME NEW m \in Messages, ReceiveLate(m)
      PROVE  OwnerInv' /\ DurableSloOwned'
      BY <1>20 DEF ReceiveLate, Admit
<1>21. ASSUME NEW m \in Messages, HandlerApplies(m)
      PROVE  OwnerInv' /\ DurableSloOwned'
      BY <1>21 DEF HandlerApplies
<1>22. ASSUME NEW m \in Messages, HandlerReturns(m)
      PROVE  OwnerInv' /\ DurableSloOwned'
      BY <1>22 DEF HandlerReturns
<1>23. ASSUME NEW m \in Messages, HandlerThrows(m)
      PROVE  OwnerInv' /\ DurableSloOwned'
      BY <1>23 DEF HandlerThrows
<1>24. ASSUME NEW m \in Messages, CrashAfterRecord(m)
      PROVE  OwnerInv' /\ DurableSloOwned'
      BY <1>24 DEF CrashAfterRecord, Finishing, Accepted, ProcessEnds, MemoryLost
<1>25. ASSUME NEW p \in Peers, ReceiverCrash(p)
      PROVE  OwnerInv' /\ DurableSloOwned'
      BY <1>25 DEF ReceiverCrash
<1>26. CASE ProcessOutboxTick
      BY <1>26 DEF ProcessOutboxTick, DrainTick
<1>27. CASE DropExpiredOutbox
      BY <1>27 DEF DropExpiredOutbox, DrainEnds, DeleteRows, ClearRateLimitIfDrained
<1>28. CASE StopOutboxDrain
      BY <1>28 DEF StopOutboxDrain, StopDrain
<1>29. CASE Restart
      BY <1>29 DEF Restart, StopReturns, ProcessEnds, MemoryLost
<1>30. CASE SenderCrash
      BY <1>30 DEF SenderCrash, ProcessEnds, MemoryLost
<1>31. CASE UNCHANGED vars
      BY <1>31 DEF vars, drainAllVars, outboxVars, drainVars
<1> QED
    BY <1>1, <1>2, <1>3, <1>4, <1>5, <1>6, <1>7, <1>8, <1>9, <1>10, <1>11,
       <1>12, <1>13, <1>14, <1>15, <1>16, <1>17, <1>18, <1>19, <1>20, <1>21,
       <1>22, <1>23, <1>24, <1>25, <1>26, <1>27, <1>28, <1>29, <1>30, <1>31
       DEF Next, Caller, Drain, Clock, Network, Receiver, Failures

-----------------------------------------------------------------------------
(***************************************************************************)
(* The theorems.                                                           *)
(***************************************************************************)

\* The inductive invariant holds of a fresh pair of nodes.
LEMMA InitInv == Init => IInv
<1> SUFFICES ASSUME Init PROVE IInv
    OBVIOUS
<1> USE BudgetAssumption, BoundAssumption DEF Init
<1>1. OutboxInv
      BY OutboxStart
<1>2. WireTypeOK
      BY DEF WireTypeOK, Phases, Copies
<1>3. SlotHeldWhileWaiting /\ AnswerInv /\ FreshInv /\ HandlerInv /\ OwnerInv
      BY DEF OutboxInit, SlotHeldWhileWaiting, AnswerInv, FreshInv, HandlerInv, OwnerInv, Callers
<1>4. EffectsAccounted /\ DeliveredWasHandled /\ DeliveredLeavesOutbox /\ DurableSloOwned
      BY DEF EffectsAccounted, DeliveredWasHandled, DeliveredLeavesOutbox, DurableSloOwned
<1> QED
    BY <1>1, <1>2, <1>3, <1>4 DEF IInv, TypeOK, OutboxInv

\* Every step of sender, network and receiver keeps the inductive invariant.
LEMMA StepInv == IInv /\ [Next]_vars => IInv'
<1> SUFFICES ASSUME IInv, [Next]_vars PROVE IInv'
    OBVIOUS
<1>1. OutboxInv'
      BY OutboxSimulated, OutboxStep DEF IInv
<1>2. TypeOK'
      BY <1>1, WireTypeStep DEF IInv, TypeOK, OutboxInv
<1> QED
    BY <1>1, <1>2, SlotStep, AnswerStep, FreshStep, HandlerStep, DeliveredStep, SloStep DEF IInv

\* The inductive invariant holds throughout every behaviour of the messenger.
LEMMA Invariance == Spec => []IInv
    BY InitInv, StepInv, PTL DEF Spec

\* Every variable keeps its type in every behaviour of the messenger.
THEOREM TypeCorrect == Spec => []TypeOK
<1>1. IInv => TypeOK
      BY DEF IInv
<1> QED
    BY <1>1, Invariance, PTL

\* The in-flight slot is held exactly while an attempt waits, by the owner that
\* waits, for any messages, peers and faults.
THEOREM SlotIsHeld == Spec => []SlotHeldWhileWaiting
<1>1. IInv => SlotHeldWhileWaiting
      BY DEF IInv
<1> QED
    BY <1>1, Invariance, PTL

\* reliableHandler repeats an effect only when an earlier run ended unrecorded.
THEOREM EffectsAreAccounted == Spec => []EffectsAccounted
<1>1. IInv => EffectsAccounted
      BY DEF IInv
<1> QED
    BY <1>1, Invariance, PTL

\* A validated message is recorded as delivered only after the peer handled it.
THEOREM DeliveredMeansHandled == Spec => []DeliveredWasHandled
<1>1. IInv => DeliveredWasHandled
      BY DEF IInv
<1> QED
    BY <1>1, Invariance, PTL

\* A delivered message has left the outbox unless a crash tore its delivery.
THEOREM DeliveredHasLeft == Spec => []DeliveredLeavesOutbox
<1>1. IInv => DeliveredLeavesOutbox
      BY DEF IInv
<1> QED
    BY <1>1, Invariance, PTL

\* The SLO map of durable messages is bounded by attempts and rows.
THEOREM SloBounded == Spec => []DurableSloOwned
<1>1. IInv => DurableSloOwned
      BY DEF IInv
<1> QED
    BY <1>1, Invariance, PTL
=============================================================================
