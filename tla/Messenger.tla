----------------------------- MODULE Messenger -----------------------------
(***************************************************************************)
(* The Universal Messenger: reliable peer-to-peer requests over an         *)
(* unreliable libp2p network.                                              *)
(*                                                                         *)
(* A message stands for one (peer, protocol, messageId) key, the key of    *)
(* the in-flight guard, of the durable outbox and of both idempotency      *)
(* tables.  The sending node keeps an outbox row for a message it could    *)
(* not deliver and a periodic drain retries the rows that are due; the     *)
(* receiving node runs the application handler and remembers the answer.   *)
(* Payloads, answers and timestamps are abstracted to what the control     *)
(* flow tells apart: whether a row is due, how the due rows are ordered,   *)
(* whether a row is past its maximum age, and whether an answer is the     *)
(* handler's or only the empty read of an aborted stream.                  *)
(***************************************************************************)
EXTENDS OutboxDrain

CONSTANTS
    Peers,            \* remote nodes
    PeerOf,           \* the peer a message is addressed to
    Validated,        \* protocol has a response-acceptance validator
    Notified,         \* protocol has an outbox response handler
    MaxLate,          \* bound: copies of one request travelling with no waiter
    MaxLost,          \* bound: handler effects of one message left unrecorded
    MaxRestarts       \* bound: process ends, crashes and graceful stops together

ASSUME PeerAssumption == PeerOf \in [Messages -> Peers]
ASSUME KindAssumption == Validated \subseteq Messages /\ Notified \subseteq Messages
ASSUME BoundAssumption == MaxLate \in Nat /\ MaxLost \in Nat /\ MaxRestarts \in Nat

VARIABLES
    outRec,    \* sender idempotency records ('out')
    inRec,     \* receiver idempotency records ('in')
    phase,     \* what the owner of the in-flight slot is waiting for
    slo,       \* keys of firstAttemptAt
    walk,      \* peers with a DHT walk in flight
    recent,    \* peers whose last DHT walk is inside the rate limit
    net,       \* the copy of the request the attempt is waiting on
    late,      \* copies still travelling after their attempt gave up
    handling,  \* the receiver's application handler
    effects,   \* history: times the handler's effect was applied
    lost,      \* history: applied runs that ended without a record
    torn,      \* history: rows left behind by a crash after record('out')
    restarts   \* history: process ends so far

walkVars == <<walk, recent>>
wireVars == <<phase, net>>
recvVars == <<inRec, handling, effects, lost>>
vars == <<drainAllVars, outRec, wireVars, slo, walkVars, late, recvVars, torn, restarts>>

Phases == {"idle", "sending", "completing", "recovering"}
Copies == {"none", "out", "joined", "answer", "eof"}
Errors == {"address", "transport", "fatal"}

WireTypeOK ==
    /\ outRec \subseteq Messages
    /\ inRec \subseteq Messages
    /\ phase \in [Messages -> Phases]
    /\ slo \subseteq Messages
    /\ walk \subseteq Peers
    /\ recent \subseteq Peers
    /\ net \in [Messages -> Copies]
    /\ late \in [Messages -> 0..MaxLate]
    /\ handling \in [Messages -> {"no", "running", "applied"}]
    /\ effects \in [Messages -> Nat]
    /\ lost \in [Messages -> Nat]
    /\ torn \subseteq Messages
    /\ restarts \in 0..MaxRestarts

\* The type of every variable of the messenger.
TypeOK == OutboxTypeOK /\ WireTypeOK

Init ==
    /\ OutboxInit
    /\ outRec = {} /\ inRec = {}
    /\ phase = [m \in Messages |-> "idle"]
    /\ net = [m \in Messages |-> "none"]
    /\ late = [m \in Messages |-> 0]
    /\ slo = {}
    /\ walk = {} /\ recent = {}
    /\ handling = [m \in Messages |-> "no"]
    /\ effects = [m \in Messages |-> 0]
    /\ lost = [m \in Messages |-> 0]
    /\ torn = {} /\ restarts = 0

-----------------------------------------------------------------------------
(***************************************************************************)
(* Time, as the tables see it.                                             *)
(***************************************************************************)

BackoffElapses(m) ==
    /\ RowFallsDue(m)
    /\ UNCHANGED <<outRec, wireVars, slo, walkVars, late, recvVars, torn, restarts>>

MaxAgePasses(m) ==
    /\ RowAges(m)
    /\ UNCHANGED <<outRec, wireVars, slo, walkVars, late, recvVars, torn, restarts>>

\* DHT_WALK_RATE_LIMIT_MS has passed since the peer's last walk.
RateLimitLapses(p) ==
    /\ p \in recent
    /\ recent' = recent \ {p}
    /\ UNCHANGED <<drainAllVars, outRec, wireVars, slo, walk, late, recvVars, torn, restarts>>

-----------------------------------------------------------------------------
(***************************************************************************)
(* Pieces of the sender.                                                   *)
(***************************************************************************)

\* The slot was won: the envelope is on the wire.
OnTheWire(m) ==
    /\ phase' = [phase EXCEPT ![m] = "sending"]
    /\ net' = [net EXCEPT ![m] = "out"]

\* The attempt is over and no longer waits on any copy.
OffTheWire(m) ==
    /\ phase' = [phase EXCEPT ![m] = "idle"]
    /\ net' = [net EXCEPT ![m] = "none"]

\* A copy nobody waits for any more is lost or may still arrive.
Straggle(m) ==
    \E k \in IF net[m] = "out" /\ late[m] < MaxLate THEN {0, 1} ELSE {0} :
        late' = [late EXCEPT ![m] = @ + k]

\* clearDhtWalkRateLimitIfDrained for the peers of the deleted rows S.
ClearRateLimitIfDrained(S) ==
    recent' = {p \in recent : (\E m \in S : PeerOf[m] = p)
                                  => \E m \in Messages : PeerOf[m] = p /\ row'[m] > 0}

\* resolvePeerOnce starts a walk unless one is running or the last is recent.
ResolvePeerOnce(p) ==
    IF p \notin walk /\ p \notin recent
      THEN walk' = walk \cup {p} /\ recent' = recent \cup {p}
      ELSE UNCHANGED walkVars

\* scheduleOutboxPeerRecovery: only a stalled row, only an address failure; the
\* walk is not awaited.
ScheduleRecovery(m, err) ==
    IF row'[m] >= StallThreshold /\ err = "address"
      THEN ResolvePeerOnce(PeerOf[m]) ELSE UNCHANGED walkVars

\* Mutant of Accepted: the validator is not consulted.
AcceptedUnchecked(m) == net[m] \in {"answer", "eof"}

\* assertResponseAccepted: with a validator only the handler's answer passes;
\* without one the empty read of a cleanly closed stream is an answer too.
Accepted(m) == net[m] = "answer" \/ (net[m] = "eof" /\ m \notin Validated)

\* What follows the accepted answer: record('out'), noteDeliveredForSlo and
\* clearDhtWalkRateLimitIfDrained around the outbox's markDelivered.
RecordDelivery(m) ==
    /\ outRec' = outRec \cup {m}
    /\ slo' = slo \ {m}
    /\ ClearRateLimitIfDrained({m})
    /\ torn' = torn \ {m}
    /\ OffTheWire(m)
    /\ UNCHANGED <<walk, late, recvVars, restarts>>

-----------------------------------------------------------------------------
(***************************************************************************)
(* sendReliable and sendRequestOwned.                                      *)
(***************************************************************************)

\* A recorded delivery is answered from the cache, a busy slot is reported as in
\* flight; the first leaves no SLO entry, the second leaves one.
SendAnswered(m) ==
    /\ m \in outRec \/ attempt[m] # "none"
    /\ slo' = IF m \in outRec THEN slo \ {m} ELSE slo \cup {m}
    /\ UNCHANGED <<drainAllVars, outRec, wireVars, walkVars, late, recvVars, torn, restarts>>

\* Mutant of Send: the sender's own record is not consulted.
SendUnchecked(m) ==
    /\ CallerBegins(m)
    /\ slo' = slo \cup {m}
    /\ OnTheWire(m)
    /\ UNCHANGED <<outRec, walkVars, late, recvVars, torn, restarts>>

\* Otherwise the call takes the slot and the envelope goes out.
Send(m) ==
    /\ m \notin outRec
    /\ CallerBegins(m)
    /\ slo' = slo \cup {m}
    /\ OnTheWire(m)
    /\ UNCHANGED <<outRec, walkVars, late, recvVars, torn, restarts>>

SendSucceeds(m) ==
    /\ phase[m] = "sending" /\ Accepted(m)
    /\ CallerDelivers(m)
    /\ RecordDelivery(m)

\* handleDurableRecoverableFailure.
SendQueues(m, err) ==
    /\ phase[m] = "sending" /\ err # "fatal"
    /\ CallerQueues(m)
    /\ ScheduleRecovery(m, err)
    /\ Straggle(m)
    /\ OffTheWire(m)
    /\ UNCHANGED <<outRec, slo, recvVars, torn, restarts>>

\* A non-recoverable error is rethrown.  So is every failure of a request-owned
\* send that awaits no walk: its signal aborted, its error no address failure,
\* its caller asked for no recovery, or the last walk of the peer is recent.
SendThrows(m, err) ==
    /\ phase[m] = "sending"
    /\ attempt[m] = "durable" => err = "fatal"
    /\ CallersThrow({m})
    /\ slo' = slo \ {m}
    /\ Straggle(m)
    /\ OffTheWire(m)
    /\ UNCHANGED <<outRec, walkVars, recvVars, torn, restarts>>

\* A request-owned address failure awaits the peer's walk before it rethrows,
\* its slot still taken and its SLO entry already gone.
RequestRecovers(m) ==
    /\ attempt[m] = "request" /\ phase[m] = "sending"
    /\ slo' = slo \ {m}
    /\ ResolvePeerOnce(PeerOf[m])
    /\ PeerOf[m] \in walk'
    /\ phase' = [phase EXCEPT ![m] = "recovering"]
    /\ Straggle(m)
    /\ net' = [net EXCEPT ![m] = "none"]
    /\ UNCHANGED <<drainAllVars, outRec, recvVars, torn, restarts>>

\* The requests awaiting a peer's walk.
Awaiting(p) == {m \in Messages : phase[m] = "recovering" /\ PeerOf[m] = p}

\* Mutant of WalkEnds: the requests awaiting the walk are not released.
WalkEndsSilently(p) ==
    /\ p \in walk
    /\ walk' = walk \ {p}
    /\ UNCHANGED <<drainAllVars, outRec, wireVars, slo, recent, late, recvVars, torn, restarts>>

\* A walk ends (found, failed or timed out); every request awaiting it rethrows.
WalkEnds(p) ==
    /\ p \in walk
    /\ walk' = walk \ {p}
    /\ CallersThrow(Awaiting(p))
    /\ phase' = [m \in Messages |-> IF m \in Awaiting(p) THEN "idle" ELSE phase[m]]
    /\ UNCHANGED <<outRec, net, slo, recent, late, recvVars, torn, restarts>>

\* The caller's abort signal ends the wait for a walk.
RecoveryAborted(m) ==
    /\ phase[m] = "recovering"
    /\ CallersThrow({m})
    /\ OffTheWire(m)
    /\ UNCHANGED <<outRec, slo, walkVars, late, recvVars, torn, restarts>>

-----------------------------------------------------------------------------
(***************************************************************************)
(* The retries of the drain.                                               *)
(***************************************************************************)

ProcessOutboxTick ==
    /\ DrainTick
    /\ UNCHANGED <<outRec, wireVars, slo, walkVars, late, recvVars, torn, restarts>>

RetryOutboxEntry(m) ==
    /\ TakeEntry(m)
    /\ IF Admitted(m) THEN OnTheWire(m) ELSE UNCHANGED wireVars
    /\ UNCHANGED <<outRec, slo, walkVars, late, recvVars, torn, restarts>>

\* Mutant of RetryAnswered: endAttempt before the response handler is awaited.
RetryAnsweredReleasing(m) ==
    /\ attempt[m] = "retry" /\ phase[m] = "sending" /\ Accepted(m)
    /\ m \in Notified
    /\ phase' = [phase EXCEPT ![m] = "completing"]
    /\ net' = [net EXCEPT ![m] = "none"]
    /\ EndAttempt(m)
    /\ UNCHANGED <<outboxVars, drainVars, outRec, slo, walkVars, late, recvVars, torn, restarts>>

\* The accepted answer of a retry goes to the protocol's response handler first.
RetryAnswered(m) ==
    /\ attempt[m] = "retry" /\ phase[m] = "sending" /\ Accepted(m)
    /\ m \in Notified
    /\ phase' = [phase EXCEPT ![m] = "completing"]
    /\ net' = [net EXCEPT ![m] = "none"]
    /\ UNCHANGED <<drainAllVars, outRec, slo, walkVars, late, recvVars, torn, restarts>>

RetrySucceeds(m) ==
    /\ \/ phase[m] = "sending" /\ Accepted(m) /\ m \notin Notified
       \/ phase[m] = "completing"
    /\ RetryDelivers(m)
    /\ RecordDelivery(m)

\* The wire, the validator or the response handler failed.
RetryErrs(m, err) ==
    /\ RetryFails(m)
    /\ ScheduleRecovery(m, err)
    /\ Straggle(m)
    /\ OffTheWire(m)
    /\ UNCHANGED <<outRec, slo, recvVars, torn, restarts>>

\* Mutant of DropExpiredOutbox: firstAttemptAt is not cleaned up.
DropExpiredKeepingSlo ==
    /\ DrainEnds
    /\ ClearRateLimitIfDrained(expired)
    /\ torn' = torn \ expired
    /\ UNCHANGED <<outRec, wireVars, slo, walk, late, recvVars, restarts>>

\* Mutant of DropExpiredOutbox: expiry does not wait for the drain.
DropExpiredAnytime ==
    /\ expired # {}
    /\ DeleteRows(expired)
    /\ slo' = slo \ expired
    /\ ClearRateLimitIfDrained(expired)
    /\ torn' = torn \ expired
    /\ UNCHANGED <<attempt, drainVars, outRec, wireVars, walk, late, recvVars, restarts>>

\* dropExpiredOutbox follows the end of the drain.
DropExpiredOutbox ==
    /\ DrainEnds
    /\ slo' = slo \ expired
    /\ ClearRateLimitIfDrained(expired)
    /\ torn' = torn \ expired
    /\ UNCHANGED <<outRec, wireVars, walk, late, recvVars, restarts>>

StopOutboxDrain ==
    /\ restarts < MaxRestarts
    /\ restarts' = restarts + 1
    /\ StopDrain
    /\ UNCHANGED <<outRec, wireVars, slo, walkVars, late, recvVars, torn>>

-----------------------------------------------------------------------------
(***************************************************************************)
(* Ends of the sending process: its memory is gone, its tables are not.    *)
(***************************************************************************)

MemoryLost ==
    /\ phase' = [m \in Messages |-> "idle"]
    /\ net' = [m \in Messages |-> "none"]
    /\ \E S \in SUBSET {m \in Messages : net[m] = "out" /\ late[m] < MaxLate} :
          late' = [m \in Messages |-> IF m \in S THEN late[m] + 1 ELSE late[m]]
    /\ slo' = {}
    /\ walk' = {} /\ recent' = {}

\* A graceful stop joins the drain, then the process is started again.
Restart ==
    /\ StopReturns
    /\ MemoryLost
    /\ UNCHANGED <<outRec, recvVars, torn, restarts>>

SenderCrash ==
    /\ restarts < MaxRestarts
    /\ restarts' = restarts + 1
    /\ ProcessEnds
    /\ MemoryLost
    /\ UNCHANGED <<outRec, recvVars, torn>>

\* The attempt of m is about to record its delivery.
Finishing(m) ==
    \/ phase[m] = "sending" /\ Accepted(m) /\ ~(attempt[m] = "retry" /\ m \in Notified)
    \/ phase[m] = "completing"

\* The process dies between record('out') and markDelivered: the record is
\* written and the row, if there is one, is still there.
CrashAfterRecord(m) ==
    /\ Finishing(m)
    /\ restarts < MaxRestarts
    /\ restarts' = restarts + 1
    /\ outRec' = outRec \cup {m}
    /\ torn' = IF HasEntry(m) THEN torn \cup {m} ELSE torn
    /\ ProcessEnds
    /\ MemoryLost
    /\ UNCHANGED recvVars

-----------------------------------------------------------------------------
(***************************************************************************)
(* The network, external to the messenger.                                 *)
(***************************************************************************)

\* The awaited copy, or its answer, is lost; only the timeout ends the attempt.
Lose(m) ==
    /\ net[m] \in {"out", "joined", "answer", "eof"}
    /\ net' = [net EXCEPT ![m] = "none"]
    /\ UNCHANGED <<drainAllVars, outRec, phase, slo, walkVars, late, recvVars, torn, restarts>>

\* The router retries inside one send: the old copy may still arrive.
RouterResends(m) ==
    /\ phase[m] = "sending"
    /\ Straggle(m)
    /\ net' = [net EXCEPT ![m] = "out"]
    /\ UNCHANGED <<drainAllVars, outRec, phase, slo, walkVars, recvVars, torn, restarts>>

\* A copy nobody waits for is lost.
LoseLate(m) ==
    /\ late[m] > 0
    /\ late' = [late EXCEPT ![m] = @ - 1]
    /\ UNCHANGED <<drainAllVars, outRec, wireVars, slo, walkVars, recvVars, torn, restarts>>

-----------------------------------------------------------------------------
(***************************************************************************)
(* The receiver: reliableHandler.                                          *)
(***************************************************************************)

\* Mutant of Admit: a second copy does not join the running call.
AdmitUnjoined(m) ==
    handling' = IF m \notin inRec THEN [handling EXCEPT ![m] = "running"] ELSE handling

\* A first copy starts the handler, a later one joins the running call or is
\* answered from the record.
Admit(m) ==
    handling' = IF m \notin inRec /\ handling[m] = "no"
                  THEN [handling EXCEPT ![m] = "running"] ELSE handling

Receive(m) ==
    /\ net[m] = "out"
    /\ Admit(m)
    /\ net' = [net EXCEPT ![m] = IF m \in inRec THEN "answer" ELSE "joined"]
    /\ UNCHANGED <<drainAllVars, outRec, phase, slo, walkVars,
                   late, inRec, effects, lost, torn, restarts>>

ReceiveLate(m) ==
    /\ late[m] > 0
    /\ late' = [late EXCEPT ![m] = @ - 1]
    /\ Admit(m)
    /\ UNCHANGED <<drainAllVars, outRec, wireVars, slo, walkVars,
                   inRec, effects, lost, torn, restarts>>

\* The application handler does its work (store the chat message, apply the
\* share, ...); its promise has not resolved yet.
HandlerApplies(m) ==
    /\ handling[m] = "running"
    /\ handling' = [handling EXCEPT ![m] = "applied"]
    /\ effects' = [effects EXCEPT ![m] = @ + 1]
    /\ UNCHANGED <<drainAllVars, outRec, wireVars, slo, walkVars, late,
                   inRec, lost, torn, restarts>>

\* The handler resolves: record('in'), answer the waiting stream, free the key.
HandlerReturns(m) ==
    /\ handling[m] = "applied"
    /\ handling' = [handling EXCEPT ![m] = "no"]
    /\ inRec' = inRec \cup {m}
    /\ net' = [net EXCEPT ![m] = IF @ = "joined" THEN "answer" ELSE @]
    /\ UNCHANGED <<drainAllVars, outRec, phase, slo, walkVars, late,
                   effects, lost, torn, restarts>>

\* The handler throws, before or after its effect: nothing is recorded, and the
\* waiting stream is reset or reads as cleanly closed.
HandlerThrows(m) ==
    /\ handling[m] \in {"running", "applied"}
    /\ handling[m] = "applied" => lost[m] < MaxLost
    /\ handling' = [handling EXCEPT ![m] = "no"]
    /\ lost' = [lost EXCEPT ![m] = IF handling[m] = "applied" THEN @ + 1 ELSE @]
    /\ \E c \in {"none", "eof"} :
          net' = [net EXCEPT ![m] = IF @ = "joined" THEN c ELSE @]
    /\ UNCHANGED <<drainAllVars, outRec, phase, slo, walkVars, late,
                   inRec, effects, torn, restarts>>

\* The receiving process of a peer dies; its records survive, its calls do not.
ReceiverCrash(p) ==
    LET hit == {m \in Messages : PeerOf[m] = p /\ handling[m] # "no"}
        dirty == {m \in hit : handling[m] = "applied"}
    IN  /\ restarts < MaxRestarts
        /\ restarts' = restarts + 1
        /\ hit # {} /\ \A m \in dirty : lost[m] < MaxLost
        /\ handling' = [m \in Messages |-> IF m \in hit THEN "no" ELSE handling[m]]
        /\ lost' = [m \in Messages |-> IF m \in dirty THEN lost[m] + 1 ELSE lost[m]]
        /\ net' = [m \in Messages |-> IF m \in hit /\ net[m] = "joined" THEN "none" ELSE net[m]]
        /\ UNCHANGED <<drainAllVars, outRec, phase, slo, walkVars, late,
                       inRec, effects, torn>>

-----------------------------------------------------------------------------
Caller(m) ==
    \/ SendAnswered(m) \/ Send(m) \/ SendSucceeds(m)
    \/ RequestRecovers(m) \/ RecoveryAborted(m)
    \/ \E err \in Errors : SendQueues(m, err) \/ SendThrows(m, err)

Drain ==
    \/ ProcessOutboxTick \/ DropExpiredOutbox \/ StopOutboxDrain
    \/ \E m \in Messages : \/ RetryOutboxEntry(m) \/ RetryAnswered(m) \/ RetrySucceeds(m)
                           \/ \E err \in Errors : RetryErrs(m, err)

Clock ==
    \/ \E m \in Messages : BackoffElapses(m) \/ MaxAgePasses(m)
    \/ \E p \in Peers : RateLimitLapses(p) \/ WalkEnds(p)

Network == \E m \in Messages : Lose(m) \/ RouterResends(m) \/ LoseLate(m)

Receiver ==
    \/ \E m \in Messages : \/ Receive(m) \/ ReceiveLate(m) \/ HandlerApplies(m)
                           \/ HandlerReturns(m) \/ HandlerThrows(m)

Failures ==
    \/ Restart \/ SenderCrash
    \/ \E m \in Messages : CrashAfterRecord(m)
    \/ \E p \in Peers : ReceiverCrash(p)

Next == (\E m \in Messages : Caller(m)) \/ Drain \/ Clock \/ Network \/ Receiver \/ Failures

Spec == Init /\ [][Next]_vars

-----------------------------------------------------------------------------
(***************************************************************************)
(* Safety.                                                                 *)
(***************************************************************************)

\* tryBeginAttempt and the finally blocks around endAttempt keep the in-flight
\* slot in step with the attempt it guards: it is held from the first byte to the
\* end of the last await (answer, response handler or peer walk) and by the kind
\* of owner that await belongs to, through every error path and restart.  A slot
\* freed early admits a second attempt, one never freed refuses all later ones.
SlotHeldWhileWaiting ==
    \A m \in Messages :
        /\ phase[m] = "idle" <=> attempt[m] = "none"
        /\ phase[m] = "completing" => attempt[m] = "retry"
        /\ phase[m] = "recovering" => attempt[m] = "request"
        /\ net[m] # "none" => phase[m] = "sending"

\* reliableHandler runs an effect a second time only when an earlier run ended
\* without record('in'), by a throw or by a crash of the receiver: the record,
\* the join of a running call and the retries of the sender account for every
\* other duplicate.
EffectsAccounted ==
    \A m \in Messages :
        effects[m] = lost[m] + (IF m \in inRec THEN 1 ELSE 0)
                             + (IF handling[m] = "applied" THEN 1 ELSE 0)

\* A message of a protocol with an acceptance validator is recorded as delivered
\* only when the peer's handler has completed and recorded it, whatever was
\* lost, duplicated, retried or restarted on the way.
DeliveredWasHandled == (outRec \cap Validated) \subseteq inRec

\* A delivered message still has an outbox row only if a crash fell between
\* record('out') and markDelivered.
DeliveredLeavesOutbox == \A m \in outRec : row[m] > 0 => m \in torn

\* The stale-snapshot guard: no step puts a delivered message on the wire again,
\* except the retry of a row such a crash left behind.
NoResendAfterDelivery ==
    [][\A m \in Messages :
          (attempt[m] = "none" /\ attempt'[m] # "none" /\ m \in outRec) => m \in torn]_vars

\* firstAttemptAt of a durable message is owned by an attempt or an outbox row,
\* so the map cannot grow without bound.
DurableSloOwned ==
    \A m \in slo \ RequestOwned : attempt[m] # "none" \/ row[m] > 0

-----------------------------------------------------------------------------
(***************************************************************************)
(* The messenger implements the abstract delivery service for the messages *)
(* of validated protocols.                                                 *)
(***************************************************************************)

Delivery == INSTANCE ReliableDelivery
    WITH Messages  <- Validated,
         owed      <- {m \in Validated : row[m] > 0},
         handled   <- inRec \cap Validated,
         confirmed <- outRec \cap Validated

\* Every behaviour of sender, network and receiver, faults included, is one of
\* the abstract service.
ImplementsDelivery == Delivery!DeliverySpec

\* The messenger drives its outbox only through the outbox's own operations.
ImplementsOutbox == OutboxSpec

-----------------------------------------------------------------------------
(***************************************************************************)
(* Liveness.  Timers fire and awaited promises settle (weak fairness); the *)
(* network and the handler of a reachable peer are not always the ones to  *)
(* fail (strong fairness).                                                 *)
(***************************************************************************)

Settles(m) ==
    \/ SendSucceeds(m) \/ RetryAnswered(m) \/ RetrySucceeds(m)
    \/ \E err \in Errors : SendQueues(m, err) \/ SendThrows(m, err) \/ RetryErrs(m, err)

TimersAndTimeouts ==
    /\ WF_vars(ProcessOutboxTick) /\ WF_vars(DropExpiredOutbox) /\ WF_vars(Restart)
    /\ \A m \in Messages : /\ WF_vars(BackoffElapses(m))
                           /\ WF_vars(RetryOutboxEntry(m))
                           /\ WF_vars(Settles(m))
    /\ \A p \in Peers : WF_vars(WalkEnds(p))

ReachablePeers ==
    \A m \in Messages : /\ SF_vars(Receive(m)) /\ SF_vars(HandlerApplies(m))
                        /\ SF_vars(HandlerReturns(m)) /\ SF_vars(SendSucceeds(m))
                        /\ SF_vars(RetryAnswered(m)) /\ SF_vars(RetrySucceeds(m))

ReachableSpec == Spec /\ TimersAndTimeouts /\ ReachablePeers

\* To a peer that is reachable now and again every queued message is delivered,
\* unless it grew too old or does not fit a page.
QueuedIsDelivered ==
    \A m \in Messages : (row[m] > 0 /\ Size[m] <= MaxPayloadBytes)
                            ~> (m \in outRec \/ m \in expired)

\* The only timeout RecoveryReturns needs: a DHT walk is bounded.
BoundedWalksSpec == Spec /\ \A p \in Peers : WF_vars(WalkEnds(p))

\* A request-owned call whose peer cannot be addressed still returns: the walk
\* it awaits is bounded, so its slot is freed.
RecoveryReturns == \A m \in Messages : (phase[m] = "recovering") ~> (phase[m] # "recovering")
=============================================================================
