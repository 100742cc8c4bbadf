---------------------------- MODULE OutboxDrain ----------------------------
(***************************************************************************)
(* The sender's durable retry outbox: the store of undelivered envelopes,  *)
(* the in-flight guard every attempt goes through, and the periodic drain  *)
(* that retries the rows that are due.  The wire is abstracted to the      *)
(* outcome of an attempt; Messenger composes this module with the network  *)
(* and the receiver.                                                       *)
(*                                                                         *)
(* Timestamps are abstracted to what the store's queries distinguish:      *)
(* which rows have nextAttemptAt behind them, the order of those rows, and *)
(* which rows are older than maxAgeMs.                                     *)
(***************************************************************************)
EXTENDS Integers, FiniteSets, FiniteSetsExt

CONSTANTS
    Messages,         \* the (peer, protocol, messageId) keys in play
    RequestOwned,     \* messages sent with sendRequestOwned (never queued)
    Size,             \* bytes of the encoded envelope
    MaxPayloadBytes,  \* byte budget of one drained page
    BatchSize,        \* entry budget of one drained page
    Concurrency,      \* retry workers of one drain
    StallThreshold    \* attempts after which a stalled row asks for a DHT walk

ASSUME RequestOwnedAssumption == RequestOwned \subseteq Messages
ASSUME BudgetAssumption == /\ Size \in [Messages -> Nat]
                           /\ MaxPayloadBytes \in Nat \ {0}
                           /\ BatchSize \in Nat \ {0}
                           /\ Concurrency \in Nat \ {0}
                           /\ StallThreshold \in Nat \ {0}

VARIABLES
    row,       \* attempts counted by the outbox row (0: no row)
    due,       \* rows whose nextAttemptAt has passed
    ahead,     \* <<a, b>>: due row a has the earlier nextAttemptAt
    expired,   \* rows older than maxAgeMs
    attempt,   \* owner of the in-flight slot of a message
    page,      \* entries of the active drain not yet taken by a worker
    active,    \* a drain is running
    stopping   \* stopOutboxDrain was called

outboxVars == <<row, due, ahead, expired>>
drainVars  == <<page, active, stopping>>
drainAllVars == <<outboxVars, attempt, drainVars>>

Owners == {"none", "durable", "request", "retry"}
Callers == {"durable", "request"}

\* The type of every variable of the outbox and its drain.
OutboxTypeOK ==
    /\ row \in [Messages -> 0..StallThreshold]
    /\ due \subseteq Messages
    /\ ahead \subseteq Messages \X Messages
    /\ expired \subseteq Messages
    /\ attempt \in [Messages -> Owners]
    /\ page \subseteq Messages
    /\ active \in BOOLEAN
    /\ stopping \in BOOLEAN

OutboxInit ==
    /\ row = [m \in Messages |-> 0]
    /\ due = {} /\ ahead = {} /\ expired = {}
    /\ attempt = [m \in Messages |-> "none"]
    /\ page = {} /\ active = FALSE /\ stopping = FALSE

-----------------------------------------------------------------------------
(***************************************************************************)
(* The store.                                                              *)
(***************************************************************************)

HasEntry(m) == row[m] > 0

\* Rows S are no longer due; the order of the others is unchanged.
NotDue(S) ==
    /\ due' = due \ S
    /\ ahead' = {r \in ahead : r[1] \notin S /\ r[2] \notin S}

\* markDelivered and dropExpiredMetadata: DELETE the rows of S.
DeleteRows(S) ==
    /\ row' = [m \in Messages |-> IF m \in S THEN 0 ELSE row[m]]
    /\ NotDue(S)
    /\ expired' = expired \ S

\* The attempt count a failure writes.  The column grows without a cap; the code
\* only ever asks whether it has reached the stall threshold, so the model does
\* not tell larger counts apart.
Bumped(m) == IF row[m] < StallThreshold THEN row[m] + 1 ELSE StallThreshold

\* enqueue and recordRetryFailure: one more attempt, and nextAttemptAt moves
\* into the future.  firstFailureAt of an existing row is kept.
Reschedule(m) ==
    /\ row' = [row EXCEPT ![m] = Bumped(m)]
    /\ NotDue({m})
    /\ UNCHANGED expired

\* nextAttemptAt of a row passes: it joins the due rows behind all others.
RowFallsDue(m) ==
    /\ HasEntry(m) /\ m \notin due
    /\ due' = due \cup {m}
    /\ ahead' = ahead \cup (due \X {m})
    /\ UNCHANGED <<row, expired, attempt, drainVars>>

\* A row grows older than maxAgeMs.
RowAges(m) ==
    /\ HasEntry(m) /\ m \notin expired
    /\ expired' = expired \cup {m}
    /\ UNCHANGED <<row, due, ahead, attempt, drainVars>>

\* Mutant of Eligible: readDuePage without the length(payload) filter.
EligibleAnySize == due

\* Rows a page may hold: an envelope over the byte budget never enters one.
Eligible == {m \in due : Size[m] <= MaxPayloadBytes}

Bytes(P) == MapThenSumSet(LAMBDA m : Size[m], P)

WithinBudget(P) == Cardinality(P) <= BatchSize /\ Bytes(P) <= MaxPayloadBytes

\* readDuePage: the longest prefix of the eligible rows, in due order, inside
\* both budgets.
IsDuePage(P) ==
    /\ \A m \in P : \A a \in Eligible \ P : <<a, m>> \notin ahead
    /\ WithinBudget(P)
    /\ \A n \in Eligible \ P :
          (\A a \in Eligible \ (P \cup {n}) : <<a, n>> \notin ahead)
              => ~WithinBudget(P \cup {n})

-----------------------------------------------------------------------------
(***************************************************************************)
(* Attempts of callers.                                                    *)
(***************************************************************************)

\* tryBeginAttempt and endAttempt.
TryBeginAttempt(m, owner) ==
    attempt[m] = "none" /\ attempt' = [attempt EXCEPT ![m] = owner]

EndAttempt(m) == attempt' = [attempt EXCEPT ![m] = "none"]

CallerBegins(m) ==
    /\ TryBeginAttempt(m, IF m \in RequestOwned THEN "request" ELSE "durable")
    /\ UNCHANGED <<outboxVars, drainVars>>

\* Mutant of CallerDelivers: markDelivered is forgotten on the direct path.
CallerDeliversKeepingRow(m) ==
    /\ attempt[m] \in Callers
    /\ EndAttempt(m)
    /\ UNCHANGED <<outboxVars, drainVars>>

CallerDelivers(m) ==
    /\ attempt[m] \in Callers
    /\ DeleteRows({m})
    /\ EndAttempt(m)
    /\ UNCHANGED drainVars

\* A recoverable failure of sendReliable leaves a durable row behind.
CallerQueues(m) ==
    /\ attempt[m] = "durable"
    /\ Reschedule(m)
    /\ EndAttempt(m)
    /\ UNCHANGED drainVars

\* The failure is rethrown to the callers of S and no row changes.
CallersThrow(S) ==
    /\ \A m \in S : attempt[m] \in Callers
    /\ attempt' = [m \in Messages |-> IF m \in S THEN "none" ELSE attempt[m]]
    /\ UNCHANGED <<outboxVars, drainVars>>

-----------------------------------------------------------------------------
(***************************************************************************)
(* The drain.                                                              *)
(***************************************************************************)

Retrying == {m \in Messages : attempt[m] = "retry"}

\* tick and the start of drain: single flight, one bounded page.  Overlapping
\* ticks share the running drain, so a tick that finds one has no action.
DrainTick ==
    /\ ~stopping /\ ~active
    /\ \E P \in SUBSET Eligible : IsDuePage(P) /\ page' = P
    /\ active' = TRUE
    /\ UNCHANGED <<outboxVars, attempt, stopping>>

\* Mutant of Admitted: no hasEntry check after the slot is won.
AdmittedStale(m) == ~stopping /\ attempt[m] = "none"

\* A worker skips an entry once the drain is stopping, when the slot is taken,
\* and when the row has gone since the page was read.
Admitted(m) == ~stopping /\ attempt[m] = "none" /\ HasEntry(m)

\* Mutant of TakeEntry: a stopping drain leaves the rest of its page untaken.
TakeEntryUnlessStopping(m) ==
    /\ ~stopping
    /\ m \in page /\ Cardinality(Retrying) < Concurrency
    /\ page' = page \ {m}
    /\ IF Admitted(m) THEN TryBeginAttempt(m, "retry") ELSE UNCHANGED attempt
    /\ UNCHANGED <<outboxVars, active, stopping>>

\* A free worker takes an entry of the page (their order is abstracted).
TakeEntry(m) ==
    /\ m \in page /\ Cardinality(Retrying) < Concurrency
    /\ page' = page \ {m}
    /\ IF Admitted(m) THEN TryBeginAttempt(m, "retry") ELSE UNCHANGED attempt
    /\ UNCHANGED <<outboxVars, active, stopping>>

RetryDelivers(m) ==
    /\ attempt[m] = "retry"
    /\ DeleteRows({m})
    /\ EndAttempt(m)
    /\ UNCHANGED drainVars

\* Mutant of RetryFails: a failed retry keeps its place in the queue.
RetryFailsInPlace(m) ==
    /\ attempt[m] = "retry"
    /\ EndAttempt(m)
    /\ UNCHANGED <<outboxVars, drainVars>>

\* Mutant of RetryFails: endAttempt is skipped on the error path.
RetryFailsHoldingSlot(m) ==
    /\ attempt[m] = "retry"
    /\ Reschedule(m)
    /\ UNCHANGED <<attempt, drainVars>>

\* Every error of a retry moves an existing row on along the backoff ladder.
RetryFails(m) ==
    /\ attempt[m] = "retry"
    /\ IF HasEntry(m) THEN Reschedule(m) ELSE UNCHANGED outboxVars
    /\ EndAttempt(m)
    /\ UNCHANGED drainVars

\* Every worker is done: the drain ends and its tick drops the expired rows.
DrainEnds ==
    /\ active /\ page = {} /\ Retrying = {}
    /\ active' = FALSE
    /\ DeleteRows(expired)
    /\ UNCHANGED <<attempt, page, stopping>>

\* stopOutboxDrain: the rest of the page is skipped, started retries are joined.
StopDrain ==
    /\ ~stopping
    /\ stopping' = TRUE
    /\ UNCHANGED <<outboxVars, attempt, page, active>>

\* The process ends; the store survives, the memory does not.
ProcessEnds ==
    /\ attempt' = [m \in Messages |-> "none"]
    /\ page' = {} /\ active' = FALSE /\ stopping' = FALSE
    /\ UNCHANGED outboxVars

\* A graceful stop joins the drain before the process is started again.
StopReturns == stopping /\ ~active /\ ProcessEnds

-----------------------------------------------------------------------------
RetrySettles(m) == RetryDelivers(m) \/ RetryFails(m)

CallerSettles(m) == CallerDelivers(m) \/ CallerQueues(m) \/ CallersThrow({m})

OutboxNext ==
    \/ \E m \in Messages : \/ CallerBegins(m) \/ CallerSettles(m) \/ RowFallsDue(m)
                           \/ RowAges(m) \/ TakeEntry(m) \/ RetrySettles(m)
    \/ \E S \in SUBSET Messages : CallersThrow(S)
    \/ DrainTick \/ DrainEnds \/ StopDrain \/ StopReturns \/ ProcessEnds

OutboxSpec == OutboxInit /\ [][OutboxNext]_drainAllVars

\* A retry runs only on behalf of a row that exists and a drain that is running:
\* no sibling can delete its row, and stopOutboxDrain joins it.
RetryOwnsRowAndDrain == \A m \in Retrying : row[m] > 0 /\ active

\* Whatever is queued, the front row that fits a page at all is in the page that
\* is read: neither budget, nor an oversized row before it, can keep it out.
FrontRowIsRead ==
    [][(~active /\ active' /\ Eligible # {}) =>
          \E m \in page' : \A a \in Eligible : <<a, m>> \notin ahead]_drainAllVars

-----------------------------------------------------------------------------
(***************************************************************************)
(* Liveness: timers fire, and every attempt settles because the router's   *)
(* send is bounded by its timeout.                                         *)
(***************************************************************************)

OutboxFairness ==
    /\ WF_drainAllVars(DrainTick) /\ WF_drainAllVars(DrainEnds)
    /\ WF_drainAllVars(StopReturns)
    /\ \A m \in Messages : /\ WF_drainAllVars(RowFallsDue(m))
                           /\ WF_drainAllVars(TakeEntry(m))
                           /\ WF_drainAllVars(RetrySettles(m))
                           /\ WF_drainAllVars(CallerSettles(m))

OutboxFairSpec == OutboxSpec /\ OutboxFairness

\* A restart that cuts short a page or an attempt.
Interrupted == ProcessEnds /\ (page # {} \/ \E m \in Messages : attempt[m] # "none")

\* Callers stop calling and restarts stop cutting drains short.
Undisturbed == /\ \A m \in Messages : <>[](attempt[m] \notin Callers)
               /\ <>[](~stopping) /\ <>[][~Interrupted]_drainAllVars

\* A due row that fits a page is retried in the end, however many rows fail for
\* ever in front of it: a failing retry moves its row behind the others.
DueRowIsRetried ==
    Undisturbed =>
        \A m \in Messages : (m \in Eligible) ~> (attempt[m] # "none" \/ row[m] = 0)

\* stopOutboxDrain returns: the join of the running drain ends.
StopTerminates == stopping ~> ~stopping
=============================================================================
