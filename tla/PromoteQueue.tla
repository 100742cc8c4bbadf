---------------------------- MODULE PromoteQueue ----------------------------
(***************************************************************************)
(* The async promote (share) queue and the worker that executes it: the    *)
(* admission of a job under a deadline and a store whose answer may be     *)
(* lost, the lease of a running job, the commit marker, the reclaim or the *)
(* parking of a job whose lease expired, the post-commit sweep, and the    *)
(* operator's cancel, recover and clear.                                   *)
(*                                                                         *)
(* Every queue method runs in one hold of the control graph's mutex, so a  *)
(* method is one step.  Time is abstracted to what the code compares: a    *)
(* lease has expired or not, a retry may be taken whenever it is due, and  *)
(* a job's prerequisite window is open or closed.  A heartbeat that        *)
(* succeeds only postpones LeaseExpires and has no step of its own.        *)
(***************************************************************************)
EXTENDS Integers, FiniteSets

CONSTANTS
    Jobs,         \* job ids
    Lanes,        \* (context graph, sub graph, assertion, agent) keys
    LaneOf,       \* the assertion a job shares
    Whole,        \* jobs that share a whole asset under an agent: queued and
                  \* bound when claimed, or admitted bound by a synchronous share
    Workers,      \* worker slots, and the HTTP requests that run inline
    MaxRetries,   \* attempt.maxRetries
    MaxFaults,    \* lost answers, expiries under a live worker, crashes, ...
    MaxRecovers,  \* operator recoveries
    LateInline    \* an inline admission may land after it was reported lost

ASSUME LaneAssumption == LaneOf \in [Jobs -> Lanes]
ASSUME KindAssumption == Whole \subseteq Jobs
ASSUME BoundAssumption == /\ MaxRetries \in Nat \ {0}
                          /\ MaxFaults \in Nat /\ MaxRecovers \in Nat
                          /\ LateInline \in BOOLEAN

VARIABLES
    row,       \* the durable job rows
    expired,   \* running jobs whose lease.expiresAt has passed
    flight,    \* the coordinator's pending admissions (memory)
    limbo,     \* <<job, state>>: admission writes reported as failed that may
               \* still land
    used,      \* ids handed to persistence: an id is generated once
    work,      \* what each worker is doing (memory)
    found,     \* candidates of the post-commit sweep in progress (memory)
    committed, \* jobs whose content reached shared memory
    open,      \* jobs with a promote entered whose outcome no row records
    faults, recovers

queueVars == <<row, expired, flight, limbo, used, found>>
vars == <<queueVars, work, committed, open, faults, recovers>>

Active == {"queued", "running", "retrying"}
States == Active \cup {"none", "succeeded", "failed"}
Reasons == {"none", "cancelled", "ambiguity", "conflict", "exhausted"}
Errors == {"none", "transient", "prerequisite", "postcommit", "fatal", "noeffect"}
Phases == {"idle", "prepare", "start", "enter", "inside", "landed", "mark",
           "succeed", "fail"}

Rows == [st: States, count: Nat, prep: Nat, started: BOOLEAN, inserted: BOOLEAN,
         bound: BOOLEAN, why: Reasons, err: Errors, token: Nat]
NoRow == [st |-> "none", count |-> 0, prep |-> 0, started |-> FALSE,
          inserted |-> FALSE, bound |-> FALSE, why |-> "none", err |-> "none",
          token |-> 0]
Idle == [phase |-> "idle", job |-> "none", token |-> 0, err |-> "none",
         done |-> FALSE]

\* The type of every variable of the queue and its workers.
TypeOK ==
    /\ row \in [Jobs -> Rows]
    /\ expired \subseteq Jobs
    /\ flight \in [Jobs -> {"none", "waiting", "persist"}]
    /\ limbo \subseteq Jobs \X {"queued", "running"} /\ used \subseteq Jobs
    /\ work \in [Workers -> [phase: Phases, job: Jobs \cup {"none"}, token: Nat,
                             err: Errors, done: BOOLEAN]]
    /\ found \subseteq Jobs
    /\ committed \subseteq Jobs
    /\ open \subseteq Jobs
    /\ faults \in 0..MaxFaults
    /\ recovers \in 0..MaxRecovers

Init ==
    /\ row = [j \in Jobs |-> NoRow]
    /\ expired = {} /\ limbo = {} /\ used = {} /\ found = {}
    /\ flight = [j \in Jobs |-> "none"]
    /\ work = [w \in Workers |-> Idle]
    /\ committed = {} /\ open = {}
    /\ faults = 0 /\ recovers = 0

-----------------------------------------------------------------------------
(***************************************************************************)
(* What a row says.                                                        *)
(***************************************************************************)

\* canRetireBoundRejection, with a proof: only the first executed attempt.
CanRetire(r) == r.bound /\ r.count = r.prep + 1 /\ ~r.inserted /\ r.why = "none"

\* isRetiredBoundRejection
Retired(r) == r.st = "failed" /\ r.err = "noeffect" /\ CanRetire(r)

\* hasUnfinishedBoundObligation
Obligated(r) == r.bound /\ r.st \notin {"none", "succeeded"} /\ ~Retired(r)

Owns(r) == r.st \in Active \/ Obligated(r)

ManualInspection(r) == r.why = "ambiguity"

\* isAutomaticallyRecoverablePostCommitFailure
AutoRecoverable(r) ==
    r.st = "failed" /\ r.why = "none" /\ ~r.inserted /\ r.err = "postcommit"

SameLane(j) == {k \in Jobs \ {j} : LaneOf[k] = LaneOf[j]}

PendingConflict(j) == \E k \in SameLane(j) : flight[k] # "none"
DurableConflict(j) == \E k \in SameLane(j) : Owns(row[k])

\* Mutant of ActiveConflict: admissions in doubt are not considered.
ActiveConflictDurable(j) == DurableConflict(j)

\* findActiveConflict: pending uncertainty first, then the durable owners.
ActiveConflict(j) == PendingConflict(j) \/ DurableConflict(j)

\* observe: a durable read of rows S settles their retained admissions.
Observed(S) ==
    [j \in Jobs |-> IF j \in S /\ flight[j] = "persist" THEN "none" ELSE flight[j]]

Fault == faults < MaxFaults /\ faults' = faults + 1

\* writeJob: acknowledged, or failed with the row written or not.
Save(j, r, ack) ==
    IF ack THEN row' = [row EXCEPT ![j] = r] /\ UNCHANGED faults
           ELSE row' \in {row, [row EXCEPT ![j] = r]} /\ Fault

-----------------------------------------------------------------------------
(***************************************************************************)
(* Admission.                                                              *)
(***************************************************************************)

\* claimPromoteJob: a fresh token, one more attempt, an empty marker.
Claimed(r) == [r EXCEPT !.st = "running", !.count = @ + 1, !.token = @ + 1,
                        !.started = FALSE, !.inserted = FALSE]

\* The rows enqueue and enqueueAndClaim write.
Admitted == [queued |-> [NoRow EXCEPT !.st = "queued"],
             running |-> Claimed([NoRow EXCEPT !.bound = TRUE])]

\* PromoteAdmissionCoordinator.run: one attempt per assertion at a time; the
\* work starts when the mutex is free.
Enqueue(j) ==
    /\ j \notin used
    /\ flight[j] = "none" /\ ~PendingConflict(j)
    /\ flight' = [flight EXCEPT ![j] = "waiting"]
    /\ UNCHANGED <<row, expired, limbo, used, found, work, committed, open,
                   faults, recovers>>

\* The deadline passed before persistence: no write may follow.  The coordinator
\* forgets the flight only when its wait for the mutex settles; forgetting it at
\* once lets a second admission of the lane start earlier than the code would.
AdmissionExpires(j) ==
    /\ flight[j] = "waiting"
    /\ flight' = [flight EXCEPT ![j] = "none"]
    /\ UNCHANGED <<row, expired, limbo, used, found, work, committed, open,
                   faults, recovers>>

\* enqueue, in the mutex: refused by a conflict, or handed to the store.  An
\* indeterminate answer keeps the flight until the row is seen.
EnqueueHeld(j) ==
    /\ flight[j] = "waiting"
    /\ \/ /\ ActiveConflict(j)
          /\ flight' = [flight EXCEPT ![j] = "none"]
          /\ UNCHANGED <<row, limbo, used, faults>>
       \/ /\ ~ActiveConflict(j)
          /\ used' = used \cup {j}
          /\ \/ /\ row' = [row EXCEPT ![j] = Admitted.queued]
                /\ flight' = [flight EXCEPT ![j] = "none"]
                /\ UNCHANGED <<limbo, faults>>
             \/ /\ Fault
                /\ flight' = [flight EXCEPT ![j] = "none"]
                /\ UNCHANGED <<row, limbo>>
             \/ /\ Fault
                /\ flight' = [flight EXCEPT ![j] = "persist"]
                /\ \/ row' = [row EXCEPT ![j] = Admitted.queued] /\ UNCHANGED limbo
                   \/ limbo' = limbo \cup {<<j, "queued">>} /\ UNCHANGED row
    /\ UNCHANGED <<expired, found, work, committed, open, recovers>>

\* enqueueAndClaim: ownership and lease in one write; an uncertain answer
\* starts no content mutation and leaves no flight behind.
EnqueueAndClaim(w, j) ==
    /\ j \in Whole \ used /\ flight[j] = "none" /\ work[w] = Idle
    /\ ~ActiveConflict(j)
    /\ used' = used \cup {j}
    /\ \/ /\ row' = [row EXCEPT ![j] = Admitted.running]
          /\ work' = [work EXCEPT ![w] = [Idle EXCEPT !.phase = "start", !.job = j,
                                                      !.token = Admitted.running.token]]
          /\ UNCHANGED <<limbo, faults>>
       \/ /\ Fault
          /\ \/ row' \in {row, [row EXCEPT ![j] = Admitted.running]} /\ UNCHANGED limbo
             \/ LateInline /\ limbo' = limbo \cup {<<j, "running">>} /\ UNCHANGED row
          /\ UNCHANGED work
    /\ UNCHANGED <<expired, flight, found, committed, open, recovers>>

\* The store applies an admission write after its caller was told it failed.
LateLand(j) ==
    /\ \E write \in limbo : /\ write[1] = j
                            /\ limbo' = limbo \ {write}
                            /\ row' = [row EXCEPT ![j] = Admitted[write[2]]]
    /\ UNCHANGED <<expired, flight, used, found, work, committed, open,
                   faults, recovers>>

\* getStatus, list: a durable read of an existing row.
GetStatus(j) ==
    /\ row[j].st # "none" /\ flight[j] = "persist"
    /\ flight' = Observed({j})
    /\ UNCHANGED <<row, expired, limbo, used, found, work, committed, open,
                   faults, recovers>>

-----------------------------------------------------------------------------
(***************************************************************************)
(* Leases, reconciliation and the claim.                                   *)
(***************************************************************************)

Holder(j) == {w \in Workers : /\ work[w].phase # "idle" /\ work[w].job = j
                              /\ work[w].token = row[j].token}

\* Without a live worker nothing renews the lease; with one, its heartbeats
\* must have failed for the whole lease.
LeaseExpires(j) ==
    /\ row[j].st = "running" /\ j \notin expired
    /\ expired' = expired \cup {j}
    /\ IF Holder(j) = {} THEN UNCHANGED faults ELSE Fault
    /\ UNCHANGED <<row, flight, limbo, used, found, work, committed, open,
                   recovers>>

\* recordUnstartedPromoteAttempt
WithUnstarted(r) ==
    IF ~r.bound /\ ~r.started /\ ~r.inserted /\ r.count = r.prep + 1
    THEN [r EXCEPT !.prep = r.count] ELSE r

\* Mutant of Reclaimed: the row is rewritten but stays running.
ReclaimedStillRunning(r) == [r EXCEPT !.why = "none", !.started = FALSE]

Reclaimed(r) == [WithUnstarted(r) EXCEPT !.st = "queued", !.why = "none",
                                         !.started = FALSE, !.inserted = FALSE]

\* Mutant of Abandoned: the attempt error is not written.
AbandonedWithoutError(r, why) ==
    [r EXCEPT !.st = "failed", !.why = why, !.err = "undefined"]

\* abandonForManualInspection
Abandoned(r, why) == [r EXCEPT !.st = "failed", !.why = why, !.err = "fatal"]

\* Mutant of Replayable: promoteStarted is not consulted.
ReplayableUnmarked(r) == r.bound \/ ~r.inserted

\* An automatic rerun is safe: bound to an immutable operation, or not begun.
Replayable(r) == r.bound \/ (~r.started /\ ~r.inserted)

\* reconcileExpiredRunning, for every row.  The code takes the expired rows
\* in turn; the order matters only to rows of one lane.
Reconciled ==
    [j \in Jobs |->
        CASE row[j].st # "running" \/ j \notin expired -> row[j]
          [] row[j].st = "running" /\ j \in expired /\ PendingConflict(j) -> row[j]
          [] row[j].st = "running" /\ j \in expired /\ ~PendingConflict(j) ->
               IF DurableConflict(j) THEN Abandoned(row[j], "conflict")
               ELSE IF Replayable(row[j]) THEN Reclaimed(row[j])
               ELSE Abandoned(row[j], "ambiguity")]

StillExpired(rows) == {j \in expired : rows[j].st = "running"}
SeenActive == Observed({j \in Jobs : row[j].st \in Active})

\* recoverOnStartup, and a claimNext that finds nothing to claim.
RecoverExpired ==
    /\ Reconciled # row
    /\ row' = Reconciled
    /\ expired' = StillExpired(Reconciled)
    /\ flight' = SeenActive
    /\ UNCHANGED <<limbo, used, found, work, committed, open, faults,
                   recovers>>

\* claimNext: reconcile, then claim a job whose lane has no running job.
ClaimNext(w, j, ack) ==
    LET rows == Reconciled
        claim == [rows EXCEPT ![j] = Claimed(rows[j])]
    IN  /\ work[w] = Idle
        /\ rows[j].st \in {"queued", "retrying"}
        /\ \A k \in SameLane(j) : rows[k].st # "running"
        /\ IF ack
           THEN /\ row' = claim
                /\ work' = [work EXCEPT ![w] = [Idle EXCEPT !.phase = "prepare",
                                !.job = j, !.token = claim[j].token]]
                /\ UNCHANGED faults
           ELSE row' \in {rows, claim} /\ Fault /\ UNCHANGED work
        /\ expired' = StillExpired(rows)
        /\ flight' = SeenActive
        /\ UNCHANGED <<limbo, used, found, committed, open, recovers>>

-----------------------------------------------------------------------------
(***************************************************************************)
(* runPromoteJob.                                                          *)
(***************************************************************************)

Job(w) == work[w].job

\* assertLeaseHeld for the worker's own token.
Held(w) == /\ row[Job(w)].st = "running" /\ Job(w) \notin expired
           /\ row[Job(w)].token = work[w].token

\* The worker holds a job with a recovery binding it has to execute.
UnderAuthority(w) == Job(w) \in Whole /\ ~work[w].done

\* Mutant of SectionFree: a replacement executes beside the old owner.
SectionFreeAlways(w) == TRUE

\* createPromoteExecutionAuthority.run: one section per job in this process.
SectionFree(w) ==
    ~ \E v \in Workers \ {w} : /\ work[v].phase \in {"inside", "landed"}
                               /\ Job(v) = Job(w) /\ UnderAuthority(v)

Goto(w, phase) == work' = [work EXCEPT ![w].phase = phase]
GotoFail(w, err) == work' = [work EXCEPT ![w].phase = "fail", ![w].err = err]
Stop(w) == work' = [work EXCEPT ![w] = Idle]

Shared(j) == \E k \in SameLane(j) \cup {j} : k \in committed

workerRest == <<expired, flight, limbo, used, found, recovers>>

\* A queue call or an authority check finds another owner: the attempt ends
\* with nothing recorded.
LeaseLost(w) ==
    /\ \/ work[w].phase \in {"prepare", "start", "mark", "succeed", "fail"}
       \/ work[w].phase = "enter" /\ UnderAuthority(w)
    /\ ~Held(w)
    /\ Stop(w)
    /\ UNCHANGED <<row, committed, open, faults, workerRest>>

\* prepareQueuedShare: a whole-asset job acquires its recovery binding, or is
\* found to be shared already; the others need no preparation.
Prepare(w) ==
    LET j == Job(w) IN
    /\ work[w].phase = "prepare" /\ Held(w)
    /\ IF j \in Whole /\ ~row[j].bound
       THEN /\ SectionFree(w)
            /\ \/ Save(j, [row[j] EXCEPT !.bound = TRUE], TRUE) /\ Goto(w, "start")
               \/ Save(j, [row[j] EXCEPT !.bound = TRUE], FALSE) /\ Stop(w)
               \/ /\ Shared(j)
                  /\ work' = [work EXCEPT ![w].phase = "start", ![w].done = TRUE]
                  /\ UNCHANGED <<row, faults>>
               \/ /\ \E err \in {"transient", "prerequisite", "fatal"} : GotoFail(w, err)
                  /\ Fault /\ UNCHANGED row
       ELSE Goto(w, "start") /\ UNCHANGED <<row, faults>>
    /\ UNCHANGED <<committed, open, workerRest>>

\* recordCommitMarker(promoteStarted), before the executor may mutate.
RecordStarted(w, ack) ==
    LET j == Job(w) IN
    /\ work[w].phase = "start" /\ Held(w)
    /\ Save(j, [row[j] EXCEPT !.started = TRUE], ack)
    /\ IF ack THEN Goto(w, IF work[w].done THEN "mark" ELSE "enter")
       ELSE IF UnderAuthority(w) THEN Stop(w)
       ELSE \E err \in {"transient", "fatal"} : GotoFail(w, err)
    /\ UNCHANGED <<committed, open, workerRest>>

\* runPromote begins; a bound job only in its section and with its lease.
Enter(w) ==
    /\ work[w].phase = "enter"
    /\ UnderAuthority(w) => Held(w) /\ SectionFree(w)
    /\ Goto(w, "inside")
    /\ open' = IF UnderAuthority(w) THEN open ELSE open \cup {Job(w)}
    /\ UNCHANGED <<row, committed, faults, workerRest>>

\* The exact SWM replace of assertionPromote, idempotent for the same sealed
\* payload.
WriteSwm(w) ==
    /\ work[w].phase = "inside"
    /\ committed' = committed \cup {Job(w)}
    /\ Goto(w, "landed")
    /\ UNCHANGED <<row, open, faults, workerRest>>

\* Mutant of PromoteThrows: the error is swallowed and bookkeeping goes on.
PromoteThrowsSwallowed(w, err) ==
    /\ work[w].phase = "inside" /\ err = "fatal"
    /\ Goto(w, "mark")
    /\ UNCHANGED <<row, committed, open, faults, workerRest>>

\* runPromote throws, with the disposition classifyPromoteError gives it: a
\* certified rejection needs a bound job and an empty shared memory, and after
\* the commit an error of no known type is still classified fatal.
PromoteThrows(w, err) ==
    /\ IF err \in {"fatal", "noeffect"} THEN UNCHANGED faults ELSE Fault
    /\ \/ work[w].phase = "inside" /\ err \in {"transient", "prerequisite",
                                               "postcommit", "fatal"}
       \/ work[w].phase = "inside" /\ err = "noeffect"
          /\ UnderAuthority(w) /\ ~Shared(Job(w))
       \/ work[w].phase = "landed" /\ err \in {"transient", "postcommit", "fatal"}
    /\ GotoFail(w, err)
    /\ UNCHANGED <<row, committed, open, workerRest>>

PromoteReturns(w) ==
    /\ work[w].phase = "landed"
    /\ Goto(w, "mark")
    /\ UNCHANGED <<row, committed, open, faults, workerRest>>

\* recordCommitMarker(swmInserted)
RecordInserted(w, ack) ==
    LET j == Job(w) IN
    /\ work[w].phase = "mark" /\ Held(w)
    /\ Save(j, [row[j] EXCEPT !.inserted = TRUE], ack)
    /\ IF ack THEN Goto(w, "succeed") ELSE Stop(w)
    /\ UNCHANGED <<committed, open, workerRest>>

\* An outcome that reached the row closes the attempt.
Closes(j, r) == open' = IF row'[j] = r THEN open \ {j} ELSE open

\* succeed, promoteSuccessTransition
Succeed(w, ack) ==
    LET j == Job(w)
        r == [row[j] EXCEPT !.st = "succeeded"]
    IN  /\ work[w].phase = "succeed" /\ Held(w) /\ row[j].inserted
        /\ Save(j, r, ack) /\ Closes(j, r)
        /\ Stop(w)
        /\ UNCHANGED <<committed, workerRest>>

\* promoteFailureTransition; window: now - enqueuedAt is within the hour.
FailureTransition(job, error, window) ==
    LET r == WithUnstarted(job)
        err == IF error = "noeffect" /\ ~CanRetire(r) THEN "fatal" ELSE error
        retryable == \/ err \in {"transient", "prerequisite"}
                     \/ r.bound /\ err = "postcommit"
        again == /\ retryable /\ (~r.inserted \/ r.bound)
                 /\ r.count < MaxRetries \/ r.bound \/ (err = "prerequisite" /\ window)
    IN  IF again THEN [r EXCEPT !.st = "retrying", !.err = err]
        ELSE [r EXCEPT !.st = "failed", !.err = err,
                       !.why = IF r.inserted THEN "ambiguity" ELSE @]

\* recordPromotionFailure, fail
Fail(w, ack) ==
    LET j == Job(w) IN
    /\ work[w].phase = "fail" /\ Held(w)
    /\ \E window \in BOOLEAN :
          LET r == FailureTransition(row[j], work[w].err, window)
          IN  Save(j, r, ack) /\ Closes(j, r)
    /\ Stop(w)
    /\ UNCHANGED <<committed, workerRest>>

-----------------------------------------------------------------------------
(***************************************************************************)
(* The post-commit sweep, the operator, retention and the process.         *)
(***************************************************************************)

adminRest == <<limbo, used, work, committed, open>>

\* sweepPostCommitFailures, first pass: what qualifies now.
SweepFind ==
    /\ found = {}
    /\ found' = {j \in Jobs : AutoRecoverable(row[j])}
    /\ found' # {}
    /\ flight' = Observed(found')
    /\ UNCHANGED <<row, expired, faults, recovers, adminRest>>

\* The row a sweep leaves, judged on what the row says in this hold.
Swept(j) ==
    CASE ~AutoRecoverable(row[j]) -> row[j]
      [] AutoRecoverable(row[j]) /\ row[j].count >= MaxRetries ->
            [row[j] EXCEPT !.why = "exhausted"]
      [] AutoRecoverable(row[j]) /\ row[j].count < MaxRetries ->
            IF ActiveConflict(j) THEN row[j] ELSE [row[j] EXCEPT !.st = "retrying"]

\* Second pass, one candidate; a failed write ends the sweep.
SweepDecide(j, ack) ==
    /\ j \in found
    /\ ~ack => Swept(j) # row[j]
    /\ Save(j, Swept(j), ack)
    /\ found' = IF ack THEN found \ {j} ELSE {}
    /\ flight' = Observed({j})
    /\ UNCHANGED <<expired, recovers, adminRest>>

\* cancel: an ordinary queued job only.
Cancel(j) ==
    /\ row[j].st = "queued" /\ ~Obligated(row[j])
    /\ row' = [row EXCEPT ![j].st = "failed", ![j].why = "cancelled"]
    /\ flight' = Observed({j})
    /\ UNCHANGED <<expired, found, faults, recovers, adminRest>>

\* recover: an operator requeues a failed job with a new budget.
Recover(j) ==
    /\ recovers < MaxRecovers /\ recovers' = recovers + 1
    /\ row[j].st = "failed" /\ ~Retired(row[j]) /\ ~ManualInspection(row[j])
    /\ ~ActiveConflict(j)
    /\ row' = [row EXCEPT ![j] = [NoRow EXCEPT !.st = "queued", !.bound = row[j].bound,
                                               !.token = row[j].token]]
    /\ flight' = Observed({j})
    /\ UNCHANGED <<expired, found, faults, adminRest>>

\* Mutant of Clear: any failed job may be cleared.
ClearAnyFailed(j) ==
    /\ row[j].st \in {"succeeded", "failed"}
    /\ row' = [row EXCEPT ![j] = NoRow]
    /\ flight' = Observed({j})
    /\ UNCHANGED <<expired, found, faults, recovers, adminRest>>

\* clearTerminalJob
Clear(j) ==
    /\ row[j].st \in {"succeeded", "failed"} /\ ~Obligated(row[j])
    /\ ~(AutoRecoverable(row[j]) /\ row[j].count < MaxRetries)
    /\ row' = [row EXCEPT ![j] = NoRow]
    /\ flight' = Observed({j})
    /\ UNCHANGED <<expired, found, faults, recovers, adminRest>>

\* decidePromoteRetention, for a row older than its class allows.
Retention(j) ==
    /\ \/ row[j].st = "succeeded"
       \/ Retired(row[j])
       \/ /\ row[j].st = "failed" /\ row[j].why = "cancelled" /\ ~row[j].bound
          /\ row[j].count = row[j].prep /\ ~row[j].started /\ ~row[j].inserted
          /\ row[j].err # "postcommit"
    /\ flight[j] = "none"
    /\ row' = [row EXCEPT ![j] = NoRow]
    /\ UNCHANGED <<expired, flight, found, faults, recovers, adminRest>>

\* The daemon dies: the memory is gone, a write in doubt has landed or never
\* will, the rows keep their leases.
Crash ==
    /\ Fault
    /\ \E S \in SUBSET limbo :
          row' = [j \in Jobs |-> IF <<j, "queued">> \in S THEN Admitted.queued
                                ELSE IF <<j, "running">> \in S THEN Admitted.running
                                ELSE row[j]]
    /\ limbo' = {} /\ found' = {}
    /\ flight' = [j \in Jobs |-> "none"]
    /\ work' = [w \in Workers |-> Idle]
    /\ UNCHANGED <<expired, used, committed, open, recovers>>

-----------------------------------------------------------------------------
Worker(w) ==
    \/ LeaseLost(w) \/ Prepare(w) \/ Enter(w) \/ WriteSwm(w) \/ PromoteReturns(w)
    \/ \E err \in Errors : PromoteThrows(w, err)
    \/ \E ack \in BOOLEAN : \/ RecordStarted(w, ack) \/ RecordInserted(w, ack)
                            \/ Succeed(w, ack) \/ Fail(w, ack)

Claim == \E w \in Workers, j \in Jobs, ack \in BOOLEAN : ClaimNext(w, j, ack)
Sweep == SweepFind \/ \E j \in Jobs, ack \in BOOLEAN : SweepDecide(j, ack)

Admission(j) ==
    \/ Enqueue(j) \/ AdmissionExpires(j) \/ EnqueueHeld(j) \/ LateLand(j)
    \/ GetStatus(j)
    \/ \E w \in Workers : EnqueueAndClaim(w, j)

Operator(j) == Cancel(j) \/ Recover(j) \/ Clear(j) \/ Retention(j)

Next ==
    \/ \E w \in Workers : Worker(w)
    \/ Claim \/ RecoverExpired \/ Sweep \/ Crash
    \/ \E j \in Jobs : LeaseExpires(j) \/ Admission(j) \/ Operator(j)

Spec == Init /\ [][Next]_vars

\* A job's lease runs out once no worker renews it.
OrphanExpires(j) == Holder(j) = {} /\ LeaseExpires(j)

\* The supervisor polls on a timer: it claims, reconciles and sweeps again and
\* again, a running attempt goes on, the clock passes a lease, and an
\* admission gets the mutex or meets its deadline.  Clients that enqueue again
\* and again cannot keep an admission waiting at every reconciliation: the
\* coordinator's owner observations refuse them, for five minutes, before
\* they become flights.
FairSpec ==
    /\ Spec
    /\ \A w \in Workers : WF_vars(Worker(w))
    /\ WF_vars(Claim) /\ SF_vars(RecoverExpired) /\ WF_vars(Sweep)
    /\ \A j \in Jobs : /\ WF_vars(OrphanExpires(j))
                       /\ WF_vars(EnqueueHeld(j) \/ AdmissionExpires(j))

-----------------------------------------------------------------------------
(***************************************************************************)
(* Properties.                                                             *)
(***************************************************************************)

\* At most one job owns an assertion (is active, or holds an unfinished bound
\* obligation), whatever admissions time out, land late, are cancelled,
\* recovered, swept or reclaimed: findActiveConflict guards every activation.
OneOwnerPerAssertion ==
    \A j, k \in Jobs :
        j # k /\ LaneOf[j] = LaneOf[k] => ~(Owns(row[j]) /\ Owns(row[k]))

\* A promote of a job without a binding that was entered and whose outcome no
\* row records (crash, lost lease) is never run again: not by the expired-
\* lease recovery, the sweep or the operator's recover.
OpenPromoteIsNotReplayed ==
    \A j \in open : row[j].st \in Active => row[j].st = "running" /\ row[j].started

\* A row says succeeded only after the content of its assertion reached
\* shared memory.
SucceededIsShared == \A j \in Jobs : row[j].st = "succeeded" => Shared(j)

\* A bound job retired as a certified no-effect rejection, and so released
\* from its obligation, has left nothing in shared memory, not even by a
\* worker that lost its lease while it was executing.
RetiredHasNoEffect == \A j \in Jobs : Retired(row[j]) => j \notin committed

\* An unfinished bound obligation ends only by success or by a certified
\* rejection: no clear, cancel, retention, recovery or failure drops it.
ObligationKept ==
    [][\A j \in Jobs : Obligated(row[j]) =>
          \/ Obligated(row'[j]) \/ row'[j].st = "succeeded" \/ Retired(row'[j])]_vars

\* Once the faults are over every job comes to rest: an orphaned lease is
\* reclaimed or parked, a retry is taken, the sweep stops by itself.
QueueDrains == <>[](\A j \in Jobs : row[j].st \notin Active)
=============================================================================
