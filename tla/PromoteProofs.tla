--------------------------- MODULE PromoteProofs ---------------------------
(***************************************************************************)
(* Theorems about the async promote queue, for every set of jobs, lanes    *)
(* and workers and every value of the bounds.                              *)
(***************************************************************************)
EXTENDS PromoteQueue, TLAPS

Live(w) == work[w].phase # "idle"

\* Only a live worker has a job, a row that is gone is blank, and only a job
\* that shares a whole asset is ever bound.
Shape ==
    /\ \A w \in Workers : Live(w) => Job(w) \in Jobs
    /\ \A j \in Jobs : row[j].st = "none" => row[j] = NoRow
    /\ \A j \in Jobs : row[j].bound => j \in Whole
    /\ \A j \in Jobs : <<j, "running">> \in limbo => j \in Whole

\* An id is handed to persistence once: what has a row, a worker, an open
\* promote or a place in a sweep is used, and a waiting admission is not.
Provenance ==
    /\ \A j \in Jobs : flight[j] = "waiting" => j \notin used
    /\ \A j \in Jobs : row[j].st # "none" => j \in used
    /\ \A w \in Workers : Live(w) => Job(w) \in used
    /\ open \subseteq used /\ found \subseteq used

\* A write in doubt is the only write of its job: nothing else exists of it.
InDoubt ==
    \A j \in Jobs :
       /\ \A s \in {"queued", "running"} : <<j, s>> \in limbo =>
             /\ j \in used /\ row[j].st = "none" /\ j \notin open
             /\ j \notin found
             /\ \A w \in Workers : Live(w) => Job(w) # j
       /\ ~(<<j, "queued">> \in limbo /\ <<j, "running">> \in limbo)

\* Lease tokens: a worker's token was issued by its job's row, and no two
\* workers hold the same one.
Tokens ==
    /\ \A w \in Workers : Live(w) =>
          /\ work[w].token > 0
          /\ row[Job(w)].st # "none" => work[w].token <= row[Job(w)].token
    /\ \A v, w \in Workers :
          v # w /\ Live(v) /\ Live(w) /\ Job(v) = Job(w) => work[v].token # work[w].token

QueueInv == TypeOK /\ Shape /\ Provenance /\ InDoubt /\ Tokens

\* Admissions of one lane exclude each other, and an admission in doubt keeps
\* every other job of its lane from owning the assertion.
LaneGuard ==
    /\ \A j, k \in Jobs : j # k /\ LaneOf[j] = LaneOf[k] =>
          ~(flight[j] # "none" /\ flight[k] # "none")
    /\ \A j \in Jobs : flight[j] = "persist" =>
          \A k \in SameLane(j) : ~Owns(row[k])
    /\ \A j \in Jobs : <<j, "queued">> \in limbo => flight[j] = "persist"
    /\ \A j \in Jobs : <<j, "running">> \notin limbo
    /\ \A j \in found : flight[j] = "none"

OwnerInv == LaneGuard /\ OneOwnerPerAssertion

\* A worker past its started marker finds the row as it left it, or parked for
\* inspection, or gone; so does a promote that nobody closed.
Parked(r) == r.st = "none" \/ (r.st = "failed" /\ r.why = "ambiguity")

OpenInv ==
    /\ open \cap Whole = {}
    /\ \A w \in Workers : work[w].phase = "enter" => ~work[w].done
    /\ \A j \in open : Parked(row[j]) \/ (row[j].st = "running" /\ row[j].started)
    /\ \A w \in Workers :
          work[w].phase = "enter" /\ Job(w) \notin Whole =>
             \/ Parked(row[Job(w)])
             \/ /\ row[Job(w)].st = "running" /\ row[Job(w)].started
                /\ row[Job(w)].token = work[w].token

\* The commit is seen before the bookkeeping that reports it.
SharedInv ==
    /\ \A j \in Jobs : row[j].inserted \/ row[j].st = "succeeded" => Shared(j)
    /\ \A w \in Workers :
          work[w].done \/ work[w].phase \in {"landed", "mark", "succeed"} => Shared(Job(w))

Executing(j) == {w \in Workers : work[w].phase \in {"inside", "landed"} /\ Job(w) = j}

\* One executor per whole-asset job, and none beside a certified rejection whose
\* lease is the row's, nor once the row is retired.
SectionInv ==
    /\ \A w \in Workers : work[w].phase \in {"enter", "inside", "landed"} => ~work[w].done
    /\ \A j \in Whole : \A v, w \in Executing(j) : v = w
    /\ \A w \in Workers :
          /\ work[w].phase = "fail" /\ work[w].err = "noeffect"
          /\ work[w].token = row[Job(w)].token
          => Job(w) \in Whole /\ Job(w) \notin committed /\ Executing(Job(w)) = {}
    /\ \A j \in Jobs : Retired(row[j]) => j \notin committed /\ Executing(j) = {}

-----------------------------------------------------------------------------
(***************************************************************************)
(* What the transitions of a row yield.                                    *)
(***************************************************************************)

\* Every transition of a row yields a row.
LEMMA RowTypes ==
    /\ NoRow \in Rows
    /\ Admitted.queued \in Rows /\ Admitted.running \in Rows
    /\ Admitted["queued"] \in Rows /\ Admitted["running"] \in Rows
    /\ \A r \in Rows :
          /\ Claimed(r) \in Rows /\ WithUnstarted(r) \in Rows /\ Reclaimed(r) \in Rows
          /\ \A why \in Reasons : Abandoned(r, why) \in Rows
          /\ \A err \in Errors, window \in BOOLEAN :
                FailureTransition(r, err, window) \in Rows
<1> USE DEF Rows, NoRow, Active, States, Reasons, Errors
<1>1. NoRow \in Rows
      OBVIOUS
<1>2. ASSUME NEW r \in Rows PROVE Claimed(r) \in Rows
  <2>1. r.count + 1 \in Nat /\ r.token + 1 \in Nat
        OBVIOUS
  <2> QED
      BY <2>1 DEF Claimed
<1>3. \A r \in Rows : WithUnstarted(r) \in Rows
      BY DEF WithUnstarted
<1>4. ASSUME NEW r \in Rows PROVE Reclaimed(r) \in Rows
  <2> DEFINE u == WithUnstarted(r)
  <2>1. u \in Rows
        BY <1>3
  <2> HIDE DEF u
  <2>2. [u EXCEPT !.st = "queued", !.why = "none", !.started = FALSE, !.inserted = FALSE] \in Rows
        BY <2>1
  <2> QED
      BY <2>2 DEF Reclaimed, u
<1>5. \A r \in Rows : \A why \in Reasons : Abandoned(r, why) \in Rows
      BY DEF Abandoned
<1>6. ASSUME NEW r \in Rows, NEW error \in Errors, NEW window \in BOOLEAN
      PROVE FailureTransition(r, error, window) \in Rows
  <2> DEFINE u == WithUnstarted(r)
             err == IF error = "noeffect" /\ ~CanRetire(u) THEN "fatal" ELSE error
  <2>1. u \in Rows
        BY <1>3
  <2>2. err \in Errors
        OBVIOUS
  <2> HIDE DEF u, err
  <2>3. [u EXCEPT !.st = "retrying", !.err = err] \in Rows
        BY <2>1, <2>2
  <2>4. (IF u.inserted THEN "ambiguity" ELSE u.why) \in Reasons
        BY <2>1
  <2>5. [u EXCEPT !.st = "failed", !.err = err,
                  !.why = IF u.inserted THEN "ambiguity" ELSE @] \in Rows
        BY <2>1, <2>2, <2>4
  <2> QED
      BY <2>3, <2>5 DEF FailureTransition, u, err
<1>7. [NoRow EXCEPT !.st = "queued"] \in Rows /\ [NoRow EXCEPT !.bound = TRUE] \in Rows
      OBVIOUS
<1> HIDE DEF Rows, NoRow, Reasons, Errors
<1>8. Admitted.queued \in Rows /\ Admitted.running \in Rows
      BY <1>2, <1>7 DEF Admitted
<1> QED
    BY <1>1, <1>2, <1>3, <1>4, <1>5, <1>6, <1>8

\* A write leaves rows whatever its answer is, and the reconciliation does.
LEMMA WriteTypes ==
    ASSUME TypeOK
    PROVE  /\ Reconciled \in [Jobs -> Rows]
           /\ \A j \in Jobs, r \in Rows, ack \in BOOLEAN :
                 Save(j, r, ack) => row' \in [Jobs -> Rows] /\ faults' \in 0..MaxFaults
           /\ Fault => faults' \in 0..MaxFaults
<1>1. Reconciled \in [Jobs -> Rows]
  <2> SUFFICES ASSUME NEW j \in Jobs PROVE Reconciled[j] \in Rows
      BY DEF Reconciled
  <2>1. row[j] \in Rows /\ {"ambiguity", "conflict"} \subseteq Reasons
        BY DEF TypeOK, Reasons
  <2> QED
      BY <2>1, RowTypes DEF Reconciled
<1>2. Fault => faults' \in 0..MaxFaults
      BY BoundAssumption DEF Fault, TypeOK
<1>3. ASSUME NEW j \in Jobs, NEW r \in Rows, NEW ack \in BOOLEAN, Save(j, r, ack)
      PROVE  row' \in [Jobs -> Rows] /\ faults' \in 0..MaxFaults
      BY <1>2, <1>3 DEF Save, TypeOK
<1> QED
    BY <1>1, <1>2, <1>3

WorkerStates == [phase: Phases, job: Jobs \cup {"none"}, token: Nat, err: Errors,
                 done: BOOLEAN]

\* Worker w is in phase p with error e and is otherwise the same; nobody else moves.
WorkMoved(w, p, e) ==
    /\ work' \in [Workers -> WorkerStates]
    /\ \A v \in Workers \ {w} : work'[v] = work[v]
    /\ work'[w].phase = p /\ work'[w].err = e
    /\ work'[w].job = work[w].job /\ work'[w].token = work[w].token
    /\ work'[w].done = work[w].done

\* What Goto, GotoFail and Stop do to the workers.
LEMMA WorkMoves ==
    ASSUME work \in [Workers -> WorkerStates], NEW w \in Workers
    PROVE  /\ \A p \in Phases : Goto(w, p) => WorkMoved(w, p, work[w].err)
           /\ \A e \in Errors : GotoFail(w, e) => WorkMoved(w, "fail", e)
           /\ Stop(w) => /\ work' \in [Workers -> WorkerStates]
                         /\ work'[w] = Idle
                         /\ \A v \in Workers \ {w} : work'[v] = work[v]
<1>1. ASSUME NEW p \in Phases, Goto(w, p) PROVE WorkMoved(w, p, work[w].err)
  <2>1. [work[w] EXCEPT !.phase = p] \in WorkerStates
        BY DEF WorkerStates
  <2> QED
      BY <1>1, <2>1 DEF Goto, WorkMoved, WorkerStates
<1>2. ASSUME NEW e \in Errors, GotoFail(w, e) PROVE WorkMoved(w, "fail", e)
  <2>1. [work[w] EXCEPT !.phase = "fail", !.err = e] \in WorkerStates
        BY DEF WorkerStates, Phases
  <2> QED
      BY <1>2, <2>1 DEF GotoFail, WorkMoved, WorkerStates
<1>3. Idle \in WorkerStates
      BY DEF WorkerStates, Idle, Phases, Errors
<1> QED
    BY <1>1, <1>2, <1>3 DEF Stop

-----------------------------------------------------------------------------
(***************************************************************************)
(* What any step of a worker leaves alone.                                 *)
(***************************************************************************)

\* The row of the worker's job is unchanged, or it was running under the
\* worker's token and keeps its token and its binding.
RowMoved(w) ==
    LET before == row[Job(w)]
        after == row'[Job(w)]
    IN  \/ after = before
        \/ /\ Held(w)
           /\ after.st # "none" /\ after.token = before.token
           /\ before.bound => after.bound
           /\ after.bound => before.bound \/ Job(w) \in Whole

\* Only the worker and the row of its job move; the worker keeps its job and
\* its token until it stops.
WorkerFrame(w) ==
    /\ Live(w)
    /\ \A v \in Workers \ {w} : work'[v] = work[v]
    /\ \/ work'[w] = Idle
       \/ work'[w].phase # "idle" /\ work'[w].job = Job(w) /\ work'[w].token = work[w].token
    /\ \A k \in Jobs \ {Job(w)} : row'[k] = row[k]
    /\ RowMoved(w)
    /\ UNCHANGED workerRest

\* The transitions of a running row keep its token and its binding.
LEMMA RowMoves ==
    ASSUME NEW r \in Rows, NEW err \in Errors, NEW window \in BOOLEAN
    PROVE  LET f == FailureTransition(r, err, window) IN
           /\ f.st \in {"retrying", "failed"} /\ f.token = r.token /\ f.bound = r.bound
           /\ f.inserted = r.inserted
    BY DEF FailureTransition, WithUnstarted, Rows

\* Every step of a worker is of that shape, and keeps the types.
LEMMA WorkerStep ==
    ASSUME TypeOK, Shape, NEW w \in Workers, Worker(w)
    PROVE  TypeOK' /\ WorkerFrame(w)
<1> DEFINE j == Job(w)
           WorkOK == /\ work' \in [Workers -> WorkerStates]
                     /\ \A v \in Workers \ {w} : work'[v] = work[v]
                     /\ \/ work'[w] = Idle
                        \/ /\ work'[w].phase # "idle" /\ work'[w].job = j
                           /\ work'[w].token = work[w].token
           RowsOK == /\ row' \in [Jobs -> Rows] /\ faults' \in 0..MaxFaults
                     /\ \A k \in Jobs \ {j} : row'[k] = row[k]
                     /\ RowMoved(w)
<1>1. /\ work \in [Workers -> WorkerStates] /\ row \in [Jobs -> Rows]
      /\ faults \in 0..MaxFaults /\ committed \subseteq Jobs /\ open \subseteq Jobs
      BY DEF TypeOK, WorkerStates
<1>2. Live(w) /\ j \in Jobs /\ row[j] \in Rows
  <2>1. Live(w)
        BY DEF Worker, LeaseLost, Prepare, Enter, WriteSwm, PromoteReturns, PromoteThrows,
               RecordStarted, RecordInserted, Succeed, Fail, Live
  <2> QED
      BY <1>1, <2>1 DEF Shape
<1>3. ASSUME WorkOK, RowsOK, committed' \subseteq Jobs, open' \subseteq Jobs,
             UNCHANGED workerRest
      PROVE  TypeOK' /\ WorkerFrame(w)
      BY <1>2, <1>3 DEF TypeOK, WorkerStates, WorkerFrame, workerRest
<1>4. ASSUME NEW p \in Phases \ {"idle"}, NEW e, WorkMoved(w, p, e) PROVE WorkOK
      BY <1>4 DEF WorkMoved, Job
<1>5. Stop(w) => WorkOK
      BY <1>1, WorkMoves
<1>6. UNCHANGED <<row, faults>> \/ (UNCHANGED row /\ Fault) => RowsOK
      BY <1>1, WriteTypes DEF RowMoved
<1>7. ASSUME NEW r \in Rows, NEW ack \in BOOLEAN, Save(j, r, ack), Held(w),
             r.st # "none", r.token = row[j].token, row[j].bound => r.bound,
             r.bound => row[j].bound \/ j \in Whole
      PROVE  RowsOK
  <2>1. /\ row' \in [Jobs -> Rows] /\ faults' \in 0..MaxFaults
        /\ \A k \in Jobs \ {j} : row'[k] = row[k]
        /\ row'[j] \in {row[j], r}
        BY <1>1, <1>2, <1>7, WriteTypes DEF Save
  <2> QED
      BY <1>7, <2>1 DEF RowMoved
<1> HIDE DEF j, WorkOK, RowsOK
<1>8. ASSUME NEW p \in Phases \ {"idle"}, Goto(w, p) PROVE WorkOK
      BY <1>1, <1>4, <1>8, WorkMoves
<1>9. ASSUME NEW e \in Errors, GotoFail(w, e) PROVE WorkOK
      BY <1>1, <1>4, <1>9, WorkMoves DEF Phases
<1>10. CASE LeaseLost(w)
      BY <1>10, <1>1, <1>3, <1>5, <1>6 DEF LeaseLost
<1>11. CASE Prepare(w)
  <2>1. CASE UNCHANGED <<row, faults>> /\ Goto(w, "start")
        BY <1>11, <2>1, <1>1, <1>3, <1>6, <1>8 DEF Prepare, Phases
  <2>2. CASE j \in Whole /\ ~row[j].bound
    <3> DEFINE r == [row[j] EXCEPT !.bound = TRUE]
    <3>1. r \in Rows /\ r.st = row[j].st /\ r.token = row[j].token /\ r.bound
          BY <1>2 DEF Rows
    <3> HIDE DEF r
    <3>2. ASSUME NEW ack \in BOOLEAN, Save(j, r, ack) PROVE RowsOK
          BY <1>7, <1>11, <2>2, <3>1, <3>2 DEF Prepare, Held, j
    <3>3. ASSUME work' = [work EXCEPT ![w].phase = "start", ![w].done = TRUE]
          PROVE  WorkOK
      <4>1. [work[w] EXCEPT !.phase = "start", !.done = TRUE] \in WorkerStates
            BY <1>1 DEF WorkerStates, Phases
      <4> QED
          BY <1>1, <3>3, <4>1 DEF WorkOK, WorkerStates, j, Job
    <3> QED
        BY <1>11, <2>2, <3>2, <3>3, <1>1, <1>3, <1>5, <1>6, <1>8, <1>9
        DEF Prepare, Phases, Errors, j, r
  <2> QED
      BY <1>11, <2>1, <2>2 DEF Prepare, j
<1>12. ASSUME NEW ack \in BOOLEAN, RecordStarted(w, ack) PROVE TypeOK' /\ WorkerFrame(w)
  <2> DEFINE r == [row[j] EXCEPT !.started = TRUE]
  <2>1. r \in Rows /\ r.st = row[j].st /\ r.token = row[j].token /\ r.bound = row[j].bound
        BY <1>2 DEF Rows
  <2>2. Save(j, r, ack) /\ Held(w)
        BY <1>12 DEF RecordStarted, j
  <2> HIDE DEF r
  <2>3. RowsOK
        BY <1>7, <2>1, <2>2 DEF Held, j
  <2> QED
      BY <1>12, <2>3, <1>1, <1>3, <1>5, <1>8, <1>9 DEF RecordStarted, Phases, Errors
<1>13. CASE Enter(w)
      BY <1>13, <1>1, <1>2, <1>3, <1>6, <1>8 DEF Enter, Phases, j
<1>14. CASE WriteSwm(w)
      BY <1>14, <1>1, <1>2, <1>3, <1>6, <1>8 DEF WriteSwm, Phases, j
<1>15. ASSUME NEW err \in Errors, PromoteThrows(w, err) PROVE TypeOK' /\ WorkerFrame(w)
      BY <1>15, <1>1, <1>3, <1>6, <1>9 DEF PromoteThrows
<1>16. CASE PromoteReturns(w)
      BY <1>16, <1>1, <1>3, <1>6, <1>8 DEF PromoteReturns, Phases
<1>17. ASSUME NEW ack \in BOOLEAN, RecordInserted(w, ack) PROVE TypeOK' /\ WorkerFrame(w)
  <2> DEFINE r == [row[j] EXCEPT !.inserted = TRUE]
  <2>1. r \in Rows /\ r.st = row[j].st /\ r.token = row[j].token /\ r.bound = row[j].bound
        BY <1>2 DEF Rows
  <2>2. Save(j, r, ack) /\ Held(w)
        BY <1>17 DEF RecordInserted, j
  <2> HIDE DEF r
  <2>3. RowsOK
        BY <1>7, <2>1, <2>2 DEF Held, j
  <2> QED
      BY <1>17, <2>3, <1>1, <1>3, <1>5, <1>8 DEF RecordInserted, Phases
<1>18. ASSUME NEW ack \in BOOLEAN, Succeed(w, ack) PROVE TypeOK' /\ WorkerFrame(w)
  <2> DEFINE r == [row[j] EXCEPT !.st = "succeeded"]
  <2>1. r \in Rows /\ r.st # "none" /\ r.token = row[j].token /\ r.bound = row[j].bound
        BY <1>2 DEF Rows, States, Active
  <2>2. Save(j, r, ack) /\ Held(w) /\ Closes(j, r)
        BY <1>18 DEF Succeed, j
  <2> HIDE DEF r
  <2>3. RowsOK
        BY <1>7, <2>1, <2>2
  <2> QED
      BY <1>18, <2>2, <2>3, <1>1, <1>3, <1>5 DEF Succeed, Closes
<1>19. ASSUME NEW ack \in BOOLEAN, Fail(w, ack) PROVE TypeOK' /\ WorkerFrame(w)
  <2>1. PICK window \in BOOLEAN :
           /\ Save(j, FailureTransition(row[j], work[w].err, window), ack)
           /\ Closes(j, FailureTransition(row[j], work[w].err, window))
        BY <1>19 DEF Fail, j
  <2> DEFINE r == FailureTransition(row[j], work[w].err, window)
  <2>2. work[w].err \in Errors
        BY <1>1 DEF WorkerStates
  <2>3. r \in Rows /\ r.st # "none" /\ r.token = row[j].token /\ r.bound = row[j].bound
        BY <1>2, <2>2, RowTypes, RowMoves
  <2>4. Held(w)
        BY <1>19 DEF Fail
  <2> HIDE DEF r
  <2>5. RowsOK
        BY <1>7, <2>1, <2>3, <2>4 DEF r
  <2> QED
      BY <1>19, <2>1, <2>5, <1>1, <1>3, <1>5 DEF Fail, Closes
<1> QED
    BY <1>10, <1>11, <1>12, <1>13, <1>14, <1>15, <1>16, <1>17, <1>18, <1>19 DEF Worker

-----------------------------------------------------------------------------
(***************************************************************************)
(* The invariant of the queue's bookkeeping.                               *)
(***************************************************************************)

\* A worker's step keeps the bookkeeping.
LEMMA WorkerKeepsQueue ==
    ASSUME QueueInv, NEW w \in Workers, Worker(w)
    PROVE  QueueInv'
<1> DEFINE j == Job(w)
<1>1. TypeOK' /\ WorkerFrame(w)
      BY WorkerStep DEF QueueInv
<1>2. j \in Jobs /\ j \in used /\ row[j] \in Rows /\ row'[j] \in Rows
      BY <1>1 DEF QueueInv, WorkerFrame, Shape, Provenance, TypeOK
<1>3. \A v \in Workers : Live(v)' =>
         Live(v) /\ work'[v].job = Job(v) /\ work'[v].token = work[v].token
      BY <1>1 DEF WorkerFrame, Live, Job, Idle
<1>4. \A k \in Jobs : /\ row'[k].st = "none" => row'[k] = row[k]
                      /\ row'[k].st # "none" => row[k].st # "none"
                      /\ row'[k].token = row[k].token
                      /\ row'[k].bound => row[k].bound \/ k \in Whole
      BY <1>1, <1>2 DEF WorkerFrame, RowMoved, Held
<1>5. UNCHANGED <<flight, limbo, used, found>> /\ open' \subseteq open \cup {j}
  <2>1. UNCHANGED <<flight, limbo, used, found>>
        BY <1>1 DEF WorkerFrame, workerRest
  <2>2. open' \subseteq open \cup {j}
        BY DEF Worker, LeaseLost, Prepare, Enter, WriteSwm, PromoteReturns, PromoteThrows,
               RecordStarted, RecordInserted, Succeed, Fail, Closes, j
  <2> QED
      BY <2>1, <2>2
<1> HIDE DEF j
<1>6. Shape'
      BY <1>3, <1>4, <1>5 DEF QueueInv, Shape, Job
<1>7. Provenance'
      BY <1>2, <1>3, <1>4, <1>5 DEF QueueInv, Provenance, Job
<1>8. InDoubt'
      BY <1>1, <1>2, <1>3, <1>4, <1>5 DEF QueueInv, InDoubt, Job, WorkerFrame, j
<1>9. Tokens'
      BY <1>3, <1>4 DEF QueueInv, Tokens, Shape, Job
<1> QED
    BY <1>1, <1>6, <1>7, <1>8, <1>9 DEF QueueInv

\* A row after a step of the queue: blank or there before, its token not taken
\* back, its binding not made up.
RowKept(k) ==
    /\ row'[k].st = "none" => row'[k] = NoRow
    /\ row'[k].st # "none" => row[k].st # "none" /\ row'[k].token >= row[k].token
    /\ row'[k].bound => row[k].bound

\* A step that only rewrites rows that are there keeps the bookkeeping.
LEMMA RowsOnly ==
    ASSUME QueueInv, TypeOK', UNCHANGED <<limbo, used, work, open>>,
           \A k \in Jobs : RowKept(k) /\ (flight'[k] = "waiting" => k \notin used),
           \A k \in found' : k \in found \/ row[k].st # "none"
    PROVE  QueueInv'
<1>1. Shape'
      BY DEF QueueInv, Shape, Live, Job, RowKept
<1>2. Provenance'
      BY DEF QueueInv, Provenance, Live, Job, RowKept, TypeOK
<1>3. InDoubt'
      BY DEF QueueInv, InDoubt, Live, Job, RowKept, NoRow
<1>4. Tokens'
  <2> SUFFICES ASSUME NEW w \in Workers, Live(w), row'[Job(w)].st # "none"
               PROVE  work[w].token <= row'[Job(w)].token
      BY DEF Tokens, Live, Job, QueueInv
  <2>1. Job(w) \in Jobs /\ row[Job(w)].token \in Nat /\ row'[Job(w)].token \in Nat
                        /\ work[w].token \in Nat
        BY DEF QueueInv, Shape, TypeOK, Rows
  <2> QED
      BY <2>1 DEF QueueInv, Tokens, RowKept
<1> QED
    BY <1>1, <1>2, <1>3, <1>4 DEF QueueInv

\* Reading a row only ever ends an admission that was in doubt.
LEMMA ObservedFlights ==
    ASSUME TypeOK, NEW S
    PROVE  /\ Observed(S) \in [Jobs -> {"none", "waiting", "persist"}]
           /\ \A k \in Jobs : Observed(S)[k] # "none" => Observed(S)[k] = flight[k]
           /\ \A k \in Jobs \ S : Observed(S)[k] = flight[k]
    BY DEF Observed, TypeOK

\* What the reconciliation makes of a row.
LEMMA ReconciledRows ==
    ASSUME TypeOK, NEW k \in Jobs
    PROVE  /\ Reconciled[k].st = "none" => row[k].st = "none"
           /\ row[k].st # "running" => Reconciled[k] = row[k]
           /\ k \notin expired => Reconciled[k] = row[k]
           /\ Reconciled[k].st = row[k].st => Reconciled[k] = row[k]
           /\ Reconciled[k].st \in {row[k].st, "queued", "failed"}
           /\ Reconciled[k].token = row[k].token
           /\ Reconciled[k].bound = row[k].bound
<1>1. row[k] \in Rows
      BY DEF TypeOK
<1>2. ASSUME NEW r \in Rows, NEW why \in Reasons
      PROVE  /\ Reclaimed(r).st = "queued" /\ Reclaimed(r).token = r.token
             /\ Reclaimed(r).bound = r.bound
             /\ Abandoned(r, why).st = "failed" /\ Abandoned(r, why).token = r.token
             /\ Abandoned(r, why).bound = r.bound
      BY DEF Reclaimed, WithUnstarted, Abandoned, Rows
<1>3. {"conflict", "ambiguity"} \subseteq Reasons
      BY DEF Reasons
<1> QED
    BY <1>1, <1>2, <1>3 DEF Reconciled

\* What the sweep makes of a row.
LEMMA SweptRows ==
    ASSUME TypeOK, NEW j \in Jobs
    PROVE  /\ Swept(j) \in Rows
           /\ Swept(j).token = row[j].token /\ Swept(j).bound = row[j].bound
           /\ Swept(j).started = row[j].started /\ Swept(j).inserted = row[j].inserted
           /\ Swept(j).err = row[j].err
           /\ \/ Swept(j) = row[j]
              \/ /\ AutoRecoverable(row[j])
                 /\ \/ Swept(j).st = "failed"
                    \/ Swept(j).st = "retrying" /\ ~ActiveConflict(j)
<1>1. row[j] \in Rows /\ row[j].count \in Nat
      BY DEF TypeOK, Rows
<1>2. \/ Swept(j) = row[j]
      \/ AutoRecoverable(row[j]) /\ Swept(j) = [row[j] EXCEPT !.why = "exhausted"]
      \/ /\ AutoRecoverable(row[j]) /\ ~ActiveConflict(j)
         /\ Swept(j) = [row[j] EXCEPT !.st = "retrying"]
      BY <1>1, BoundAssumption DEF Swept
<1> QED
    BY <1>1, <1>2 DEF Rows, States, Active, Reasons, AutoRecoverable

\* The rows of an admission, and the token a claim issues.
LEMMA AdmittedRows ==
    /\ Admitted.queued.st = "queued" /\ ~Admitted.queued.bound /\ ~Admitted.queued.inserted
    /\ Admitted.running.st = "running" /\ Admitted.running.bound
    /\ Admitted.running.token = 1 /\ ~Admitted.running.inserted
    /\ \A r \in Rows : /\ Claimed(r).st = "running" /\ Claimed(r).token = r.token + 1
                       /\ Claimed(r).bound = r.bound /\ ~Claimed(r).inserted
<1>1. \A r \in Rows : /\ Claimed(r).st = "running" /\ Claimed(r).token = r.token + 1
                      /\ Claimed(r).bound = r.bound /\ ~Claimed(r).inserted
      BY DEF Claimed, Rows
<1> DEFINE blank == [NoRow EXCEPT !.bound = TRUE]
<1>2. blank \in Rows /\ blank.token = 0 /\ blank.bound
      BY DEF NoRow, Rows, States, Active, Reasons, Errors
<1>3. Admitted.running = Claimed(blank)
      BY DEF Admitted
<1>4. Admitted.queued.st = "queued" /\ ~Admitted.queued.bound /\ ~Admitted.queued.inserted
      BY DEF Admitted, NoRow
<1> HIDE DEF blank
<1>5. /\ Admitted.running.st = "running" /\ Admitted.running.bound
      /\ Admitted.running.token = 1 /\ ~Admitted.running.inserted
      BY <1>1, <1>2, <1>3
<1> QED
    BY <1>1, <1>4, <1>5

\* Nothing exists of an id that was never handed to persistence.
LEMMA FreshId ==
    ASSUME QueueInv, NEW j \in Jobs, j \notin used
    PROVE  /\ row[j].st = "none" /\ j \notin open /\ j \notin found
           /\ \A w \in Workers : Live(w) => Job(w) # j
           /\ <<j, "queued">> \notin limbo /\ <<j, "running">> \notin limbo
    BY DEF QueueInv, Provenance, InDoubt

\* An admission that reaches the store with no worker keeps the bookkeeping,
\* whether its row is written, lost or left in doubt.
LEMMA AdmissionOnly ==
    ASSUME QueueInv, TypeOK', NEW j \in Jobs, j \notin used, used' = used \cup {j},
           UNCHANGED <<work, open, found>>,
           \A k \in Jobs : flight'[k] = "waiting" => k \notin used',
           NEW s \in {"queued", "running"}, s = "running" => j \in Whole,
           \/ row' = row /\ limbo' \in {limbo, limbo \cup {<<j, s>>}}
           \/ row' = [row EXCEPT ![j] = Admitted[s]] /\ limbo' = limbo
    PROVE  QueueInv'
<1>1. row \in [Jobs -> Rows] /\ \A k \in Jobs \ {j} : row'[k] = row[k]
      BY DEF QueueInv, TypeOK
<1>2. row'[j] = row[j] \/ (row'[j].st # "none" /\ (row'[j].bound => j \in Whole))
      BY <1>1, AdmittedRows
<1>3. \A k \in Jobs, q \in {"queued", "running"} :
         <<k, q>> \in limbo' => <<k, q>> \in limbo \/ (k = j /\ q = s /\ row' = row)
      OBVIOUS
<1>4. Shape'
      BY <1>1, <1>2, <1>3, FreshId DEF QueueInv, Shape, Live, Job
<1>5. Provenance'
      BY <1>1 DEF QueueInv, Provenance, Live, Job
<1>6. InDoubt'
      BY <1>1, <1>3, FreshId DEF QueueInv, InDoubt, Live, Job
<1>7. Tokens'
      BY <1>1, FreshId DEF QueueInv, Tokens, Shape, Live, Job
<1> QED
    BY <1>4, <1>5, <1>6, <1>7 DEF QueueInv

\* Worker w takes job j under the token the row now has.
TakesJob(w, j, phase) ==
    work' = [work EXCEPT ![w] = [Idle EXCEPT !.phase = phase, !.job = j,
                                             !.token = row'[j].token]]

\* What a worker is after it took a job.
LEMMA TakenJob ==
    ASSUME work \in [Workers -> WorkerStates], NEW w \in Workers, NEW j \in Jobs,
           NEW phase \in Phases, row'[j].token \in Nat, TakesJob(w, j, phase)
    PROVE  /\ work' \in [Workers -> WorkerStates]
           /\ work'[w].phase = phase /\ work'[w].job = j /\ work'[w].token = row'[j].token
           /\ work'[w].err = "none" /\ work'[w].done = FALSE
           /\ \A v \in Workers \ {w} : work'[v] = work[v]
<1> DEFINE taken == [Idle EXCEPT !.phase = phase, !.job = j, !.token = row'[j].token]
<1>1. /\ taken \in WorkerStates /\ taken.phase = phase /\ taken.job = j
      /\ taken.token = row'[j].token /\ taken.err = "none" /\ taken.done = FALSE
      BY DEF WorkerStates, Idle, Phases, Errors
<1>2. work' = [work EXCEPT ![w] = taken]
      BY DEF TakesJob
<1> HIDE DEF taken
<1> QED
    BY <1>1, <1>2

\* A job taken under a token newer than every worker's keeps the bookkeeping.
LEMMA TakingOnly ==
    ASSUME QueueInv, TypeOK', NEW w \in Workers, NEW j \in Jobs, NEW phase \in Phases,
           phase # "idle", TakesJob(w, j, phase),
           UNCHANGED <<limbo, open, found>>, used' \in {used, used \cup {j}}, j \in used',
           <<j, "queued">> \notin limbo, <<j, "running">> \notin limbo,
           \A k \in Jobs : flight'[k] = "waiting" => k \notin used',
           \A k \in Jobs \ {j} : RowKept(k),
           row'[j].st # "none", row'[j].token > 0, row'[j].bound => j \in Whole,
           \A v \in Workers : Live(v) /\ Job(v) = j => work[v].token < row'[j].token
    PROVE  QueueInv'
<1>1. /\ work \in [Workers -> WorkerStates] /\ row'[j].token \in Nat
      /\ \A k \in Jobs : row[k].token \in Nat /\ row'[k].token \in Nat
      /\ \A v \in Workers : work[v].token \in Nat
      BY DEF QueueInv, TypeOK, WorkerStates, Rows
<1>2. /\ work'[w].phase # "idle" /\ work'[w].job = j /\ work'[w].token = row'[j].token
      /\ \A v \in Workers \ {w} : work'[v] = work[v]
  <2>1. work \in [Workers -> WorkerStates] /\ row'[j].token \in Nat /\ phase \in Phases
        BY <1>1
  <2>2. TakesJob(w, j, phase)
        OBVIOUS
  <2>3. work'[w].phase = phase /\ work'[w].job = j /\ work'[w].token = row'[j].token
        BY ONLY <2>1, <2>2, w \in Workers, j \in Jobs, TakenJob
  <2>4. \A v \in Workers \ {w} : work'[v] = work[v]
        BY ONLY <2>1, <2>2, w \in Workers, j \in Jobs, TakenJob
  <2> QED
      BY <2>3, <2>4
<1>3. Shape'
      BY <1>2 DEF QueueInv, Shape, Live, Job, RowKept
<1>4. Provenance'
      BY <1>2 DEF QueueInv, Provenance, Live, Job, RowKept
<1>5. InDoubt'
  <2>1. \A k \in Jobs \ {j} : row[k].st = "none" => row'[k].st = "none"
        BY DEF RowKept
  <2>2. \A k \in Jobs, s \in {"queued", "running"} : <<k, s>> \in limbo' => k # j /\ <<k, s>> \in limbo
        OBVIOUS
  <2>3. \A v \in Workers : Live(v)' => Job(v)' = j \/ (Live(v) /\ Job(v)' = Job(v))
        BY <1>2 DEF Live, Job
  <2>4. used \subseteq used' /\ UNCHANGED <<open, found>> /\ InDoubt
        BY DEF QueueInv
  <2> QED
      BY ONLY <2>1, <2>2, <2>3, <2>4 DEF InDoubt
<1>6. Tokens'
  <2>1. ASSUME NEW v \in Workers, Live(v)'
        PROVE  /\ work'[v].token > 0
               /\ row'[Job(v)'].st # "none" => work'[v].token <= row'[Job(v)'].token
    <3>1. CASE v = w
          BY <1>1, <1>2, <3>1 DEF Job
    <3>2. CASE v # w /\ Job(v) = j
          BY <1>1, <1>2, <2>1, <3>2 DEF Job, Live, QueueInv, Tokens
    <3>3. CASE v # w /\ Job(v) # j
      <4>1. Live(v) /\ Job(v) \in Jobs \ {j} /\ Job(v)' = Job(v)
            BY <1>2, <2>1, <3>3 DEF Job, Live, QueueInv, Shape
      <4> QED
          BY <1>1, <1>2, <3>3, <4>1 DEF QueueInv, Tokens, RowKept
    <3> QED
        BY <3>1, <3>2, <3>3
  <2>2. ASSUME NEW v \in Workers, NEW u \in Workers, v # u, Live(v)', Live(u)',
               Job(v)' = Job(u)'
        PROVE  work'[v].token # work'[u].token
    <3>1. CASE v # w /\ u # w
          BY <1>2, <2>2, <3>1 DEF QueueInv, Tokens, Job, Live
    <3>2. CASE v = w
          BY <1>1, <1>2, <2>2, <3>2 DEF Job, Live
    <3>3. CASE u = w
          BY <1>1, <1>2, <2>2, <3>3 DEF Job, Live
    <3> QED
        BY <3>1, <3>2, <3>3
  <2> QED
      BY <2>1, <2>2 DEF Tokens
<1> QED
    BY <1>3, <1>4, <1>5, <1>6 DEF QueueInv

\* Every step of the queue, its callers, its workers and the process keeps the
\* bookkeeping.
LEMMA QueueStep == QueueInv /\ [Next]_vars => QueueInv'
<1> SUFFICES ASSUME QueueInv, [Next]_vars PROVE QueueInv'
    OBVIOUS
<1>1. TypeOK /\ row \in [Jobs -> Rows] /\ work \in [Workers -> WorkerStates]
      BY DEF QueueInv, TypeOK, WorkerStates
<1>2. \A k \in Jobs : flight[k] = "waiting" => k \notin used
      BY DEF QueueInv, Provenance
<1>3. UNCHANGED row => \A k \in Jobs : RowKept(k)
  <2>1. \A k \in Jobs : row[k].token \in Nat /\ (row[k].st = "none" => row[k] = NoRow)
        BY <1>1 DEF Rows, QueueInv, Shape
  <2> QED
      BY <2>1 DEF RowKept
<1>4. ASSUME NEW j \in Jobs, NEW r \in Rows, row' = [row EXCEPT ![j] = r],
             row[j].st # "none", r.token = row[j].token \/ r = NoRow,
             r.st # "none" \/ r = NoRow, r.bound => row[j].bound
      PROVE  row' \in [Jobs -> Rows] /\ \A k \in Jobs : RowKept(k)
  <2>1. row' \in [Jobs -> Rows] /\ row'[j] = r /\ \A k \in Jobs \ {j} : row'[k] = row[k]
        BY <1>1, <1>4
  <2>2. RowKept(j)
        BY <1>1, <1>4, <2>1 DEF RowKept, NoRow, Rows
  <2>3. ASSUME NEW k \in Jobs \ {j} PROVE RowKept(k)
    <3>1. row[k].token \in Nat /\ (row[k].st = "none" => row[k] = NoRow)
          BY <1>1 DEF Rows, QueueInv, Shape
    <3> QED
        BY <2>1, <3>1 DEF RowKept
  <2> QED
      BY <2>1, <2>2, <2>3
<1>10. ASSUME NEW w \in Workers, Worker(w) PROVE QueueInv'
       BY <1>10, WorkerKeepsQueue
<1>11. ASSUME NEW j \in Jobs, Enqueue(j) PROVE QueueInv'
       BY <1>1, <1>2, <1>3, <1>11, RowsOnly DEF Enqueue, TypeOK
<1>12. ASSUME NEW j \in Jobs, AdmissionExpires(j) PROVE QueueInv'
       BY <1>1, <1>2, <1>3, <1>12, RowsOnly DEF AdmissionExpires, TypeOK
<1>13. ASSUME NEW j \in Jobs, GetStatus(j) PROVE QueueInv'
       BY <1>1, <1>2, <1>3, <1>13, RowsOnly, ObservedFlights DEF GetStatus, TypeOK
<1>14. ASSUME NEW j \in Jobs, LeaseExpires(j) PROVE QueueInv'
       BY <1>1, <1>2, <1>3, <1>14, RowsOnly, WriteTypes DEF LeaseExpires, TypeOK
<1>15. CASE SweepFind
  <2>1. TypeOK'
        BY <1>1, <1>15, ObservedFlights DEF SweepFind, TypeOK, adminRest
  <2>2. \A k \in found' : row[k].st # "none"
        BY <1>15 DEF SweepFind, AutoRecoverable
  <2> QED
      BY <1>1, <1>2, <1>3, <1>15, <2>1, <2>2, RowsOnly, ObservedFlights
      DEF SweepFind, adminRest
<1>16. ASSUME NEW j \in Jobs, Cancel(j) PROVE QueueInv'
  <2> DEFINE r == [row[j] EXCEPT !.st = "failed", !.why = "cancelled"]
  <2>1. row[j] \in Rows /\ r \in Rows /\ r.st # "none" /\ r.token = row[j].token
        /\ r.bound = row[j].bound
        BY <1>1 DEF Rows, States, Active, Reasons
  <2>2. row' = [row EXCEPT ![j] = r] /\ row[j].st # "none"
        BY <1>16 DEF Cancel
  <2> HIDE DEF r
  <2>3. row' \in [Jobs -> Rows] /\ \A k \in Jobs : RowKept(k)
        BY <1>4, <2>1, <2>2
  <2> QED
      BY <1>1, <1>2, <1>16, <2>3, RowsOnly, ObservedFlights DEF Cancel, TypeOK, adminRest
<1>17. ASSUME NEW j \in Jobs, Recover(j) PROVE QueueInv'
  <2> DEFINE r == [NoRow EXCEPT !.st = "queued", !.bound = row[j].bound,
                                !.token = row[j].token]
  <2>1. row[j] \in Rows /\ r \in Rows /\ r.st # "none" /\ r.token = row[j].token
        /\ r.bound = row[j].bound
        BY <1>1 DEF Rows, NoRow, States, Active, Reasons, Errors
  <2>2. row' = [row EXCEPT ![j] = r] /\ row[j].st # "none"
        BY <1>17 DEF Recover
  <2> HIDE DEF r
  <2>3. row' \in [Jobs -> Rows] /\ \A k \in Jobs : RowKept(k)
        BY <1>4, <2>1, <2>2
  <2> QED
      BY <1>1, <1>2, <1>17, <2>3, BoundAssumption, RowsOnly, ObservedFlights
      DEF Recover, TypeOK, adminRest
<1>18. ASSUME NEW j \in Jobs, Clear(j) \/ Retention(j) PROVE QueueInv'
  <2>1. row' = [row EXCEPT ![j] = NoRow] /\ row[j].st # "none"
        BY <1>18 DEF Clear, Retention, Retired
  <2>2. row' \in [Jobs -> Rows] /\ \A k \in Jobs : RowKept(k)
        BY <1>4, <2>1, RowTypes DEF NoRow
  <2> QED
      BY <1>1, <1>2, <1>18, <2>2, RowsOnly, ObservedFlights
      DEF Clear, Retention, TypeOK, adminRest
<1>19. ASSUME NEW j \in Jobs, NEW ack \in BOOLEAN, SweepDecide(j, ack) PROVE QueueInv'
  <2>1. /\ row[j] \in Rows /\ Swept(j) \in Rows /\ Swept(j).token = row[j].token
        /\ Swept(j).bound = row[j].bound
        /\ Swept(j).st # "none" \/ Swept(j) = row[j]
        BY <1>1, SweptRows
  <2>2. TypeOK'
        BY <1>1, <1>19, <2>1, WriteTypes, ObservedFlights DEF SweepDecide, TypeOK, adminRest
  <2>3. row' = row \/ row' = [row EXCEPT ![j] = Swept(j)]
        BY <1>19 DEF SweepDecide, Save
  <2>4. row[j].st = "none" => Swept(j) = row[j]
        BY DEF Swept, AutoRecoverable
  <2>5. \A k \in Jobs : RowKept(k)
    <3>1. CASE row[j].st = "none"
          BY <1>1, <1>3, <2>3, <2>4, <3>1
    <3>2. CASE row[j].st # "none"
          BY <1>3, <1>4, <2>1, <2>3, <3>2
    <3> QED
        BY <3>1, <3>2
  <2> QED
      BY <1>2, <1>19, <2>2, <2>5, RowsOnly, ObservedFlights, <1>1 DEF SweepDecide, adminRest
<1>20. \A k \in Jobs : /\ Reconciled[k].st = "none" => Reconciled[k] = NoRow
                       /\ Reconciled[k].st # "none" => row[k].st # "none"
                       /\ Reconciled[k].token = row[k].token
                       /\ Reconciled[k].bound = row[k].bound
                       /\ Reconciled[k] \in Rows /\ row[k].token \in Nat
  <2>1. \A k \in Jobs : row[k].st = "none" => row[k] = NoRow
        BY DEF QueueInv, Shape
  <2>2. \A k \in Jobs : row[k].token \in Nat
        BY <1>1 DEF Rows
  <2> QED
      BY <1>1, <2>1, <2>2, ReconciledRows, WriteTypes
<1>21. Reconciled \in [Jobs -> Rows] /\ StillExpired(Reconciled) \subseteq Jobs
       BY <1>1, WriteTypes DEF StillExpired, TypeOK
<1>22. /\ SeenActive \in [Jobs -> {"none", "waiting", "persist"}]
       /\ \A k \in Jobs : SeenActive[k] = "waiting" => k \notin used
       BY <1>1, <1>2, ObservedFlights DEF SeenActive
<1>23. CASE RecoverExpired
  <2>1. TypeOK'
        BY <1>1, <1>21, <1>22, <1>23 DEF RecoverExpired, TypeOK
  <2>2. \A k \in Jobs : RowKept(k)
        BY <1>20, <1>23 DEF RecoverExpired, RowKept
  <2> QED
      BY <1>22, <1>23, <2>1, <2>2, RowsOnly DEF RecoverExpired
<1>24. ASSUME NEW j \in Jobs, EnqueueHeld(j) PROVE QueueInv'
  <2>1. j \notin used /\ flight'[j] # "waiting" /\ \A k \in Jobs \ {j} : flight'[k] = flight[k]
        BY <1>1, <1>2, <1>24 DEF EnqueueHeld, TypeOK
  <2>2. TypeOK'
    <3>1. Admitted.queued \in Rows
          BY RowTypes
    <3> HIDE DEF Admitted
    <3>2. row' \in [Jobs -> Rows] /\ limbo' \subseteq Jobs \X {"queued", "running"}
          BY <1>1, <1>24, <3>1 DEF EnqueueHeld, TypeOK
    <3>3. faults' \in 0..MaxFaults
          BY <1>1, <1>24, WriteTypes DEF EnqueueHeld, TypeOK
    <3> QED
        BY <1>1, <1>24, <3>2, <3>3 DEF EnqueueHeld, TypeOK
  <2>3. CASE ActiveConflict(j)
        BY <1>1, <1>2, <1>3, <1>24, <2>1, <2>2, <2>3, RowsOnly DEF EnqueueHeld
  <2>4. CASE ~ActiveConflict(j)
    <3>1. /\ used' = used \cup {j} /\ UNCHANGED <<work, open, found>>
          /\ \/ row' = row /\ limbo' \in {limbo, limbo \cup {<<j, "queued">>}}
             \/ row' = [row EXCEPT ![j] = Admitted["queued"]] /\ limbo' = limbo
          BY <1>24, <2>4 DEF EnqueueHeld
    <3>2. \A k \in Jobs : flight'[k] = "waiting" => k \notin used'
          BY <1>2, <2>1, <3>1
    <3> QED
        BY <2>1, <2>2, <3>1, <3>2, AdmissionOnly
  <2> QED
      BY <2>3, <2>4
<1>25. ASSUME NEW j \in Jobs, LateLand(j) PROVE QueueInv'
  <2>1. PICK s \in {"queued", "running"} :
           /\ <<j, s>> \in limbo /\ limbo' = limbo \ {<<j, s>>}
           /\ row' = [row EXCEPT ![j] = Admitted[s]]
    <3>1. PICK write \in limbo : /\ write[1] = j /\ limbo' = limbo \ {write}
                                /\ row' = [row EXCEPT ![j] = Admitted[write[2]]]
          BY <1>25 DEF LateLand
    <3>2. write = <<j, write[2]>> /\ write[2] \in {"queued", "running"}
          BY <1>1, <3>1 DEF TypeOK
    <3> QED
        BY <3>1, <3>2
  <2>2. /\ row' \in [Jobs -> Rows] /\ \A k \in Jobs \ {j} : row'[k] = row[k]
        /\ row'[j].st # "none" /\ (row'[j].bound => j \in Whole)
        BY <1>1, <2>1, RowTypes, AdmittedRows DEF QueueInv, Shape
  <2>3. j \in used /\ row[j].st = "none" /\ \A w \in Workers : Live(w) => Job(w) # j
        BY <2>1 DEF QueueInv, InDoubt
  <2>4. <<j, "queued">> \notin limbo' /\ <<j, "running">> \notin limbo'
        BY <2>1 DEF QueueInv, InDoubt
  <2>5. TypeOK'
        BY <1>1, <1>25, <2>1, <2>2 DEF LateLand, TypeOK
  <2>6. UNCHANGED <<flight, used, found, work, open>>
        BY <1>25 DEF LateLand
  <2>7. Shape'
        BY <2>1, <2>2, <2>3, <2>4, <2>6 DEF QueueInv, Shape, Live, Job
  <2>8. Provenance'
        BY <2>2, <2>3, <2>6 DEF QueueInv, Provenance, Live, Job
  <2>9. InDoubt'
        BY <2>1, <2>2, <2>4, <2>6 DEF QueueInv, InDoubt, Live, Job
  <2>10. Tokens'
        BY <2>2, <2>3, <2>6 DEF QueueInv, Tokens, Shape, Live, Job
  <2> QED
      BY <2>5, <2>7, <2>8, <2>9, <2>10 DEF QueueInv
<1>26. CASE Crash
  <2>1. PICK S \in SUBSET limbo :
           row' = [k \in Jobs |-> IF <<k, "queued">> \in S THEN Admitted.queued
                                 ELSE IF <<k, "running">> \in S THEN Admitted.running
                                 ELSE row[k]]
        BY <1>26 DEF Crash
  <2>2. \A k \in Jobs : \/ row'[k] = row[k]
                        \/ /\ <<k, "queued">> \in limbo \/ <<k, "running">> \in limbo
                           /\ row'[k].st # "none" /\ (row'[k].bound => k \in Whole)
        BY <2>1, AdmittedRows DEF QueueInv, Shape
  <2>3. row' \in [Jobs -> Rows]
        BY <1>1, <2>1, RowTypes
  <2>4. Idle \in WorkerStates /\ Idle.phase = "idle"
        BY DEF Idle, WorkerStates, Phases, Errors
  <2>5. TypeOK'
        BY <1>1, <1>26, <2>3, <2>4, WriteTypes DEF Crash, TypeOK, WorkerStates
  <2>6. \A w \in Workers : ~Live(w)'
        BY <1>26, <2>4 DEF Crash, Live
  <2>7. limbo' = {} /\ found' = {} /\ used' = used /\ open' = open
        /\ \A k \in Jobs : flight'[k] = "none"
        BY <1>26 DEF Crash
  <2>8. Shape'
        BY <2>2, <2>6, <2>7 DEF QueueInv, Shape
  <2>9. Provenance'
        BY <2>2, <2>6, <2>7 DEF QueueInv, Provenance, InDoubt
  <2>10. InDoubt' /\ Tokens'
        BY <2>6, <2>7 DEF InDoubt, Tokens
  <2> QED
      BY <2>5, <2>8, <2>9, <2>10 DEF QueueInv
<1>27. ASSUME NEW j \in Jobs, NEW w \in Workers, EnqueueAndClaim(w, j) PROVE QueueInv'
  <2>1. /\ j \in Whole /\ j \notin used /\ used' = used \cup {j} /\ flight[j] = "none"
        /\ UNCHANGED <<expired, flight, found, committed, open, recovers>>
        BY <1>27 DEF EnqueueAndClaim
  <2>2. \A k \in Jobs : flight'[k] = "waiting" => k \notin used'
        BY <1>2, <2>1
  <2>3. Admitted.running \in Rows /\ Admitted.running.token = 1
        BY RowTypes, AdmittedRows
  <2>4. CASE /\ row' = [row EXCEPT ![j] = Admitted.running]
             /\ TakesJob(w, j, "start") /\ UNCHANGED <<limbo, faults>>
    <3>1. /\ row' \in [Jobs -> Rows] /\ row'[j] = Admitted.running
          /\ \A k \in Jobs \ {j} : row'[k] = row[k]
          BY <1>1, <2>3, <2>4
    <3>2. row'[j].token = 1 /\ row'[j].st # "none"
          BY <3>1, AdmittedRows
    <3>a. "start" \in Phases /\ row'[j].token \in Nat /\ row'[j].token > 0
          BY <3>2 DEF Phases
    <3>3. work' \in [Workers -> WorkerStates]
          BY <1>1, <2>4, <3>a, TakenJob
    <3>4. TypeOK'
          BY <1>1, <2>1, <2>4, <3>1, <3>3 DEF TypeOK, WorkerStates
    <3>5. \A k \in Jobs \ {j} : RowKept(k)
      <4>1. \A k \in Jobs : row[k].token \in Nat /\ (row[k].st = "none" => row[k] = NoRow)
            BY <1>1 DEF Rows, QueueInv, Shape
      <4> QED
          BY <3>1, <4>1 DEF RowKept
    <3>6. /\ <<j, "queued">> \notin limbo /\ <<j, "running">> \notin limbo
          /\ \A v \in Workers : Live(v) /\ Job(v) = j => work[v].token < row'[j].token
          BY <2>1, FreshId
    <3> QED
        BY <2>1, <2>2, <2>4, <3>a, <3>2, <3>4, <3>5, <3>6, TakingOnly
  <2>5. CASE /\ UNCHANGED work /\ Fault
             /\ \/ row' = row /\ limbo' \in {limbo, limbo \cup {<<j, "running">>}}
                \/ row' = [row EXCEPT ![j] = Admitted["running"]] /\ limbo' = limbo
    <3>1. TypeOK'
          BY <1>1, <2>1, <2>3, <2>5, WriteTypes DEF TypeOK
    <3> QED
        BY <2>1, <2>2, <2>5, <3>1, AdmissionOnly
  <2>6. row' = [row EXCEPT ![j] = Admitted.running] => row'[j] = Admitted.running
        BY <1>1
  <2> QED
      BY <1>27, <2>4, <2>5, <2>6 DEF EnqueueAndClaim, TakesJob
<1>28. ASSUME NEW j \in Jobs, NEW w \in Workers, NEW ack \in BOOLEAN, ClaimNext(w, j, ack)
       PROVE  QueueInv'
  <2> DEFINE claim == [Reconciled EXCEPT ![j] = Claimed(Reconciled[j])]
  <2>1. /\ UNCHANGED <<limbo, used, found, committed, open, recovers>>
        /\ expired' = StillExpired(Reconciled) /\ flight' = SeenActive
        /\ Reconciled[j].st \in {"queued", "retrying"}
        BY <1>28 DEF ClaimNext
  <2>2. /\ claim \in [Jobs -> Rows] /\ claim[j] = Claimed(Reconciled[j])
        /\ claim[j].st = "running" /\ claim[j].token = row[j].token + 1
        /\ claim[j].bound = row[j].bound /\ row[j].token \in Nat /\ row[j].st # "none"
        /\ \A k \in Jobs \ {j} : claim[k] = Reconciled[k]
    <3>1. Reconciled[j] \in Rows /\ Claimed(Reconciled[j]) \in Rows
          BY <1>20, RowTypes
    <3>2. /\ claim \in [Jobs -> Rows] /\ claim[j] = Claimed(Reconciled[j])
          /\ \A k \in Jobs \ {j} : claim[k] = Reconciled[k]
          BY <1>21, <3>1
    <3>3. /\ Reconciled[j].token = row[j].token /\ Reconciled[j].bound = row[j].bound
          /\ row[j].token \in Nat /\ row[j].st # "none"
          BY <1>20, <2>1
    <3>4. /\ Claimed(Reconciled[j]).st = "running"
          /\ Claimed(Reconciled[j]).token = Reconciled[j].token + 1
          /\ Claimed(Reconciled[j]).bound = Reconciled[j].bound
          BY <3>1, AdmittedRows
    <3> HIDE DEF claim
    <3> QED
        BY <3>2, <3>3, <3>4
  <2> HIDE DEF claim
  <2>3. row' \in {Reconciled, claim} => \A k \in Jobs : RowKept(k)
    <3>1. row' = Reconciled => \A k \in Jobs : RowKept(k)
          BY <1>20 DEF RowKept
    <3>2. ASSUME row' = claim, NEW k \in Jobs \ {j} PROVE RowKept(k)
          BY <1>20, <2>2, <3>2 DEF RowKept
    <3>3. row' = claim => RowKept(j)
          BY <2>2 DEF RowKept
    <3> QED
        BY <3>1, <3>2, <3>3
  <2>4. CASE row' = claim /\ TakesJob(w, j, "prepare") /\ UNCHANGED faults
    <3>1. "prepare" \in Phases /\ row'[j].token \in Nat /\ row'[j].token > 0
          BY <2>2, <2>4 DEF Phases
    <3>2. work' \in [Workers -> WorkerStates]
          BY <1>1, <2>4, <3>1, TakenJob
    <3>3. TypeOK'
          BY <1>1, <1>21, <1>22, <2>1, <2>2, <2>4, <3>2 DEF TypeOK, WorkerStates
    <3>4. \A v \in Workers : Live(v) /\ Job(v) = j => work[v].token < row'[j].token
      <4>1. \A v \in Workers : work[v].token \in Nat
            BY <1>1 DEF WorkerStates
      <4> QED
          BY <2>2, <2>4, <4>1 DEF QueueInv, Tokens
    <3>5. j \in used /\ <<j, "queued">> \notin limbo /\ <<j, "running">> \notin limbo
          BY <2>2 DEF QueueInv, Provenance, InDoubt
    <3>6. row'[j].bound => j \in Whole
          BY <2>2, <2>4 DEF QueueInv, Shape
    <3>7. row'[j].st # "none"
          BY <2>2, <2>4
    <3>8. \A k \in Jobs : RowKept(k) /\ (flight'[k] = "waiting" => k \notin used')
          BY <1>22, <2>1, <2>3, <2>4
    <3> QED
        BY <2>1, <2>4, <3>1, <3>3, <3>4, <3>5, <3>6, <3>7, <3>8, TakingOnly
  <2>5. CASE row' \in {Reconciled, claim} /\ Fault /\ UNCHANGED work
    <3>1. TypeOK'
          BY <1>1, <1>21, <1>22, <2>1, <2>2, <2>5, WriteTypes DEF TypeOK
    <3> QED
        BY <1>22, <2>1, <2>3, <2>5, <3>1, RowsOnly
  <2> QED
      BY <1>28, <2>4, <2>5 DEF ClaimNext, TakesJob, claim
<1>29. CASE UNCHANGED vars
  <2>1. TypeOK'
        BY <1>1, <1>29 DEF vars, queueVars, TypeOK
  <2> QED
      BY <1>2, <1>3, <1>29, <2>1, RowsOnly DEF vars, queueVars
<1> QED
    BY <1>10, <1>11, <1>12, <1>13, <1>14, <1>15, <1>16, <1>17, <1>18, <1>19, <1>23,
       <1>24, <1>25, <1>26, <1>27, <1>28, <1>29
    DEF Next, Claim, Sweep, Admission, Operator

\* The bookkeeping holds in every reachable state; with it the types do.
LEMMA QueueInvariant == Spec => []QueueInv
<1>1. Init => QueueInv
  <2> SUFFICES ASSUME Init PROVE QueueInv
      OBVIOUS
  <2>1. TypeOK
        BY RowTypes, BoundAssumption DEF Init, TypeOK, Idle, Phases, Errors
  <2>2. (\A w \in Workers : ~Live(w)) /\ (\A j \in Jobs : row[j] = NoRow)
        BY DEF Init, Live, Idle
  <2> QED
      BY <2>1, <2>2 DEF Init, QueueInv, Shape, Provenance, InDoubt, Tokens, NoRow
<1> QED
    BY <1>1, QueueStep, PTL DEF Spec

\* Every variable of the queue and its workers keeps its type.
THEOREM PromoteTypes == Spec => []TypeOK
<1>1. QueueInv => TypeOK
      BY DEF QueueInv
<1> QED
    BY <1>1, QueueInvariant, PTL

-----------------------------------------------------------------------------
(***************************************************************************)
(* One owner per assertion.                                                *)
(***************************************************************************)

\* A step that makes no job an owner, starts no admission and forgets none in
\* doubt keeps the lanes guarded.
LEMMA NoNewOwner ==
    ASSUME OwnerInv, limbo' \subseteq limbo,
           \A k \in Jobs : /\ Owns(row'[k]) => Owns(row[k])
                           /\ flight'[k] # "none" => flight'[k] = flight[k]
                           /\ <<k, "queued">> \in limbo' => flight'[k] = flight[k],
           \A k \in found' : flight'[k] = "none"
    PROVE  OwnerInv'
    BY DEF OwnerInv, LaneGuard, OneOwnerPerAssertion, SameLane

\* A job that finds no conflict may become an owner or an admission in doubt.
LEMMA OneNewOwner ==
    ASSUME OwnerInv, NEW j \in Jobs, ~ActiveConflict(j),
           \A k \in Jobs \ {j} : Owns(row'[k]) => Owns(row[k]),
           \A k \in Jobs \ {j} : flight'[k] # "none" => flight'[k] = flight[k],
           \A k \in Jobs : <<k, "queued">> \in limbo' => flight'[k] = "persist",
           \A k \in Jobs : <<k, "running">> \notin limbo',
           \A k \in found' : flight'[k] = "none"
    PROVE  OwnerInv'
<1>1. \A k \in SameLane(j) : flight[k] = "none" /\ ~Owns(row[k])
      BY DEF ActiveConflict, PendingConflict, DurableConflict
<1>2. \A k \in SameLane(j) : flight'[k] = "none" /\ ~Owns(row'[k])
      BY <1>1 DEF SameLane
<1>3. LaneGuard'
  <2>1. ASSUME NEW h \in Jobs, NEW k \in Jobs, h # k, LaneOf[h] = LaneOf[k]
        PROVE  ~(flight'[h] # "none" /\ flight'[k] # "none")
        BY <1>2, <2>1 DEF OwnerInv, LaneGuard, SameLane
  <2>2. ASSUME NEW h \in Jobs, flight'[h] = "persist", NEW k \in SameLane(h)
        PROVE  ~Owns(row'[k])
        BY <1>2, <2>2 DEF OwnerInv, LaneGuard, SameLane
  <2> QED
      BY <2>1, <2>2 DEF LaneGuard, SameLane
<1>4. OneOwnerPerAssertion'
      BY <1>2 DEF OwnerInv, OneOwnerPerAssertion, SameLane
<1> QED
    BY <1>3, <1>4 DEF OwnerInv

\* A read that settles the admissions of rows that are there, or of candidates
\* of a sweep, leaves the doubtful ones and the sweep's alone.
LEMMA ReadingGuards ==
    ASSUME QueueInv, OwnerInv, NEW S, \A k \in S \cap Jobs : row[k].st # "none" \/ k \in found,
           flight' = Observed(S), UNCHANGED limbo
    PROVE  /\ \A k \in Jobs : /\ flight'[k] # "none" => flight'[k] = flight[k]
                              /\ <<k, "queued">> \in limbo' => flight'[k] = flight[k]
           /\ \A k \in found : flight'[k] = "none"
           /\ \A k \in S \cap Jobs : flight'[k] = "none"
<1>1. TypeOK /\ found \subseteq Jobs
      BY DEF QueueInv, TypeOK
<1>2. \A k \in Jobs : flight'[k] # "none" => flight'[k] = flight[k]
      BY <1>1, ObservedFlights
<1>3. \A k \in Jobs : <<k, "queued">> \in limbo => k \notin S
      BY DEF QueueInv, InDoubt
<1>4. \A k \in Jobs : <<k, "queued">> \in limbo' => flight'[k] = flight[k]
      BY <1>1, <1>3, ObservedFlights
<1>5. \A k \in found : flight'[k] = "none"
      BY <1>1, <1>2 DEF OwnerInv, LaneGuard
<1>6. \A k \in S \cap Jobs : flight'[k] = "none"
  <2> SUFFICES ASSUME NEW k \in S \cap Jobs PROVE flight'[k] = "none"
      OBVIOUS
  <2>1. flight[k] \in {"none", "persist"}
        BY <1>1 DEF QueueInv, Provenance, TypeOK, OwnerInv, LaneGuard
  <2> QED
      BY <2>1 DEF Observed
<1> QED
    BY <1>2, <1>4, <1>5, <1>6

\* Every step keeps the lanes guarded, when no inline admission lands late.
LEMMA OwnerStep ==
    ASSUME LateInline = FALSE, QueueInv, OwnerInv, [Next]_vars
    PROVE  OwnerInv'
<1>1. TypeOK /\ row \in [Jobs -> Rows] /\ found \subseteq Jobs
      /\ flight \in [Jobs -> {"none", "waiting", "persist"}]
      BY DEF QueueInv, TypeOK
<1>2. ~Owns(NoRow) /\ \A r : r.st \in Active => Owns(r)
      BY DEF Owns, Obligated, NoRow, Active
<1>3. \A k \in found : k \in used /\ flight[k] = "none"
      BY DEF QueueInv, Provenance, OwnerInv, LaneGuard
<1>4. /\ \A k \in Jobs : <<k, "queued">> \in limbo => flight[k] = "persist"
      /\ \A k \in Jobs : <<k, "running">> \notin limbo
      BY DEF OwnerInv, LaneGuard
<1>10. ASSUME NEW w \in Workers, Worker(w) PROVE OwnerInv'
  <2>1. WorkerFrame(w)
        BY <1>10, WorkerStep DEF QueueInv
  <2>2. \A k \in Jobs : Owns(row'[k]) => Owns(row[k])
        BY <1>2, <2>1 DEF WorkerFrame, RowMoved, Held, Active
  <2>3. UNCHANGED <<flight, limbo, found>>
        BY <2>1 DEF WorkerFrame, workerRest
  <2> QED
      BY <1>3, <2>2, <2>3, NoNewOwner
<1>11. ASSUME NEW j \in Jobs, Enqueue(j) PROVE OwnerInv'
  <2>1. /\ UNCHANGED <<row, limbo, found>> /\ flight' = [flight EXCEPT ![j] = "waiting"]
        /\ j \notin found /\ flight[j] = "none" /\ \A k \in SameLane(j) : flight[k] = "none"
        BY <1>3, <1>11 DEF Enqueue, PendingConflict
  <2> QED
      BY <1>1, <2>1 DEF OwnerInv, LaneGuard, OneOwnerPerAssertion, SameLane
<1>12. ASSUME NEW j \in Jobs, AdmissionExpires(j) PROVE OwnerInv'
       BY <1>1, <1>3, <1>4, <1>12, NoNewOwner DEF AdmissionExpires
<1>13. ASSUME NEW j \in Jobs, GetStatus(j) PROVE OwnerInv'
  <2>1. flight' = Observed({j}) /\ UNCHANGED <<limbo, row, found>> /\ row[j].st # "none"
        BY <1>13 DEF GetStatus
  <2> QED
      BY <2>1, ReadingGuards, NoNewOwner
<1>14. ASSUME NEW j \in Jobs, LeaseExpires(j) PROVE OwnerInv'
       BY <1>3, <1>14, NoNewOwner DEF LeaseExpires
<1>15. CASE SweepFind
  <2>1. flight' = Observed(found') /\ UNCHANGED <<limbo, row>> /\ found' \subseteq Jobs
        /\ \A k \in found' : row[k].st # "none"
        BY <1>15 DEF SweepFind, adminRest, AutoRecoverable
  <2> QED
      BY <2>1, ReadingGuards, NoNewOwner
<1>16. ASSUME NEW j \in Jobs, Cancel(j) \/ Clear(j) PROVE OwnerInv'
  <2>1. flight' = Observed({j}) /\ UNCHANGED <<limbo, found>> /\ row[j].st # "none"
        BY <1>16 DEF Cancel, Clear, adminRest
  <2>2. /\ \A k \in Jobs \ {j} : row'[k] = row[k]
        /\ row'[j] = NoRow \/ row[j].st = "queued"
        BY <1>1, <1>16 DEF Cancel, Clear
  <2>3. \A k \in Jobs : Owns(row'[k]) => Owns(row[k])
        BY <1>2, <2>2 DEF Active
  <2> QED
      BY <2>1, <2>3, ReadingGuards, NoNewOwner
<1>17. ASSUME NEW j \in Jobs, Retention(j) PROVE OwnerInv'
  <2>1. UNCHANGED <<flight, limbo, found>> /\ row' = [row EXCEPT ![j] = NoRow]
        BY <1>17 DEF Retention, adminRest
  <2>2. \A k \in Jobs : Owns(row'[k]) => Owns(row[k])
        BY <1>1, <1>2, <2>1
  <2> QED
      BY <1>3, <2>1, <2>2, NoNewOwner
<1>18. CASE UNCHANGED vars
       BY <1>3, <1>18, NoNewOwner DEF vars, queueVars
<1>19. \A k \in Jobs : /\ Owns(Reconciled[k]) => Owns(row[k])
                       /\ Reconciled[k].st \in {"queued", "retrying"} => Owns(row[k])
  <2> SUFFICES ASSUME NEW k \in Jobs
               PROVE  /\ Owns(Reconciled[k]) => Owns(row[k])
                      /\ Reconciled[k].st \in {"queued", "retrying"} => Owns(row[k])
      OBVIOUS
  <2>1. CASE row[k].st = "running"
        BY <1>2, <2>1 DEF Active
  <2>2. CASE row[k].st # "running"
        BY <1>1, <1>2, <2>2, ReconciledRows DEF Active
  <2> QED
      BY <2>1, <2>2
<1>20. ASSUME flight' = SeenActive, UNCHANGED limbo
       PROVE  /\ \A k \in Jobs : /\ flight'[k] # "none" => flight'[k] = flight[k]
                                 /\ <<k, "queued">> \in limbo' => flight'[k] = flight[k]
              /\ \A k \in found : flight'[k] = "none"
  <2>1. \A k \in {j \in Jobs : row[j].st \in Active} : row[k].st # "none"
        BY DEF Active
  <2> QED
      BY <1>20, <2>1, ReadingGuards DEF SeenActive
<1>21. CASE RecoverExpired
  <2>1. flight' = SeenActive /\ UNCHANGED <<limbo, found>> /\ row' = Reconciled
        BY <1>21 DEF RecoverExpired
  <2> QED
      BY <1>19, <1>20, <2>1, NoNewOwner
<1>22. ASSUME NEW w \in Workers, NEW j \in Jobs, NEW ack \in BOOLEAN, ClaimNext(w, j, ack)
       PROVE  OwnerInv'
  <2>1. /\ flight' = SeenActive /\ UNCHANGED <<limbo, found>>
        /\ Reconciled[j].st \in {"queued", "retrying"}
        /\ row' \in {Reconciled, [Reconciled EXCEPT ![j] = Claimed(Reconciled[j])]}
        BY <1>22 DEF ClaimNext
  <2>2. \A k \in Jobs : Owns(row'[k]) => Owns(row[k])
        BY <1>1, <1>19, <2>1, WriteTypes
  <2> QED
      BY <1>20, <2>1, <2>2, NoNewOwner
<1>23. ASSUME NEW j \in Jobs, EnqueueHeld(j) PROVE OwnerInv'
  <2>1. /\ flight[j] = "waiting" /\ UNCHANGED found /\ j \notin found
        /\ \A k \in Jobs \ {j} : flight'[k] = flight[k]
        BY <1>1, <1>3, <1>23 DEF EnqueueHeld
  <2>2. CASE ActiveConflict(j)
        BY <1>1, <1>3, <1>4, <1>23, <2>1, <2>2, NoNewOwner DEF EnqueueHeld
  <2>3. CASE ~ActiveConflict(j)
    <3>1. \A k \in Jobs \ {j} : row'[k] = row[k]
          BY <1>1, <1>23, <2>3 DEF EnqueueHeld
    <3>2. /\ limbo' = limbo \/ (limbo' = limbo \cup {<<j, "queued">>} /\ flight'[j] = "persist")
          BY <1>1, <1>23, <2>3 DEF EnqueueHeld
    <3>3. /\ \A k \in Jobs : <<k, "queued">> \in limbo' => flight'[k] = "persist"
          /\ \A k \in Jobs : <<k, "running">> \notin limbo'
          BY <1>4, <2>1, <3>2
    <3>4. \A k \in found' : flight'[k] = "none"
          BY <1>1, <1>3, <2>1
    <3> QED
        BY <2>1, <2>3, <3>1, <3>3, <3>4, OneNewOwner
  <2> QED
      BY <2>2, <2>3
<1>24. ASSUME NEW w \in Workers, NEW j \in Jobs, EnqueueAndClaim(w, j) PROVE OwnerInv'
  <2>1. UNCHANGED <<flight, limbo, found>> /\ ~ActiveConflict(j)
        BY <1>24 DEF EnqueueAndClaim
  <2>2. \A k \in Jobs \ {j} : row'[k] = row[k]
        BY <1>1, <1>24 DEF EnqueueAndClaim
  <2> QED
      BY <1>3, <1>4, <2>1, <2>2, OneNewOwner
<1>25. ASSUME NEW j \in Jobs, LateLand(j) PROVE OwnerInv'
  <2>1. PICK write \in limbo : /\ write[1] = j /\ limbo' = limbo \ {write}
                              /\ row' = [row EXCEPT ![j] = Admitted[write[2]]]
        BY <1>25 DEF LateLand
  <2>2. write = <<j, "queued">>
        BY <1>1, <1>4, <2>1 DEF TypeOK
  <2>3. flight[j] = "persist" /\ ~ActiveConflict(j)
        BY <1>4, <2>1, <2>2 DEF OwnerInv, LaneGuard, ActiveConflict, PendingConflict,
                                DurableConflict, SameLane
  <2>4. UNCHANGED <<flight, found>>
        BY <1>25 DEF LateLand
  <2>5. \A k \in Jobs \ {j} : row'[k] = row[k]
        BY <1>1, <2>1
  <2> QED
      BY <1>3, <1>4, <2>1, <2>3, <2>4, <2>5, OneNewOwner
<1>26. ASSUME NEW j \in Jobs, NEW ack \in BOOLEAN, SweepDecide(j, ack) PROVE OwnerInv'
  <2>1. /\ j \in found /\ flight' = Observed({j}) /\ UNCHANGED limbo /\ found' \subseteq found
        /\ row' \in {row, [row EXCEPT ![j] = Swept(j)]}
        BY <1>26 DEF SweepDecide, Save, adminRest
  <2>2. /\ \A k \in Jobs : /\ flight'[k] # "none" => flight'[k] = flight[k]
                           /\ <<k, "queued">> \in limbo' => flight'[k] = flight[k]
        /\ \A k \in found' : flight'[k] = "none"
        BY <2>1, ReadingGuards
  <2>3. \A k \in Jobs \ {j} : row'[k] = row[k]
        BY <1>1, <2>1
  <2>4. CASE ~ActiveConflict(j)
        BY <1>4, <2>1, <2>2, <2>3, <2>4, OneNewOwner
  <2>5. CASE ActiveConflict(j)
    <3>1. \/ Swept(j) = row[j]
          \/ /\ AutoRecoverable(row[j]) /\ Swept(j).st = "failed"
             /\ Swept(j).bound = row[j].bound
          BY <1>1, <2>5, SweptRows
    <3>2. Owns(Swept(j)) => Owns(row[j])
          BY <3>1 DEF Owns, Obligated, Retired, AutoRecoverable, Active
    <3> QED
        BY <1>1, <2>1, <2>2, <2>3, <3>2, NoNewOwner
  <2> QED
      BY <2>4, <2>5
<1>27. ASSUME NEW j \in Jobs, Recover(j) PROVE OwnerInv'
  <2>1. /\ flight' = Observed({j}) /\ UNCHANGED <<limbo, found>> /\ row[j].st # "none"
        /\ ~ActiveConflict(j)
        BY <1>27 DEF Recover, adminRest
  <2>2. \A k \in Jobs \ {j} : row'[k] = row[k]
        BY <1>1, <1>27 DEF Recover
  <2> QED
      BY <1>4, <2>1, <2>2, ReadingGuards, OneNewOwner
<1>28. CASE Crash
  <2>1. PICK S \in SUBSET limbo :
           row' = [k \in Jobs |-> IF <<k, "queued">> \in S THEN Admitted.queued
                                 ELSE IF <<k, "running">> \in S THEN Admitted.running
                                 ELSE row[k]]
        BY <1>28 DEF Crash
  <2>2. \A k \in Jobs : row'[k] = row[k] \/ flight[k] = "persist"
        BY <1>4, <2>1
  <2>3. limbo' = {} /\ found' = {} /\ \A k \in Jobs : flight'[k] = "none"
        BY <1>28 DEF Crash
  <2>4. OneOwnerPerAssertion'
        BY <2>2 DEF OneOwnerPerAssertion, OwnerInv, LaneGuard, SameLane
  <2> QED
      BY <2>3, <2>4 DEF OwnerInv, LaneGuard
<1> QED
    BY <1>10, <1>11, <1>12, <1>13, <1>14, <1>15, <1>16, <1>17, <1>18, <1>21, <1>22,
       <1>23, <1>24, <1>25, <1>26, <1>27, <1>28
    DEF Next, Claim, Sweep, Admission, Operator

\* At most one job owns an assertion, for any number of jobs, lanes and workers,
\* as long as an inline admission reported lost does not land after its lane was
\* given to another job: enqueueAndClaim keeps no flight for it.
THEOREM OneOwner ==
    ASSUME LateInline = FALSE
    PROVE  Spec => []OneOwnerPerAssertion
<1>1. Init => OwnerInv
      BY DEF Init, OwnerInv, LaneGuard, OneOwnerPerAssertion, Owns, Obligated, NoRow, Active
<1>2. QueueInv /\ OwnerInv /\ [Next]_vars => OwnerInv'
      BY OwnerStep
<1>3. OwnerInv => OneOwnerPerAssertion
      BY DEF OwnerInv
<1> QED
    BY <1>1, <1>2, <1>3, QueueInvariant, PTL DEF Spec

-----------------------------------------------------------------------------
(***************************************************************************)
(* What no step outside runPromoteJob does to a row.                       *)
(***************************************************************************)

\* A job that was never written, or whose only write is in doubt.
Unborn(k) == \/ k \notin used
             \/ <<k, "queued">> \in limbo \/ <<k, "running">> \in limbo

\* Only a worker reports a commit, a success or a rejection; a parked row stays
\* parked, a started promote of a job without binding is left running or
\* parked, an obligation is kept, and a token is kept, cleared or issued anew.
QuietRow(k, before, after) ==
    /\ after.inserted => before.inserted
    /\ after.st = "succeeded" => before.st = "succeeded"
    /\ Retired(after) => Retired(before)
    /\ Parked(before) => Parked(after) \/ Unborn(k)
    /\ before.st = "running" /\ before.started /\ ~before.bound =>
          after = before \/ Parked(after) \/ DurableConflict(k)
    /\ Obligated(before) => after.bound /\ after.st # "none"
    /\ \/ after.token \in {before.token, 0}
       \/ before.st # "none" /\ after.token = before.token + 1
       \/ Unborn(k)

\* A worker that moves outside runPromoteJob stops or takes a job.
QuietWorker(w) ==
    \/ work'[w] = work[w]
    \/ work'[w] = Idle
    \/ /\ work'[w].phase \in {"prepare", "start"} /\ work'[w].err = "none"
       /\ work'[w].done = FALSE

QuietStep ==
    /\ UNCHANGED <<committed, open>>
    /\ \A k \in Jobs : QuietRow(k, row[k], row'[k])
    /\ \A w \in Workers : QuietWorker(w)

\* The transitions of the queue, the sweep and the operator are quiet.
LEMMA QuietRows ==
    ASSUME QueueInv, NEW k \in Jobs
    PROVE  LET r == row[k] IN
           /\ QuietRow(k, r, r)
           /\ QuietRow(k, r, Reconciled[k])
           /\ Reconciled[k].st \in {"queued", "retrying"} =>
                 QuietRow(k, r, Claimed(Reconciled[k]))
           /\ QuietRow(k, r, Swept(k))
           /\ ~Obligated(r) => QuietRow(k, r, NoRow)
           /\ r.st = "queued" /\ ~Obligated(r) =>
                 QuietRow(k, r, [r EXCEPT !.st = "failed", !.why = "cancelled"])
           /\ r.st = "failed" /\ ~ManualInspection(r) =>
                 QuietRow(k, r, [NoRow EXCEPT !.st = "queued", !.bound = r.bound,
                                              !.token = r.token])
           /\ r.st = "none" /\ Unborn(k) => /\ QuietRow(k, r, Admitted.queued)
                                            /\ QuietRow(k, r, Admitted.running)
<1> DEFINE r == row[k]
<1>1. r \in Rows /\ TypeOK
      BY DEF QueueInv, TypeOK
<1> HIDE DEF r
<1> USE DEF QuietRow, Retired, CanRetire, Parked, Obligated
<1>2. QuietRow(k, r, r)
      OBVIOUS
<1>3. QuietRow(k, r, Reconciled[k])
  <2>1. Reconciled[k] = r \/ r.st = "running"
        BY <1>1, ReconciledRows DEF r
  <2>2. CASE Reconciled[k] = r
        BY <1>2, <2>2
  <2>3. CASE r.st = "running" /\ Reconciled[k] # r
    <3>1. \/ Reconciled[k] = Abandoned(r, "conflict") /\ DurableConflict(k)
          \/ Reconciled[k] = Reclaimed(r) /\ Replayable(r)
          \/ Reconciled[k] = Abandoned(r, "ambiguity")
          BY <2>3 DEF Reconciled, r
    <3>2. /\ Abandoned(r, "conflict").st = "failed" /\ Abandoned(r, "conflict").err = "fatal"
          /\ Abandoned(r, "conflict").inserted = r.inserted
          /\ Abandoned(r, "conflict").bound = r.bound
          /\ Abandoned(r, "conflict").token = r.token
          BY <1>1 DEF Abandoned, Rows
    <3>3. /\ Abandoned(r, "ambiguity").st = "failed" /\ Abandoned(r, "ambiguity").err = "fatal"
          /\ Abandoned(r, "ambiguity").inserted = r.inserted
          /\ Abandoned(r, "ambiguity").bound = r.bound
          /\ Abandoned(r, "ambiguity").token = r.token
          /\ Abandoned(r, "ambiguity").why = "ambiguity"
          BY <1>1 DEF Abandoned, Rows
    <3>4. /\ Reclaimed(r).st = "queued" /\ ~Reclaimed(r).inserted
          /\ Reclaimed(r).bound = r.bound /\ Reclaimed(r).token = r.token
          BY <1>1 DEF Reclaimed, WithUnstarted, Rows
    <3> QED
        BY <2>3, <3>1, <3>2, <3>3, <3>4 DEF Replayable
  <2> QED
      BY <2>1, <2>2, <2>3
<1>4. ASSUME Reconciled[k].st \in {"queued", "retrying"}
      PROVE  QuietRow(k, r, Claimed(Reconciled[k]))
  <2> DEFINE q == Reconciled[k]
  <2>1. q \in Rows /\ q.token = r.token /\ q.bound = r.bound /\ r.token \in Nat
        BY <1>1, WriteTypes, ReconciledRows DEF r, Rows
  <2>2. r.st # "none"
        BY <1>1, <1>4, ReconciledRows DEF r
  <2>3. /\ Claimed(q).st = "running" /\ Claimed(q).token = q.token + 1
        /\ Claimed(q).bound = q.bound /\ ~Claimed(q).inserted
        BY <2>1, AdmittedRows
  <2>4. q.st \in {"queued", "retrying"}
        BY <1>4
  <2> HIDE DEF q
  <2>5. QuietRow(k, r, q)
        BY <1>3 DEF q
  <2> QED
      BY <2>1, <2>2, <2>3, <2>4, <2>5 DEF q
<1>5. QuietRow(k, r, Swept(k))
  <2>1. CASE Swept(k) = r
        BY <1>2, <2>1
  <2>2. CASE Swept(k) # r
    <3>1. /\ AutoRecoverable(r) /\ Swept(k).st \in {"failed", "retrying"}
          /\ Swept(k).token = r.token /\ Swept(k).bound = r.bound
          /\ Swept(k).inserted = r.inserted /\ Swept(k).err = r.err
          BY <1>1, <2>2, SweptRows DEF r
    <3> QED
        BY <3>1 DEF AutoRecoverable
  <2> QED
      BY <2>1, <2>2
<1>6. NoRow.st = "none" /\ ~NoRow.inserted /\ NoRow.token = 0
      BY DEF NoRow
<1>7. ASSUME ~Obligated(r) PROVE QuietRow(k, r, NoRow)
      BY <1>6, <1>7
<1>8. ASSUME r.st = "queued", ~Obligated(r)
      PROVE  QuietRow(k, r, [r EXCEPT !.st = "failed", !.why = "cancelled"])
  <2> DEFINE q == [r EXCEPT !.st = "failed", !.why = "cancelled"]
  <2>1. /\ q.st = "failed" /\ q.token = r.token /\ q.bound = r.bound
        /\ q.inserted = r.inserted /\ ~r.bound
        BY <1>1, <1>8 DEF Rows
  <2> HIDE DEF q
  <2>2. QuietRow(k, r, q)
        BY <1>8, <2>1
  <2> QED
      BY <2>2 DEF q
<1>9. ASSUME r.st = "failed", ~ManualInspection(r)
      PROVE  QuietRow(k, r, [NoRow EXCEPT !.st = "queued", !.bound = r.bound,
                                          !.token = r.token])
  <2> DEFINE q == [NoRow EXCEPT !.st = "queued", !.bound = r.bound, !.token = r.token]
  <2>1. /\ q.st = "queued" /\ q.token = r.token /\ q.bound = r.bound /\ ~q.inserted
        BY DEF NoRow
  <2> HIDE DEF q
  <2>2. QuietRow(k, r, q)
        BY <1>9, <2>1 DEF ManualInspection
  <2> QED
      BY <2>2 DEF q
<1>10. ASSUME r.st = "none", Unborn(k)
       PROVE  QuietRow(k, r, Admitted.queued) /\ QuietRow(k, r, Admitted.running)
       BY <1>10, AdmittedRows
<1> HIDE DEF QuietRow, Retired, CanRetire, Parked, Obligated
<1> QED
    BY <1>2, <1>3, <1>4, <1>5, <1>7, <1>8, <1>9, <1>10 DEF r

\* Every step is a worker's or a quiet one.
LEMMA OtherSteps ==
    ASSUME QueueInv, [Next]_vars
    PROVE  (\E w \in Workers : Worker(w)) \/ QuietStep
<1>1. row \in [Jobs -> Rows] /\ work \in [Workers -> WorkerStates] /\ TypeOK
      BY DEF QueueInv, TypeOK, WorkerStates
<1>2. UNCHANGED work => \A w \in Workers : QuietWorker(w)
      BY DEF QuietWorker
<1>3. \A k \in Jobs : QuietRow(k, row[k], row[k])
      BY QuietRows
<1>4. ASSUME NEW j \in Jobs, NEW r, row' = row \/ row' = [row EXCEPT ![j] = r],
             QuietRow(j, row[j], r), UNCHANGED <<committed, open>>,
             \A w \in Workers : QuietWorker(w)
      PROVE  QuietStep
  <2>1. /\ \A k \in Jobs \ {j} : row'[k] = row[k]
        /\ row'[j] = row[j] \/ row'[j] = r
        BY <1>1, <1>4
  <2>2. \A k \in Jobs : QuietRow(k, row[k], row'[k])
        BY <1>3, <1>4, <2>1
  <2> QED
      BY <1>4, <2>2 DEF QuietStep
<1>5. ASSUME NEW w \in Workers, NEW j \in Jobs, NEW phase \in {"prepare", "start"},
             row'[j].token \in Nat, TakesJob(w, j, phase)
      PROVE  \A v \in Workers : QuietWorker(v)
  <2>1. phase \in Phases
        BY DEF Phases
  <2> QED
      BY <1>1, <1>5, <2>1, TakenJob DEF QuietWorker
<1>6. ASSUME UNCHANGED <<row, work, committed, open>> PROVE QuietStep
      BY <1>2, <1>3, <1>6 DEF QuietStep
<1>10. ASSUME NEW j \in Jobs,
              \/ Enqueue(j) \/ AdmissionExpires(j) \/ GetStatus(j) \/ LeaseExpires(j)
              \/ SweepFind \/ UNCHANGED vars
       PROVE  QuietStep
       BY <1>6, <1>10 DEF Enqueue, AdmissionExpires, GetStatus, LeaseExpires, SweepFind,
                          adminRest, vars, queueVars
<1>11. CASE SweepFind \/ UNCHANGED vars
       BY <1>6, <1>11 DEF SweepFind, adminRest, vars, queueVars
<1>12. ASSUME NEW j \in Jobs, NEW ack \in BOOLEAN, SweepDecide(j, ack) PROVE QuietStep
  <2>1. (row' = row \/ row' = [row EXCEPT ![j] = Swept(j)]) /\ UNCHANGED <<work, committed, open>>
        BY <1>12 DEF SweepDecide, Save, adminRest
  <2> QED
      BY <1>2, <1>4, <2>1, QuietRows
<1>13. ASSUME NEW j \in Jobs, Cancel(j) PROVE QuietStep
  <2> DEFINE r == [row[j] EXCEPT !.st = "failed", !.why = "cancelled"]
  <2>1. /\ row' = [row EXCEPT ![j] = r] /\ UNCHANGED <<work, committed, open>>
        /\ row[j].st = "queued" /\ ~Obligated(row[j])
        BY <1>13 DEF Cancel, adminRest
  <2>2. QuietRow(j, row[j], r)
        BY <2>1, QuietRows
  <2> HIDE DEF r
  <2> QED
      BY <1>2, <1>4, <2>1, <2>2
<1>14. ASSUME NEW j \in Jobs, Recover(j) PROVE QuietStep
  <2> DEFINE r == [NoRow EXCEPT !.st = "queued", !.bound = row[j].bound,
                                !.token = row[j].token]
  <2>1. /\ row' = [row EXCEPT ![j] = r] /\ UNCHANGED <<work, committed, open>>
        /\ row[j].st = "failed" /\ ~ManualInspection(row[j])
        BY <1>14 DEF Recover, adminRest
  <2>2. QuietRow(j, row[j], r)
        BY <2>1, QuietRows
  <2> HIDE DEF r
  <2> QED
      BY <1>2, <1>4, <2>1, <2>2
<1>15. ASSUME NEW j \in Jobs, Clear(j) \/ Retention(j) PROVE QuietStep
  <2>1. row' = [row EXCEPT ![j] = NoRow] /\ UNCHANGED <<work, committed, open>>
        BY <1>15 DEF Clear, Retention, adminRest
  <2>2. ~Obligated(row[j])
        BY <1>15 DEF Clear, Retention, Obligated
  <2> QED
      BY <1>2, <1>4, <2>1, <2>2, QuietRows
<1>16. CASE RecoverExpired
  <2>1. row' = Reconciled /\ UNCHANGED <<work, committed, open>>
        BY <1>16 DEF RecoverExpired
  <2> QED
      BY <1>2, <2>1, QuietRows DEF QuietStep
<1>17. ASSUME NEW w \in Workers, NEW j \in Jobs, NEW ack \in BOOLEAN, ClaimNext(w, j, ack)
       PROVE  QuietStep
  <2> DEFINE claim == [Reconciled EXCEPT ![j] = Claimed(Reconciled[j])]
  <2>1. /\ row' \in {Reconciled, claim} /\ UNCHANGED <<committed, open>>
        /\ Reconciled[j].st \in {"queued", "retrying"}
        /\ UNCHANGED work \/ (row' = claim /\ TakesJob(w, j, "prepare"))
        BY <1>17 DEF ClaimNext, TakesJob
  <2>2. Reconciled[j] \in Rows /\ Claimed(Reconciled[j]) \in Rows
        BY <1>1, WriteTypes, RowTypes
  <2>3. /\ claim[j] = Claimed(Reconciled[j]) /\ claim[j].token \in Nat
        /\ \A k \in Jobs \ {j} : claim[k] = Reconciled[k]
        BY <1>1, <2>2, WriteTypes DEF Rows
  <2> HIDE DEF claim
  <2>4. \A k \in Jobs : QuietRow(k, row[k], row'[k])
        BY <2>1, <2>3, QuietRows
  <2>5. \A v \in Workers : QuietWorker(v)
        BY <1>2, <1>5, <2>1, <2>3
  <2> QED
      BY <2>1, <2>4, <2>5 DEF QuietStep
<1>18. ASSUME NEW j \in Jobs, EnqueueHeld(j) PROVE QuietStep
  <2>1. /\ row' = row \/ row' = [row EXCEPT ![j] = Admitted.queued]
        /\ UNCHANGED <<work, committed, open>> /\ flight[j] = "waiting"
        BY <1>18 DEF EnqueueHeld
  <2>2. j \notin used
        BY <2>1 DEF QueueInv, Provenance
  <2>3. QuietRow(j, row[j], Admitted.queued)
        BY <2>2, FreshId, QuietRows DEF Unborn
  <2> QED
      BY <1>2, <1>4, <2>1, <2>3
<1>19. ASSUME NEW w \in Workers, NEW j \in Jobs, EnqueueAndClaim(w, j) PROVE QuietStep
  <2>1. Admitted.running \in Rows /\ Admitted.running.token = 1
        BY RowTypes, AdmittedRows
  <2>2. row' = [row EXCEPT ![j] = Admitted.running] => row'[j] = Admitted.running
        BY <1>1
  <2>3. /\ row' = row \/ row' = [row EXCEPT ![j] = Admitted.running]
        /\ j \notin used /\ UNCHANGED <<committed, open>>
        /\ UNCHANGED work \/ (row'[j] = Admitted.running /\ TakesJob(w, j, "start"))
        BY <1>19, <2>2 DEF EnqueueAndClaim, TakesJob
  <2>4. QuietRow(j, row[j], Admitted.running)
        BY <2>3, FreshId, QuietRows DEF Unborn
  <2>5. \A v \in Workers : QuietWorker(v)
        BY <1>2, <1>5, <2>1, <2>3
  <2> QED
      BY <1>4, <2>3, <2>4, <2>5
<1>20. ASSUME NEW j \in Jobs, LateLand(j) PROVE QuietStep
  <2>1. PICK write \in limbo : write[1] = j /\ row' = [row EXCEPT ![j] = Admitted[write[2]]]
        BY <1>20 DEF LateLand
  <2>2. write = <<j, write[2]>> /\ write[2] \in {"queued", "running"}
        BY <1>1, <2>1 DEF TypeOK
  <2>3. row[j].st = "none" /\ Unborn(j)
        BY <2>1, <2>2 DEF QueueInv, InDoubt, Unborn
  <2>4. QuietRow(j, row[j], Admitted[write[2]])
        BY <2>2, <2>3, QuietRows
  <2>5. UNCHANGED <<work, committed, open>>
        BY <1>20 DEF LateLand
  <2> QED
      BY <1>2, <1>4, <2>1, <2>4, <2>5
<1>21. CASE Crash
  <2>1. PICK S \in SUBSET limbo :
           row' = [k \in Jobs |-> IF <<k, "queued">> \in S THEN Admitted.queued
                                 ELSE IF <<k, "running">> \in S THEN Admitted.running
                                 ELSE row[k]]
        BY <1>21 DEF Crash
  <2>2. ASSUME NEW k \in Jobs PROVE QuietRow(k, row[k], row'[k])
    <3>1. CASE row'[k] = row[k]
          BY <1>3, <3>1
    <3>2. CASE row'[k] # row[k]
      <4>1. /\ row'[k] \in {Admitted.queued, Admitted.running}
            /\ <<k, "queued">> \in limbo \/ <<k, "running">> \in limbo
            BY <2>1, <3>2
      <4>2. row[k].st = "none" /\ Unborn(k)
            BY <4>1 DEF QueueInv, InDoubt, Unborn
      <4> QED
          BY <4>1, <4>2, QuietRows
    <3> QED
        BY <3>1, <3>2
  <2>3. UNCHANGED <<committed, open>> /\ \A w \in Workers : QuietWorker(w)
        BY <1>21 DEF Crash, QuietWorker
  <2> QED
      BY <2>2, <2>3 DEF QuietStep
<1> QED
    BY <1>10, <1>11, <1>12, <1>13, <1>14, <1>15, <1>16, <1>17, <1>18, <1>19, <1>20, <1>21
    DEF Next, Claim, Sweep, Admission, Operator

-----------------------------------------------------------------------------
(***************************************************************************)
(* Obligations, successes and rejections.                                  *)
(***************************************************************************)

\* An unfinished bound obligation ends only by success or by a certified
\* rejection, in every step of the queue, its workers, the sweep, the operator,
\* retention and the process.
THEOREM ObligationsAreKept == Spec => ObligationKept
<1>1. ASSUME QueueInv, [Next]_vars, NEW j \in Jobs, Obligated(row[j])
      PROVE  Obligated(row'[j]) \/ row'[j].st = "succeeded" \/ Retired(row'[j])
  <2>1. row'[j].bound /\ row'[j].st # "none"
    <3>1. CASE QuietStep
          BY <1>1, <3>1 DEF QuietStep, QuietRow
    <3>2. ASSUME NEW w \in Workers, Worker(w) PROVE row'[j].bound /\ row'[j].st # "none"
      <4>1. WorkerFrame(w)
            BY <1>1, <3>2, WorkerStep DEF QueueInv
      <4> QED
          BY <1>1, <4>1 DEF WorkerFrame, RowMoved, Obligated
    <3> QED
        BY <1>1, <3>1, <3>2, OtherSteps
  <2> QED
      BY <2>1 DEF Obligated
<1>2. QueueInv /\ [Next]_vars =>
         [\A j \in Jobs : Obligated(row[j]) =>
            \/ Obligated(row'[j]) \/ row'[j].st = "succeeded" \/ Retired(row'[j])]_vars
      BY <1>1
<1> QED
    BY <1>2, QueueInvariant, PTL DEF Spec, ObligationKept

\* The bookkeeping of a commit follows the commit, in every step.
LEMMA SharedStep ==
    ASSUME QueueInv, SharedInv, [Next]_vars
    PROVE  SharedInv'
<1>1. /\ row \in [Jobs -> Rows] /\ work \in [Workers -> WorkerStates] /\ TypeOK /\ Shape
      BY DEF QueueInv, TypeOK, WorkerStates
<1>2. CASE QuietStep
  <2>1. \A j : Shared(j)' <=> Shared(j)
        BY <1>2 DEF QuietStep, Shared, SameLane
  <2>2. \A j \in Jobs : row'[j].inserted \/ row'[j].st = "succeeded" => Shared(j)'
        BY <1>2, <2>1 DEF QuietStep, QuietRow, SharedInv
  <2>3. \A w \in Workers : work'[w].done \/ work'[w].phase \in {"landed", "mark", "succeed"}
                              => Shared(Job(w))'
        BY <1>2, <2>1 DEF QuietStep, QuietWorker, SharedInv, Idle, Job, Shared, SameLane
  <2> QED
      BY <2>2, <2>3 DEF SharedInv
<1>3. ASSUME NEW w \in Workers, Worker(w) PROVE SharedInv'
  <2>0. WorkerFrame(w)
        BY <1>1, <1>3, WorkerStep
  <2>a. PICK j \in Jobs : j = Job(w)
        BY <1>1, <2>0 DEF WorkerFrame, Shape
  <2>1. WorkerFrame(w) /\ j \in Jobs /\ row[j] \in Rows /\ j = work[w].job
        BY <1>1, <2>0, <2>a DEF Job
  <2>2. committed \subseteq committed'
        BY <1>3 DEF Worker, LeaseLost, Prepare, Enter, WriteSwm, PromoteReturns, PromoteThrows,
               RecordStarted, RecordInserted, Succeed, Fail
  <2>3. \A k : Shared(k) => Shared(k)'
        BY <2>2 DEF Shared, SameLane
  <2> DEFINE RowOK == row'[j].inserted \/ row'[j].st = "succeeded" => Shared(j)
             WorkOK == work'[w].done \/ work'[w].phase \in {"landed", "mark", "succeed"}
                         => Shared(j)'
  <2>4. SUFFICES RowOK /\ WorkOK
    <3>1. ASSUME RowOK, NEW k \in Jobs, row'[k].inserted \/ row'[k].st = "succeeded"
          PROVE  Shared(k)'
          BY <2>1, <2>3, <3>1 DEF SharedInv, WorkerFrame, Job
    <3>2. ASSUME WorkOK, NEW v \in Workers,
                 work'[v].done \/ work'[v].phase \in {"landed", "mark", "succeed"}
          PROVE  Shared(Job(v))'
      <4>1. CASE v = w
        <5>1. Job(w)' = j
              BY <2>1, <2>a, <3>2, <4>1 DEF WorkerFrame, Job, Idle
        <5> QED
            BY <3>2, <4>1, <5>1 DEF Shared, SameLane
      <4>2. CASE v # w
        <5>1. work'[v] = work[v] /\ Job(v)' = Job(v)
              BY <2>1, <4>2 DEF WorkerFrame, Job
        <5>2. Shared(Job(v))
              BY <3>2, <5>1 DEF SharedInv
        <5> QED
            BY <2>2, <5>1, <5>2 DEF Shared, SameLane
      <4> QED
          BY <4>1, <4>2
    <3> QED
        BY <3>1, <3>2 DEF SharedInv
  <2>5. /\ row[j].inserted \/ row[j].st = "succeeded" => Shared(j)
        /\ work[w].done \/ work[w].phase \in {"landed", "mark", "succeed"} => Shared(j)'
        BY <2>1, <2>3 DEF SharedInv, Job
  <2>6. UNCHANGED row => RowOK
        BY <2>5
  <2>7. ASSUME NEW r, NEW ack, Save(j, r, ack), r.inserted \/ r.st = "succeeded" => Shared(j)
        PROVE  RowOK
        BY <1>1, <2>1, <2>5, <2>7 DEF Save
  <2>8. Stop(w) => WorkOK
        BY <1>1, WorkMoves DEF Idle
  <2>9. ASSUME NEW e \in Errors, GotoFail(w, e) PROVE WorkOK
        BY <1>1, <2>5, <2>9, WorkMoves DEF WorkMoved
  <2>10. ASSUME NEW p \in Phases, Goto(w, p), p \in {"landed", "mark", "succeed"} => Shared(j)'
         PROVE  WorkOK
         BY <1>1, <2>5, <2>10, WorkMoves DEF WorkMoved
  <2> USE DEF Phases, Errors
  <2> HIDE DEF RowOK, WorkOK
  <2>11. CASE LeaseLost(w)
         BY <2>6, <2>8, <2>11 DEF LeaseLost
  <2>12. CASE Prepare(w)
    <3>1. [row[j] EXCEPT !.bound = TRUE].inserted = row[j].inserted
          /\ [row[j] EXCEPT !.bound = TRUE].st = row[j].st
          BY <2>1 DEF Rows
    <3>2. RowOK
          BY <2>5, <2>6, <2>7, <2>12, <3>1, <2>1 DEF Prepare, Job
    <3>3. ASSUME work' = [work EXCEPT ![w].phase = "start", ![w].done = TRUE], Shared(j)
          PROVE  WorkOK
          BY <2>3, <3>3 DEF WorkOK
    <3>4. WorkOK
          BY <2>8, <2>9, <2>10, <2>12, <3>3, <2>1 DEF Prepare, Job
    <3> QED
        BY <3>2, <3>4
  <2>13. ASSUME NEW ack \in BOOLEAN, RecordStarted(w, ack) PROVE RowOK /\ WorkOK
    <3>1. [row[j] EXCEPT !.started = TRUE].inserted = row[j].inserted
          /\ [row[j] EXCEPT !.started = TRUE].st = row[j].st
          BY <2>1 DEF Rows
    <3>2. RowOK
          BY <2>5, <2>7, <2>13, <3>1, <2>1 DEF RecordStarted, Job
    <3>3. WorkOK
          BY <2>5, <2>8, <2>9, <2>10, <2>13 DEF RecordStarted
    <3> QED
        BY <3>2, <3>3
  <2>14. CASE Enter(w)
         BY <2>6, <2>10, <2>14 DEF Enter
  <2>15. CASE WriteSwm(w)
    <3>1. Shared(j)'
          BY <2>15, <2>1 DEF WriteSwm, Shared, Job
    <3> QED
        BY <2>6, <2>10, <2>15, <3>1 DEF WriteSwm
  <2>16. ASSUME NEW err \in Errors, PromoteThrows(w, err) PROVE RowOK /\ WorkOK
         BY <2>6, <2>9, <2>16 DEF PromoteThrows
  <2>17. CASE PromoteReturns(w)
         BY <2>5, <2>6, <2>10, <2>17 DEF PromoteReturns
  <2>18. ASSUME NEW ack \in BOOLEAN, RecordInserted(w, ack) PROVE RowOK /\ WorkOK
    <3>1. Shared(j)
          BY <2>1, <2>18, <2>1 DEF RecordInserted, SharedInv, Job
    <3> QED
        BY <2>3, <2>7, <2>8, <2>10, <2>18, <3>1, <2>1 DEF RecordInserted, Job
  <2>19. ASSUME NEW ack \in BOOLEAN, Succeed(w, ack) PROVE RowOK /\ WorkOK
         BY <2>5, <2>7, <2>8, <2>19, <2>1 DEF Succeed, Job
  <2>20. ASSUME NEW ack \in BOOLEAN, Fail(w, ack) PROVE RowOK /\ WorkOK
    <3>1. PICK window \in BOOLEAN :
             Save(j, FailureTransition(row[j], work[w].err, window), ack)
          BY <2>20, <2>1 DEF Fail, Job
    <3> DEFINE r == FailureTransition(row[j], work[w].err, window)
    <3>2. work[w].err \in Errors
          BY <1>1 DEF WorkerStates
    <3>3. r.st # "succeeded" /\ r.inserted = row[j].inserted
          BY <2>1, <3>2, RowMoves
    <3> HIDE DEF r
    <3> QED
        BY <2>5, <2>7, <2>8, <2>20, <3>1, <3>3 DEF Fail, r
  <2> QED
      BY <1>3, <2>11, <2>12, <2>13, <2>14, <2>15, <2>16, <2>17, <2>18, <2>19, <2>20
      DEF Worker
<1> QED
    BY <1>2, <1>3, OtherSteps

\* A row says succeeded only after the content of its assertion reached shared
\* memory: succeed requires the inserted marker, and the marker is written only
\* after the promote returned or the assertion was found shared.
THEOREM SucceededWasShared == Spec => []SucceededIsShared
<1>1. Init => SharedInv
      BY DEF Init, SharedInv, NoRow, Idle
<1>2. QueueInv /\ SharedInv /\ [Next]_vars => SharedInv'
      BY SharedStep
<1>3. SharedInv => SucceededIsShared
      BY DEF SharedInv, SucceededIsShared
<1> QED
    BY <1>1, <1>2, <1>3, QueueInvariant, PTL DEF Spec

\* A worker's step that starts no execution, commits nothing and certifies no
\* rejection keeps the sections.
LEMMA SectionFrame ==
    ASSUME QueueInv, SectionInv, NEW w \in Workers, WorkerFrame(w),
           \A v \in Workers : work'[v].phase \in {"inside", "landed"} =>
                              work[v].phase \in {"inside", "landed"},
           UNCHANGED committed,
           \A k \in Jobs : Retired(row'[k]) => Retired(row[k]),
           work'[w].phase \in {"enter", "inside", "landed"} => ~work'[w].done,
           ~(work'[w].phase = "fail" /\ work'[w].err = "noeffect")
    PROVE  SectionInv'
<1>1. \A k : Executing(k)' \subseteq Executing(k)
      BY DEF WorkerFrame, Executing, Job, Idle
<1>2. \A k \in Jobs : row'[k].token = row[k].token
      BY DEF WorkerFrame, RowMoved
<1>3. \A v \in Workers : work'[v].phase \in {"enter", "inside", "landed"} => ~work'[v].done
      BY DEF WorkerFrame, SectionInv
<1>4. \A j \in Whole : \A u, v \in Executing(j)' : u = v
      BY <1>1 DEF SectionInv
<1>5. ASSUME NEW v \in Workers, work'[v].phase = "fail", work'[v].err = "noeffect",
             work'[v].token = row'[Job(v)'].token
      PROVE  Job(v)' \in Whole /\ Job(v)' \notin committed' /\ Executing(Job(v))' = {}
  <2>1. v # w /\ work'[v] = work[v] /\ Job(v)' = Job(v) /\ Job(v) \in Jobs
        BY <1>5 DEF WorkerFrame, Job, Live, QueueInv, Shape
  <2>2. Job(v) \in Whole /\ Job(v) \notin committed /\ Executing(Job(v)) = {}
        BY <1>2, <1>5, <2>1 DEF SectionInv
  <2>3. Executing(Job(v))' \subseteq Executing(Job(v))
        BY <2>1 DEF WorkerFrame, Executing, Job, Idle
  <2> QED
      BY <2>1, <2>2, <2>3
<1>6. \A j \in Jobs : Retired(row'[j]) => j \notin committed' /\ Executing(j)' = {}
      BY <1>1 DEF SectionInv
<1> QED
    BY <1>3, <1>4, <1>5, <1>6 DEF SectionInv

\* Every step keeps the sections.
LEMMA SectionStep ==
    ASSUME QueueInv, SectionInv, [Next]_vars
    PROVE  SectionInv'
<1>1. /\ row \in [Jobs -> Rows] /\ work \in [Workers -> WorkerStates] /\ TypeOK /\ Shape
      BY DEF QueueInv, TypeOK, WorkerStates
<1>2. CASE QuietStep
  <2>1. \A k : Executing(k)' \subseteq Executing(k)
        BY <1>2 DEF QuietStep, QuietWorker, Executing, Job, Idle
  <2>2. \A v \in Workers : work'[v].phase \in {"enter", "inside", "landed"} => ~work'[v].done
        BY <1>2 DEF QuietStep, QuietWorker, Idle, SectionInv
  <2>3. \A j \in Whole : \A u, v \in Executing(j)' : u = v
        BY <2>1 DEF SectionInv
  <2>4. ASSUME NEW v \in Workers, work'[v].phase = "fail", work'[v].err = "noeffect",
               work'[v].token = row'[Job(v)'].token
        PROVE  Job(v)' \in Whole /\ Job(v)' \notin committed' /\ Executing(Job(v))' = {}
    <3>1. work'[v] = work[v] /\ Job(v)' = Job(v) /\ Live(v)
          BY <1>2, <2>4 DEF QuietStep, QuietWorker, Idle, Job, Live
    <3>2. Job(v) \in Jobs /\ ~Unborn(Job(v))
          BY <1>1, <3>1 DEF Shape, QueueInv, Provenance, InDoubt, Unborn
    <3>3. work[v].token \in Nat /\ row[Job(v)].token \in Nat
          BY <1>1, <3>2 DEF WorkerStates, Rows
    <3>4. work[v].token = row[Job(v)].token
      <4>1. \/ row'[Job(v)].token \in {row[Job(v)].token, 0}
            \/ row[Job(v)].st # "none" /\ row'[Job(v)].token = row[Job(v)].token + 1
            BY <1>2, <3>2 DEF QuietStep, QuietRow
      <4>2. work[v].token > 0 /\ (row[Job(v)].st # "none" => work[v].token <= row[Job(v)].token)
            BY <3>1 DEF QueueInv, Tokens
      <4> QED
          BY <2>4, <3>1, <3>3, <4>1, <4>2
    <3>5. Job(v) \in Whole /\ Job(v) \notin committed /\ Executing(Job(v)) = {}
          BY <2>4, <3>1, <3>4 DEF SectionInv
    <3>6. Executing(Job(v))' \subseteq Executing(Job(v))
          BY <1>2, <3>1 DEF QuietStep, QuietWorker, Executing, Job, Idle
    <3> QED
        BY <1>2, <3>1, <3>5, <3>6 DEF QuietStep
  <2>5. \A j \in Jobs : Retired(row'[j]) => j \notin committed' /\ Executing(j)' = {}
        BY <1>2, <2>1 DEF QuietStep, QuietRow, SectionInv
  <2> QED
      BY <2>2, <2>3, <2>4, <2>5 DEF SectionInv
<1>3. ASSUME NEW w \in Workers, Worker(w) PROVE SectionInv'
  <2>0. WorkerFrame(w)
        BY <1>1, <1>3, WorkerStep
  <2>a. PICK j \in Jobs : j = Job(w)
        BY <1>1, <2>0 DEF WorkerFrame, Shape
  <2>1. row[j] \in Rows /\ j = work[w].job
        BY <1>1, <2>a DEF Job
  <2> DEFINE Same == \A k \in Jobs : Retired(row'[k]) => Retired(row[k])
             Out == /\ \A v \in Workers : work'[v].phase \in {"inside", "landed"} =>
                          work[v].phase \in {"inside", "landed"}
                    /\ work'[w].phase \in {"enter", "inside", "landed"} => ~work'[w].done
                    /\ ~(work'[w].phase = "fail" /\ work'[w].err = "noeffect")
  <2>2. ASSUME Same, Out, UNCHANGED committed PROVE SectionInv'
        BY <2>0, <2>2, SectionFrame
  <2>3. UNCHANGED row => Same
        OBVIOUS
  <2>4. ASSUME NEW r, NEW ack, Save(j, r, ack), r.st # "failed" PROVE Same
        BY <1>1, <2>1, <2>4 DEF Save, Retired
  <2>5. Stop(w) => Out
        BY <1>1, WorkMoves DEF Idle
  <2>6. ASSUME NEW e \in Errors \ {"noeffect"}, GotoFail(w, e) PROVE Out
        BY <1>1, <2>6, WorkMoves DEF WorkMoved
  <2>7. ASSUME NEW p \in Phases, Goto(w, p), p \notin {"inside", "landed", "fail"},
               p = "enter" => ~work[w].done
        PROVE  Out
        BY <1>1, <2>7, WorkMoves DEF WorkMoved
  <2> USE DEF Phases, Errors
  <2> HIDE DEF Same, Out
  <2>11. CASE LeaseLost(w)
         BY <2>2, <2>3, <2>5, <2>11 DEF LeaseLost
  <2>12. CASE Prepare(w)
    <3>1. [row[j] EXCEPT !.bound = TRUE].st = row[j].st
          BY <2>1 DEF Rows
    <3>2. Same
          BY <2>1, <2>3, <2>4, <2>12, <3>1 DEF Prepare, Job, Held
    <3>3. ASSUME work' = [work EXCEPT ![w].phase = "start", ![w].done = TRUE]
          PROVE  Out
          BY <1>1, <3>3 DEF Out, WorkerStates
    <3>4. Out
          BY <2>5, <2>6, <2>7, <2>12, <3>3 DEF Prepare
    <3> QED
        BY <2>2, <2>12, <3>2, <3>4 DEF Prepare
  <2>13. ASSUME NEW ack \in BOOLEAN, RecordStarted(w, ack) PROVE SectionInv'
    <3>1. [row[j] EXCEPT !.started = TRUE].st = row[j].st
          BY <2>1 DEF Rows
    <3>2. Same
          BY <2>1, <2>4, <2>13, <3>1 DEF RecordStarted, Job, Held
    <3>3. Out
          BY <2>5, <2>6, <2>7, <2>13 DEF RecordStarted
    <3> QED
        BY <2>2, <2>13, <3>2, <3>3 DEF RecordStarted
  <2>14. CASE PromoteReturns(w)
         BY <2>2, <2>3, <2>7, <2>14 DEF PromoteReturns
  <2>15. ASSUME NEW ack \in BOOLEAN, RecordInserted(w, ack) PROVE SectionInv'
    <3>1. [row[j] EXCEPT !.inserted = TRUE].st = row[j].st
          BY <2>1 DEF Rows
    <3>2. Same
          BY <2>1, <2>4, <2>15, <3>1 DEF RecordInserted, Job, Held
    <3>3. Out
          BY <2>5, <2>7, <2>15 DEF RecordInserted
    <3> QED
        BY <2>2, <2>15, <3>2, <3>3 DEF RecordInserted
  <2>16. ASSUME NEW ack \in BOOLEAN, Succeed(w, ack) PROVE SectionInv'
    <3>1. [row[j] EXCEPT !.st = "succeeded"].st = "succeeded"
          BY <2>1 DEF Rows
    <3>2. Same
          BY <2>1, <2>4, <2>16, <3>1 DEF Succeed, Job
    <3> QED
        BY <2>2, <2>5, <2>16, <3>2 DEF Succeed
  <2>17. \A v \in Workers \ {w} : work'[v] = work[v] /\ Job(v)' = Job(v)
         BY <2>0 DEF WorkerFrame, Job
  <2>18. ASSUME NEW v \in Workers \ {w}, work'[v].phase = "fail", work'[v].err = "noeffect",
                work'[v].token = row'[Job(v)'].token
         PROVE  /\ Job(v) \in Whole /\ Job(v) \notin committed /\ Executing(Job(v)) = {}
                /\ work[v].token = row[Job(v)].token /\ Live(v)
    <3>1. work'[v] = work[v] /\ Job(v)' = Job(v)
          BY <2>17
    <3>2. Live(v) /\ Job(v) \in Jobs
          BY <1>1, <2>18, <3>1 DEF Live, Shape
    <3>3. row'[Job(v)].token = row[Job(v)].token
          BY <2>0, <3>2 DEF WorkerFrame, RowMoved
    <3> QED
        BY <2>18, <3>1, <3>2, <3>3 DEF SectionInv
  <2>19. CASE WriteSwm(w)
    <3>1. /\ UNCHANGED row /\ committed' = committed \cup {j} /\ work[w].phase = "inside"
          /\ work'[w].phase = "landed" /\ work'[w].done = work[w].done /\ work'[w].job = j
          BY <1>1, <2>1, <2>19, WorkMoves DEF WriteSwm, WorkMoved, Job
    <3>2. \A k : Executing(k)' = Executing(k)
          BY <2>1, <2>17, <3>1 DEF Executing, Job
    <3>3. w \in Executing(j)
          BY <2>1, <3>1 DEF Executing, Job
    <3>4. \A v \in Workers : work'[v].phase \in {"enter", "inside", "landed"} => ~work'[v].done
          BY <2>17, <3>1 DEF SectionInv
    <3>5. ASSUME NEW v \in Workers, work'[v].phase = "fail", work'[v].err = "noeffect",
                 work'[v].token = row'[Job(v)'].token
          PROVE  Job(v)' \in Whole /\ Job(v)' \notin committed' /\ Executing(Job(v))' = {}
      <4>1. v # w /\ Job(v)' = Job(v)
            BY <2>17, <3>1, <3>5
      <4>2. Job(v) \in Whole /\ Job(v) \notin committed /\ Executing(Job(v)) = {}
            BY <2>18, <3>5, <4>1
      <4>3. Executing(Job(v))' = Executing(Job(v))
            BY <2>1, <2>17, <3>1, <4>1 DEF Executing, Job
      <4> QED
          BY <3>1, <3>3, <4>1, <4>2, <4>3
    <3>6. \A k \in Jobs : Retired(row'[k]) => k \notin committed' /\ Executing(k)' = {}
          BY <3>1, <3>2, <3>3 DEF SectionInv
    <3> QED
        BY <3>2, <3>4, <3>5, <3>6 DEF SectionInv
  <2>20. CASE Enter(w)
    <3>1. /\ UNCHANGED <<row, committed>> /\ work[w].phase = "enter"
          /\ work'[w].phase = "inside" /\ work'[w].done = work[w].done /\ work'[w].job = j
          BY <1>1, <2>1, <2>20, WorkMoves DEF Enter, WorkMoved, Job
    <3>2. ~work[w].done
          BY <3>1 DEF SectionInv
    <3>3. j \in Whole => Held(w) /\ SectionFree(w)
          BY <2>1, <2>20, <3>2 DEF Enter, UnderAuthority, Job
    <3>4. \A k \in Jobs \ {j} : Executing(k)' = Executing(k)
          BY <2>1, <2>17, <3>1 DEF Executing, Job
    <3>5. j \in Whole => Executing(j)' = {w}
      <4>1. j \in Whole => Executing(j) = {}
            BY <2>1, <3>1, <3>3 DEF SectionFree, Executing, UnderAuthority, SectionInv, Job
      <4> QED
          BY <2>1, <2>17, <3>1, <4>1 DEF Executing, Job
    <3>6. j \in Whole => row[j].st = "running" /\ row[j].token = work[w].token
          BY <2>1, <3>3 DEF Held, Job
    <3>7. \A v \in Workers : work'[v].phase \in {"enter", "inside", "landed"} => ~work'[v].done
          BY <2>17, <3>1, <3>2 DEF SectionInv
    <3>8. \A k \in Whole : \A u, v \in Executing(k)' : u = v
          BY <3>4, <3>5, KindAssumption DEF SectionInv
    <3>9. ASSUME NEW v \in Workers, work'[v].phase = "fail", work'[v].err = "noeffect",
                 work'[v].token = row'[Job(v)'].token
          PROVE  Job(v)' \in Whole /\ Job(v)' \notin committed' /\ Executing(Job(v))' = {}
      <4>1. v # w /\ Job(v)' = Job(v)
            BY <2>17, <3>1, <3>9
      <4>2. /\ Job(v) \in Whole /\ Job(v) \notin committed /\ Executing(Job(v)) = {}
            /\ work[v].token = row[Job(v)].token /\ Live(v)
            BY <2>18, <3>9, <4>1
      <4>3. Job(v) # j
            BY <2>1, <3>1, <3>6, <4>1, <4>2 DEF QueueInv, Tokens, Live, Job
      <4>4. Executing(Job(v))' = Executing(Job(v))
            BY <2>1, <2>17, <3>1, <4>1, <4>3 DEF Executing, Job
      <4> QED
          BY <3>1, <4>1, <4>2, <4>4
    <3>10. \A k \in Jobs : Retired(row'[k]) => k \notin committed' /\ Executing(k)' = {}
      <4>1. Retired(row[j]) => j \in Whole /\ row[j].st # "running"
            BY <1>1 DEF Shape, Retired, CanRetire
      <4> QED
          BY <3>1, <3>4, <3>6, <4>1 DEF SectionInv
    <3> QED
        BY <3>7, <3>8, <3>9, <3>10 DEF SectionInv
  <2>21. ASSUME NEW err \in Errors, PromoteThrows(w, err) PROVE SectionInv'
    <3>1. UNCHANGED <<row, committed>> /\ GotoFail(w, err)
          BY <2>21 DEF PromoteThrows
    <3>2. CASE err # "noeffect"
          BY <2>2, <2>3, <2>6, <3>1, <3>2
    <3>3. CASE err = "noeffect"
      <4>1. work[w].phase = "inside" /\ UnderAuthority(w) /\ ~Shared(j)
            BY <2>1, <2>21, <3>3 DEF PromoteThrows, Job
      <4>2. j \in Whole /\ j \notin committed /\ Executing(j) = {w}
            BY <2>1, <4>1 DEF UnderAuthority, Shared, SectionInv, Executing, Job
      <4>3. work'[w].phase = "fail" /\ work'[w].job = j
            BY <1>1, <2>1, <3>1, WorkMoves DEF WorkMoved
      <4>4. Executing(j)' = {} /\ \A k : Executing(k)' \subseteq Executing(k)
            BY <2>17, <4>2, <4>3 DEF Executing, Job
      <4>5. \A v \in Workers : work'[v].phase \in {"enter", "inside", "landed"} => ~work'[v].done
            BY <2>17, <4>3 DEF SectionInv
      <4>6. ASSUME NEW v \in Workers, work'[v].phase = "fail", work'[v].err = "noeffect",
                   work'[v].token = row'[Job(v)'].token
            PROVE  Job(v)' \in Whole /\ Job(v)' \notin committed' /\ Executing(Job(v))' = {}
        <5>1. CASE v = w
          <6>1. Job(v)' = j
                BY <4>3, <5>1 DEF Job
          <6> QED
              BY <3>1, <4>2, <4>4, <6>1 DEF Executing
        <5>2. CASE v # w
          <6>1. /\ Job(v) \in Whole /\ Job(v) \notin committed /\ Executing(Job(v)) = {}
                /\ Job(v)' = Job(v)
                BY <2>17, <2>18, <4>6, <5>2
          <6>2. Executing(Job(v))' \subseteq Executing(Job(v))
                BY <2>17, <4>3, <6>1 DEF Executing, Job
          <6> QED
              BY <3>1, <6>1, <6>2
        <5> QED
            BY <5>1, <5>2
      <4>7. \A k \in Jobs : Retired(row'[k]) => k \notin committed' /\ Executing(k)' = {}
            BY <3>1, <4>4 DEF SectionInv
      <4>8. \A k \in Whole : \A u, v \in Executing(k)' : u = v
            BY <4>4 DEF SectionInv
      <4> QED
          BY <4>5, <4>6, <4>7, <4>8 DEF SectionInv
    <3> QED
        BY <3>2, <3>3
  <2>22. ASSUME NEW ack \in BOOLEAN, Fail(w, ack) PROVE SectionInv'
    <3>1. PICK window \in BOOLEAN :
             Save(j, FailureTransition(row[j], work[w].err, window), ack)
          BY <2>1, <2>22 DEF Fail, Job
    <3> DEFINE r == FailureTransition(row[j], work[w].err, window)
    <3>2. /\ work[w].phase = "fail" /\ Held(w) /\ Stop(w) /\ UNCHANGED committed
          BY <2>22 DEF Fail
    <3>3. Retired(r) => work[w].err = "noeffect"
          BY DEF FailureTransition, Retired
    <3> HIDE DEF r
    <3>4. row'[j] \in {row[j], r} /\ \A k \in Jobs \ {j} : row'[k] = row[k]
          BY <1>1, <2>1, <3>1 DEF Save, r
    <3>5. CASE Retired(r)
      <4>1. j \notin committed /\ Executing(j) = {}
            BY <2>1, <3>2, <3>3, <3>5 DEF SectionInv, Held, Job
      <4>2. work'[w] = Idle
            BY <1>1, <3>2, WorkMoves
      <4>3. \A k : Executing(k)' \subseteq Executing(k)
            BY <2>17, <4>2 DEF Executing, Job, Idle
      <4>4. \A v \in Workers : work'[v].phase \in {"enter", "inside", "landed"} => ~work'[v].done
            BY <2>17, <4>2 DEF SectionInv, Idle
      <4>5. ASSUME NEW v \in Workers, work'[v].phase = "fail", work'[v].err = "noeffect",
                   work'[v].token = row'[Job(v)'].token
            PROVE  Job(v)' \in Whole /\ Job(v)' \notin committed' /\ Executing(Job(v))' = {}
        <5>1. v # w
              BY <4>2, <4>5 DEF Idle
        <5>2. /\ Job(v) \in Whole /\ Job(v) \notin committed /\ Executing(Job(v)) = {}
              /\ Job(v)' = Job(v)
              BY <2>17, <2>18, <4>5, <5>1
        <5>3. Executing(Job(v))' \subseteq Executing(Job(v))
              BY <2>17, <4>2, <5>2 DEF Executing, Job, Idle
        <5> QED
            BY <3>2, <5>2, <5>3
      <4>6. \A k \in Jobs : Retired(row'[k]) => k \notin committed' /\ Executing(k)' = {}
            BY <3>2, <3>4, <4>1, <4>3 DEF SectionInv
      <4>7. \A k \in Whole : \A u, v \in Executing(k)' : u = v
            BY <4>3 DEF SectionInv
      <4> QED
          BY <4>4, <4>5, <4>6, <4>7 DEF SectionInv
    <3>6. CASE ~Retired(r)
          BY <2>2, <2>5, <3>2, <3>4, <3>6 DEF Same
    <3> QED
        BY <3>5, <3>6
  <2> QED
      BY <1>3, <2>11, <2>12, <2>13, <2>14, <2>15, <2>16, <2>19, <2>20, <2>21, <2>22
      DEF Worker
<1> QED
    BY <1>2, <1>3, OtherSteps

\* A bound job retired as a certified rejection has left nothing in shared
\* memory: whoever executed it held the job's section, and the rejection counts
\* only under the lease the row still has.
THEOREM RetiredLeftNoEffect == Spec => []RetiredHasNoEffect
<1>1. Init => SectionInv
      BY DEF Init, SectionInv, NoRow, Idle, Executing, Retired
<1>2. QueueInv /\ SectionInv /\ [Next]_vars => SectionInv'
      BY SectionStep
<1>3. SectionInv => RetiredHasNoEffect
      BY DEF SectionInv, RetiredHasNoEffect
<1> QED
    BY <1>1, <1>2, <1>3, QueueInvariant, PTL DEF Spec

-----------------------------------------------------------------------------
(***************************************************************************)
(* A promote that was entered is not run again.                            *)
(***************************************************************************)

\* A worker past its started marker, and a promote that nobody closed, find the
\* row as they left it or parked, after every step.
LEMMA OpenStep ==
    ASSUME QueueInv, OwnerInv, OpenInv, [Next]_vars
    PROVE  OpenInv'
<1>1. /\ row \in [Jobs -> Rows] /\ work \in [Workers -> WorkerStates] /\ TypeOK /\ Shape
      /\ open \subseteq Jobs
      BY DEF QueueInv, TypeOK, WorkerStates
<1>2. CASE QuietStep
  <2>1. ASSUME NEW k \in Jobs, ~Unborn(k), k \notin Whole,
               Parked(row[k]) \/ (row[k].st = "running" /\ row[k].started)
        PROVE  Parked(row'[k]) \/ row'[k] = row[k]
    <3>1. CASE Parked(row[k])
          BY <1>2, <2>1, <3>1 DEF QuietStep, QuietRow
    <3>2. CASE row[k].st = "running" /\ row[k].started
      <4>1. ~row[k].bound
            BY <1>1, <2>1 DEF Shape
      <4>2. ~DurableConflict(k)
            BY <3>2 DEF OwnerInv, OneOwnerPerAssertion, DurableConflict, SameLane, Owns, Active
      <4> QED
          BY <1>2, <2>1, <3>2, <4>1, <4>2 DEF QuietStep, QuietRow
    <3> QED
        BY <2>1, <3>1, <3>2
  <2>2. \A k \in open : ~Unborn(k)
        BY <1>1 DEF QueueInv, Provenance, InDoubt, Unborn
  <2>3. open' = open
        BY <1>2 DEF QuietStep
  <2>4. \A k \in open' : Parked(row'[k]) \/ (row'[k].st = "running" /\ row'[k].started)
    <3>1. ASSUME NEW k \in open
          PROVE  Parked(row'[k]) \/ (row'[k].st = "running" /\ row'[k].started)
      <4>1. k \in Jobs /\ k \notin Whole
            BY <1>1, <3>1 DEF OpenInv
      <4>2. Parked(row[k]) \/ (row[k].st = "running" /\ row[k].started)
            BY <3>1 DEF OpenInv
      <4>3. Parked(row'[k]) \/ row'[k] = row[k]
            BY <2>1, <2>2, <3>1, <4>1, <4>2
      <4> QED
          BY <4>2, <4>3 DEF Parked
    <3> QED
        BY <2>3, <3>1
  <2>5. ASSUME NEW w \in Workers, work'[w].phase = "enter"
        PROVE  /\ ~work'[w].done
               /\ Job(w)' \notin Whole =>
                    \/ Parked(row'[Job(w)'])
                    \/ /\ row'[Job(w)'].st = "running" /\ row'[Job(w)'].started
                       /\ row'[Job(w)'].token = work'[w].token
    <3>1. work'[w] = work[w] /\ Job(w)' = Job(w) /\ Live(w)
          BY <1>2, <2>5 DEF QuietStep, QuietWorker, Idle, Job, Live
    <3>2. Job(w) \in Jobs /\ ~Unborn(Job(w))
          BY <1>1, <3>1 DEF Shape, QueueInv, Provenance, InDoubt, Unborn
    <3>3. /\ ~work[w].done
          /\ Job(w) \notin Whole =>
                    \/ Parked(row[Job(w)])
                    \/ /\ row[Job(w)].st = "running" /\ row[Job(w)].started
                       /\ row[Job(w)].token = work[w].token
          BY <2>5, <3>1 DEF OpenInv
    <3>4. Job(w) \notin Whole => Parked(row'[Job(w)]) \/ row'[Job(w)] = row[Job(w)]
          BY <2>1, <3>2, <3>3
    <3> QED
        BY <3>1, <3>3, <3>4
  <2> QED
      BY <2>3, <2>4, <2>5 DEF OpenInv
<1>3. ASSUME NEW w \in Workers, Worker(w) PROVE OpenInv'
  <2>0. WorkerFrame(w)
        BY <1>1, <1>3, WorkerStep
  <2>a. PICK j \in Jobs : j = Job(w)
        BY <1>1, <2>0 DEF WorkerFrame, Shape
  <2>1. row[j] \in Rows /\ j = work[w].job
        BY <1>1, <2>a DEF Job
  <2> DEFINE Good(r) == Parked(r) \/ (r.st = "running" /\ r.started)
             WorkOK == work'[w].phase = "enter" =>
                         /\ ~work'[w].done
                         /\ j \notin Whole => /\ row'[j].st = "running" /\ row'[j].started
                                              /\ row'[j].token = work[w].token
             OpenOK == /\ open' \subseteq open \cup {j}
                       /\ j \in open' => j \notin Whole /\ Good(row'[j])
  <2>2. SUFFICES WorkOK /\ OpenOK
    <3>1. ASSUME OpenOK, NEW k \in open' PROVE k \notin Whole /\ Good(row'[k])
      <4>1. CASE k = j
            BY <3>1, <4>1
      <4>2. CASE k # j
        <5>1. k \in open /\ k \in Jobs
              BY <1>1, <3>1, <4>2
        <5>2. row'[k] = row[k]
              BY <2>0, <2>a, <4>2, <5>1 DEF WorkerFrame
        <5> QED
            BY <5>1, <5>2 DEF OpenInv
      <4> QED
          BY <4>1, <4>2
    <3>2. ASSUME WorkOK, NEW v \in Workers, work'[v].phase = "enter"
          PROVE  /\ ~work'[v].done
                 /\ Job(v)' \notin Whole =>
                      \/ Parked(row'[Job(v)'])
                      \/ /\ row'[Job(v)'].st = "running" /\ row'[Job(v)'].started
                         /\ row'[Job(v)'].token = work'[v].token
      <4>1. CASE v = w
        <5>1. Job(w)' = j /\ work'[w].token = work[w].token
              BY <2>0, <2>a, <3>2, <4>1 DEF WorkerFrame, Job, Idle
        <5> QED
            BY <3>2, <4>1, <5>1
      <4>2. CASE v # w
        <5>1. work'[v] = work[v] /\ Job(v)' = Job(v) /\ Live(v)
              BY <2>0, <3>2, <4>2 DEF WorkerFrame, Job, Live
        <5>2. Job(v) \in Jobs
              BY <1>1, <5>1 DEF Shape
        <5>3. /\ ~work[v].done
              /\ Job(v) \notin Whole =>
                    \/ Parked(row[Job(v)])
                    \/ /\ row[Job(v)].st = "running" /\ row[Job(v)].started
                       /\ row[Job(v)].token = work[v].token
              BY <3>2, <5>1 DEF OpenInv
        <5>4. ASSUME Job(v) \notin Whole PROVE row'[Job(v)] = row[Job(v)]
          <6>1. CASE Job(v) # j
                BY <2>0, <2>a, <5>2, <6>1 DEF WorkerFrame
          <6>2. CASE Job(v) = j
            <7>1. work[v].token # work[w].token
                  BY <2>0, <2>a, <4>2, <5>1, <6>2 DEF QueueInv, Tokens, WorkerFrame
            <7>2. ~Held(w)
                  BY <5>3, <5>4, <6>2, <7>1, <2>a DEF Held, Parked
            <7> QED
                BY <2>0, <2>a, <6>2, <7>2 DEF WorkerFrame, RowMoved
          <6> QED
              BY <6>1, <6>2
        <5> QED
            BY <5>1, <5>3, <5>4
      <4> QED
          BY <4>1, <4>2
    <3> QED
        BY <3>1, <3>2 DEF OpenInv
  <2>3. /\ j \in open => j \notin Whole /\ Good(row[j])
        /\ work[w].phase = "enter" => /\ ~work[w].done
                                      /\ j \notin Whole => Good(row[j])
        BY <2>a DEF OpenInv
  <2>4. Held(w) => row[j].st = "running" /\ row[j].token = work[w].token
        BY <2>a DEF Held
  <2>5. UNCHANGED <<row, open>> => OpenOK
        BY <2>3
  <2>6. Stop(w) => WorkOK
        BY <1>1, WorkMoves DEF Idle
  <2>7. ASSUME NEW p \in Phases \ {"enter"}, Goto(w, p) PROVE WorkOK
        BY <1>1, <2>7, WorkMoves DEF WorkMoved
  <2>8. ASSUME NEW e \in Errors, GotoFail(w, e) PROVE WorkOK
        BY <1>1, <2>8, WorkMoves DEF WorkMoved
  <2>9. ASSUME NEW r, NEW ack \in BOOLEAN, Save(j, r, ack), UNCHANGED open,
               j \in open => r.st = "running" /\ r.started
        PROVE  OpenOK
    <3>1. row'[j] = row[j] \/ row'[j] = r
          BY <1>1, <2>9 DEF Save
    <3> QED
        BY <2>3, <2>9, <3>1
  <2>10. ASSUME NEW r, NEW ack \in BOOLEAN, Save(j, r, ack), Closes(j, r)
         PROVE  OpenOK
    <3>1. row'[j] = row[j] \/ row'[j] = r
          BY <1>1, <2>10 DEF Save
    <3> QED
        BY <2>3, <2>10, <3>1 DEF Closes
  <2> USE DEF Phases, Errors
  <2> HIDE DEF Good, WorkOK, OpenOK
  <2>11. CASE LeaseLost(w)
         BY <2>5, <2>6, <2>11 DEF LeaseLost
  <2>12. CASE Prepare(w)
    <3>1. j \in Whole => j \notin open
          BY <2>3
    <3>2. OpenOK
          BY <2>5, <2>9, <2>12, <3>1, <2>a DEF Prepare
    <3>3. ASSUME work' = [work EXCEPT ![w].phase = "start", ![w].done = TRUE]
          PROVE  WorkOK
          BY <1>1, <3>3 DEF WorkOK, WorkerStates
    <3>4. WorkOK
          BY <2>6, <2>7, <2>8, <2>12, <3>3 DEF Prepare
    <3> QED
        BY <3>2, <3>4
  <2>13. ASSUME NEW ack \in BOOLEAN, RecordStarted(w, ack) PROVE WorkOK /\ OpenOK
    <3> DEFINE r == [row[j] EXCEPT !.started = TRUE]
    <3>1. r.st = row[j].st /\ r.started /\ r.token = row[j].token
          BY <2>1 DEF Rows
    <3>2. Save(j, r, ack) /\ Held(w) /\ UNCHANGED open
          BY <2>13, <2>a DEF RecordStarted
    <3> HIDE DEF r
    <3>3. OpenOK
          BY <2>4, <2>9, <3>1, <3>2
    <3>4. ASSUME ack, Goto(w, "enter"), ~work[w].done PROVE WorkOK
      <4>1. row'[j] = r
            BY <1>1, <3>2, <3>4 DEF Save
      <4>2. work'[w].done = work[w].done
            BY <1>1, <3>4, WorkMoves DEF WorkMoved
      <4> QED
          BY <2>4, <3>1, <3>2, <3>4, <4>1, <4>2 DEF WorkOK
    <3>5. WorkOK
          BY <2>6, <2>7, <2>8, <2>13, <3>4 DEF RecordStarted
    <3> QED
        BY <3>3, <3>5
  <2>14. CASE Enter(w)
    <3>1. WorkOK
          BY <2>7, <2>14 DEF Enter
    <3>2. ~work[w].done /\ (j \notin Whole => Good(row[j]))
          BY <2>3, <2>14 DEF Enter
    <3>3. UNCHANGED row /\ open' = IF j \in Whole THEN open ELSE open \cup {j}
          BY <2>14, <2>a, <3>2 DEF Enter, UnderAuthority
    <3>4. OpenOK
          BY <2>3, <3>2, <3>3 DEF OpenOK
    <3> QED
        BY <3>1, <3>4
  <2>15. CASE WriteSwm(w)
         BY <2>5, <2>7, <2>15 DEF WriteSwm
  <2>16. ASSUME NEW err \in Errors, PromoteThrows(w, err) PROVE WorkOK /\ OpenOK
         BY <2>5, <2>8, <2>16 DEF PromoteThrows
  <2>17. CASE PromoteReturns(w)
         BY <2>5, <2>7, <2>17 DEF PromoteReturns
  <2>18. ASSUME NEW ack \in BOOLEAN, RecordInserted(w, ack) PROVE WorkOK /\ OpenOK
    <3> DEFINE r == [row[j] EXCEPT !.inserted = TRUE]
    <3>1. r.st = row[j].st /\ r.started = row[j].started
          BY <2>1 DEF Rows
    <3>2. Save(j, r, ack) /\ Held(w) /\ UNCHANGED open
          BY <2>18, <2>a DEF RecordInserted
    <3> HIDE DEF r
    <3>3. j \in open => row[j].started
          BY <2>3, <2>4, <3>2 DEF Good, Parked
    <3>4. OpenOK
          BY <2>4, <2>9, <3>1, <3>2, <3>3
    <3> QED
        BY <2>6, <2>7, <2>18, <3>4 DEF RecordInserted
  <2>19. ASSUME NEW ack \in BOOLEAN, Succeed(w, ack) PROVE WorkOK /\ OpenOK
         BY <2>6, <2>10, <2>19, <2>a DEF Succeed
  <2>20. ASSUME NEW ack \in BOOLEAN, Fail(w, ack) PROVE WorkOK /\ OpenOK
    <3>1. PICK window \in BOOLEAN :
             /\ Save(j, FailureTransition(row[j], work[w].err, window), ack)
             /\ Closes(j, FailureTransition(row[j], work[w].err, window))
          BY <2>20, <2>a DEF Fail
    <3> QED
        BY <2>6, <2>10, <2>20, <3>1 DEF Fail
  <2> QED
      BY <1>3, <2>11, <2>12, <2>13, <2>14, <2>15, <2>16, <2>17, <2>18, <2>19, <2>20
      DEF Worker
<1> QED
    BY <1>2, <1>3, OtherSteps

\* A promote of a job without a binding that was entered and whose outcome no row
\* records is never activated again, by the expired-lease recovery, the sweep or
\* the operator: its row keeps the started marker or is parked for inspection.
\* Two owners of a lane are excluded as in OneOwner, because the recovery of an
\* expired row with another owner parks it as a conflict, which recover accepts.
THEOREM OpenPromoteStaysClosed ==
    ASSUME LateInline = FALSE
    PROVE  Spec => []OpenPromoteIsNotReplayed
<1>1. Init => OwnerInv
      BY DEF Init, OwnerInv, LaneGuard, OneOwnerPerAssertion, Owns, Obligated, NoRow, Active
<1>2. QueueInv /\ OwnerInv /\ [Next]_vars => OwnerInv'
      BY OwnerStep
<1>3. Init => OpenInv
      BY DEF Init, OpenInv, Idle
<1>4. QueueInv /\ OwnerInv /\ OpenInv /\ [Next]_vars => OpenInv'
      BY OpenStep
<1>5. OpenInv => OpenPromoteIsNotReplayed
      BY DEF OpenInv, OpenPromoteIsNotReplayed, Parked, Active
<1> QED
    BY <1>1, <1>2, <1>3, <1>4, <1>5, QueueInvariant, PTL DEF Spec
=============================================================================
