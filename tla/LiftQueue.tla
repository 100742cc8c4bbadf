------------------------------ MODULE LiftQueue ------------------------------
(***************************************************************************)
(* The async lift queue on its named knowledge-asset lane: a job is        *)
(* admitted once per asset, claimed by a wallet under a lease, validated,  *)
(* signed, written ahead as broadcast and only then sent.  From that write *)
(* on, what happens to the job is decided by what the chain says of its    *)
(* transaction: by the detached executor, by the reconciliation pass, or,  *)
(* once the job has failed, by the proof-first dispatcher.                 *)
(*                                                                         *)
(* A queue method runs under the job's transition lock, and where the code *)
(* takes it under the claim lock, and is one step.  The exception is the   *)
(* wallet release of the lanes that hold only the job lock: the lock row   *)
(* is read, and later deleted by wallet id (SlowRelease).  Time is what    *)
(* the code compares: a lease has run out or not; retries are due at any   *)
(* time.  The chain is final as soon as a transaction is mined.            *)
(***************************************************************************)
EXTENDS Integers, FiniteSets

CONSTANTS
    Assets,       \* lifecycle keys: what is published
    Updates,      \* assets whose publish is an update, not a create
    Wallets,      \* signing wallets, one worker loop each
    MaxJobs,      \* per asset, the jobs ever admitted for it
    MaxSigns,     \* transactions ever signed
    MaxRetries,   \* retries.maxRetries
    MaxFaults,    \* crashes, torn writes, evictions, failed repairs
    MaxOther,     \* other transactions of a wallet
    MaxOverrides, \* jobs with a possible effect an operator clears by id
    SlowRelease   \* a delete of a wallet lock may be slow

ASSUME AssetAssumption == Updates \subseteq Assets
ASSUME LiftBoundAssumption ==
    /\ MaxJobs \in [Assets -> Nat] /\ MaxSigns \in Nat /\ MaxRetries \in Nat
    /\ MaxFaults \in Nat /\ MaxOther \in Nat /\ MaxOverrides \in Nat
    /\ SlowRelease \in BOOLEAN

VARIABLES
    job,      \* the durable job rows
    lock,     \* the durable wallet locks
    work,     \* the claim each wallet's loop is processing (memory)
    detached, \* executions that outlived their worker's turn (memory)
    asked,    \* the chain's answer about a held job, not yet applied (memory)
    deleting, \* per wallet, the job whose release is about to delete the lock
    txs,      \* the signed transactions and what became of them (chain)
    mined,    \* per wallet, how many of its nonces are consumed (chain)
    signed,   \* transactions signed so far
    waived,   \* what an operator gave up by clearing a job (NoTx: nothing sent)
    others, faults

queueVars == <<job, lock>>
chainVars == <<txs, mined, others>>
vars == <<job, lock, work, detached, asked, deleting, txs, mined, signed,
          waived, others, faults>>

Ids == UNION {{a} \X (1..MaxJobs[a]) : a \in Assets}
TxIds == 1..MaxSigns
NoTx == 0
NoJob == <<"none", 0>>
Tokens == 1..(3 * Cardinality(Ids) + 2 * Cardinality(Wallets) + 1)

States == {"none", "accepted", "claimed", "validated", "broadcast", "included",
           "finalized", "failed", "gone"}
\* Failure codes by what the registry says of them: retryable, terminal, a
\* broadcast whose effect is unknown, and the two proven ineffective.
Codes == {"none", "retryable", "terminal", "unsure", "reverted", "unfunded"}
Ineffective == {"reverted", "unfunded"}

Rows == [st: States, wallet: Wallets \cup {"none"}, token: Nat, tx: Nat, old: Nat,
         accounted: BOOLEAN, code: Codes, tries: 0..MaxRetries]
NoRow == [st |-> "none", wallet |-> "none", token |-> 0, tx |-> NoTx, old |-> NoTx,
          accounted |-> FALSE, code |-> "none", tries |-> 0]
NoLock == [job |-> NoJob, token |-> 0, live |-> FALSE]
Idle == [pc |-> "idle", job |-> NoJob, token |-> 0]
NoRun == [wallet |-> "none", token |-> 0, tx |-> NoTx]
Unasked == [row |-> NoRow, verdict |-> "none"]
NoSignature == [st |-> "none", job |-> NoJob, wallet |-> "none", nonce |-> 0]

\* The type of every variable of the queue, its workers and the chain.
TypeOK ==
    /\ job \in [Ids -> Rows]
    /\ lock \in [Wallets -> [job: Ids \cup {NoJob}, token: Nat, live: BOOLEAN]]
    /\ work \in [Wallets -> [pc: {"idle", "claimed", "validated", "sign", "send",
                                  "await"},
                             job: Ids \cup {NoJob}, token: Nat]]
    /\ detached \in [Ids -> [wallet: Wallets \cup {"none"}, token: Nat, tx: Nat]]
    /\ asked \in [Ids -> [row: Rows, verdict: {"none", "recovered", "reverted",
                                               "absent"}]]
    /\ deleting \in [Wallets -> Ids \cup {NoJob}]
    /\ txs \in [TxIds -> [st: {"none", "signed", "sent", "evicted", "mined",
                               "reverted"},
                          job: Ids \cup {NoJob}, wallet: Wallets \cup {"none"},
                          nonce: Nat]]
    /\ mined \in [Wallets -> Nat]
    /\ signed \in 0..MaxSigns
    /\ waived \subseteq TxIds \cup {NoTx}
    /\ others \in 0..MaxOther /\ faults \in 0..MaxFaults

Init ==
    /\ job = [j \in Ids |-> NoRow]
    /\ lock = [w \in Wallets |-> NoLock]
    /\ work = [w \in Wallets |-> Idle]
    /\ detached = [j \in Ids |-> NoRun]
    /\ asked = [j \in Ids |-> Unasked]
    /\ deleting = [w \in Wallets |-> NoJob]
    /\ txs = [t \in TxIds |-> NoSignature]
    /\ mined = [w \in Wallets |-> 0]
    /\ signed = 0 /\ waived = {} /\ others = 0 /\ faults = 0

-----------------------------------------------------------------------------
(***************************************************************************)
(* The chain, and the resolver's reading of it.                            *)
(***************************************************************************)

AssetOf(t) == txs[t].job[1]

\* A transaction that is out and whose nonce is still free.
CanLand(t) ==
    /\ txs[t].st \in {"sent", "evicted"}
    /\ txs[t].nonce >= mined[txs[t].wallet]

Landed(a) == \E t \in TxIds : txs[t].st = "mined" /\ AssetOf(t) = a

\* The asset's local VM pointer has advanced for certain: a job of the asset
\* finished with its transaction mined.  Before that it may lag the chain.
Advanced(a) ==
    \E t \in TxIds \ waived : /\ txs[t].st = "mined" /\ AssetOf(t) = a
                              /\ job[txs[t].job].st \in {"finalized", "gone"}

\* The three proofs of absence: not mined, its nonce consumed, and the
\* identity it pinned not minted.  An update's absence is never proven.
Absent(t) ==
    /\ txs[t].st \in {"signed", "sent", "evicted"}
    /\ txs[t].nonce < mined[txs[t].wallet]
    /\ AssetOf(t) \notin Updates
    /\ ~Landed(AssetOf(t))

\* Mutant of Verdict: a transaction no endpoint knows is taken for absent.
VerdictByLookup(t) ==
    CASE txs[t].st = "mined" -> "recovered"
      [] txs[t].st = "reverted" -> "reverted"
      [] txs[t].st \in {"signed", "evicted"} /\ AssetOf(t) \notin Updates -> "absent"
      [] OTHER -> "none"

\* resolvePublishTransaction through the node's chain proof resolver; "none"
\* stands for every answer that establishes nothing.
Verdict(t) ==
    CASE txs[t].st = "mined" -> "recovered"
      [] txs[t].st = "reverted" -> "reverted"
      [] Absent(t) -> "absent"
      [] OTHER -> "none"

-----------------------------------------------------------------------------
(***************************************************************************)
(* What a row says.                                                        *)
(***************************************************************************)

\* getLiftJobTransactionEvidence: its own transaction, or an inherited one.
Evidence(r) == IF r.tx # NoTx THEN r.tx ELSE r.old

\* hasBroadcastEvidence
HasEvidence(r) == r.tx # NoTx \/ (r.old # NoTx /\ ~r.accounted)

\* isHeldForChainProof
Held(r) == r.st = "failed" /\ HasEvidence(r) /\ r.code \notin Ineffective

InDoubt(r) == r.st \in {"broadcast", "included"} \/ Held(r)

\* Mutant of Mode: an in-flight transaction keeps its wallet only by lease.
ModeByLease(r) ==
    CASE r.st \in {"claimed", "validated", "broadcast", "included"} -> "lease"
      [] Held(r) -> "lease"
      [] OTHER -> "released"

\* classifyLiftJobOwnershipMode
Mode(r) ==
    CASE r.st \in {"claimed", "validated"} -> "lease"
      [] r.st \in {"broadcast", "included"} \/ Held(r) -> "proof"
      [] OTHER -> "released"

Matches(w, j) == lock[w].job = j /\ job[j].wallet = w /\ lock[w].token = job[j].token

\* isUsableActiveLock of the wallet's lock
Usable(w) ==
    /\ lock[w] # NoLock
    /\ Matches(w, lock[w].job)
    /\ LET r == job[lock[w].job]
       IN  \/ Mode(r) = "lease" /\ lock[w].live
           \/ Mode(r) = "proof" /\ txs[Evidence(r)].wallet = w

Active(j) == \E w \in Wallets : lock[w].job = j /\ Usable(w)

\* The worker's fence: its claim is the row's claim, the row is not terminal
\* and the wallet lock is usable.
Owns(w) ==
    /\ work[w].pc # "idle"
    /\ LET j == work[w].job
       IN  /\ job[j].wallet = w /\ job[j].token = work[w].token
           /\ job[j].st \in {"claimed", "validated", "broadcast", "included"}
           /\ lock[w].job = j /\ Usable(w)

Processing(j) == \E w \in Wallets : work[w].pc # "idle" /\ work[w].job = j

\* The job transition lock, while a slow release is under way.
JobLocked(j) == \E w \in Wallets : deleting[w] = j

Exists(j) == job[j].st \notin {"none", "gone"}

\* Mutant of Occupying: a job whose transaction is out no longer binds.
OccupyingPreSend(r) ==
    \/ r.st \in {"accepted", "claimed", "validated"}
    \/ r.st = "failed" /\ r.code = "retryable"

\* isOccupyingLifecycleJob
Occupying(r) ==
    \/ r.st \in {"accepted", "claimed", "validated", "broadcast", "included"}
    \/ r.st = "failed" /\ (r.code = "retryable" \/ Held(r))

\* selectLifecycleBindingJobs
Binding(a) ==
    {j \in Ids : /\ j[1] = a /\ Occupying(job[j])
                 /\ \/ job[j].st # "failed" \/ Held(job[j])
                    \/ \A n \in (j[2] + 1)..MaxJobs[a] : ~Exists(<<a, n>>)}

\* buildLiftJobAcceptedReset: the claim and the broadcast are dropped, the
\* hash travels on, and only a chain proof marks it accounted for.
Reset(r, proven) ==
    [NoRow EXCEPT !.st = "accepted", !.old = Evidence(r),
                  !.accounted = proven /\ Evidence(r) # NoTx, !.tries = r.tries]

\* A row that left every ownership mode: its claim is never read again.
Finalized(r) == [NoRow EXCEPT !.st = "finalized", !.tx = r.tx]
Failed(r, c) ==
    LET f == [r EXCEPT !.st = "failed", !.code = c]
    IN  IF Held(f) THEN f ELSE [f EXCEPT !.wallet = "none", !.token = 0]

\* releaseJobOwnership: the lock goes if it is the job's.
ReleasedBy(j) == [w \in Wallets |-> IF Matches(w, j) THEN NoLock ELSE lock[w]]

\* The least claim token that nothing in the system still names.
IsFresh(k) ==
    LET inUse == {job[j].token : j \in Ids} \cup {detached[j].token : j \in Ids}
                 \cup {lock[w].token : w \in Wallets}
                 \cup {work[w].token : w \in Wallets}
                 \cup {asked[j].row.token : j \in Ids}
    IN  k \notin inUse /\ \A m \in Tokens \ inUse : k <= m

Fault == faults < MaxFaults /\ faults' = faults + 1

-----------------------------------------------------------------------------
(***************************************************************************)
(* Admission and the operator's control of the queue.                      *)
(***************************************************************************)

\* enqueueKnowledgeAssetVmPublish with nothing bound to the asset: a new job.
Enqueue(a) ==
    /\ Binding(a) = {}
    /\ \E n \in 1..MaxJobs[a] :
         /\ job[<<a, n>>].st = "none" /\ \A m \in 1..(n - 1) : job[<<a, m>>].st # "none"
         /\ job' = [job EXCEPT ![<<a, n>>] = [NoRow EXCEPT !.st = "accepted"]]
    /\ UNCHANGED <<lock, work, detached, asked, deleting, chainVars, signed, waived,
                   faults>>

\* Mutant of Reaccept: the retry budget is not looked at.
ReacceptUncapped(j) ==
    /\ job[j].st = "failed" /\ ~Held(job[j]) /\ job[j].code = "retryable"
    /\ ~JobLocked(j)
    /\ job' = [job EXCEPT ![j] = [Reset(@, FALSE) EXCEPT !.tries = @ + 1]]
    /\ lock' = ReleasedBy(j)
    /\ UNCHANGED <<work, detached, asked, deleting, chainVars, signed, waived, faults>>

\* reacceptFailedJob: the due retry at claim time, retry(), and a re-submit,
\* which re-arms the budget once it is spent.
Reaccept(j) ==
    /\ job[j].st = "failed" /\ ~Held(job[j]) /\ job[j].code = "retryable"
    /\ ~JobLocked(j)
    /\ LET spent == job[j].tries >= MaxRetries
       IN  job' = [job EXCEPT ![j] = [Reset(job[j], FALSE) EXCEPT
                                        !.tries = IF spent THEN 0 ELSE job[j].tries + 1]]
    /\ lock' = ReleasedBy(j)
    /\ UNCHANGED <<work, detached, asked, deleting, chainVars, signed, waived, faults>>

\* cancel of an accepted job, and the clear by id of what is terminal and not
\* held; the bulk clear and the retention sweep, which keep a job whose removal
\* would bind a sibling, remove some of the same.
Remove(j) ==
    /\ \/ job[j].st \in {"accepted", "finalized"}
       \/ job[j].st = "failed" /\ ~Held(job[j])
    /\ ~JobLocked(j)
    /\ job' = [job EXCEPT ![j] = [NoRow EXCEPT !.st = "gone"]]
    /\ lock' = ReleasedBy(j)
    /\ UNCHANGED <<work, detached, asked, deleting, chainVars, signed, waived, faults>>

\* clearTerminalJob with the override, or of a held job that failed before it
\* sent: the operator gives up what the job may have done, even under a worker.
Override(j) ==
    /\ Cardinality(waived) < MaxOverrides
    /\ Held(job[j]) \/ job[j].st \in {"validated", "broadcast", "included"}
    /\ ~JobLocked(j)
    /\ waived' = waived \cup {Evidence(job[j])}
    /\ job' = [job EXCEPT ![j] = [NoRow EXCEPT !.st = "gone"]]
    /\ lock' = ReleasedBy(j)
    /\ UNCHANGED <<work, detached, asked, deleting, chainVars, signed, faults>>

-----------------------------------------------------------------------------
(***************************************************************************)
(* A wallet's worker.                                                      *)
(***************************************************************************)

\* An idle wallet whose lock binds nothing, and a queued job.
Claimable(w, j) ==
    /\ work[w].pc = "idle" /\ ~Usable(w)
    /\ job[j].st = "accepted" /\ ~JobLocked(j)

ClaimedRow(w, j, k) == [job[j] EXCEPT !.st = "claimed", !.wallet = w, !.token = k]

\* claimNext: the row is written, then the wallet lock.
Claim(w, j) ==
    /\ Claimable(w, j)
    /\ \E k \in Tokens :
         /\ IsFresh(k)
         /\ job' = [job EXCEPT ![j] = ClaimedRow(w, j, k)]
         /\ lock' = [lock EXCEPT ![w] = [job |-> j, token |-> k, live |-> TRUE]]
         /\ work' = [work EXCEPT ![w] = [pc |-> "claimed", job |-> j, token |-> k]]
    /\ UNCHANGED <<detached, asked, deleting, chainVars, signed, waived, faults>>

\* claimNext stopped between its two writes.
ClaimTorn(w, j) ==
    /\ Claimable(w, j) /\ Fault
    /\ \E k \in Tokens : IsFresh(k) /\ job' = [job EXCEPT ![j] = ClaimedRow(w, j, k)]
    /\ UNCHANGED <<lock, work, detached, asked, deleting, chainVars, signed, waived>>

\* The initial preflight, workspace read and content validation.
Validate(w) ==
    /\ work[w].pc = "claimed" /\ Owns(w) /\ ~JobLocked(work[w].job)
    /\ ~Advanced(work[w].job[1])
    /\ job' = [job EXCEPT ![work[w].job].st = "validated"]
    /\ lock' = [lock EXCEPT ![w].live = TRUE]
    /\ work' = [work EXCEPT ![w].pc = "validated"]
    /\ UNCHANGED <<detached, asked, deleting, chainVars, signed, waived, faults>>

\* The final preflight.
Preflight(w) ==
    /\ work[w].pc = "validated"
    /\ ~Advanced(work[w].job[1])
    /\ work' = [work EXCEPT ![w].pc = "sign"]
    /\ UNCHANGED <<job, lock, detached, asked, deleting, chainVars, signed, waived,
                   faults>>

\* Either preflight finds the asset's local VM pointer at the queued root, which
\* it reaches only with a transaction that landed.
Noop(w) ==
    /\ work[w].pc \in {"claimed", "validated"} /\ Owns(w) /\ ~JobLocked(work[w].job)
    /\ Landed(work[w].job[1])
    /\ job' = [job EXCEPT ![work[w].job] = Finalized(@)]
    /\ lock' = [lock EXCEPT ![w] = NoLock]
    /\ work' = [work EXCEPT ![w] = Idle]
    /\ UNCHANGED <<detached, asked, deleting, chainVars, signed, waived, faults>>

\* A failure before anything was sent, a write-ahead that was rolled back
\* included.  An inherited hash that is not accounted for holds the job.
FailPreSend(w) ==
    /\ work[w].pc \in {"claimed", "validated", "sign"} /\ Owns(w)
    /\ ~JobLocked(work[w].job)
    /\ \E c \in {"retryable", "terminal"} :
         LET f == Failed(job[work[w].job], c)
         IN  /\ job' = [job EXCEPT ![work[w].job] = f]
             /\ lock' = IF Held(f) THEN lock ELSE [lock EXCEPT ![w] = NoLock]
    /\ work' = [work EXCEPT ![w] = Idle]
    /\ UNCHANGED <<detached, asked, deleting, chainVars, signed, waived, faults>>

\* The next free nonce of a wallet, as its endpoint reports it.
NextNonce(w) ==
    mined[w] + Cardinality({t \in TxIds : txs[t].st = "sent" /\ txs[t].wallet = w
                                          /\ txs[t].nonce >= mined[w]})

Signs(w) ==
    /\ work[w].pc = "sign" /\ Owns(w) /\ ~JobLocked(work[w].job)
    /\ signed < MaxSigns
    /\ signed' = signed + 1
    /\ txs' = [txs EXCEPT ![signed + 1] = [st |-> "signed", job |-> work[w].job,
                                           wallet |-> w, nonce |-> NextNonce(w)]]

BroadcastRow(r) == [r EXCEPT !.st = "broadcast", !.tx = signed + 1, !.old = NoTx,
                             !.accounted = FALSE]

\* recordDurableBroadcastBeforeSend
WriteAhead(w) ==
    /\ Signs(w)
    /\ job' = [job EXCEPT ![work[w].job] = BroadcastRow(@)]
    /\ lock' = [lock EXCEPT ![w].live = TRUE]
    /\ work' = [work EXCEPT ![w].pc = "send"]
    /\ UNCHANGED <<detached, asked, deleting, mined, others, waived, faults>>

\* The write-ahead failed and so did its rollback: nothing is sent, and the
\* job fails from broadcast with the hash on its record.
WriteAheadStuck(w) ==
    /\ Signs(w) /\ Fault
    /\ job' = [job EXCEPT ![work[w].job] = Failed(BroadcastRow(@), "unsure")]
    /\ work' = [work EXCEPT ![w] = Idle]
    /\ UNCHANGED <<lock, detached, asked, deleting, mined, others, waived>>

\* The transaction a worker is about to send: the last one signed for its job.
SentTx(w) ==
    CHOOSE t \in TxIds : /\ txs[t].job = work[w].job
                         /\ \A u \in (t + 1)..MaxSigns : txs[u].job # work[w].job

\* The endpoint accepts the bytes: the acceptance is recorded and the
\* execution goes on detached from the worker.
SendAccepted(w) ==
    /\ work[w].pc = "send" /\ Owns(w) /\ ~JobLocked(work[w].job)
    /\ LET t == SentTx(w)
       IN  /\ txs[t].nonce >= mined[w]
           /\ txs' = [txs EXCEPT ![t].st = "sent"]
           /\ detached' = [detached EXCEPT ![work[w].job] =
                             [wallet |-> w, token |-> work[w].token, tx |-> t]]
    /\ work' = [work EXCEPT ![w] = Idle]
    /\ UNCHANGED <<job, lock, asked, deleting, mined, others, signed, waived, faults>>

\* The same where the execution cannot be detached: the worker waits for it.
SendInline(w) ==
    /\ work[w].pc = "send" /\ Owns(w) /\ ~JobLocked(work[w].job)
    /\ txs[SentTx(w)].nonce >= mined[w]
    /\ txs' = [txs EXCEPT ![SentTx(w)].st = "sent"]
    /\ work' = [work EXCEPT ![w].pc = "await"]
    /\ UNCHANGED <<job, lock, detached, asked, deleting, mined, others, signed, waived,
                   faults>>

\* The awaited result is recorded and finishes the job.
InlineResult(w) ==
    /\ work[w].pc = "await" /\ Owns(w) /\ ~JobLocked(work[w].job)
    /\ txs[SentTx(w)].st = "mined"
    /\ job' = [job EXCEPT ![work[w].job] = Finalized(@)]
    /\ lock' = [lock EXCEPT ![w] = NoLock]
    /\ work' = [work EXCEPT ![w] = Idle]
    /\ UNCHANGED <<detached, asked, deleting, chainVars, signed, waived, faults>>

\* The awaited result breaks its contract: the job fails from broadcast and
\* its transaction, mined as it is, has to be accounted for.
InlineMismatch(w) ==
    /\ work[w].pc = "await" /\ Owns(w) /\ ~JobLocked(work[w].job) /\ Fault
    /\ txs[SentTx(w)].st = "mined"
    /\ job' = [job EXCEPT ![work[w].job] = Failed(@, "unsure")]
    /\ work' = [work EXCEPT ![w] = Idle]
    /\ UNCHANGED <<lock, detached, asked, deleting, chainVars, signed, waived>>

\* The wait ends in a timeout or a revert: the job stays broadcast.
InlineUnclear(w) ==
    /\ work[w].pc = "await"
    /\ work' = [work EXCEPT ![w] = Idle]
    /\ UNCHANGED <<job, lock, detached, asked, deleting, chainVars, signed, waived,
                   faults>>

\* An error that does not say whether the bytes left: the job stays broadcast.
SendUnclear(w) ==
    /\ work[w].pc = "send"
    /\ \E st \in {"signed", "sent"} :
         /\ st = "sent" => txs[SentTx(w)].nonce >= mined[w]
         /\ txs' = [txs EXCEPT ![SentTx(w)].st = st]
    /\ work' = [work EXCEPT ![w] = Idle]
    /\ UNCHANGED <<job, lock, detached, asked, deleting, mined, others, signed, waived,
                   faults>>

\* A definitive refusal before acceptance (no funds for gas).
SendRejected(w) ==
    /\ work[w].pc = "send" /\ Owns(w) /\ ~JobLocked(work[w].job)
    /\ job' = [job EXCEPT ![work[w].job] = Failed(@, "unfunded")]
    /\ lock' = [lock EXCEPT ![w] = NoLock]
    /\ work' = [work EXCEPT ![w] = Idle]
    /\ UNCHANGED <<detached, asked, deleting, chainVars, signed, waived, faults>>

\* A worker that finds its claim stale: a claim that was replaced is left
\* alone, an expired one is reset (recoverUnreplacedExpiredClaim).
Stale(w) ==
    /\ work[w].pc \in {"claimed", "validated", "sign"} /\ ~Owns(w)
    /\ LET j == work[w].job
           mine == /\ job[j].wallet = w /\ job[j].token = work[w].token
                   /\ job[j].st \in {"claimed", "validated"}
       IN  /\ ~JobLocked(j)
           /\ job' = IF mine THEN [job EXCEPT ![j] = Reset(@, FALSE)] ELSE job
           /\ lock' = IF mine THEN ReleasedBy(j) ELSE lock
    /\ work' = [work EXCEPT ![w] = Idle]
    /\ UNCHANGED <<detached, asked, deleting, chainVars, signed, waived, faults>>

\* A persistence fault escapes the worker; its processing marker is cleared.
Escape(w) ==
    /\ work[w].pc # "idle" /\ Fault
    /\ work' = [work EXCEPT ![w] = Idle]
    /\ UNCHANGED <<job, lock, detached, asked, deleting, chainVars, signed, waived>>

-----------------------------------------------------------------------------
(***************************************************************************)
(* The detached executor.                                                  *)
(***************************************************************************)

\* Mutant of Certified: the result's own word is taken for a mined receipt.
CertifiedByResult(j) == detached[j] # NoRun

\* localFinalizationComplete and confirmed, with the on-chain result.
Certified(j) == detached[j] # NoRun /\ txs[detached[j].tx].st = "mined"

\* recordDetachedPublishResult: a certified result finishes the very claim
\* and transaction it was started for.
SettleDetached(j) ==
    /\ Certified(j) /\ ~JobLocked(j)
    /\ LET d == detached[j]
           mine == /\ job[j].st \in {"broadcast", "included"}
                   /\ job[j].token = d.token /\ job[j].wallet = d.wallet
                   /\ job[j].tx = d.tx
       IN  /\ job' = IF mine THEN [job EXCEPT ![j] = Finalized(@)] ELSE job
           /\ lock' = IF mine THEN ReleasedBy(j) ELSE lock
    /\ detached' = [detached EXCEPT ![j] = NoRun]
    /\ UNCHANGED <<work, asked, deleting, chainVars, signed, waived, faults>>

\* Every other end of a detached execution writes nothing.
AbandonDetached(j) ==
    /\ detached[j] # NoRun
    /\ detached' = [detached EXCEPT ![j] = NoRun]
    /\ UNCHANGED <<job, lock, work, asked, deleting, chainVars, signed, waived, faults>>

\* A receipt hint for the persisted transaction, confirmed by the node's own
\* chain read.
HintProven(j) ==
    /\ detached[j] # NoRun /\ ~JobLocked(j)
    /\ job[j].st \in {"broadcast", "included"} /\ job[j].tx = detached[j].tx
    /\ Verdict(job[j].tx) = "recovered"

\* releaseWalletsOnExecutorProofHints: inclusion is written, then the wallet
\* is released while the executor finishes its local tail.
EarlyRelease(j) ==
    /\ HintProven(j) /\ (job[j].st = "broadcast" \/ Active(j))
    /\ job' = [job EXCEPT ![j].st = "included"]
    /\ lock' = ReleasedBy(j)
    /\ UNCHANGED <<work, detached, asked, deleting, chainVars, signed, waived, faults>>

\* The same, with the wallet release failing: the hint survives.
EarlyReleaseTorn(j) ==
    /\ HintProven(j) /\ job[j].st = "broadcast" /\ Fault
    /\ job' = [job EXCEPT ![j].st = "included"]
    /\ UNCHANGED <<lock, work, detached, asked, deleting, chainVars, signed, waived>>

-----------------------------------------------------------------------------
(***************************************************************************)
(* The reconciliation pass.                                                *)
(***************************************************************************)

\* The release of a lane that holds the job lock only: the lock is deleted
\* now, or the delete of what was read as the job's lock is still to come.
ReleaseLater(j) ==
    \/ /\ lock' = ReleasedBy(j)
       /\ UNCHANGED deleting
    \/ /\ SlowRelease
       /\ \E w \in Wallets : Matches(w, j) /\ deleting' = [deleting EXCEPT ![w] = j]
       /\ UNCHANGED lock

\* The second half of releaseJobOwnership: a delete by wallet id.
FinishRelease(w) ==
    /\ deleting[w] # NoJob
    /\ lock' = [lock EXCEPT ![w] = NoLock]
    /\ deleting' = [deleting EXCEPT ![w] = NoJob]
    /\ UNCHANGED <<job, work, detached, asked, chainVars, signed, waived, faults>>

\* Mutant of Actionable: the pass does not look for a worker on the job.
ActionableAlways(j) ==
    job[j].st \in {"broadcast", "included"} /\ ~JobLocked(j)

\* Mutant of Actionable: only jobs that still hold their wallet are looked at.
ActionableLocked(j) ==
    /\ job[j].st \in {"broadcast", "included"} /\ Active(j)
    /\ ~Processing(j) /\ detached[j] = NoRun /\ ~JobLocked(j)

\* isReconciliationActionable
Actionable(j) ==
    /\ job[j].st \in {"broadcast", "included"}
    /\ ~Processing(j) /\ detached[j] = NoRun /\ ~JobLocked(j)

\* recoverKnowledgeAssetVmPublishInterrupted: the wallet of a proven publish
\* is released even when its local repair has to be tried again.
Reconcile(j) ==
    /\ Actionable(j)
    /\ CASE Verdict(job[j].tx) = "recovered" ->
              /\ lock' = ReleasedBy(j) /\ UNCHANGED deleting
              /\ \/ job' = [job EXCEPT ![j] = Finalized(@)] /\ UNCHANGED faults
                 \/ Fault /\ UNCHANGED job
         [] Verdict(job[j].tx) = "reverted" ->
              /\ job' = [job EXCEPT ![j] = Failed(@, "reverted")]
              /\ lock' = ReleasedBy(j) /\ UNCHANGED <<deleting, faults>>
         [] Verdict(job[j].tx) = "absent" ->
              /\ job' = [job EXCEPT ![j] = Reset(@, TRUE)]
              /\ ReleaseLater(j) /\ UNCHANGED faults
         [] OTHER -> FALSE
    /\ UNCHANGED <<work, detached, asked, chainVars, signed, waived>>

\* recoverInterruptedPreBroadcastJobs
RecoverPreBroadcast(j) ==
    /\ job[j].st \in {"claimed", "validated"}
    /\ ~Processing(j) /\ ~Active(j) /\ ~JobLocked(j)
    /\ job' = [job EXCEPT ![j] = Reset(@, FALSE)]
    /\ ReleaseLater(j)
    /\ UNCHANGED <<work, detached, asked, chainVars, signed, waived, faults>>

\* sweepStaleOwnership
SweepLock(w) ==
    /\ lock[w] # NoLock /\ ~Usable(w) /\ ~JobLocked(lock[w].job)
    /\ lock' = [lock EXCEPT ![w] = NoLock]
    /\ UNCHANGED <<job, work, detached, asked, deleting, chainVars, signed, waived,
                   faults>>

\* The dispatcher asks the chain about a held job, outside every lock.
AskHeld(j) ==
    /\ Held(job[j]) /\ asked[j] = Unasked
    /\ Verdict(Evidence(job[j])) # "none"
    /\ asked' = [asked EXCEPT ![j] = [row |-> job[j],
                                      verdict |-> Verdict(Evidence(job[j]))]]
    /\ UNCHANGED <<job, lock, work, detached, deleting, chainVars, signed, waived,
                   faults>>

\* Mutant of SameHeld: the answer is applied to whatever is there now.
SameHeldAny(j) == TRUE

\* isSameHeldFailedJob
SameHeld(j) == job[j] = asked[j].row

\* decideChainProofDisposition and what it does to the row.  The code would also
\* finalize a row by the hash it inherited (tx = NoTx); a row only inherits a hash
\* that was proven absent, so its transaction never lands and the verdict is
\* "recovered" for a row's own hash only.
Disposed(r, verdict) ==
    CASE verdict = "recovered" /\ r.tx # NoTx -> Finalized(r)
      [] verdict = "reverted" /\ r.tx # NoTx -> Failed(r, "reverted")
      [] verdict = "reverted" /\ r.tx = NoTx /\ AssetOf(r.old) \notin Updates -> Reset(r, TRUE)
      [] verdict = "absent" -> Reset(r, TRUE)
      [] OTHER -> r

\* dispatchOneHeldJob, under claim and job lock: the verdict is applied to the
\* job it was asked about and to no other.
ApplyHeld(j) ==
    /\ asked[j] # Unasked /\ ~JobLocked(j)
    /\ asked' = [asked EXCEPT ![j] = Unasked]
    /\ \/ /\ SameHeld(j)
          /\ lock' = ReleasedBy(j)
          /\ \/ /\ job' = [job EXCEPT ![j] = Disposed(asked[j].row, asked[j].verdict)]
                /\ UNCHANGED faults
             \/ asked[j].verdict = "recovered" /\ Fault /\ UNCHANGED job
       \/ ~SameHeld(j) /\ UNCHANGED <<job, lock, faults>>
    /\ UNCHANGED <<work, detached, deleting, chainVars, signed, waived>>

-----------------------------------------------------------------------------
(***************************************************************************)
(* The chain, time and failures of the process.                            *)
(***************************************************************************)

\* A transaction is executed when its nonce is next.  A second create of an
\* asset reverts; any transaction may.
Mine(t) ==
    /\ CanLand(t) /\ txs[t].nonce = mined[txs[t].wallet]
    /\ \E st \in {"mined", "reverted"} :
         /\ AssetOf(t) \notin Updates /\ Landed(AssetOf(t)) => st = "reverted"
         /\ txs' = [txs EXCEPT ![t].st = st]
    /\ mined' = [mined EXCEPT ![txs[t].wallet] = @ + 1]
    /\ UNCHANGED <<job, lock, work, detached, asked, deleting, signed, waived, others,
                   faults>>

\* A pool forgets a transaction; another one may still hold it.
Evict(t) ==
    /\ txs[t].st = "sent" /\ Fault
    /\ txs' = [txs EXCEPT ![t].st = "evicted"]
    /\ UNCHANGED <<job, lock, work, detached, asked, deleting, mined, signed, waived,
                   others>>

\* Something else sent from the wallet takes the nonce no pool has in use.
OtherSend(w) ==
    /\ others < MaxOther /\ others' = others + 1
    /\ ~\E t \in TxIds : txs[t].st = "sent" /\ txs[t].wallet = w
                         /\ txs[t].nonce >= mined[w]
    /\ mined' = [mined EXCEPT ![w] = @ + 1]
    /\ UNCHANGED <<job, lock, work, detached, asked, deleting, txs, signed, waived,
                   faults>>

\* A lease runs out.
Expire(w) ==
    /\ lock[w].live
    /\ lock' = [lock EXCEPT ![w].live = FALSE]
    /\ UNCHANGED <<job, work, detached, asked, deleting, chainVars, signed, waived,
                   faults>>

\* The process dies and comes back with what the store holds.
Crash ==
    /\ Fault
    /\ work' = [w \in Wallets |-> Idle]
    /\ detached' = [j \in Ids |-> NoRun]
    /\ asked' = [j \in Ids |-> Unasked]
    /\ deleting' = [w \in Wallets |-> NoJob]
    /\ UNCHANGED <<job, lock, chainVars, signed, waived>>

Control == \E a \in Assets : Enqueue(a)
Operator(j) == Reaccept(j) \/ Remove(j) \/ Override(j)
Claims(w) == \E j \in Ids : Claim(w, j) \/ ClaimTorn(w, j)
Sends(w) == SendAccepted(w) \/ SendInline(w) \/ SendUnclear(w) \/ SendRejected(w)
Inline(w) == InlineResult(w) \/ InlineMismatch(w) \/ InlineUnclear(w)
Worker(w) ==
    \/ Validate(w) \/ Preflight(w) \/ Noop(w) \/ FailPreSend(w)
    \/ WriteAhead(w) \/ WriteAheadStuck(w) \/ Sends(w) \/ Inline(w)
    \/ Stale(w)
Detached(j) ==
    SettleDetached(j) \/ AbandonDetached(j) \/ EarlyRelease(j) \/ EarlyReleaseTorn(j)
Pass(j) == Reconcile(j) \/ RecoverPreBroadcast(j) \/ AskHeld(j) \/ ApplyHeld(j)

Next ==
    \/ Control
    \/ \E j \in Ids : Operator(j) \/ Detached(j) \/ Pass(j)
    \/ \E w \in Wallets : Claims(w) \/ Worker(w) \/ Escape(w) \/ FinishRelease(w)
                          \/ SweepLock(w) \/ OtherSend(w) \/ Expire(w)
    \/ \E t \in TxIds : Mine(t) \/ Evict(t)
    \/ Crash

Spec == Init /\ [][Next]_vars

\* The runner's pass comes around for every job; a worker's turn and a
\* detached execution end; a store delete completes.
Fairness ==
    /\ \A j \in Ids : /\ WF_vars(Reconcile(j)) /\ WF_vars(AskHeld(j))
                      /\ WF_vars(ApplyHeld(j))
                      /\ WF_vars(SettleDetached(j) \/ AbandonDetached(j))
    /\ \A w \in Wallets : WF_vars(Worker(w)) /\ WF_vars(FinishRelease(w))

FairSpec == Spec /\ Fairness

-----------------------------------------------------------------------------
(***************************************************************************)
(* Properties.                                                             *)
(***************************************************************************)

WaivedAsset(a) == \E t \in waived \ {NoTx} : AssetOf(t) = a

\* An asset is published once: of the transactions signed for it, over all
\* its jobs, retries, resets and restarts, at most one has landed or still
\* can, unless an operator cleared a job whose transaction was in doubt.
PublishedOnce ==
    \A t, u \in TxIds :
        /\ t # u /\ txs[t].job # NoJob /\ txs[u].job # NoJob
        /\ AssetOf(t) = AssetOf(u) /\ ~WaivedAsset(AssetOf(t))
        /\ CanLand(t) \/ txs[t].st = "mined"
        => ~(CanLand(u) \/ txs[u].st = "mined")

\* While a transaction can still land, the wallet that signed it is reserved
\* for its job: no lease, reset or other job's release frees the nonce.
OpenTxOwnsWallet ==
    \A t \in TxIds \ waived :
        CanLand(t) => /\ Usable(txs[t].wallet)
                      /\ lock[txs[t].wallet].job = txs[t].job

\* The queue never forgets a transaction that is out: one that can land is
\* named by a job that waits for the chain, one that landed by such a job or
\* by one that is done with it.
EvidenceKept ==
    \A t \in TxIds \ waived :
        LET r == job[txs[t].job]
        IN  /\ CanLand(t) => InDoubt(r) /\ r.tx = t
            /\ txs[t].st = "mined" => \/ InDoubt(r) /\ r.tx = t
                                      \/ r.st \in {"finalized", "gone"}

\* A finalized job's asset is on the chain, whether the job finished by its
\* result, by proof or because a preflight found nothing to do.
FinalizedIsLanded ==
    \A j \in Ids : job[j].st = "finalized" => Landed(j[1])

\* Nobody moves a job under a worker that is about to send or waits for what
\* it sent: the row is still the broadcast that worker wrote, under its claim,
\* or an operator removed the job.
SenderIsFenced ==
    \A w \in Wallets : work[w].pc \in {"send", "await"} /\ Exists(work[w].job) =>
        LET r == job[work[w].job]
        IN  /\ r.st = "broadcast" /\ r.wallet = w /\ r.token = work[w].token
            /\ txs[r.tx].st = "signed" <=> work[w].pc = "send"

\* A job that was removed does not come back, whatever verdict, result or
\* reset was under way for it.
RemovedStaysRemoved ==
    [][\A j \in Ids : job[j].st = "gone" => job'[j].st = "gone"]_vars

Resolved(t) == txs[t].st \in {"mined", "reverted"} \/ Absent(t)

\* Once the chain has settled a job's transaction, the job stops waiting for
\* it: it is finalized, failed for good, or queued again.  (Only an absence can
\* be taken back, when a transaction an operator gave up mints the asset.)
DoubtEnds ==
    \A j \in Ids, t \in TxIds :
        LET waits == InDoubt(job[j]) /\ job[j].tx = t /\ Resolved(t)
        IN  waits ~> ~waits
=============================================================================
