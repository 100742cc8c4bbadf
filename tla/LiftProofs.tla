------------------------------ MODULE LiftProofs ------------------------------
(* Theorems about the async lift queue, for every set of assets and wallets   *)
(* and every bound on jobs, signatures, retries, faults and overrides.        *)
EXTENDS LiftQueue, FiniteSetTheorems, TLAPS

(* The transactions signed so far are numbered without gaps.                  *)
TxInv ==
    \A t \in TxIds :
        IF t <= signed
        THEN txs[t].st # "none" /\ txs[t].job \in Ids /\ txs[t].wallet \in Wallets
        ELSE txs[t] = NoSignature

(* A transaction that did nothing and never will.                             *)
Dead(t) ==
    \/ txs[t].st = "reverted"
    \/ /\ txs[t].st \in {"signed", "sent", "evicted"}
       /\ txs[t].nonce < mined[txs[t].wallet]

(* A row names transactions of its own job; what it inherited is dead.        *)
RowInv ==
    \A j \in Ids : LET r == job[j] IN
        /\ r.tx # NoTx => r.tx \in 1..signed /\ txs[r.tx].job = j
        /\ r.old # NoTx => r.old \in 1..signed /\ txs[r.old].job = j /\ Dead(r.old)
        /\ r.st \in {"broadcast", "included"} => r.tx # NoTx
        /\ r.st \in {"none", "gone", "accepted", "claimed", "validated"} => r.tx = NoTx

(* A worker whose wallet the row still names is where the row is.             *)
WorkInv ==
    \A w \in Wallets : work[w].pc # "idle" =>
        /\ work[w].job \in Ids
        /\ LET r == job[work[w].job] IN
           r.wallet = w /\ r.st \in {"claimed", "validated", "broadcast", "included"} =>
              /\ work[w].pc = "claimed" => r.st = "claimed"
              /\ work[w].pc \in {"validated", "sign"} => r.st = "validated"
              /\ work[w].pc \in {"send", "await"} => r.st = "broadcast"

LastTx(j, t) ==
    /\ txs[t].job = j
    /\ \A u \in (t + 1)..MaxSigns : txs[u].job # j

(* A worker that sends has the last transaction of its job, which its row     *)
(* names unless an operator gave the transaction up.                          *)
SenderInv ==
    \A w \in Wallets : work[w].pc \in {"send", "await"} =>
        \E t \in TxIds :
           /\ LastTx(work[w].job, t) /\ txs[t].wallet = w
           /\ txs[t].st = "signed" <=> work[w].pc = "send"
           /\ LET r == job[work[w].job] IN
              \/ r.st = "broadcast" /\ r.wallet = w /\ r.token = work[w].token /\ r.tx = t
              \/ r.st = "gone" /\ t \in waived

(* A detached execution and a sending worker exclude each other.              *)
DetachedInv ==
    \A j \in Ids : detached[j] # NoRun =>
        /\ job[j].st \in {"broadcast", "included", "gone"}
        /\ job[j].st # "gone" =>
              \A w \in Wallets : ~(work[w].pc \in {"send", "await"} /\ work[w].job = j)

(* A verdict is about a held row and stays true of its transaction.           *)
AskedInv ==
    \A j \in Ids : asked[j] # Unasked =>
        LET r == asked[j].row
            t == Evidence(r)
        IN  /\ Held(r) /\ t \in 1..signed /\ txs[t].job = j
            /\ \/ asked[j].verdict = "recovered" /\ txs[t].st = "mined"
               \/ asked[j].verdict = "reverted" /\ txs[t].st = "reverted"
               \/ asked[j].verdict = "absent" /\ Dead(t)

QueueInv == /\ TypeOK /\ TxInv /\ RowInv /\ WorkInv /\ SenderInv /\ DetachedInv
            /\ AskedInv /\ EvidenceKept

(* The jobs of an asset are admitted in turn: all but the last are done.      *)
OrderInv ==
    \A j, k \in Ids : j[1] = k[1] /\ j[2] < k[2] /\ job[k].st # "none" =>
        job[j].st # "none" /\ ~Occupying(job[j])

(* Once a transaction of an asset has landed, none of its jobs gets as far as *)
(* signing another.                                                           *)
OnceInv ==
    \A t \in TxIds : txs[t].st = "mined" /\ ~WaivedAsset(AssetOf(t)) =>
        /\ \A j \in Ids : j[1] = AssetOf(t) =>
              /\ job[j].st # "validated"
              /\ InDoubt(job[j]) /\ job[j].tx # NoTx => job[j].tx = t
        /\ \A u \in TxIds : txs[u].st = "mined" /\ AssetOf(u) = AssetOf(t) => u = t

(* A transaction in doubt keeps the wallet lock of its job.                   *)
WalletInv ==
    /\ \A w \in Wallets : deleting[w] = NoJob
    /\ \A j \in Ids : InDoubt(job[j]) /\ job[j].tx # NoTx /\ txs[job[j].tx].st # "mined" =>
          Matches(txs[job[j].tx].wallet, j)

-------------------------------------------------------------------------------
(* Types.                                                                     *)

Locks == [job: Ids \cup {NoJob}, token: Nat, live: BOOLEAN]
Works == [pc: {"idle", "claimed", "validated", "sign", "send", "await"},
          job: Ids \cup {NoJob}, token: Nat]
Runs == [wallet: Wallets \cup {"none"}, token: Nat, tx: Nat]
Answers == [row: Rows, verdict: {"none", "recovered", "reverted", "absent"}]
Txs == [st: {"none", "signed", "sent", "evicted", "mined", "reverted"},
        job: Ids \cup {NoJob}, wallet: Wallets \cup {"none"}, nonce: Nat]

(* An id is its asset and its number among the asset's jobs.                  *)
LEMMA IdShape ==
    /\ \A j \in Ids : /\ j = <<j[1], j[2]>> /\ j[1] \in Assets
                      /\ j[2] \in 1..MaxJobs[j[1]] /\ j[2] \in Nat /\ j # NoJob
    /\ \A a \in Assets : \A n \in 1..MaxJobs[a] :
          <<a, n>> \in Ids /\ <<a, n>>[1] = a /\ <<a, n>>[2] = n
    /\ NoJob \notin Ids
<1>1. \A a \in Assets : MaxJobs[a] \in Nat
      BY LiftBoundAssumption
<1>2. ASSUME NEW j \in Ids
      PROVE  /\ j = <<j[1], j[2]>> /\ j[1] \in Assets
             /\ j[2] \in 1..MaxJobs[j[1]] /\ j[2] \in Nat /\ j # NoJob
  <2>1. PICK a \in Assets : j \in {a} \X (1..MaxJobs[a])
        BY DEF Ids
  <2> QED
      BY <1>1, <2>1 DEF NoJob
<1>3. ASSUME NEW a \in Assets, NEW n \in 1..MaxJobs[a] PROVE <<a, n>> \in Ids
  <2>1. <<a, n>> \in {a} \X (1..MaxJobs[a])
        OBVIOUS
  <2> QED
      BY <2>1 DEF Ids
<1> QED
    BY <1>2, <1>3

(* What the operators on rows return.                                         *)
LEMMA RowOperators ==
    ASSUME NEW r \in Rows
    PROVE  /\ NoRow \in Rows /\ [NoRow EXCEPT !.st = "accepted"] \in Rows
           /\ [NoRow EXCEPT !.st = "gone"] \in Rows
           /\ Evidence(r) \in Nat
           /\ Finalized(r) \in Rows
           /\ \A c \in Codes : Failed(r, c) \in Rows
           /\ \A b \in BOOLEAN : Reset(r, b) \in Rows
           /\ [Reset(r, FALSE) EXCEPT !.tries = IF r.tries >= MaxRetries THEN 0 ELSE r.tries + 1]
                 \in Rows
           /\ \A s \in States : [r EXCEPT !.st = s] \in Rows
           /\ \A w \in Wallets, k \in Nat :
                 [r EXCEPT !.st = "claimed", !.wallet = w, !.token = k] \in Rows
<1>1. NoRow \in Rows
      BY LiftBoundAssumption DEF NoRow, Rows, States, Codes, NoTx
<1>2. Evidence(r) \in Nat
      BY DEF Evidence, Rows
<1>3. Finalized(r) \in Rows
      BY <1>1 DEF Finalized, Rows, States
<1>4. ASSUME NEW c \in Codes PROVE Failed(r, c) \in Rows
  <2> DEFINE f == [r EXCEPT !.st = "failed", !.code = c]
  <2>1. f \in Rows
        BY DEF Rows, States
  <2>2. [f EXCEPT !.wallet = "none", !.token = 0] \in Rows
        BY <2>1 DEF Rows
  <2> QED
      BY <2>1, <2>2 DEF Failed
<1>5. ASSUME NEW b \in BOOLEAN PROVE Reset(r, b) \in Rows
  <2>1. (b /\ Evidence(r) # NoTx) \in BOOLEAN /\ r.tries \in 0..MaxRetries
        BY DEF Rows
  <2> QED
      BY <1>1, <1>2, <2>1 DEF Reset, Rows, States
<1>6. [Reset(r, FALSE) EXCEPT !.tries = IF r.tries >= MaxRetries THEN 0 ELSE r.tries + 1]
        \in Rows
  <2>1. PICK q \in Rows : q = Reset(r, FALSE)
        BY <1>5
  <2>2. PICK n \in 0..MaxRetries : n = IF r.tries >= MaxRetries THEN 0 ELSE r.tries + 1
        BY LiftBoundAssumption DEF Rows
  <2>3. [q EXCEPT !.tries = n] \in Rows
        BY DEF Rows
  <2> QED
      BY <2>1, <2>2, <2>3
<1>7. ASSUME NEW s \in States PROVE [r EXCEPT !.st = s] \in Rows
      BY DEF Rows
<1>8. ASSUME NEW w \in Wallets, NEW k \in Nat
      PROVE  [r EXCEPT !.st = "claimed", !.wallet = w, !.token = k] \in Rows
      BY DEF Rows, States
<1>9. [NoRow EXCEPT !.st = "accepted"] \in Rows /\ [NoRow EXCEPT !.st = "gone"] \in Rows
      BY <1>1 DEF Rows, States
<1> QED
    BY <1>1, <1>2, <1>3, <1>4, <1>5, <1>6, <1>7, <1>8, <1>9

(* The blank values have their types.                                         *)
LEMMA Blanks ==
    /\ NoRow \in Rows /\ NoLock \in Locks /\ Idle \in Works /\ NoRun \in Runs
    /\ Unasked \in Answers /\ NoSignature \in Txs
    /\ Idle.pc = "idle"
<1>1. NoRow \in Rows
      BY LiftBoundAssumption DEF NoRow, Rows, States, Codes, NoTx
<1> QED
    BY <1>1 DEF NoLock, Locks, Idle, Works, NoRun, Runs, NoTx, Unasked, Answers, NoSignature, Txs

(* The next nonce is a number.                                                *)
LEMMA NonceType ==
    ASSUME TypeOK, NEW w \in Wallets
    PROVE  NextNonce(w) \in Nat
<1> DEFINE S == {t \in TxIds : txs[t].st = "sent" /\ txs[t].wallet = w
                               /\ txs[t].nonce >= mined[w]}
<1>1. IsFiniteSet(TxIds)
      BY FS_Interval, LiftBoundAssumption DEF TxIds
<1>2. IsFiniteSet(S)
      BY <1>1, FS_Subset
<1>3. Cardinality(S) \in Nat
      BY <1>2, FS_CardinalityType
<1> QED
    BY <1>3 DEF NextNonce, TypeOK

(* A worker that sends sends the last transaction signed for its job.         *)
LEMMA SentIsLast ==
    ASSUME NEW w \in Wallets, NEW t \in TxIds, LastTx(work[w].job, t)
    PROVE  SentTx(w) = t
<1>1. MaxSigns \in Nat
      BY LiftBoundAssumption
<1>2. SentTx(w) \in TxIds /\ LastTx(work[w].job, SentTx(w))
      BY DEF SentTx, LastTx
<1>3. ASSUME NEW u \in TxIds, NEW v \in TxIds, u < v, LastTx(work[w].job, u),
             LastTx(work[w].job, v)
      PROVE  FALSE
      BY <1>1, <1>3 DEF TxIds, LastTx
<1> QED
    BY <1>1, <1>2, <1>3 DEF TxIds

JobT == job \in [Ids -> Rows]
LockT == lock \in [Wallets -> Locks]
WorkT == work \in [Wallets -> Works]
DetachedT == detached \in [Ids -> Runs]
AskedT == asked \in [Ids -> Answers]
DeletingT == deleting \in [Wallets -> Ids \cup {NoJob}]
ChainT == txs \in [TxIds -> Txs] /\ mined \in [Wallets -> Nat] /\ others \in 0..MaxOther
SignedT == signed \in 0..MaxSigns
WaivedT == waived \subseteq TxIds \cup {NoTx}
FaultsT == faults \in 0..MaxFaults

(* Every step keeps the type of every variable.                               *)
LEMMA TypeStep ==
    ASSUME TypeOK, RowInv, WorkInv, SenderInv, [Next]_vars
    PROVE  TypeOK'
<1> DEFINE All == /\ JobT /\ LockT /\ WorkT /\ DetachedT /\ AskedT /\ DeletingT /\ ChainT
                  /\ SignedT /\ WaivedT /\ FaultsT
<1> USE DEF JobT, LockT, WorkT, DetachedT, AskedT, DeletingT, ChainT, SignedT, WaivedT, FaultsT
<1>1. All
      BY DEF TypeOK, Locks, Works, Runs, Answers, Txs
<1>2. SUFFICES All'
      BY DEF TypeOK, Locks, Works, Runs, Answers, Txs
<1>3. MaxSigns \in Nat /\ MaxFaults \in Nat /\ MaxOther \in Nat
      BY LiftBoundAssumption
<1>4. /\ UNCHANGED job => JobT'
      /\ UNCHANGED lock => LockT'
      /\ UNCHANGED work => WorkT'
      /\ UNCHANGED detached => DetachedT'
      /\ UNCHANGED asked => AskedT'
      /\ UNCHANGED deleting => DeletingT'
      /\ UNCHANGED chainVars => ChainT'
      /\ UNCHANGED signed => SignedT'
      /\ UNCHANGED waived => WaivedT'
      /\ UNCHANGED faults => FaultsT'
      /\ Fault => FaultsT'
      BY <1>1, <1>3 DEF chainVars, Fault
<1>5. \A j \in Ids : job[j] \in Rows
      BY <1>1
<1>6. ASSUME NEW j, NEW r, job' = [job EXCEPT ![j] = r], j \in Ids => r \in Rows PROVE JobT'
      BY <1>1, <1>6
<1>7. ASSUME NEW w \in Wallets, work' = [work EXCEPT ![w] = Idle] PROVE WorkT'
      BY <1>1, <1>7, Blanks
<1>8. ASSUME NEW w \in Wallets, lock' = [lock EXCEPT ![w] = NoLock] PROVE LockT'
      BY <1>1, <1>8, Blanks
<1>9. ASSUME NEW j, lock' = ReleasedBy(j) PROVE LockT'
      BY <1>1, <1>9, Blanks DEF ReleasedBy
<1>10. ASSUME NEW j \in Ids, job' = [job EXCEPT ![j] = Reset(job[j], FALSE)] \/
                             job' = [job EXCEPT ![j] = Reset(job[j], TRUE)] PROVE JobT'
       BY <1>5, <1>6, <1>10, RowOperators
<1>11. ASSUME NEW j \in Ids, job' = [job EXCEPT ![j] = [NoRow EXCEPT !.st = "gone"]] PROVE JobT'
       BY <1>5, <1>6, <1>11, RowOperators
<1>12. ASSUME NEW w \in Wallets, NEW c \in Codes,
              job' = [job EXCEPT ![work[w].job] = Failed(@, c)] PROVE JobT'
       BY <1>5, <1>6, <1>12, RowOperators
<1>13. ASSUME NEW j, job' = [job EXCEPT ![j] = Finalized(@)] PROVE JobT'
       BY <1>5, <1>6, <1>13, RowOperators
<1>14. ASSUME NEW w \in Wallets, NEW t, NEW x \in {"signed", "sent", "evicted", "mined", "reverted"},
              txs' = [txs EXCEPT ![t].st = x], UNCHANGED <<mined, others>>
       PROVE  ChainT'
  <2>1. \A u \in TxIds : [txs[u] EXCEPT !.st = x] \in Txs
        BY <1>1 DEF Txs
  <2> QED
      BY <1>1, <1>14, <2>1
<1>15. ASSUME NEW w \in Wallets, work[w].pc = "send" PROVE SentTx(w) \in TxIds
       BY <1>15, SentIsLast DEF SenderInv
<1> HIDE DEF JobT, LockT, WorkT, DetachedT, AskedT, DeletingT, ChainT, SignedT, WaivedT, FaultsT
<1>20. CASE UNCHANGED vars
       BY <1>4, <1>20 DEF vars, chainVars
<1>21. ASSUME NEW a \in Assets, Enqueue(a) PROVE All'
  <2>1. JobT'
        BY <1>5, <1>6, <1>21, RowOperators, Blanks DEF Enqueue
  <2> QED
      BY <1>4, <1>21, <2>1 DEF Enqueue
<1>22. ASSUME NEW j \in Ids, Reaccept(j) PROVE All'
  <2> DEFINE r == [Reset(job[j], FALSE) EXCEPT
                     !.tries = IF job[j].tries >= MaxRetries THEN 0 ELSE job[j].tries + 1]
  <2>2. r \in Rows
        BY <1>5, RowOperators
  <2>3. job' = [job EXCEPT ![j] = r]
        BY <1>22 DEF Reaccept
  <2>1. JobT'
        BY <1>6, <2>2, <2>3
  <2> QED
      BY <1>4, <1>9, <1>22, <2>1 DEF Reaccept
<1>23. ASSUME NEW j \in Ids, Remove(j) PROVE All'
       BY <1>4, <1>9, <1>11, <1>23 DEF Remove
<1>24. ASSUME NEW j \in Ids, Override(j) PROVE All'
  <2>1. Evidence(job[j]) \in TxIds \cup {NoTx}
        BY <1>1, <1>3 DEF Evidence, RowInv, TxIds, SignedT
  <2>2. WaivedT'
        BY <1>1, <1>24, <2>1 DEF Override, WaivedT
  <2> QED
      BY <1>4, <1>9, <1>11, <1>24, <2>2 DEF Override
<1>25. ASSUME NEW w \in Wallets, NEW j \in Ids, Claim(w, j) PROVE All'
  <2>1. PICK k \in Tokens :
          /\ job' = [job EXCEPT ![j] = ClaimedRow(w, j, k)]
          /\ lock' = [lock EXCEPT ![w] = [job |-> j, token |-> k, live |-> TRUE]]
          /\ work' = [work EXCEPT ![w] = [pc |-> "claimed", job |-> j, token |-> k]]
        BY <1>25 DEF Claim
  <2>2. k \in Nat
        BY DEF Tokens
  <2>3. JobT'
        BY <1>5, <1>6, <2>1, <2>2, RowOperators DEF ClaimedRow
  <2>4. [job |-> j, token |-> k, live |-> TRUE] \in Locks
        BY <2>2 DEF Locks
  <2>5. [pc |-> "claimed", job |-> j, token |-> k] \in Works
        BY <2>2 DEF Works
  <2>6. LockT' /\ WorkT'
        BY <1>1, <2>1, <2>4, <2>5 DEF LockT, WorkT
  <2> QED
      BY <1>4, <1>25, <2>3, <2>6 DEF Claim
<1>26. ASSUME NEW w \in Wallets, NEW j \in Ids, ClaimTorn(w, j) PROVE All'
  <2>1. PICK k \in Tokens : job' = [job EXCEPT ![j] = ClaimedRow(w, j, k)]
        BY <1>26 DEF ClaimTorn
  <2>2. k \in Nat
        BY DEF Tokens
  <2>3. JobT'
        BY <1>5, <1>6, <2>1, <2>2, RowOperators DEF ClaimedRow
  <2> QED
      BY <1>4, <1>26, <2>3 DEF ClaimTorn
<1>27. ASSUME NEW w \in Wallets
       PROVE  /\ lock' = [lock EXCEPT ![w].live = TRUE] => LockT'
              /\ lock' = [lock EXCEPT ![w].live = FALSE] => LockT'
              /\ \A p \in {"validated", "sign", "send", "await"} :
                    work' = [work EXCEPT ![w].pc = p] => WorkT'
  <2>1. [lock[w] EXCEPT !.live = TRUE] \in Locks /\ [lock[w] EXCEPT !.live = FALSE] \in Locks
        BY <1>1 DEF LockT, Locks
  <2>2. ASSUME NEW p \in {"validated", "sign", "send", "await"}
        PROVE  [work[w] EXCEPT !.pc = p] \in Works
        BY <1>1 DEF WorkT, Works
  <2> QED
      BY <1>1, <2>1, <2>2 DEF LockT, WorkT
<1>28. ASSUME NEW w \in Wallets, Validate(w) PROVE All'
  <2>1. JobT'
    <3>1. job' = [job EXCEPT ![work[w].job] = [@ EXCEPT !.st = "validated"]]
          BY <1>28 DEF Validate
    <3>2. "validated" \in States
          BY DEF States
    <3> QED
        BY <1>5, <1>6, <3>1, <3>2, RowOperators
  <2> QED
      BY <1>4, <1>27, <1>28, <2>1 DEF Validate
<1>29. ASSUME NEW w \in Wallets, Preflight(w) PROVE All'
       BY <1>4, <1>27, <1>29 DEF Preflight
<1>30. ASSUME NEW w \in Wallets, Noop(w) PROVE All'
       BY <1>4, <1>7, <1>8, <1>13, <1>30 DEF Noop
<1>31. ASSUME NEW w \in Wallets, FailPreSend(w) PROVE All'
  <2>1. PICK c \in {"retryable", "terminal"} :
          /\ job' = [job EXCEPT ![work[w].job] = Failed(@, c)]
          /\ lock' = lock \/ lock' = [lock EXCEPT ![w] = NoLock]
        BY <1>31 DEF FailPreSend
  <2>2. c \in Codes
        BY DEF Codes
  <2> QED
      BY <1>4, <1>7, <1>8, <1>12, <1>31, <2>1, <2>2 DEF FailPreSend
<1>32. ASSUME NEW w \in Wallets, Signs(w), UNCHANGED <<mined, others>> PROVE ChainT' /\ SignedT'
  <2>1. [st |-> "signed", job |-> work[w].job, wallet |-> w, nonce |-> NextNonce(w)] \in Txs
        BY <1>1, NonceType DEF Txs, WorkT, Works
  <2>2. SignedT'
        BY <1>1, <1>3, <1>32 DEF Signs, SignedT
  <2>3. PICK x \in Txs : txs' = [txs EXCEPT ![signed + 1] = x]
        BY <1>32, <2>1 DEF Signs
  <2> QED
      BY <1>1, <1>32, <2>2, <2>3 DEF ChainT
<1>33. ASSUME NEW j \in Ids PROVE BroadcastRow(job[j]) \in Rows
  <2>1. PICK n \in Nat : n = signed + 1
        BY <1>1, <1>3 DEF SignedT
  <2>2. PICK r \in Rows : r = job[j]
        BY <1>5
  <2>3. [r EXCEPT !.st = "broadcast", !.tx = n, !.old = 0, !.accounted = FALSE] \in Rows
        BY DEF Rows, States
  <2> QED
      BY <2>1, <2>2, <2>3 DEF BroadcastRow, NoTx
<1>34. ASSUME NEW w \in Wallets, WriteAhead(w) PROVE All'
  <2>1. JobT'
        BY <1>6, <1>33, <1>34 DEF WriteAhead
  <2> QED
      BY <1>4, <1>27, <1>32, <1>34, <2>1 DEF WriteAhead
<1>35. ASSUME NEW w \in Wallets, WriteAheadStuck(w) PROVE All'
  <2>1. "unsure" \in Codes
        BY DEF Codes
  <2>2. JobT'
        BY <1>6, <1>33, <1>35, <2>1, RowOperators DEF WriteAheadStuck
  <2> QED
      BY <1>4, <1>7, <1>32, <1>35, <2>2 DEF WriteAheadStuck
<1>36. ASSUME NEW w \in Wallets, SendAccepted(w) PROVE All'
  <2>1. SentTx(w) \in Nat
        BY <1>3, <1>15, <1>36 DEF SendAccepted, TxIds
  <2>2. [wallet |-> w, token |-> work[w].token, tx |-> SentTx(w)] \in Runs
        BY <1>1, <2>1 DEF Runs, WorkT, Works
  <2>3. DetachedT'
        BY <1>1, <1>36, <2>2 DEF SendAccepted, DetachedT
  <2> QED
      BY <1>4, <1>7, <1>14, <1>36, <2>3 DEF SendAccepted
<1>37. ASSUME NEW w \in Wallets, SendInline(w) PROVE All'
       BY <1>4, <1>14, <1>27, <1>37 DEF SendInline
<1>38. ASSUME NEW w \in Wallets, SendUnclear(w) PROVE All'
       BY <1>4, <1>7, <1>14, <1>38 DEF SendUnclear
<1>39. ASSUME NEW w \in Wallets, SendRejected(w) PROVE All'
  <2>1. "unfunded" \in Codes
        BY DEF Codes
  <2> QED
      BY <1>4, <1>7, <1>8, <1>12, <1>39, <2>1 DEF SendRejected
<1>40. ASSUME NEW w \in Wallets, InlineResult(w) PROVE All'
       BY <1>4, <1>7, <1>8, <1>13, <1>40 DEF InlineResult
<1>41. ASSUME NEW w \in Wallets, InlineMismatch(w) PROVE All'
  <2>1. "unsure" \in Codes
        BY DEF Codes
  <2> QED
      BY <1>4, <1>7, <1>12, <1>41, <2>1 DEF InlineMismatch
<1>42. ASSUME NEW w \in Wallets, InlineUnclear(w) PROVE All'
       BY <1>4, <1>7, <1>42 DEF InlineUnclear
<1>43. ASSUME NEW w \in Wallets, Stale(w) PROVE All'
  <2>1. work[w].job \in Ids
        BY <1>43 DEF Stale, WorkInv
  <2>2. /\ job' = job \/ job' = [job EXCEPT ![work[w].job] = Reset(job[work[w].job], FALSE)]
        /\ lock' = lock \/ lock' = ReleasedBy(work[w].job)
        BY <1>43 DEF Stale
  <2> QED
      BY <1>4, <1>7, <1>9, <1>10, <1>43, <2>1, <2>2 DEF Stale
<1>44. ASSUME NEW w \in Wallets, Escape(w) PROVE All'
       BY <1>4, <1>7, <1>44 DEF Escape
<1>45. ASSUME NEW j \in Ids, detached' = [detached EXCEPT ![j] = NoRun] PROVE DetachedT'
       BY <1>1, <1>45, Blanks DEF DetachedT
<1>46. ASSUME NEW j \in Ids, SettleDetached(j) PROVE All'
  <2>1. /\ job' = job \/ job' = [job EXCEPT ![j] = Finalized(@)]
        /\ lock' = lock \/ lock' = ReleasedBy(j)
        BY <1>46 DEF SettleDetached
  <2> QED
      BY <1>4, <1>9, <1>13, <1>45, <1>46, <2>1 DEF SettleDetached
<1>47. ASSUME NEW j \in Ids, AbandonDetached(j) PROVE All'
       BY <1>4, <1>45, <1>47 DEF AbandonDetached
<1>48. ASSUME NEW j \in Ids, EarlyRelease(j) \/ EarlyReleaseTorn(j) PROVE All'
  <2>1. JobT'
    <3>1. job' = [job EXCEPT ![j] = [@ EXCEPT !.st = "included"]]
          BY <1>48 DEF EarlyRelease, EarlyReleaseTorn
    <3>2. "included" \in States
          BY DEF States
    <3> QED
        BY <1>5, <1>6, <3>1, <3>2, RowOperators
  <2> QED
      BY <1>4, <1>9, <1>48, <2>1 DEF EarlyRelease, EarlyReleaseTorn
<1>49. ASSUME NEW j \in Ids, ReleaseLater(j) PROVE LockT' /\ DeletingT'
  <2>1. CASE lock' = ReleasedBy(j) /\ UNCHANGED deleting
        BY <1>4, <1>9, <2>1
  <2>2. CASE (\E w \in Wallets : deleting' = [deleting EXCEPT ![w] = j]) /\ UNCHANGED lock
        BY <1>1, <1>4, <2>2 DEF DeletingT
  <2> QED
      BY <1>49, <2>1, <2>2 DEF ReleaseLater
<1>50. ASSUME NEW j \in Ids, Reconcile(j) PROVE All'
  <2>1. "reverted" \in Codes
        BY DEF Codes
  <2>2. ASSUME job' = [job EXCEPT ![j] = Failed(@, "reverted")] PROVE JobT'
        BY <1>5, <1>6, <2>1, <2>2, RowOperators
  <2>3. UNCHANGED <<work, detached, asked, chainVars, signed, waived>>
        BY <1>50 DEF Reconcile
  <2>4. \/ /\ lock' = ReleasedBy(j) /\ UNCHANGED deleting
           /\ \/ job' = [job EXCEPT ![j] = Finalized(@)] /\ UNCHANGED faults
              \/ Fault /\ UNCHANGED job
        \/ /\ job' = [job EXCEPT ![j] = Failed(@, "reverted")]
           /\ lock' = ReleasedBy(j) /\ UNCHANGED <<deleting, faults>>
        \/ /\ job' = [job EXCEPT ![j] = Reset(@, TRUE)]
           /\ ReleaseLater(j) /\ UNCHANGED faults
        BY <1>50 DEF Reconcile
  <2> QED
      BY <1>4, <1>9, <1>10, <1>13, <1>49, <2>2, <2>3, <2>4
<1>51. ASSUME NEW j \in Ids, RecoverPreBroadcast(j) PROVE All'
       BY <1>4, <1>10, <1>49, <1>51 DEF RecoverPreBroadcast
<1>52. ASSUME NEW w \in Wallets, FinishRelease(w) PROVE All'
  <2>1. DeletingT'
        BY <1>1, <1>52 DEF FinishRelease, DeletingT
  <2> QED
      BY <1>4, <1>8, <1>52, <2>1 DEF FinishRelease
<1>53. ASSUME NEW w \in Wallets, SweepLock(w) PROVE All'
       BY <1>4, <1>8, <1>53 DEF SweepLock
<1>54. ASSUME NEW j \in Ids, AskHeld(j) PROVE All'
  <2>1. Verdict(Evidence(job[j])) \in {"none", "recovered", "reverted", "absent"}
        BY DEF Verdict
  <2>2. [row |-> job[j], verdict |-> Verdict(Evidence(job[j]))] \in Answers
        BY <1>5, <2>1 DEF Answers
  <2>3. AskedT'
        BY <1>1, <1>54, <2>2 DEF AskHeld, AskedT
  <2> QED
      BY <1>4, <1>54, <2>3 DEF AskHeld
<1>55. ASSUME NEW j \in Ids, ApplyHeld(j) PROVE All'
  <2>1. AskedT'
        BY <1>1, <1>55, Blanks DEF ApplyHeld, AskedT
  <2>2. asked[j].row \in Rows
        BY <1>1 DEF AskedT, Answers
  <2>3. Disposed(asked[j].row, asked[j].verdict) \in Rows
    <3>1. "reverted" \in Codes
          BY DEF Codes
    <3> QED
        BY <2>2, <3>1, RowOperators DEF Disposed
  <2>4. JobT'
        BY <1>4, <1>6, <1>55, <2>3 DEF ApplyHeld
  <2> QED
      BY <1>4, <1>9, <1>55, <2>1, <2>4 DEF ApplyHeld
<1>56. ASSUME NEW t \in TxIds, Mine(t) PROVE All'
  <2>1. PICK x \in {"mined", "reverted"} : txs' = [txs EXCEPT ![t].st = x]
        BY <1>56 DEF Mine
  <2>2. [txs[t] EXCEPT !.st = x] \in Txs
        BY <1>1 DEF ChainT, Txs
  <2>3. ChainT'
    <3>1. txs' \in [TxIds -> Txs] /\ others' = others
          BY <1>1, <1>56, <2>1, <2>2 DEF Mine, ChainT
    <3>2. mined' = [mined EXCEPT ![txs[t].wallet] = @ + 1]
          BY <1>56 DEF Mine
    <3>3. mined' \in [Wallets -> Nat]
      <4>1. \A w \in Wallets : mined[w] + 1 \in Nat
            BY <1>1 DEF ChainT
      <4> QED
          BY <1>1, <3>2, <4>1 DEF ChainT
    <3> QED
        BY <1>1, <3>1, <3>3 DEF ChainT
  <2> QED
      BY <1>4, <1>56, <2>3 DEF Mine
<1>57. ASSUME NEW t \in TxIds, Evict(t) PROVE All'
  <2>1. [txs[t] EXCEPT !.st = "evicted"] \in Txs
        BY <1>1 DEF ChainT, Txs
  <2>2. ChainT'
        BY <1>1, <1>57, <2>1 DEF Evict, ChainT
  <2> QED
      BY <1>4, <1>57, <2>2 DEF Evict
<1>58. ASSUME NEW w \in Wallets, OtherSend(w) PROVE All'
  <2>1. ChainT'
        BY <1>1, <1>3, <1>58 DEF OtherSend, ChainT
  <2> QED
      BY <1>4, <1>58, <2>1 DEF OtherSend
<1>59. ASSUME NEW w \in Wallets, Expire(w) PROVE All'
       BY <1>4, <1>27, <1>59 DEF Expire
<1>60. CASE Crash
  <2>1. WorkT' /\ DetachedT' /\ AskedT' /\ DeletingT'
        BY <1>60, Blanks DEF Crash, WorkT, DetachedT, AskedT, DeletingT
  <2> QED
      BY <1>4, <1>60, <2>1 DEF Crash
<1> HIDE DEF All
<1> QED
    BY <1>2, <1>20, <1>21, <1>22, <1>23, <1>24, <1>25, <1>26, <1>28, <1>29, <1>30, <1>31, <1>34,
       <1>35, <1>36, <1>37, <1>38, <1>39, <1>40, <1>41, <1>42, <1>43, <1>44, <1>46, <1>47, <1>48,
       <1>50, <1>51, <1>52, <1>53, <1>54, <1>55, <1>56, <1>57, <1>58, <1>59, <1>60
    DEF Next, Control, Operator, Claims, Sends, Inline, Worker, Detached, Pass

-------------------------------------------------------------------------------
(* The steps by what they do to the rows and to the chain.                    *)

(* How a row may move: admitted, queued again, removed, claimed, validated,   *)
(* finished, failed with nothing sent, failed in doubt, failed without        *)
(* effect, or included.                                                       *)
Admits(j, s) ==
    /\ job[j].st = "none" /\ Binding(j[1]) = {}
    /\ \A k \in Ids : k[1] = j[1] /\ k[2] < j[2] => job[k].st # "none"
    /\ s.st = "accepted" /\ s.tx = NoTx /\ s.old = NoTx
Requeues(j, s) ==
    LET t == Evidence(job[j]) IN
    /\ Occupying(job[j]) /\ job[j].st # "accepted"
    /\ t # NoTx => t \in 1..signed /\ txs[t].job = j /\ Dead(t)
    /\ s.st = "accepted" /\ s.tx = NoTx /\ s.old = t
Drops(j, s) ==
    /\ \/ job[j].st \in {"accepted", "finalized"}
       \/ job[j].st = "failed" /\ ~Held(job[j])
       \/ /\ Held(job[j]) \/ job[j].st \in {"validated", "broadcast", "included"}
          /\ Evidence(job[j]) \in waived'
    /\ s.st = "gone" /\ s.tx = NoTx /\ s.old = NoTx
Keeps(j, s) == s.tx = job[j].tx /\ s.old = job[j].old
KeepsClaim(j, s) == Keeps(j, s) /\ s.wallet = job[j].wallet /\ s.token = job[j].token
ClaimsRow(j, s) == job[j].st = "accepted" /\ s.st = "claimed" /\ Keeps(j, s)
Validates(j, s) ==
    /\ job[j].st = "claimed" /\ ~Advanced(j[1])
    /\ s.st = "validated" /\ KeepsClaim(j, s)
Finishes(j, s) ==
    /\ Landed(j[1])
    /\ \/ job[j].st \in {"claimed", "validated"}
       \/ InDoubt(job[j]) /\ job[j].tx # NoTx /\ txs[job[j].tx].st = "mined"
    /\ s.st = "finalized" /\ s.tx = job[j].tx /\ s.old = NoTx
FailsEarly(j, s) ==
    job[j].st \in {"claimed", "validated"} /\ s.st = "failed" /\ Keeps(j, s)
FailsInDoubt(j, s) ==
    job[j].st = "broadcast" /\ s.st = "failed" /\ Held(s) /\ KeepsClaim(j, s)
FailsForGood(j, s) ==
    /\ InDoubt(job[j]) /\ job[j].tx # NoTx /\ txs[job[j].tx].st \in {"signed", "reverted"}
    /\ s.st = "failed" /\ ~Occupying(s) /\ Keeps(j, s)
Includes(j, s) ==
    /\ job[j].st \in {"broadcast", "included"} /\ txs[job[j].tx].st = "mined"
    /\ s.st = "included" /\ KeepsClaim(j, s)
Moves(j, s) ==
    \/ Admits(j, s) \/ Requeues(j, s) \/ Drops(j, s) \/ ClaimsRow(j, s) \/ Validates(j, s)
    \/ Finishes(j, s) \/ FailsEarly(j, s) \/ FailsInDoubt(j, s) \/ FailsForGood(j, s)
    \/ Includes(j, s)

RowStep(j, s) ==
    /\ job' = [job EXCEPT ![j] = s]
    /\ Moves(j, s)
    /\ UNCHANGED <<txs, mined, signed>> /\ waived \subseteq waived'

SignStep(w, s) ==
    LET j == work[w].job IN
    /\ work[w].pc = "sign" /\ j \in Ids /\ job[j].st = "validated"
    /\ Matches(w, j)
    /\ signed < MaxSigns /\ signed' = signed + 1
    /\ txs' = [txs EXCEPT ![signed + 1] = [st |-> "signed", job |-> j, wallet |-> w,
                                           nonce |-> NextNonce(w)]]
    /\ job' = [job EXCEPT ![j] = s]
    /\ InDoubt(s) /\ s.st \in {"broadcast", "failed"} /\ s.tx = signed + 1 /\ s.old = NoTx
    /\ s.wallet = w /\ s.token = job[j].token
    /\ UNCHANGED <<mined, waived>>

SendStep(w, x) ==
    /\ work[w].pc = "send"
    /\ txs' = [txs EXCEPT ![SentTx(w)].st = x]
    /\ x = "sent" => txs[SentTx(w)].nonce >= mined[w]
    /\ UNCHANGED <<job, signed, mined, waived>>

ChainStep ==
    /\ (\E t \in TxIds : Mine(t) \/ Evict(t)) \/ (\E w \in Wallets : OtherSend(w))
    /\ UNCHANGED <<job, signed, waived>>

Step ==
    \/ \E j \in Ids, s \in Rows : RowStep(j, s)
    \/ \E w \in Wallets, s \in Rows : SignStep(w, s)
    \/ \E w \in Wallets, x \in {"signed", "sent"} : SendStep(w, x)
    \/ ChainStep
    \/ UNCHANGED <<job, txs, mined, signed>> /\ waived \subseteq waived'

(* What a failed, a reset and a finalized row say.                            *)
LEMMA RowFields ==
    ASSUME NEW r \in Rows
    PROVE  /\ \A c \in Codes : LET f == Failed(r, c) IN
                 /\ f.st = "failed" /\ f.code = c /\ f.tx = r.tx /\ f.old = r.old
                 /\ Held(f) <=> HasEvidence(r) /\ c \notin Ineffective
                 /\ Held(f) => f.wallet = r.wallet /\ f.token = r.token
           /\ \A b \in BOOLEAN : LET f == Reset(r, b) IN
                 f.st = "accepted" /\ f.tx = NoTx /\ f.old = Evidence(r)
           /\ Finalized(r).st = "finalized" /\ Finalized(r).tx = r.tx /\ Finalized(r).old = NoTx
<1>1. ASSUME NEW c \in Codes
      PROVE  LET f == Failed(r, c) IN
             /\ f.st = "failed" /\ f.code = c /\ f.tx = r.tx /\ f.old = r.old
             /\ Held(f) <=> HasEvidence(r) /\ c \notin Ineffective
             /\ Held(f) => f.wallet = r.wallet /\ f.token = r.token
  <2> DEFINE f == [r EXCEPT !.st = "failed", !.code = c]
             g == [f EXCEPT !.wallet = "none", !.token = 0]
  <2>1. /\ f.st = "failed" /\ f.code = c /\ f.tx = r.tx /\ f.old = r.old
        /\ f.accounted = r.accounted /\ f.wallet = r.wallet /\ f.token = r.token /\ f \in Rows
        BY DEF Rows, States
  <2>2. /\ g.st = "failed" /\ g.code = c /\ g.tx = r.tx /\ g.old = r.old
        /\ g.accounted = r.accounted
        BY DEF Rows
  <2>3. Failed(r, c) = IF Held(f) THEN f ELSE g
        BY DEF Failed
  <2> HIDE DEF f, g
  <2> QED
      BY <2>1, <2>2, <2>3 DEF Held, HasEvidence
<1> QED
    BY <1>1 DEF Reset, Finalized, NoRow

(* What a verdict says of its transaction.                                    *)
LEMMA Verdicts ==
    ASSUME NEW t
    PROVE  /\ Verdict(t) = "recovered" => txs[t].st = "mined"
           /\ Verdict(t) = "reverted" => txs[t].st = "reverted"
           /\ Verdict(t) = "absent" => Dead(t)
    BY DEF Verdict, Dead, Absent

(* A worker that owns its claim is where its row is.                          *)
LEMMA OwnerFacts ==
    ASSUME TypeOK, WorkInv, NEW w \in Wallets, Owns(w)
    PROVE  LET j == work[w].job IN
           /\ j \in Ids /\ job[j].wallet = w /\ job[j].token = work[w].token
           /\ Matches(w, j) /\ lock[w].job = j
           /\ work[w].pc = "claimed" => job[j].st = "claimed"
           /\ work[w].pc \in {"validated", "sign"} => job[j].st = "validated"
           /\ work[w].pc \in {"send", "await"} => job[j].st = "broadcast"
    BY DEF Owns, WorkInv, Usable

(* A worker that sends and whose job was not removed sends what its row names.*)
LEMMA SenderFacts ==
    ASSUME SenderInv, NEW w \in Wallets, work[w].pc \in {"send", "await"}
    PROVE  LET j == work[w].job
               t == SentTx(w)
           IN  /\ t \in TxIds /\ txs[t].job = j /\ txs[t].wallet = w
               /\ txs[t].st = "signed" <=> work[w].pc = "send"
               /\ \/ /\ job[j].st = "broadcast" /\ job[j].wallet = w
                     /\ job[j].token = work[w].token /\ job[j].tx = t
                  \/ job[j].st = "gone" /\ t \in waived
<1>1. PICK t \in TxIds :
        /\ LastTx(work[w].job, t) /\ txs[t].wallet = w
        /\ txs[t].st = "signed" <=> work[w].pc = "send"
        /\ LET r == job[work[w].job] IN
           \/ r.st = "broadcast" /\ r.wallet = w /\ r.token = work[w].token /\ r.tx = t
           \/ r.st = "gone" /\ t \in waived
      BY DEF SenderInv
<1>2. SentTx(w) = t
      BY <1>1, SentIsLast
<1> QED
    BY <1>1, <1>2 DEF LastTx

(* Every step is one of the kinds above.                                      *)
LEMMA Steps ==
    ASSUME QueueInv, [Next]_vars
    PROVE  Step
<1>1. TypeOK /\ TxInv /\ RowInv /\ WorkInv /\ SenderInv /\ DetachedInv /\ AskedInv
      BY DEF QueueInv
<1>2. /\ job \in [Ids -> Rows] /\ signed \in 0..MaxSigns /\ MaxSigns \in Nat
      /\ \A j \in Ids : job[j] \in Rows
      BY <1>1, LiftBoundAssumption DEF TypeOK
<1>3. ASSUME NEW j \in Ids, NEW r \in Rows, job' = [job EXCEPT ![j] = r], Moves(j, r),
             UNCHANGED <<chainVars, signed>>, waived \subseteq waived'
      PROVE  Step
      BY <1>3 DEF Step, RowStep, chainVars
<1>4. ASSUME UNCHANGED <<job, chainVars, signed>>, waived \subseteq waived' PROVE Step
      BY <1>4 DEF Step, chainVars
<1>5. ASSUME NEW j \in Ids
      PROVE  LET r == job[j] IN
             /\ r.tx # NoTx => r.tx \in 1..signed /\ r.tx \in TxIds /\ txs[r.tx].job = j
             /\ r.old # NoTx => r.old \in 1..signed /\ txs[r.old].job = j /\ Dead(r.old)
             /\ r.st \in {"broadcast", "included"} => r.tx # NoTx
             /\ r.st \in {"none", "gone", "accepted", "claimed", "validated"} => r.tx = NoTx
      BY <1>1, <1>2 DEF RowInv, TxIds
<1>6. ASSUME NEW t \in TxIds, txs[t].st = "mined", NEW j \in Ids, txs[t].job = j PROVE Landed(j[1])
      BY <1>6 DEF Landed, AssetOf
<1>7. {"retryable", "terminal", "unsure", "unfunded", "reverted"} \subseteq Codes
      /\ {"unfunded", "reverted"} = Ineffective
      BY DEF Codes, Ineffective
<1>8. ASSUME NEW j \in Ids, NEW c \in Ineffective, InDoubt(job[j]), job[j].tx # NoTx,
             txs[job[j].tx].st \in {"signed", "reverted"},
             job' = [job EXCEPT ![j] = Failed(job[j], c)],
             UNCHANGED <<chainVars, signed>>, waived \subseteq waived'
      PROVE  Step
  <2>1. PICK f \in Rows : f = Failed(job[j], c)
        BY <1>2, <1>7, <1>8, RowOperators
  <2>2. f.st = "failed" /\ f.code = c /\ f.tx = job[j].tx /\ f.old = job[j].old /\ ~Held(f)
        BY <1>2, <1>7, <1>8, <2>1, RowFields
  <2>3. ~Occupying(f)
        BY <1>7, <2>2 DEF Occupying
  <2>4. FailsForGood(j, f)
        BY <1>8, <2>2, <2>3 DEF FailsForGood, Keeps
  <2> QED
      BY <1>3, <1>8, <2>1, <2>4 DEF Moves
<1>9. ASSUME NEW j \in Ids, job' = [job EXCEPT ![j] = Finalized(job[j])], Landed(j[1]),
             \/ job[j].st \in {"claimed", "validated"}
             \/ InDoubt(job[j]) /\ job[j].tx # NoTx /\ txs[job[j].tx].st = "mined",
             UNCHANGED <<chainVars, signed>>, waived \subseteq waived'
      PROVE  Step
  <2>1. PICK f \in Rows : f = Finalized(job[j])
        BY <1>2, RowOperators
  <2>2. Finishes(j, f)
        BY <1>2, <1>9, <2>1, RowFields DEF Finishes
  <2> QED
      BY <1>3, <1>9, <2>1, <2>2 DEF Moves
<1>10. ASSUME NEW j \in Ids, NEW b \in BOOLEAN, job' = [job EXCEPT ![j] = Reset(job[j], b)],
              Occupying(job[j]), job[j].st # "accepted",
              Evidence(job[j]) # NoTx => Dead(Evidence(job[j])),
              UNCHANGED <<chainVars, signed>>, waived \subseteq waived'
       PROVE  Step
  <2>1. PICK f \in Rows : f = Reset(job[j], b)
        BY <1>2, RowOperators
  <2>2. f.st = "accepted" /\ f.tx = NoTx /\ f.old = Evidence(job[j])
        BY <1>2, <2>1, RowFields
  <2>3. Requeues(j, f)
        BY <1>5, <1>10, <2>2 DEF Requeues, Evidence
  <2> QED
      BY <1>3, <1>10, <2>1, <2>3 DEF Moves
<1>11. ASSUME NEW j \in Ids, job[j].st \in {"claimed", "validated"},
              job' = [job EXCEPT ![j] = Reset(job[j], FALSE)],
              UNCHANGED <<chainVars, signed, waived>>
       PROVE  Step
  <2>1. Occupying(job[j]) /\ (Evidence(job[j]) # NoTx => Dead(Evidence(job[j])))
        BY <1>5, <1>11 DEF Occupying, Evidence
  <2> QED
      BY <1>10, <1>11, <2>1
<1>20. CASE UNCHANGED vars
       BY <1>4, <1>20 DEF vars, chainVars
<1>21. ASSUME NEW a \in Assets, Enqueue(a) PROVE Step
  <2>1. PICK n \in 1..MaxJobs[a] :
          /\ job[<<a, n>>].st = "none" /\ \A m \in 1..(n - 1) : job[<<a, m>>].st # "none"
          /\ job' = [job EXCEPT ![<<a, n>>] = [NoRow EXCEPT !.st = "accepted"]]
        BY <1>21 DEF Enqueue
  <2>2. PICK j \in Ids : j = <<a, n>> /\ j[1] = a /\ j[2] = n
        BY <2>1, IdShape
  <2>3. PICK f \in Rows : f = [NoRow EXCEPT !.st = "accepted"]
        BY <1>2, RowOperators
  <2>4. f.st = "accepted" /\ f.tx = NoTx /\ f.old = NoTx
        BY <2>3 DEF NoRow
  <2>5. ASSUME NEW k \in Ids, k[1] = j[1], k[2] < j[2] PROVE job[k].st # "none"
    <3>1. k = <<a, k[2]>> /\ k[2] \in Nat /\ k[2] \in 1..(n - 1)
          BY <2>2, <2>5, IdShape
    <3> QED
        BY <2>1, <3>1
  <2>6. Admits(j, f)
        BY <1>21, <2>1, <2>2, <2>4, <2>5 DEF Admits, Enqueue
  <2> QED
      BY <1>3, <1>21, <2>1, <2>2, <2>3, <2>6 DEF Moves, Enqueue
<1>22. ASSUME NEW j \in Ids, Reaccept(j) PROVE Step
  <2> DEFINE q == Reset(job[j], FALSE)
             f == [q EXCEPT !.tries = IF job[j].tries >= MaxRetries THEN 0 ELSE job[j].tries + 1]
  <2>1. q \in Rows /\ f \in Rows /\ q.st = "accepted" /\ q.tx = NoTx /\ q.old = Evidence(job[j])
        BY <1>2, RowOperators, RowFields
  <2>2. f.st = "accepted" /\ f.tx = NoTx /\ f.old = Evidence(job[j])
        BY <2>1 DEF Rows
  <2>3. job' = [job EXCEPT ![j] = f]
        BY <1>22 DEF Reaccept
  <2> HIDE DEF q, f
  <2>4. Requeues(j, f)
        BY <1>5, <1>7, <1>22, <2>2 DEF Reaccept, Requeues, Occupying, Evidence, Held, HasEvidence
  <2> QED
      BY <1>3, <1>22, <2>1, <2>3, <2>4 DEF Moves, Reaccept
<1>23. ASSUME NEW j \in Ids, Remove(j) \/ Override(j) PROVE Step
  <2>1. PICK f \in Rows : f = [NoRow EXCEPT !.st = "gone"]
        BY <1>2, RowOperators
  <2>2. f.st = "gone" /\ f.tx = NoTx /\ f.old = NoTx
        BY <2>1 DEF NoRow
  <2>3. Drops(j, f)
        BY <1>23, <2>2 DEF Drops, Remove, Override
  <2> QED
      BY <1>3, <1>23, <2>1, <2>3 DEF Moves, Remove, Override
<1>25. ASSUME NEW w \in Wallets, NEW j \in Ids, Claim(w, j) \/ ClaimTorn(w, j) PROVE Step
  <2>1. PICK k \in Tokens : job' = [job EXCEPT ![j] = ClaimedRow(w, j, k)]
        BY <1>25 DEF Claim, ClaimTorn
  <2>2. k \in Nat
        BY DEF Tokens
  <2>3. PICK f \in Rows : f = ClaimedRow(w, j, k)
        BY <1>2, <2>2, RowOperators DEF ClaimedRow
  <2>4. f.st = "claimed" /\ f.tx = job[j].tx /\ f.old = job[j].old
        BY <1>2, <2>3 DEF ClaimedRow, Rows
  <2>5. ClaimsRow(j, f)
        BY <1>25, <2>4 DEF ClaimsRow, Keeps, Claim, ClaimTorn, Claimable
  <2> QED
      BY <1>3, <1>25, <2>1, <2>3, <2>5 DEF Moves, Claim, ClaimTorn
<1>27. ASSUME NEW w \in Wallets, Owns(w)
       PROVE  LET j == work[w].job IN
              /\ j \in Ids /\ job[j].wallet = w /\ Matches(w, j)
              /\ work[w].pc = "claimed" => job[j].st = "claimed"
              /\ work[w].pc \in {"validated", "sign"} => job[j].st = "validated"
              /\ work[w].pc \in {"send", "await"} => job[j].st = "broadcast"
       BY <1>1, <1>27, OwnerFacts
<1>28. ASSUME NEW w \in Wallets, Validate(w) PROVE Step
  <2>1. PICK j \in Ids : j = work[w].job /\ job[j].st = "claimed"
        BY <1>27, <1>28 DEF Validate
  <2>2. "validated" \in States
        BY DEF States
  <2>3. PICK f \in Rows : f = [job[j] EXCEPT !.st = "validated"]
        BY <1>2, <2>2, RowOperators
  <2>4. /\ f.st = "validated" /\ f.tx = job[j].tx /\ f.old = job[j].old
        /\ f.wallet = job[j].wallet /\ f.token = job[j].token
        BY <1>2, <2>3 DEF Rows
  <2>5. Validates(j, f)
        BY <1>28, <2>1, <2>4 DEF Validates, Validate, Keeps, KeepsClaim
  <2>6. job' = [job EXCEPT ![j] = f]
        BY <1>28, <2>1, <2>3 DEF Validate
  <2> QED
      BY <1>3, <1>28, <2>5, <2>6 DEF Moves, Validate
<1>30. ASSUME NEW w \in Wallets, Noop(w) PROVE Step
  <2>1. PICK j \in Ids : j = work[w].job /\ job[j].st \in {"claimed", "validated"}
        BY <1>27, <1>30 DEF Noop
  <2> QED
      BY <1>9, <1>30, <2>1 DEF Noop
<1>31. ASSUME NEW w \in Wallets, FailPreSend(w) PROVE Step
  <2>1. PICK j \in Ids : j = work[w].job /\ job[j].st \in {"claimed", "validated"}
        BY <1>27, <1>31 DEF FailPreSend
  <2>2. PICK c \in {"retryable", "terminal"} : job' = [job EXCEPT ![j] = Failed(job[j], c)]
        BY <1>31, <2>1 DEF FailPreSend
  <2>3. PICK f \in Rows : f = Failed(job[j], c)
        BY <1>2, <1>7, RowOperators
  <2>4. f.st = "failed" /\ f.tx = job[j].tx /\ f.old = job[j].old
        BY <1>2, <1>7, <2>3, RowFields
  <2>5. FailsEarly(j, f)
        BY <2>1, <2>4 DEF FailsEarly, Keeps
  <2> QED
      BY <1>3, <1>31, <2>2, <2>3, <2>5 DEF Moves, FailPreSend
<1>32. ASSUME NEW w \in Wallets, WriteAhead(w) \/ WriteAheadStuck(w) PROVE Step
  <2>1. PICK j \in Ids :
          /\ j = work[w].job /\ job[j].st = "validated" /\ job[j].wallet = w /\ Matches(w, j)
        BY <1>27, <1>32 DEF WriteAhead, WriteAheadStuck, Signs
  <2>2. PICK n \in Nat : n = signed + 1 /\ n # NoTx
        BY <1>2 DEF NoTx
  <2>3. PICK q \in Rows : q = job[j]
        BY <1>2
  <2> DEFINE b == [q EXCEPT !.st = "broadcast", !.tx = n, !.old = 0, !.accounted = FALSE]
  <2>4. /\ b \in Rows /\ b.st = "broadcast" /\ b.tx = n /\ b.old = 0
        /\ b.wallet = q.wallet /\ b.token = q.token
        BY DEF Rows, States
  <2>5. BroadcastRow(job[j]) = b
        BY <2>2, <2>3 DEF BroadcastRow, NoTx
  <2> HIDE DEF b
  <2>6. PICK f \in Rows :
          /\ job' = [job EXCEPT ![j] = f] /\ f.st \in {"broadcast", "failed"} /\ f.tx = n
          /\ f.old = 0 /\ f.wallet = q.wallet /\ f.token = q.token /\ InDoubt(f)
    <3>1. CASE WriteAhead(w)
          BY <2>1, <2>4, <2>5, <3>1 DEF WriteAhead, InDoubt
    <3>2. CASE WriteAheadStuck(w)
      <4>1. PICK f \in Rows : f = Failed(b, "unsure")
            BY <1>7, <2>4, RowOperators
      <4>2. HasEvidence(b) /\ "unsure" \notin Ineffective
            BY <2>2, <2>4 DEF HasEvidence, Ineffective
      <4>3. /\ f.st = "failed" /\ f.tx = n /\ f.old = 0 /\ Held(f) /\ f.wallet = q.wallet
            /\ f.token = q.token
            BY <1>7, <2>4, <4>1, <4>2, RowFields
      <4>4. job' = [job EXCEPT ![j] = f]
            BY <2>1, <2>5, <3>2, <4>1 DEF WriteAheadStuck
      <4> QED
          BY <4>3, <4>4 DEF InDoubt
    <3> QED
        BY <1>32, <3>1, <3>2
  <2>7. SignStep(w, f)
        BY <1>32, <2>1, <2>2, <2>3, <2>6 DEF SignStep, WriteAhead, WriteAheadStuck, Signs, NoTx
  <2> QED
      BY <2>7 DEF Step
<1>36. ASSUME NEW w \in Wallets, SendAccepted(w) \/ SendInline(w) \/ SendUnclear(w) PROVE Step
  <2>1. PICK x \in {"signed", "sent"} :
          /\ work[w].pc = "send" /\ txs' = [txs EXCEPT ![SentTx(w)].st = x]
          /\ x = "sent" => txs[SentTx(w)].nonce >= mined[w]
          /\ UNCHANGED <<job, signed, mined, waived>>
        BY <1>36 DEF SendAccepted, SendInline, SendUnclear
  <2> QED
      BY <2>1 DEF Step, SendStep
<1>37. ASSUME NEW w \in Wallets, Owns(w), work[w].pc \in {"send", "await"}
       PROVE  LET j == work[w].job
                  t == job[j].tx
              IN  /\ j \in Ids /\ job[j].st = "broadcast" /\ t = SentTx(w) /\ t \in TxIds
                  /\ txs[t].job = j /\ t # NoTx
                  /\ txs[t].st = "signed" <=> work[w].pc = "send"
  <2>1. job[work[w].job].st = "broadcast" /\ work[w].job \in Ids
        BY <1>27, <1>37
  <2> QED
      BY <1>1, <1>5, <1>37, <2>1, SenderFacts
<1>39. ASSUME NEW w \in Wallets, SendRejected(w) PROVE Step
  <2>1. PICK j \in Ids : /\ j = work[w].job /\ job[j].st = "broadcast" /\ job[j].tx # NoTx
                         /\ txs[job[j].tx].st = "signed"
        BY <1>37, <1>39 DEF SendRejected
  <2>2. InDoubt(job[j]) /\ job' = [job EXCEPT ![j] = Failed(job[j], "unfunded")]
        BY <1>39, <2>1 DEF SendRejected, InDoubt
  <2> QED
      BY <1>7, <1>8, <1>39, <2>1, <2>2 DEF SendRejected
<1>40. ASSUME NEW w \in Wallets, InlineResult(w) PROVE Step
  <2>1. PICK j \in Ids : /\ j = work[w].job /\ job[j].st = "broadcast" /\ job[j].tx # NoTx
                         /\ job[j].tx \in TxIds /\ txs[job[j].tx].st = "mined"
                         /\ txs[job[j].tx].job = j
        BY <1>37, <1>40 DEF InlineResult
  <2>2. InDoubt(job[j]) /\ job' = [job EXCEPT ![j] = Finalized(job[j])]
        BY <1>40, <2>1 DEF InlineResult, InDoubt
  <2>3. Landed(j[1])
        BY <1>6, <2>1
  <2> QED
      BY <1>9, <1>40, <2>1, <2>2, <2>3 DEF InlineResult
<1>41. ASSUME NEW w \in Wallets, InlineMismatch(w) PROVE Step
  <2>1. PICK j \in Ids : j = work[w].job /\ job[j].st = "broadcast" /\ job[j].tx # NoTx
        BY <1>37, <1>41 DEF InlineMismatch
  <2>2. HasEvidence(job[j]) /\ "unsure" \notin Ineffective
        BY <2>1 DEF HasEvidence, Ineffective
  <2>3. PICK f \in Rows : f = Failed(job[j], "unsure")
        BY <1>2, <1>7, RowOperators
  <2>4. FailsInDoubt(j, f)
        BY <1>2, <1>7, <2>1, <2>2, <2>3, RowFields DEF FailsInDoubt, Keeps, KeepsClaim
  <2>5. job' = [job EXCEPT ![j] = f]
        BY <1>41, <2>1, <2>3 DEF InlineMismatch
  <2> QED
      BY <1>3, <1>41, <2>4, <2>5 DEF Moves, InlineMismatch
<1>42. ASSUME NEW w \in Wallets, Preflight(w) \/ InlineUnclear(w) \/ Escape(w) \/ FinishRelease(w)
              \/ SweepLock(w) \/ Expire(w)
       PROVE  Step
       BY <1>4, <1>42 DEF Preflight, InlineUnclear, Escape, FinishRelease, SweepLock, Expire
<1>43. ASSUME NEW w \in Wallets, Stale(w) PROVE Step
  <2>1. PICK j \in Ids : j = work[w].job
        BY <1>1, <1>43 DEF Stale, WorkInv
  <2>2. \/ UNCHANGED job
        \/ job[j].st \in {"claimed", "validated"} /\ job' = [job EXCEPT ![j] = Reset(job[j], FALSE)]
        BY <1>43, <2>1 DEF Stale
  <2> QED
      BY <1>4, <1>11, <1>43, <2>2 DEF Stale
<1>46. ASSUME NEW j \in Ids, SettleDetached(j) PROVE Step
  <2>1. CASE UNCHANGED job
        BY <1>4, <1>46, <2>1 DEF SettleDetached
  <2>2. CASE /\ job[j].st \in {"broadcast", "included"} /\ job[j].tx = detached[j].tx
             /\ job' = [job EXCEPT ![j] = Finalized(job[j])]
    <3>1. txs[job[j].tx].st = "mined" /\ job[j].tx # NoTx /\ InDoubt(job[j]) /\ Landed(j[1])
          BY <1>5, <1>6, <1>46, <2>2 DEF SettleDetached, Certified, InDoubt
    <3> QED
        BY <1>9, <1>46, <2>2, <3>1 DEF SettleDetached
  <2> QED
      BY <1>46, <2>1, <2>2 DEF SettleDetached
<1>47. ASSUME NEW j \in Ids, AbandonDetached(j) \/ AskHeld(j) PROVE Step
       BY <1>4, <1>47 DEF AbandonDetached, AskHeld
<1>48. ASSUME NEW j \in Ids, EarlyRelease(j) \/ EarlyReleaseTorn(j) PROVE Step
  <2>1. job[j].st \in {"broadcast", "included"} /\ txs[job[j].tx].st = "mined"
        BY <1>48, Verdicts DEF EarlyRelease, EarlyReleaseTorn, HintProven
  <2>2. "included" \in States
        BY DEF States
  <2>3. PICK f \in Rows : f = [job[j] EXCEPT !.st = "included"]
        BY <1>2, <2>2, RowOperators
  <2>4. /\ f.st = "included" /\ f.tx = job[j].tx /\ f.old = job[j].old
        /\ f.wallet = job[j].wallet /\ f.token = job[j].token
        BY <1>2, <2>3 DEF Rows
  <2>5. Includes(j, f)
        BY <2>1, <2>4 DEF Includes, Keeps, KeepsClaim
  <2>6. job' = [job EXCEPT ![j] = f]
        BY <1>48, <2>3 DEF EarlyRelease, EarlyReleaseTorn
  <2> QED
      BY <1>3, <1>48, <2>5, <2>6 DEF Moves, EarlyRelease, EarlyReleaseTorn
<1>50. ASSUME NEW j \in Ids, Reconcile(j) PROVE Step
  <2>1. /\ UNCHANGED <<chainVars, signed, waived>> /\ job[j].tx # NoTx /\ InDoubt(job[j])
        /\ job[j].tx \in TxIds /\ txs[job[j].tx].job = j /\ Occupying(job[j])
        /\ job[j].st # "accepted"
        BY <1>5, <1>50 DEF Reconcile, Actionable, InDoubt, Occupying
  <2>2. \/ UNCHANGED job
        \/ /\ Verdict(job[j].tx) = "recovered"
           /\ job' = [job EXCEPT ![j] = Finalized(job[j])]
        \/ /\ Verdict(job[j].tx) = "reverted"
           /\ job' = [job EXCEPT ![j] = Failed(job[j], "reverted")]
        \/ /\ Verdict(job[j].tx) = "absent"
           /\ job' = [job EXCEPT ![j] = Reset(job[j], TRUE)]
        BY <1>50 DEF Reconcile
  <2>3. ASSUME Verdict(job[j].tx) = "recovered", job' = [job EXCEPT ![j] = Finalized(job[j])]
        PROVE  Step
    <3>1. txs[job[j].tx].st = "mined" /\ Landed(j[1])
          BY <1>6, <2>1, <2>3, Verdicts
    <3> QED
        BY <1>9, <2>1, <2>3, <3>1
  <2>4. ASSUME Verdict(job[j].tx) = "reverted", job' = [job EXCEPT ![j] = Failed(job[j], "reverted")]
        PROVE  Step
    <3>1. txs[job[j].tx].st = "reverted"
          BY <2>4, Verdicts
    <3> QED
        BY <1>7, <1>8, <2>1, <2>4, <3>1
  <2>5. ASSUME Verdict(job[j].tx) = "absent", job' = [job EXCEPT ![j] = Reset(job[j], TRUE)]
        PROVE  Step
    <3>1. Evidence(job[j]) = job[j].tx /\ Dead(job[j].tx)
          BY <2>1, <2>5, Verdicts DEF Evidence
    <3> QED
        BY <1>10, <2>1, <2>5, <3>1
  <2> QED
      BY <1>4, <2>1, <2>2, <2>3, <2>4, <2>5
<1>51. ASSUME NEW j \in Ids, RecoverPreBroadcast(j) PROVE Step
       BY <1>11, <1>51 DEF RecoverPreBroadcast
<1>55. ASSUME NEW j \in Ids, ApplyHeld(j) PROVE Step
  <2>1. UNCHANGED <<chainVars, signed, waived>>
        BY <1>55 DEF ApplyHeld
  <2>2. PICK r \in Rows : r = job[j]
        BY <1>2
  <2>3. \/ UNCHANGED job
        \/ r = asked[j].row /\ job' = [job EXCEPT ![j] = Disposed(r, asked[j].verdict)]
        BY <1>55, <2>2 DEF ApplyHeld, SameHeld
  <2>4. CASE r = asked[j].row /\ job' = [job EXCEPT ![j] = Disposed(r, asked[j].verdict)]
    <3>1. PICK v : v = asked[j].verdict
          OBVIOUS
    <3>2. /\ Held(r) /\ Evidence(r) \in 1..signed /\ Evidence(r) \in TxIds
          /\ txs[Evidence(r)].job = j
          /\ \/ v = "recovered" /\ txs[Evidence(r)].st = "mined"
             \/ v = "reverted" /\ txs[Evidence(r)].st = "reverted"
             \/ v = "absent" /\ Dead(Evidence(r))
          BY <1>1, <1>2, <1>55, <2>4, <3>1 DEF ApplyHeld, AskedInv, TxIds
    <3>3. InDoubt(job[j]) /\ Occupying(job[j]) /\ job[j].st # "accepted"
          BY <2>2, <3>2 DEF InDoubt, Occupying, Held
    <3>4. r.tx # NoTx => Evidence(r) = r.tx
          BY DEF Evidence
    <3>5. CASE v = "recovered" /\ r.tx # NoTx
      <4>1. Disposed(r, v) = Finalized(r)
            BY <3>5 DEF Disposed
      <4>2. txs[r.tx].st = "mined" /\ Landed(j[1])
            BY <1>6, <3>2, <3>4, <3>5
      <4> QED
          BY <1>9, <2>1, <2>2, <2>4, <3>1, <3>3, <3>5, <4>1, <4>2
    <3>6. CASE v = "reverted" /\ r.tx # NoTx
      <4>1. Disposed(r, v) = Failed(r, "reverted")
            BY <3>6 DEF Disposed
      <4>2. txs[r.tx].st = "reverted"
            BY <3>2, <3>4, <3>6
      <4> QED
          BY <1>7, <1>8, <2>1, <2>2, <2>4, <3>1, <3>3, <3>6, <4>1, <4>2
    <3>7. ASSUME Disposed(r, v) = Reset(r, TRUE), v # "recovered" PROVE Step
      <4>1. Dead(Evidence(r))
            BY <3>2, <3>7 DEF Dead
      <4> QED
          BY <1>10, <2>1, <2>2, <2>4, <3>1, <3>3, <3>7, <4>1
    <3>8. ASSUME Disposed(r, v) = r PROVE Step
      <4>1. UNCHANGED job
            BY <1>2, <2>2, <2>4, <3>1, <3>8
      <4> QED
          BY <1>4, <2>1, <4>1
    <3>9. CASE v = "recovered" /\ r.tx = NoTx
          BY <3>8, <3>9 DEF Disposed
    <3>10. CASE v = "reverted" /\ r.tx = NoTx
           BY <3>7, <3>8, <3>10 DEF Disposed
    <3>11. CASE v = "absent"
           BY <3>7, <3>11 DEF Disposed
    <3> QED
        BY <3>2, <3>5, <3>6, <3>9, <3>10, <3>11
  <2> QED
      BY <1>4, <2>1, <2>3, <2>4
<1>56. ASSUME NEW t \in TxIds, Mine(t) \/ Evict(t) PROVE Step
       BY <1>56 DEF Mine, Evict, Step, ChainStep
<1>58. ASSUME NEW w \in Wallets, OtherSend(w) PROVE Step
       BY <1>58 DEF OtherSend, Step, ChainStep
<1>60. CASE Crash
       BY <1>4, <1>60 DEF Crash
<1> QED
    BY <1>20, <1>21, <1>22, <1>23, <1>25, <1>28, <1>30, <1>31, <1>32, <1>36, <1>39, <1>40, <1>41,
       <1>42, <1>43, <1>46, <1>47, <1>48, <1>50, <1>51, <1>55, <1>56, <1>58, <1>60
    DEF Next, Control, Operator, Claims, Sends, Inline, Worker, Detached, Pass

(* What no step undoes: the signatures, what landed, what is dead.  What can  *)
(* land anew was just sent; what has just landed could.                       *)
LEMMA ChainMoves ==
    ASSUME TypeOK, TxInv, SenderInv, Step
    PROVE  /\ TxInv' /\ signed' \in Nat /\ signed <= signed' /\ waived \subseteq waived'
           /\ signed' <= MaxSigns
           /\ \A t \in 1..signed :
                 /\ txs'[t].job = txs[t].job /\ txs'[t].wallet = txs[t].wallet
                 /\ txs[t].st = "mined" => txs'[t].st = "mined"
                 /\ txs[t].st = "reverted" => txs'[t].st = "reverted"
                 /\ txs'[t].st = "signed" => txs[t].st = "signed"
                 /\ Dead(t) => Dead(t)'
           /\ \A t \in TxIds :
                 /\ CanLand(t)' => \/ CanLand(t)
                                   \/ /\ UNCHANGED <<job, waived>>
                                      /\ \E w \in Wallets : work[w].pc = "send" /\ SentTx(w) = t
                 /\ txs'[t].st = "mined" => \/ txs[t].st = "mined"
                                            \/ CanLand(t) /\ UNCHANGED <<job, waived>>
<1> DEFINE Same(t) == /\ txs'[t].job = txs[t].job /\ txs'[t].wallet = txs[t].wallet
                      /\ txs'[t].nonce = txs[t].nonce
           Onward(t) == /\ txs[t].st = "mined" => txs'[t].st = "mined"
                        /\ txs[t].st = "reverted" => txs'[t].st = "reverted"
                        /\ txs'[t].st = "signed" => txs[t].st = "signed"
                        /\ Dead(t) => Dead(t)'
           Back(t) == /\ CanLand(t)' => \/ CanLand(t)
                                        \/ /\ UNCHANGED <<job, waived>>
                                           /\ \E w \in Wallets :
                                                 work[w].pc = "send" /\ SentTx(w) = t
                      /\ txs'[t].st = "mined" => \/ txs[t].st = "mined"
                                                 \/ CanLand(t) /\ UNCHANGED <<job, waived>>
           Goal == /\ TxInv' /\ signed' \in Nat /\ signed <= signed' /\ waived \subseteq waived'
                   /\ signed' <= MaxSigns
                   /\ \A t \in 1..signed : Same(t) /\ Onward(t)
                   /\ \A t \in TxIds : Back(t)
<1> SUFFICES Goal
    OBVIOUS
<1>1. /\ txs \in [TxIds -> Txs] /\ mined \in [Wallets -> Nat] /\ signed \in 0..MaxSigns
      /\ MaxSigns \in Nat /\ signed \in Nat /\ signed <= MaxSigns
      /\ \A t \in 1..signed : t \in TxIds
      BY LiftBoundAssumption DEF TypeOK, Txs, TxIds
<1>2. \A t \in 1..signed : /\ txs[t].st # "none" /\ txs[t].job \in Ids /\ txs[t].wallet \in Wallets
                           /\ txs[t].nonce \in Nat /\ mined[txs[t].wallet] \in Nat
      BY <1>1 DEF TxInv, Txs
<1>3. ASSUME UNCHANGED <<txs, mined, signed>>, waived \subseteq waived' PROVE Goal
      BY <1>1, <1>3 DEF TxInv, Dead, CanLand
<1>4. ASSUME NEW w \in Wallets, NEW s \in Rows, SignStep(w, s) PROVE Goal
  <2>1. PICK n \in TxIds : n = signed + 1
        BY <1>1, <1>4 DEF SignStep, TxIds
  <2>2. PICK x : /\ x = [st |-> "signed", job |-> work[w].job, wallet |-> w, nonce |-> NextNonce(w)]
                 /\ txs' = [txs EXCEPT ![n] = x]
        BY <1>4, <2>1 DEF SignStep
  <2>3. /\ txs'[n] = x /\ x.st = "signed" /\ x.job \in Ids /\ x.wallet = w
        /\ \A t \in TxIds \ {n} : txs'[t] = txs[t]
        BY <1>1, <1>4, <2>1, <2>2 DEF SignStep
  <2>4. signed' = signed + 1 /\ UNCHANGED <<mined, waived>> /\ signed < MaxSigns
        BY <1>4 DEF SignStep
  <2>5. TxInv'
        BY <1>1, <2>1, <2>3, <2>4 DEF TxInv, TxIds
  <2>6. \A t \in 1..signed : txs'[t] = txs[t]
        BY <1>1, <2>1, <2>3
  <2>7. \A t \in 1..signed : Same(t) /\ Onward(t)
        BY <2>4, <2>6 DEF Dead
  <2>8. \A t \in TxIds : Back(t)
        BY <2>3, <2>4 DEF CanLand
  <2> QED
      BY <1>1, <2>4, <2>5, <2>7, <2>8
<1>5. ASSUME NEW n \in TxIds, NEW x \in {"signed", "sent", "evicted", "mined", "reverted"},
             n <= signed, txs' = [txs EXCEPT ![n].st = x]
      PROVE  /\ txs'[n].st = x /\ Same(n) /\ n \in 1..signed
             /\ \A t \in TxIds \ {n} : txs'[t] = txs[t]
             /\ UNCHANGED signed => TxInv'
  <2>1. n \in 1..signed
        BY <1>1, <1>5 DEF TxIds
  <2>2. txs'[n] = [txs[n] EXCEPT !.st = x] /\ \A t \in TxIds \ {n} : txs'[t] = txs[t]
        BY <1>1, <1>5
  <2>3. txs'[n].st = x /\ Same(n)
        BY <1>1, <2>2 DEF Txs
  <2>4. UNCHANGED signed => TxInv'
        BY <1>1, <1>2, <1>5, <2>1, <2>2, <2>3 DEF TxInv
  <2> QED
      BY <2>1, <2>2, <2>3, <2>4
<1>6. ASSUME NEW w \in Wallets, NEW x \in {"signed", "sent"}, SendStep(w, x) PROVE Goal
  <2>1. PICK n \in TxIds : n = SentTx(w) /\ txs[n].st = "signed" /\ txs[n].wallet = w
        BY <1>6, SenderFacts DEF SendStep
  <2>2. /\ n \in 1..signed /\ txs' = [txs EXCEPT ![n].st = x]
        /\ x = "sent" => txs[n].nonce >= mined[w]
        /\ UNCHANGED <<job, signed, mined, waived>> /\ work[w].pc = "send"
        BY <1>1, <1>6, <2>1 DEF SendStep, TxInv, NoSignature, TxIds
  <2>3. /\ txs'[n].st = x /\ Same(n) /\ TxInv'
        /\ \A t \in TxIds \ {n} : txs'[t] = txs[t]
    <3>1. n <= signed /\ x \in {"signed", "sent", "evicted", "mined", "reverted"}
          BY <1>1, <2>2
    <3> QED
        BY <1>5, <2>2, <3>1
  <2>4. Onward(n)
    <3>1. Dead(n) => x = "signed"
          BY <1>2, <2>1, <2>2 DEF Dead
    <3> QED
        BY <2>1, <2>2, <2>3, <3>1 DEF Dead
  <2>5. \A t \in 1..signed : Same(t) /\ Onward(t)
        BY <1>1, <2>2, <2>3, <2>4 DEF Dead
  <2>6. \A t \in TxIds : Back(t)
        BY <2>1, <2>2, <2>3 DEF CanLand
  <2> QED
      BY <1>1, <2>2, <2>3, <2>5, <2>6
<1>7. CASE ChainStep
  <2>1. UNCHANGED <<job, signed, waived>>
        BY <1>7 DEF ChainStep
  <2>2. ASSUME NEW n \in TxIds, Mine(n) PROVE Goal
    <3>1. PICK x \in {"mined", "reverted"} : txs' = [txs EXCEPT ![n].st = x]
          BY <2>2 DEF Mine
    <3>2. /\ CanLand(n) /\ txs[n].nonce = mined[txs[n].wallet] /\ n <= signed
          /\ txs[n].st \in {"sent", "evicted"}
          BY <1>1, <2>2 DEF Mine, CanLand, TxInv, NoSignature, TxIds
    <3>3. /\ txs'[n].st = x /\ Same(n) /\ n \in 1..signed /\ TxInv'
          /\ \A t \in TxIds \ {n} : txs'[t] = txs[t]
          BY <1>5, <2>1, <3>1, <3>2
    <3>4. PICK v \in Wallets : v = txs[n].wallet
          BY <1>2, <3>3
    <3>5. mined' = [mined EXCEPT ![v] = mined[v] + 1]
          BY <2>2, <3>4 DEF Mine
    <3>6. \A u \in Wallets : mined'[u] \in Nat /\ mined'[u] >= mined[u]
          BY <1>1, <3>5
    <3>7. Onward(n)
          BY <1>2, <3>2, <3>3 DEF Dead
    <3>8. \A t \in 1..signed : Same(t) /\ Onward(t)
          BY <1>1, <1>2, <3>3, <3>6, <3>7 DEF Dead
    <3>9. \A t \in TxIds : Back(t)
      <4>1. ASSUME NEW t \in TxIds, CanLand(t)' PROVE CanLand(t)
        <5>1. t # n /\ txs'[t] = txs[t] /\ txs[t].st \in {"sent", "evicted"} /\ t \in 1..signed
              BY <1>1, <3>3, <4>1 DEF CanLand, TxInv, NoSignature, TxIds
        <5> QED
            BY <1>2, <3>6, <4>1, <5>1 DEF CanLand
      <4> QED
          BY <2>1, <3>2, <3>3, <4>1
    <3> QED
        BY <1>1, <2>1, <3>3, <3>8, <3>9
  <2>3. ASSUME NEW n \in TxIds, Evict(n) PROVE Goal
    <3>1. txs' = [txs EXCEPT ![n].st = "evicted"] /\ UNCHANGED mined /\ txs[n].st = "sent"
          BY <2>3 DEF Evict
    <3>2. n <= signed
          BY <1>1, <3>1 DEF TxInv, NoSignature, TxIds
    <3>3. /\ txs'[n].st = "evicted" /\ Same(n) /\ n \in 1..signed /\ TxInv'
          /\ \A t \in TxIds \ {n} : txs'[t] = txs[t]
          BY <1>5, <2>1, <3>1, <3>2
    <3>4. \A t \in 1..signed : Same(t) /\ Onward(t)
          BY <1>1, <3>1, <3>3 DEF Dead
    <3>5. \A t \in TxIds : Back(t)
          BY <3>1, <3>3 DEF CanLand
    <3> QED
        BY <1>1, <2>1, <3>3, <3>4, <3>5
  <2>4. ASSUME NEW v \in Wallets, OtherSend(v) PROVE Goal
    <3>1. UNCHANGED txs /\ mined' = [mined EXCEPT ![v] = mined[v] + 1]
          BY <2>4 DEF OtherSend
    <3>2. \A u \in Wallets : mined'[u] \in Nat /\ mined'[u] >= mined[u]
          BY <1>1, <3>1
    <3>3. TxInv'
          BY <2>1, <3>1 DEF TxInv
    <3>4. \A t \in 1..signed : Same(t) /\ Onward(t)
          BY <1>1, <1>2, <3>1, <3>2 DEF Dead
    <3>5. \A t \in TxIds : Back(t)
      <4>1. ASSUME NEW t \in TxIds, CanLand(t)' PROVE CanLand(t)
        <5>1. txs[t].st \in {"sent", "evicted"} /\ t \in 1..signed
              BY <1>1, <3>1, <4>1 DEF CanLand, TxInv, NoSignature, TxIds
        <5> QED
            BY <1>2, <3>1, <3>2, <4>1, <5>1 DEF CanLand
      <4> QED
          BY <3>1, <4>1
    <3> QED
        BY <1>1, <2>1, <3>3, <3>4, <3>5
  <2> QED
      BY <1>7, <2>2, <2>3, <2>4 DEF ChainStep
<1> HIDE DEF Goal
<1> QED
    BY <1>3, <1>4, <1>6, <1>7 DEF Step, RowStep

(* Rows keep naming transactions of their own job, and what a reset hands on  *)
(* stays dead.                                                                *)
LEMMA RowStepKeepsRows ==
    ASSUME TypeOK, TxInv, RowInv, SenderInv, Step, TypeOK'
    PROVE  RowInv'
<1> DEFINE OK(k, r) == /\ r.tx # NoTx => r.tx \in 1..signed /\ txs[r.tx].job = k
                       /\ r.old # NoTx => /\ r.old \in 1..signed /\ txs[r.old].job = k
                                          /\ Dead(r.old)
                       /\ r.st \in {"broadcast", "included"} => r.tx # NoTx
                       /\ r.st \in {"none", "gone", "accepted", "claimed", "validated"} =>
                             r.tx = NoTx
<1>1. /\ job \in [Ids -> Rows] /\ signed \in Nat /\ signed' \in Nat /\ signed <= signed'
      /\ \A t \in 1..signed : txs'[t].job = txs[t].job /\ (Dead(t) => Dead(t)')
      BY ChainMoves, LiftBoundAssumption DEF TypeOK
<1>2. \A k \in Ids : OK(k, job[k])
      BY DEF RowInv
<1>3. ASSUME NEW k \in Ids, NEW r, OK(k, r) PROVE OK(k, r)'
      BY <1>1, <1>3
<1>4. ASSUME NEW k \in Ids, OK(k, job[k]), job'[k] = job[k] PROVE OK(k, job[k])'
  <2>1. PICK r : r = job[k]
        OBVIOUS
  <2>2. OK(k, r)'
        BY <1>3, <1>4, <2>1
  <2> QED
      BY <1>4, <2>1, <2>2
<1>5. SUFFICES ASSUME NEW k \in Ids PROVE OK(k, job[k])'
      BY DEF RowInv
<1>6. ASSUME NEW j \in Ids, NEW s \in Rows, RowStep(j, s) PROVE OK(k, job[k])'
  <2>1. job'[j] = s /\ (k # j => job'[k] = job[k])
        BY <1>1, <1>6 DEF RowStep
  <2>2. CASE k # j
        BY <1>2, <1>4, <2>1, <2>2
  <2>3. CASE k = j
    <3>1. PICK r \in Rows : r = job[j]
          BY <1>1
    <3>2. OK(j, r)
          BY <1>2, <3>1
    <3>3. OK(j, s)
      <4>0. Moves(j, s)
            BY <1>6 DEF RowStep
      <4>1. CASE Admits(j, s)
            BY <4>1 DEF Admits
      <4>2. CASE Requeues(j, s)
            BY <4>2 DEF Requeues
      <4>3. CASE Drops(j, s)
            BY <4>3 DEF Drops
      <4>4. CASE ClaimsRow(j, s)
            BY <3>1, <3>2, <4>4 DEF ClaimsRow, Keeps
      <4>5. CASE Validates(j, s)
            BY <3>1, <3>2, <4>5 DEF Validates, KeepsClaim, Keeps
      <4>6. CASE Finishes(j, s)
            BY <3>1, <3>2, <4>6 DEF Finishes
      <4>7. CASE FailsEarly(j, s) \/ FailsInDoubt(j, s) \/ FailsForGood(j, s)
            BY <3>1, <3>2, <4>7 DEF FailsEarly, FailsInDoubt, FailsForGood, KeepsClaim, Keeps
      <4>8. CASE Includes(j, s)
            BY <3>1, <3>2, <4>8 DEF Includes, KeepsClaim, Keeps
      <4> QED
          BY <4>0, <4>1, <4>2, <4>3, <4>4, <4>5, <4>6, <4>7, <4>8 DEF Moves
    <3>4. OK(j, s)'
          BY <1>3, <3>3
    <3> QED
        BY <2>1, <2>3, <3>4
  <2> QED
      BY <2>2, <2>3
<1>7. ASSUME NEW w \in Wallets, NEW s \in Rows, SignStep(w, s) PROVE OK(k, job[k])'
  <2>1. PICK j \in Ids : j = work[w].job
        BY <1>7 DEF SignStep
  <2>2. job'[j] = s /\ (k # j => job'[k] = job[k])
        BY <1>1, <1>7, <2>1 DEF SignStep
  <2>3. CASE k # j
        BY <1>2, <1>4, <2>2, <2>3
  <2>4. CASE k = j
    <3>1. /\ s.tx = signed + 1 /\ s.old = NoTx /\ signed' = signed + 1
          /\ s.st \in {"broadcast", "failed"} /\ signed + 1 \in 1..MaxSigns
          BY <1>1, <1>7, LiftBoundAssumption DEF SignStep
    <3>2. txs'[signed + 1].job = j
          BY <1>7, <2>1, <3>1 DEF SignStep, TypeOK, TxIds
    <3> QED
        BY <1>1, <2>2, <2>4, <3>1, <3>2 DEF NoTx
  <2> QED
      BY <2>3, <2>4
<1>8. CASE UNCHANGED job
      BY <1>2, <1>4, <1>8
<1> HIDE DEF OK
<1> QED
    BY <1>6, <1>7, <1>8 DEF Step, SendStep, ChainStep

(* A transaction that is out stays on its job's record.                       *)
LEMMA StepKeepsEvidence ==
    ASSUME TypeOK, TxInv, RowInv, SenderInv, EvidenceKept, Step, TypeOK'
    PROVE  EvidenceKept'
<1>1. /\ job \in [Ids -> Rows] /\ signed \in Nat /\ signed' \in Nat /\ signed <= signed'
      /\ MaxSigns \in Nat /\ txs \in [TxIds -> Txs] /\ mined \in [Wallets -> Nat]
      /\ \A t \in 1..signed : txs'[t].job = txs[t].job
      /\ TxInv' /\ waived \subseteq waived' /\ signed' <= MaxSigns
      BY ChainMoves, LiftBoundAssumption DEF TypeOK, Txs
<1>2. \A t \in 1..signed : /\ txs[t].job \in Ids /\ t \in TxIds /\ txs[t].nonce \in Nat
                           /\ mined[txs[t].wallet] \in Nat
      BY <1>1, LiftBoundAssumption DEF TxInv, TxIds, Txs, TypeOK
<1>3. ASSUME NEW t \in TxIds, CanLand(t)' \/ txs'[t].st = "mined"
      PROVE  /\ t \in 1..signed /\ (CanLand(t) \/ txs[t].st \in {"mined", "signed"})
             /\ CanLand(t)' => \/ CanLand(t)
                               \/ /\ UNCHANGED <<job, waived>>
                                  /\ \E w \in Wallets : work[w].pc = "send" /\ SentTx(w) = t
             /\ txs'[t].st = "mined" => \/ txs[t].st = "mined"
                                        \/ CanLand(t) /\ UNCHANGED <<job, waived>>
  <2>1. /\ CanLand(t)' => \/ CanLand(t)
                          \/ /\ UNCHANGED <<job, waived>>
                             /\ \E w \in Wallets : work[w].pc = "send" /\ SentTx(w) = t
        /\ txs'[t].st = "mined" => \/ txs[t].st = "mined"
                                   \/ CanLand(t) /\ UNCHANGED <<job, waived>>
        BY ChainMoves
  <2>2. CanLand(t) \/ txs[t].st \in {"mined", "signed"}
        BY <1>3, <2>1, SenderFacts
  <2>3. t \in 1..signed
        BY <1>1, <2>2 DEF TxInv, NoSignature, CanLand, TxIds
  <2> QED
      BY <2>1, <2>2, <2>3
<1>4. SUFFICES ASSUME NEW t \in TxIds, t \notin waived', CanLand(t)' \/ txs'[t].st = "mined"
               PROVE  /\ CanLand(t)' => InDoubt(job'[txs'[t].job]) /\ job'[txs'[t].job].tx = t
                      /\ txs'[t].st = "mined" =>
                            \/ InDoubt(job'[txs'[t].job]) /\ job'[txs'[t].job].tx = t
                            \/ job'[txs'[t].job].st \in {"finalized", "gone"}
      BY DEF EvidenceKept, InDoubt, Held, HasEvidence
<1>5. PICK j \in Ids : j = txs[t].job /\ txs'[t].job = j /\ t \in 1..signed /\ t \notin waived
      BY <1>1, <1>2, <1>3, <1>4
<1>6. PICK r, q : r = job[j] /\ q = job'[j]
      OBVIOUS
<1>7. /\ CanLand(t) => InDoubt(r) /\ r.tx = t
      /\ txs[t].st = "mined" => (InDoubt(r) /\ r.tx = t) \/ r.st \in {"finalized", "gone"}
      BY <1>5, <1>6 DEF EvidenceKept
<1>8. CASE UNCHANGED job
  <2>1. CASE CanLand(t) \/ txs[t].st = "mined"
    <3>1. q = r /\ (CanLand(t)' => InDoubt(r) /\ r.tx = t)
      <4>1. txs[t].st = "mined" => txs'[t].st = "mined"
            BY <1>5, ChainMoves
      <4> QED
          BY <1>6, <1>7, <1>8, <2>1, <4>1 DEF CanLand
    <3>2. txs'[t].st = "mined" => (InDoubt(r) /\ r.tx = t) \/ r.st \in {"finalized", "gone"}
          BY <1>3, <1>4, <1>7
    <3> QED
        BY <1>5, <1>6, <3>1, <3>2
  <2>2. CASE ~CanLand(t) /\ txs[t].st # "mined"
    <3>1. PICK w \in Wallets : work[w].pc = "send" /\ SentTx(w) = t
          BY <1>3, <1>4, <2>2
    <3>2. r.st = "broadcast" /\ r.tx = t
          BY <1>5, <1>6, <3>1, SenderFacts
    <3> QED
        BY <1>5, <1>6, <1>8, <3>2 DEF InDoubt
  <2> QED
      BY <2>1, <2>2
<1>9. ASSUME ~UNCHANGED job PROVE /\ CanLand(t)' => CanLand(t)
                                  /\ txs'[t].st = "mined" => txs[t].st = "mined"
                                  /\ CanLand(t) \/ txs[t].st = "mined"
      BY <1>3, <1>4, <1>9
<1>10. ASSUME ~UNCHANGED job, NEW w \in Wallets, NEW s \in Rows, SignStep(w, s)
       PROVE  q = r
  <2>1. PICK k \in Ids : k = work[w].job /\ job[k].st = "validated" /\ job' = [job EXCEPT ![k] = s]
        BY <1>10 DEF SignStep
  <2>2. k # j
        BY <1>6, <1>7, <1>9, <1>10, <2>1 DEF InDoubt, Held
  <2> QED
      BY <1>1, <1>6, <2>1, <2>2
<1>11. ASSUME ~UNCHANGED job, NEW k \in Ids, NEW s \in Rows, RowStep(k, s)
       PROVE  \/ q = r
              \/ InDoubt(r) /\ InDoubt(q) /\ q.tx = r.tx
              \/ txs[t].st = "mined" /\ q.st \in {"finalized", "gone"}
  <2>1. CASE k # j
        BY <1>1, <1>6, <1>11, <2>1 DEF RowStep
  <2>2. CASE k = j
    <3>1. q = s /\ Moves(j, s)
          BY <1>1, <1>6, <1>11, <2>2 DEF RowStep
    <3>2. \/ InDoubt(r) /\ r.tx = t /\ Evidence(r) = t /\ r.tx # NoTx
          \/ txs[t].st = "mined" /\ r.st \in {"finalized", "gone"}
          BY <1>2, <1>5, <1>7, <1>9, <1>11 DEF Evidence, NoTx
    <3>3. ~Dead(t)
          BY <1>2, <1>5, <1>9, <1>11 DEF Dead, CanLand
    <3>4. CASE Admits(j, s) \/ ClaimsRow(j, s) \/ Validates(j, s) \/ FailsEarly(j, s)
          BY <1>6, <3>2, <3>4 DEF Admits, ClaimsRow, Validates, FailsEarly, InDoubt, Held
    <3>5. CASE Requeues(j, s)
          BY <1>6, <3>2, <3>3, <3>5 DEF Requeues, Occupying, Held
    <3>6. CASE Drops(j, s)
          BY <1>4, <1>6, <3>1, <3>2, <3>6 DEF Drops, InDoubt, Held
    <3>7. CASE Finishes(j, s)
          BY <1>6, <3>1, <3>2, <3>7 DEF Finishes, InDoubt, Held
    <3>8. CASE FailsInDoubt(j, s)
          BY <1>6, <3>1, <3>8 DEF FailsInDoubt, KeepsClaim, Keeps, InDoubt
    <3>9. CASE FailsForGood(j, s)
      <4>1. txs[t].st \notin {"signed", "reverted"}
            BY <1>9, <1>11 DEF CanLand
      <4> QED
          BY <1>6, <3>2, <3>9, <4>1 DEF FailsForGood, InDoubt, Held
    <3>10. CASE Includes(j, s)
          BY <1>6, <3>1, <3>10 DEF Includes, KeepsClaim, Keeps, InDoubt
    <3> QED
        BY <3>1, <3>4, <3>5, <3>6, <3>7, <3>8, <3>9, <3>10 DEF Moves
  <2> QED
      BY <2>1, <2>2
<1>12. ASSUME ~UNCHANGED job
       PROVE  \/ q = r
              \/ InDoubt(r) /\ InDoubt(q) /\ q.tx = r.tx
              \/ txs[t].st = "mined" /\ q.st \in {"finalized", "gone"}
       BY <1>10, <1>11, <1>12 DEF Step, SendStep, ChainStep
<1>13. CASE ~UNCHANGED job
  <2>1. txs[t].st = "mined" => ~CanLand(t)
        BY DEF CanLand
  <2>2. q.st \in {"finalized", "gone"} => ~InDoubt(q)
        BY DEF InDoubt, Held
  <2>3. r.st \in {"finalized", "gone"} => ~InDoubt(r)
        BY DEF InDoubt, Held
  <2> QED
      BY <1>5, <1>6, <1>7, <1>9, <1>12, <1>13, <2>1, <2>2, <2>3
<1> QED
    BY <1>8, <1>13

(* A verdict that was asked for stays true until it is applied.               *)
LEMMA StepKeepsAnswers ==
    ASSUME TypeOK, TxInv, RowInv, SenderInv, AskedInv, Step, [Next]_vars
    PROVE  AskedInv'
<1>1. asked \in [Ids -> Answers]
      BY DEF TypeOK, Answers
<1>2. \/ UNCHANGED asked
      \/ \E j \in Ids : AskHeld(j) \/ ApplyHeld(j)
      \/ Crash
  <2>1. CASE UNCHANGED vars
        BY <2>1 DEF vars
  <2>2. CASE Control
        BY <2>2 DEF Control, Enqueue
  <2>3. ASSUME NEW j \in Ids, Operator(j) \/ Detached(j) PROVE UNCHANGED asked
        BY <2>3 DEF Operator, Reaccept, Remove, Override, Detached, SettleDetached,
                    AbandonDetached, EarlyRelease, EarlyReleaseTorn
  <2>4. ASSUME NEW j \in Ids, Reconcile(j) \/ RecoverPreBroadcast(j) PROVE UNCHANGED asked
        BY <2>4 DEF Reconcile, RecoverPreBroadcast
  <2>5. ASSUME NEW w \in Wallets, Claims(w) PROVE UNCHANGED asked
        BY <2>5 DEF Claims, Claim, ClaimTorn
  <2>6. ASSUME NEW w \in Wallets, Worker(w) PROVE UNCHANGED asked
    <3>1. CASE Validate(w) \/ Preflight(w) \/ Noop(w) \/ FailPreSend(w)
          BY <3>1 DEF Validate, Preflight, Noop, FailPreSend
    <3>2. CASE WriteAhead(w) \/ WriteAheadStuck(w) \/ Stale(w)
          BY <3>2 DEF WriteAhead, WriteAheadStuck, Stale
    <3>3. CASE Sends(w)
          BY <3>3 DEF Sends, SendAccepted, SendInline, SendUnclear, SendRejected
    <3>4. CASE Inline(w)
          BY <3>4 DEF Inline, InlineResult, InlineMismatch, InlineUnclear
    <3> QED
        BY <2>6, <3>1, <3>2, <3>3, <3>4 DEF Worker
  <2>7. ASSUME NEW w \in Wallets, Escape(w) \/ FinishRelease(w) \/ SweepLock(w) \/ OtherSend(w)
                                  \/ Expire(w)
        PROVE  UNCHANGED asked
        BY <2>7 DEF Escape, FinishRelease, SweepLock, OtherSend, Expire
  <2>8. ASSUME NEW t \in TxIds, Mine(t) \/ Evict(t) PROVE UNCHANGED asked
        BY <2>8 DEF Mine, Evict
  <2> QED
      BY <2>1, <2>2, <2>3, <2>4, <2>5, <2>6, <2>7, <2>8 DEF Next, Pass
<1>3. ASSUME NEW j \in Ids PROVE asked'[j] = asked[j] \/ asked'[j] = Unasked \/ AskHeld(j)
  <2>1. ASSUME NEW i \in Ids, AskHeld(i), i # j PROVE asked'[j] = asked[j]
        BY <1>1, <2>1 DEF AskHeld
  <2>2. ASSUME NEW i \in Ids, ApplyHeld(i) PROVE asked'[j] = asked[j] \/ asked'[j] = Unasked
        BY <1>1, <2>2 DEF ApplyHeld
  <2>3. ASSUME Crash PROVE asked'[j] = Unasked
        BY <2>3 DEF Crash
  <2> QED
      BY <1>2, <2>1, <2>2, <2>3
<1> DEFINE True(j, t, v) ==
             /\ t \in 1..signed /\ txs[t].job = j
             /\ \/ v = "recovered" /\ txs[t].st = "mined"
                \/ v = "reverted" /\ txs[t].st = "reverted"
                \/ v = "absent" /\ Dead(t)
<1>4. ASSUME NEW j \in Ids, NEW t, NEW v, True(j, t, v) PROVE True(j, t, v)'
  <2>1. /\ t \in 1..signed' /\ txs'[t].job = j
        /\ txs[t].st = "mined" => txs'[t].st = "mined"
        /\ txs[t].st = "reverted" => txs'[t].st = "reverted"
        /\ Dead(t) => Dead(t)'
        BY <1>4, ChainMoves, LiftBoundAssumption DEF TypeOK
  <2> QED
      BY <1>4, <2>1
<1>5. ASSUME NEW j \in Ids, AskHeld(j)
      PROVE  True(j, Evidence(job[j]), Verdict(Evidence(job[j])))
  <2>1. PICK r \in Rows : r = job[j]
        BY DEF TypeOK
  <2>2. PICK t : t = Evidence(r)
        OBVIOUS
  <2>3. t # NoTx
        BY <1>5, <2>1, <2>2 DEF AskHeld, Held, HasEvidence, Evidence
  <2>4. t \in 1..signed /\ txs[t].job = j
        BY <2>1, <2>2, <2>3 DEF RowInv, Evidence
  <2>5. Verdict(t) \in {"recovered", "reverted", "absent"}
        BY <1>5, <2>1, <2>2 DEF AskHeld, Verdict
  <2> QED
      BY <2>1, <2>2, <2>4, <2>5, Verdicts
<1> DEFINE OK(j, a) == a # Unasked => Held(a.row) /\ True(j, Evidence(a.row), a.verdict)
<1>6. ASSUME NEW j \in Ids, NEW a, OK(j, a) PROVE OK(j, a)'
  <2>1. PICK t, v : t = Evidence(a.row) /\ v = a.verdict
        OBVIOUS
  <2>2. a # Unasked => True(j, t, v)'
        BY <1>4, <1>6, <2>1
  <2> QED
      BY <1>6, <2>1, <2>2
<1>7. ASSUME NEW j \in Ids PROVE OK(j, asked'[j])
  <2>1. CASE asked'[j] = asked[j]
        BY <2>1 DEF AskedInv
  <2>2. CASE AskHeld(j)
    <3>1. /\ asked'[j] = [row |-> job[j], verdict |-> Verdict(Evidence(job[j]))]
          /\ Held(job[j])
          BY <1>1, <2>2 DEF AskHeld
    <3> QED
        BY <1>5, <2>2, <3>1
  <2> QED
      BY <1>3, <2>1, <2>2
<1>8. ASSUME NEW j \in Ids PROVE OK(j, asked[j])'
  <2>1. PICK a : a = asked'[j]
        OBVIOUS
  <2>2. OK(j, a)'
        BY <1>6, <1>7, <2>1
  <2> QED
      BY <2>1, <2>2
<1> QED
    BY <1>8 DEF AskedInv

(* A worker stays where its row is: whoever moves the row under it moves it   *)
(* out of the worker's claim, and under a sender only an operator does.       *)
LEMMA StepKeepsWorkers ==
    ASSUME TypeOK, TxInv, RowInv, WorkInv, SenderInv, DetachedInv, AskedInv, Step, [Next]_vars
    PROVE  WorkInv' /\ SenderInv' /\ DetachedInv'
<1> DEFINE Live == {"claimed", "validated", "broadcast", "included"}
           Sender == {"send", "await"}
           Fits(w, p, r) == r.wallet = w /\ r.st \in Live =>
                              /\ p = "claimed" => r.st = "claimed"
                              /\ p \in {"validated", "sign"} => r.st = "validated"
                              /\ p \in Sender => r.st = "broadcast"
           Backed(w, k, r, t) ==
              \/ r.st = "broadcast" /\ r.wallet = w /\ r.token = k.token /\ r.tx = t
              \/ r.st = "gone" /\ t \in waived
           WOK(w) == work[w].pc # "idle" =>
                       work[w].job \in Ids /\ Fits(w, work[w].pc, job[work[w].job])
           SOK(w) == work[w].pc \in Sender =>
                       \E t \in TxIds :
                          /\ LastTx(work[w].job, t) /\ txs[t].wallet = w
                          /\ txs[t].st = "signed" <=> work[w].pc = "send"
                          /\ Backed(w, work[w], job[work[w].job], t)
           DOK(j) == detached[j] # NoRun =>
                       /\ job[j].st \in {"broadcast", "included", "gone"}
                       /\ job[j].st # "gone" =>
                             \A w \in Wallets : ~(work[w].pc \in Sender /\ work[w].job = j)
           Goal == (\A w \in Wallets : WOK(w)' /\ SOK(w)') /\ (\A j \in Ids : DOK(j)')
           Stays(w) == work'[w] = work[w] \/ work'[w].pc = "idle"
           Calm(w) == work'[w] = work[w] \/ work'[w].pc \notin Sender
           Ends(j) == detached'[j] = detached[j] \/ detached'[j] = NoRun
<1>1. /\ job \in [Ids -> Rows] /\ work \in [Wallets -> Works] /\ detached \in [Ids -> Runs]
      /\ txs \in [TxIds -> Txs] /\ MaxSigns \in Nat /\ signed \in Nat /\ waived \subseteq waived'
      /\ \A w \in Wallets : WOK(w) /\ SOK(w)
      /\ \A j \in Ids : DOK(j)
  <2>1. /\ job \in [Ids -> Rows] /\ work \in [Wallets -> Works] /\ detached \in [Ids -> Runs]
        /\ txs \in [TxIds -> Txs] /\ MaxSigns \in Nat /\ signed \in Nat /\ waived \subseteq waived'
        BY LiftBoundAssumption, ChainMoves DEF TypeOK, Works, Runs, Txs
  <2>2. \A w \in Wallets : WOK(w)
        BY DEF WorkInv
  <2>3. \A w \in Wallets : SOK(w)
        BY DEF SenderInv
  <2>4. \A j \in Ids : DOK(j)
        BY DEF DetachedInv
  <2> QED
      BY <2>1, <2>2, <2>3, <2>4
<1>2. SUFFICES Goal
  <2>1. (\A w \in Wallets : WOK(w)') => WorkInv'
        BY DEF WorkInv
  <2>2. (\A w \in Wallets : SOK(w)') => SenderInv'
        BY DEF SenderInv
  <2>3. (\A j \in Ids : DOK(j)') => DetachedInv'
        BY DEF DetachedInv
  <2> QED
      BY <2>1, <2>2, <2>3
<1>3. ASSUME NEW w \in Wallets, Stays(w),
             work[w].pc # "idle" => \/ job'[work[w].job] = job[work[w].job]
                                    \/ job'[work[w].job].st \notin Live
                                    \/ job'[work[w].job].wallet # w
      PROVE  WOK(w)'
  <2>1. CASE work'[w].pc = "idle"
        BY <2>1
  <2>2. CASE work'[w] = work[w] /\ work[w].pc # "idle"
    <3>1. PICK j \in Ids : j = work[w].job
          BY <1>1, <2>2
    <3>4. PICK p : p = work[w].pc
          OBVIOUS
    <3>2. Fits(w, p, job[j]) => Fits(w, p, job'[j])
          BY <1>3, <2>2, <3>1
    <3> QED
        BY <1>1, <2>2, <3>1, <3>2, <3>4
  <2> QED
      BY <1>3, <2>1, <2>2
<1>4. ASSUME NEW w \in Wallets, Calm(w), UNCHANGED txs,
             \/ job'[work[w].job] = job[work[w].job]
             \/ work'[w].pc \notin Sender
             \/ /\ job'[work[w].job].st = "gone" /\ job[work[w].job].st = "broadcast"
                /\ Evidence(job[work[w].job]) \in waived'
      PROVE  SOK(w)'
  <2>1. CASE work'[w].pc \notin Sender
        BY <2>1
  <2>2. CASE work'[w] = work[w] /\ work[w].pc \in Sender
    <3>1. PICK k, j, r, q : k = work[w] /\ j = work[w].job /\ r = job[j] /\ q = job'[j]
          OBVIOUS
    <3>2. PICK t \in TxIds : /\ LastTx(j, t) /\ txs[t].wallet = w
                             /\ txs[t].st = "signed" <=> k.pc = "send"
                             /\ Backed(w, k, r, t)
          BY <1>1, <2>2, <3>1
    <3>3. LastTx(j, t)'
          BY <1>4, <3>2 DEF LastTx
    <3>4. t # NoTx
          BY DEF TxIds, NoTx
    <3>5. \/ q.st = "broadcast" /\ q.wallet = w /\ q.token = k.token /\ q.tx = t
          \/ q.st = "gone" /\ t \in waived'
          BY <1>1, <1>4, <2>2, <3>1, <3>2, <3>4 DEF Evidence
    <3>6. /\ LastTx(work[w].job, t)' /\ txs'[t].wallet = w
          /\ txs'[t].st = "signed" <=> work'[w].pc = "send"
          BY <1>4, <2>2, <3>1, <3>2, <3>3 DEF LastTx
    <3> QED
        BY <2>2, <3>1, <3>5, <3>6
  <2> QED
      BY <1>4, <2>1, <2>2
<1>5. ASSUME NEW j \in Ids, Ends(j), \A w \in Wallets : Calm(w),
             \/ job'[j] = job[j] \/ job'[j].st = "gone" \/ detached'[j] = NoRun
      PROVE  DOK(j)'
      BY <1>1, <1>5
<1> HIDE DEF WOK, SOK, DOK
<1>6. ASSUME NEW j \in Ids, NEW s, job' = [job EXCEPT ![j] = s], s.st \notin Live, UNCHANGED txs,
             \A w \in Wallets : Stays(w), \A i \in Ids : Ends(i), job[j].st # "gone",
             \/ \A w \in Wallets : work[w].pc \in Sender /\ work[w].job = j => work'[w].pc = "idle"
             \/ s.st = "gone" /\ Evidence(job[j]) \in waived',
             s.st = "gone" \/ detached'[j] = NoRun
      PROVE  Goal
  <2>1. job'[j] = s /\ \A i \in Ids \ {j} : job'[i] = job[i]
        BY <1>1, <1>6
  <2>2. ASSUME NEW w \in Wallets PROVE WOK(w)'
    <3>1. work[w].pc # "idle" => work[w].job \in Ids
          BY <1>1 DEF WOK
    <3> QED
        BY <1>3, <1>6, <2>1, <3>1
  <2>3. ASSUME NEW w \in Wallets PROVE SOK(w)'
    <3>1. work[w].pc \in Sender => work[w].job \in Ids
          BY <1>1 DEF WOK
    <3>2. work[w].pc \in Sender => job[work[w].job].st \in {"broadcast", "gone"}
          BY <1>1 DEF SOK
    <3>3. Calm(w)
          BY <1>6
    <3>4. CASE work[w].pc \notin Sender
      <4>1. work'[w].pc \notin Sender
            BY <1>6, <3>4
      <4> QED
          BY <1>4, <1>6, <3>3, <4>1
    <3>5. CASE work[w].pc \in Sender
          BY <1>4, <1>6, <2>1, <3>1, <3>2, <3>3, <3>5
    <3> QED
        BY <3>4, <3>5
  <2>4. ASSUME NEW i \in Ids PROVE DOK(i)'
    <3>1. \A w \in Wallets : Calm(w)
          BY <1>6
    <3> QED
        BY <1>5, <1>6, <2>1, <3>1
  <2> QED
      BY <2>2, <2>3, <2>4
<1>7. ASSUME UNCHANGED <<job, txs>>, \A w \in Wallets : Stays(w), \A i \in Ids : Ends(i)
      PROVE  Goal
  <2>1. \A w \in Wallets : Calm(w)
        BY <1>7
  <2> QED
      BY <1>3, <1>4, <1>5, <1>7, <2>1
<1>8. ASSUME NEW j \in Ids, job[j].st \notin {"broadcast", "included", "gone"}
      PROVE  /\ detached[j] = NoRun
             /\ \A w \in Wallets : ~(work[w].pc \in Sender /\ work[w].job = j)
      BY <1>1, <1>8 DEF DOK, SOK
<1>9. ASSUME NEW j \in Ids, NEW s, job' = [job EXCEPT ![j] = s], s.st \notin Live, UNCHANGED txs,
             \A w \in Wallets : Stays(w), UNCHANGED detached,
             job[j].st \notin {"broadcast", "included", "gone"}
      PROVE  Goal
      BY <1>6, <1>8, <1>9
<1>10. /\ UNCHANGED work => \A w \in Wallets : Stays(w) /\ Calm(w)
       /\ UNCHANGED detached => \A i \in Ids : Ends(i)
       /\ \A w \in Wallets : work' = [work EXCEPT ![w] = Idle] =>
             \A v \in Wallets : Stays(v) /\ Calm(v)
       /\ \A j \in Ids : detached' = [detached EXCEPT ![j] = NoRun] =>
             (\A i \in Ids : Ends(i)) /\ detached'[j] = NoRun
       BY <1>1, Blanks
<1>11. ASSUME NEW j \in Ids
       PROVE  /\ \A c \in {"retryable", "terminal", "unsure", "unfunded", "reverted"} :
                    Failed(job[j], c).st = "failed"
              /\ \A b \in BOOLEAN : Reset(job[j], b).st = "accepted"
              /\ Finalized(job[j]).st = "finalized"
  <2>1. job[j] \in Rows /\ {"retryable", "terminal", "unsure", "unfunded", "reverted"} \subseteq Codes
        BY <1>1 DEF Codes
  <2> QED
      BY <2>1, RowFields
<1>12. [NoRow EXCEPT !.st = "gone"].st = "gone" /\ [NoRow EXCEPT !.st = "accepted"].st = "accepted"
       BY DEF NoRow
<1>13. ASSUME NEW w \in Wallets, Owns(w)
       PROVE  /\ work[w].job \in Ids /\ job[work[w].job].wallet = w
              /\ work[w].pc = "claimed" => job[work[w].job].st = "claimed"
              /\ work[w].pc \in {"validated", "sign"} => job[work[w].job].st = "validated"
              /\ work[w].pc \in Sender => job[work[w].job].st = "broadcast"
              /\ job[work[w].job].token = work[w].token
       BY <1>13, OwnerFacts
<1>14. ASSUME NEW w \in Wallets, NEW v \in Wallets, v # w, work[v].pc \in Sender,
              work[v].job = work[w].job, job[work[w].job].wallet = w, job[work[w].job].st # "gone"
       PROVE  FALSE
       BY <1>1, <1>14 DEF SOK
<1> HIDE DEF Live, Sender, Goal, Stays, Calm, Ends
<1>15. /\ \A x \in {"none", "accepted", "finalized", "failed", "gone"} : x \notin Live
       /\ \A x \in {"idle", "claimed", "validated", "sign"} : x \notin Sender
       /\ \A x \in Works : x.pc # "idle" /\ x.pc \notin {"claimed", "validated", "sign"} =>
             x.pc \in Sender
       BY DEF Live, Sender, Works
<1>16. ASSUME NEW j \in Ids, NEW s, NEW w \in Wallets, job' = [job EXCEPT ![j] = s], s.wallet = w,
              job[j].st \notin {"broadcast", "included", "gone"}, UNCHANGED <<txs, detached>>,
              \A v \in Wallets \ {w} : work'[v] = work[v], work'[w].pc \notin Sender, WOK(w)'
       PROVE  Goal
  <2>1. job'[j] = s /\ \A i \in Ids \ {j} : job'[i] = job[i]
        BY <1>1, <1>16
  <2>2. \A v \in Wallets : Calm(v)
        BY <1>16 DEF Calm
  <2>3. ASSUME NEW v \in Wallets \ {w} PROVE WOK(v)'
    <3>1. Stays(v)
          BY <1>16 DEF Stays
    <3>2. work[v].pc # "idle" => work[v].job \in Ids
          BY <1>1 DEF WOK
    <3> QED
        BY <1>3, <1>16, <2>1, <3>1, <3>2
  <2>4. ASSUME NEW v \in Wallets PROVE SOK(v)'
    <3>1. work[v].pc \in Sender => work[v].job \in Ids /\ work[v].job # j
          BY <1>1, <1>8, <1>16 DEF WOK, Sender
    <3>2. \/ work'[v].pc \notin Sender
          \/ work'[v] = work[v] /\ work[v].pc \in Sender
          BY <1>16
    <3> QED
        BY <1>4, <1>16, <2>1, <2>2, <3>1, <3>2
  <2>5. ASSUME NEW i \in Ids PROVE DOK(i)'
    <3>1. Ends(i) /\ detached'[j] = NoRun
          BY <1>8, <1>16 DEF Ends
    <3> QED
        BY <1>5, <2>1, <2>2, <3>1
  <2> QED
      BY <1>16, <2>3, <2>4, <2>5 DEF Goal
<1>17. ASSUME NEW v \in Wallets, work'[v] = work[v],
              work[v].pc \in Sender =>
                 /\ job'[work[v].job] = job[work[v].job]
                 /\ \A u \in TxIds : txs'[u].job = work[v].job <=> txs[u].job = work[v].job
                 /\ \A u \in TxIds : txs[u].job = work[v].job /\ txs[u].wallet = v =>
                       /\ txs'[u].wallet = v
                       /\ txs'[u].st = "signed" <=> txs[u].st = "signed"
       PROVE  SOK(v)'
  <2>1. CASE work[v].pc \notin Sender
        BY <1>17, <2>1 DEF SOK
  <2>2. CASE work[v].pc \in Sender
    <3>1. PICK k, j, r : k = work[v] /\ j = work[v].job /\ r = job[j]
          OBVIOUS
    <3>2. PICK t \in TxIds : /\ LastTx(j, t) /\ txs[t].wallet = v
                             /\ txs[t].st = "signed" <=> k.pc = "send"
                             /\ Backed(v, k, r, t)
          BY <1>1, <2>2, <3>1 DEF SOK
    <3>3. t \in Nat /\ \A u \in (t + 1)..MaxSigns : u \in TxIds
          BY <1>1 DEF TxIds
    <3>4. LastTx(j, t)'
          BY <1>17, <2>2, <3>1, <3>2, <3>3 DEF LastTx
    <3>5. LastTx(work[v].job, t)'
          BY <1>17, <3>1, <3>4 DEF LastTx
    <3>6. /\ txs'[t].wallet = v
          /\ txs'[t].st = "signed" <=> work'[v].pc = "send"
          BY <1>17, <2>2, <3>1, <3>2 DEF LastTx
    <3>7. \/ r.st = "broadcast" /\ r.wallet = v /\ r.token = k.token /\ r.tx = t
          \/ r.st = "gone" /\ t \in waived'
          BY <1>1, <3>2
    <3>8. work'[v] = k /\ job'[work'[v].job] = r /\ work'[v].pc \in Sender
          BY <1>17, <2>2, <3>1
    <3> QED
        BY <3>5, <3>6, <3>7, <3>8 DEF SOK
  <2> QED
      BY <2>1, <2>2
<1> HIDE DEF Backed, Fits
<1>20. CASE UNCHANGED vars
       BY <1>7, <1>10, <1>20 DEF vars, chainVars
<1>21. ASSUME NEW a \in Assets, Enqueue(a) PROVE Goal
  <2>1. PICK n \in 1..MaxJobs[a] :
          /\ job[<<a, n>>].st = "none"
          /\ job' = [job EXCEPT ![<<a, n>>] = [NoRow EXCEPT !.st = "accepted"]]
        BY <1>21 DEF Enqueue
  <2>2. PICK j \in Ids : j = <<a, n>>
        BY <2>1, IdShape
  <2>3. UNCHANGED <<txs, detached, work>>
        BY <1>21 DEF Enqueue, chainVars
  <2> QED
      BY <1>9, <1>10, <1>12, <1>15, <2>1, <2>2, <2>3
<1>22. ASSUME NEW j \in Ids, Reaccept(j) PROVE Goal
  <2>1. PICK s : /\ job' = [job EXCEPT ![j] = s]
                 /\ s = [Reset(job[j], FALSE) EXCEPT
                           !.tries = IF job[j].tries >= MaxRetries THEN 0 ELSE job[j].tries + 1]
        BY <1>22 DEF Reaccept
  <2>2. s.st = "accepted"
        BY <2>1 DEF Reset, NoRow
  <2>3. UNCHANGED <<txs, detached, work>> /\ job[j].st = "failed"
        BY <1>22 DEF Reaccept, chainVars
  <2>4. job' = [job EXCEPT ![j] = s] /\ s.st \notin Live
        BY <1>15, <2>1, <2>2
  <2> QED
      BY <1>9, <1>10, <2>3, <2>4
<1>23. ASSUME NEW j \in Ids, Remove(j) PROVE Goal
  <2>1. UNCHANGED <<txs, detached, work>> /\ job[j].st \in {"accepted", "finalized", "failed"}
        BY <1>23 DEF Remove, chainVars
  <2>2. job' = [job EXCEPT ![j] = [NoRow EXCEPT !.st = "gone"]]
        BY <1>23 DEF Remove
  <2> QED
      BY <1>9, <1>10, <1>12, <1>15, <2>1, <2>2
<1>24. ASSUME NEW j \in Ids, Override(j) PROVE Goal
  <2>1. /\ UNCHANGED <<txs, detached, work>> /\ job[j].st # "gone"
        /\ Evidence(job[j]) \in waived'
        BY <1>24 DEF Override, chainVars, Held
  <2>2. job' = [job EXCEPT ![j] = [NoRow EXCEPT !.st = "gone"]]
        BY <1>24 DEF Override
  <2> QED
      BY <1>6, <1>10, <1>12, <1>15, <2>1, <2>2
<1>25. ASSUME NEW w \in Wallets, NEW j \in Ids, Claim(w, j) \/ ClaimTorn(w, j) PROVE Goal
  <2>1. PICK k \in Tokens :
          /\ job' = [job EXCEPT ![j] = ClaimedRow(w, j, k)]
          /\ \/ work' = [work EXCEPT ![w] = [pc |-> "claimed", job |-> j, token |-> k]]
             \/ UNCHANGED work
        BY <1>25 DEF Claim, ClaimTorn
  <2>2. /\ UNCHANGED <<txs, detached>> /\ job[j].st = "accepted" /\ work[w].pc = "idle"
        BY <1>25 DEF Claim, ClaimTorn, Claimable, chainVars
  <2>3. PICK s : s = ClaimedRow(w, j, k)
        OBVIOUS
  <2>4. s.st = "claimed" /\ s.wallet = w
        BY <1>1, <2>3 DEF ClaimedRow, Rows
  <2>5. /\ \A v \in Wallets \ {w} : work'[v] = work[v]
        /\ \/ work'[w].pc = "claimed" /\ work'[w].job = j
           \/ work'[w].pc = "idle"
        BY <1>1, <2>1, <2>2
  <2>6. job'[j] = s
        BY <1>1, <2>1, <2>3
  <2>7. WOK(w)'
        BY <1>15, <2>4, <2>5, <2>6 DEF WOK, Fits
  <2> QED
      BY <1>15, <1>16, <2>1, <2>2, <2>3, <2>4, <2>5, <2>7
<1>28. ASSUME NEW w \in Wallets, Validate(w) PROVE Goal
  <2>1. PICK j \in Ids : j = work[w].job /\ job[j].st = "claimed" /\ job[j].wallet = w
        BY <1>13, <1>28 DEF Validate
  <2>2. PICK s : s = [job[j] EXCEPT !.st = "validated"]
        OBVIOUS
  <2>3. s.st = "validated" /\ s.wallet = w
        BY <1>1, <2>1, <2>2 DEF Rows
  <2>4. job' = [job EXCEPT ![j] = s] /\ UNCHANGED <<txs, detached>>
        BY <1>28, <2>1, <2>2 DEF Validate, chainVars
  <2>5. /\ \A v \in Wallets \ {w} : work'[v] = work[v]
        /\ work'[w].pc = "validated" /\ work'[w].job = j
        BY <1>1, <1>28, <2>1 DEF Validate, Works
  <2>6. WOK(w)'
        BY <1>1, <1>15, <2>3, <2>4, <2>5 DEF WOK, Fits
  <2> QED
      BY <1>15, <1>16, <2>1, <2>3, <2>4, <2>5, <2>6
<1>29. ASSUME NEW w \in Wallets, Preflight(w) PROVE Goal
  <2>1. /\ UNCHANGED <<job, txs, detached>> /\ work[w].pc = "validated"
        /\ work' = [work EXCEPT ![w].pc = "sign"]
        BY <1>29 DEF Preflight, chainVars
  <2>2. /\ \A v \in Wallets \ {w} : work'[v] = work[v]
        /\ work'[w].pc = "sign" /\ work'[w].job = work[w].job
        BY <1>1, <2>1 DEF Works
  <2>3. PICK j \in Ids : j = work[w].job
        BY <1>1, <2>1 DEF WOK
  <2>4. PICK r : r = job[j] /\ Fits(w, "validated", r)
        BY <1>1, <2>1, <2>3 DEF WOK
  <2>5. Fits(w, "sign", r)
        BY <1>15, <2>4 DEF Fits
  <2>6. WOK(w)'
        BY <2>1, <2>2, <2>3, <2>4, <2>5 DEF WOK
  <2>7. \A v \in Wallets : Calm(v) /\ (v # w => Stays(v))
        BY <1>15, <2>2 DEF Calm, Stays
  <2>8. \A i \in Ids : Ends(i)
        BY <2>1 DEF Ends
  <2>9. \A v \in Wallets : WOK(v)' /\ SOK(v)'
        BY <1>3, <1>4, <2>1, <2>6, <2>7
  <2> QED
      BY <1>5, <2>1, <2>7, <2>8, <2>9 DEF Goal
<1>30. ASSUME NEW w \in Wallets, Noop(w) \/ FailPreSend(w) PROVE Goal
  <2>1. PICK j \in Ids : j = work[w].job /\ job[j].st \in {"claimed", "validated"}
        BY <1>13, <1>30 DEF Noop, FailPreSend
  <2>2. PICK s : job' = [job EXCEPT ![j] = s] /\ s.st \in {"finalized", "failed"}
        BY <1>11, <1>30, <2>1 DEF Noop, FailPreSend
  <2>3. UNCHANGED <<txs, detached>> /\ work' = [work EXCEPT ![w] = Idle]
        BY <1>30 DEF Noop, FailPreSend, chainVars
  <2> QED
      BY <1>9, <1>10, <1>15, <2>1, <2>2, <2>3
<1>34. ASSUME NEW w \in Wallets, WriteAhead(w) \/ WriteAheadStuck(w) PROVE Goal
  <2>1. PICK j \in Ids : /\ j = work[w].job /\ job[j].st = "validated" /\ job[j].wallet = w
                         /\ job[j].token = work[w].token
        BY <1>13, <1>34 DEF WriteAhead, WriteAheadStuck, Signs
  <2>2. PICK n \in TxIds : n = signed + 1
        BY <1>1, <1>34 DEF WriteAhead, WriteAheadStuck, Signs, TxIds
  <2>3. PICK x : /\ txs' = [txs EXCEPT ![n] = x] /\ x.st = "signed" /\ x.job = j /\ x.wallet = w
        BY <1>34, <2>1, <2>2 DEF WriteAhead, WriteAheadStuck, Signs
  <2>4. txs[n] = NoSignature /\ \A u \in (n + 1)..MaxSigns : u \in TxIds /\ txs[u] = NoSignature
        BY <1>1, <2>2 DEF TxInv, TxIds
  <2>5. txs'[n] = x /\ \A u \in TxIds \ {n} : txs'[u] = txs[u]
        BY <1>1, <2>3
  <2>6. PICK s : /\ job' = [job EXCEPT ![j] = s]
                 /\ \/ /\ s = BroadcastRow(job[j]) /\ work' = [work EXCEPT ![w].pc = "send"]
                    \/ /\ s = Failed(BroadcastRow(job[j]), "unsure")
                       /\ work' = [work EXCEPT ![w] = Idle]
        BY <1>34, <2>1 DEF WriteAhead, WriteAheadStuck
  <2>7. UNCHANGED detached
        BY <1>34 DEF WriteAhead, WriteAheadStuck
  <2>8. job'[j] = s /\ \A i \in Ids \ {j} : job'[i] = job[i]
        BY <1>1, <2>6
  <2>9. PICK b : b = BroadcastRow(job[j])
        OBVIOUS
  <2>10. /\ b.st = "broadcast" /\ b.tx = n /\ b.wallet = w /\ b.token = work[w].token
         /\ b \in Rows
    <3>1. job[j] \in Rows /\ n \in Nat /\ 0 \in Nat
          BY <1>1 DEF TxIds
    <3>2. b = [job[j] EXCEPT !.st = "broadcast", !.tx = n, !.old = 0, !.accounted = FALSE]
          BY <2>2, <2>9 DEF BroadcastRow, NoTx
    <3> QED
        BY <2>1, <3>1, <3>2 DEF Rows, States
  <2>11. Failed(b, "unsure").st = "failed"
    <3>1. "unsure" \in Codes
          BY DEF Codes
    <3> QED
        BY <2>10, <3>1, RowFields
  <2>12. \/ s = b /\ work'[w].pc = "send" /\ work'[w].job = j /\ work'[w].token = work[w].token
         \/ s.st = "failed" /\ work'[w].pc = "idle"
         BY <1>1, <2>1, <2>6, <2>9, <2>11, Blanks DEF Works
  <2>13. \A v \in Wallets \ {w} : work'[v] = work[v]
         BY <1>1, <2>6
  <2>14. \A v \in Wallets : ~(work[v].pc \in Sender /\ work[v].job = j)
         BY <1>8, <2>1
  <2>15. s.wallet = w \/ s.st = "failed"
         BY <2>10, <2>12
  <2>16. ASSUME NEW v \in Wallets \ {w} PROVE WOK(v)' /\ SOK(v)'
    <3>1. Stays(v)
          BY <2>13 DEF Stays
    <3>2. work[v].pc # "idle" => work[v].job \in Ids
          BY <1>1 DEF WOK
    <3>3. WOK(v)'
          BY <1>3, <1>15, <2>8, <2>15, <3>1, <3>2
    <3>4. ASSUME work[v].pc \in Sender
          PROVE  /\ job'[work[v].job] = job[work[v].job] /\ work[v].job # j
                 /\ work[v].job # NoJob
          BY <1>15, <2>8, <2>14, <3>2, <3>4, IdShape
    <3>5. NoSignature.job = NoJob
          BY DEF NoSignature
    <3>6. SOK(v)'
          BY <1>17, <2>3, <2>4, <2>5, <2>13, <3>4, <3>5
    <3> QED
        BY <3>3, <3>6
  <2>17. WOK(w)'
         BY <1>15, <2>8, <2>10, <2>12 DEF WOK, Fits, Sender
  <2>18. SOK(w)'
    <3>1. CASE work'[w].pc = "idle"
          BY <1>15, <3>1 DEF SOK
    <3>2. CASE s = b /\ work'[w].pc = "send" /\ work'[w].job = j /\ work'[w].token = work[w].token
      <4>1. LastTx(j, n)'
        <5>1. \A u \in (n + 1)..MaxSigns : u # n /\ u \in TxIds
              BY <1>1, <2>2, <2>4
        <5>2. NoSignature.job # j
              BY IdShape DEF NoSignature
        <5> QED
            BY <2>3, <2>4, <2>5, <5>1, <5>2 DEF LastTx
      <4>2. LastTx(work[w].job, n)'
            BY <3>2, <4>1 DEF LastTx
      <4> QED
          BY <2>3, <2>5, <2>8, <2>10, <3>2, <4>2 DEF SOK, Backed
    <3> QED
        BY <2>12, <3>1, <3>2
  <2>19. ASSUME NEW i \in Ids PROVE DOK(i)'
    <3>1. CASE i = j
          BY <1>8, <2>1, <2>7, <3>1 DEF DOK
    <3>2. CASE i # j
      <4>1. \A v \in Wallets : work'[v].pc \in Sender /\ work'[v].job = i =>
                                 work[v].pc \in Sender /\ work[v].job = i
            BY <1>15, <2>12, <2>13, <3>2
      <4> QED
          BY <1>1, <2>7, <2>8, <3>2, <4>1 DEF DOK
    <3> QED
        BY <3>1, <3>2
  <2> QED
      BY <2>16, <2>17, <2>18, <2>19 DEF Goal
<1>36. ASSUME NEW w \in Wallets, SendAccepted(w) \/ SendInline(w) \/ SendUnclear(w) PROVE Goal
  <2>1. PICK n \in TxIds : /\ n = SentTx(w) /\ txs[n].wallet = w
        BY <1>36, SenderFacts DEF SendAccepted, SendInline, SendUnclear
  <2>2. PICK x \in {"signed", "sent"} : txs' = [txs EXCEPT ![n].st = x]
        BY <1>36, <2>1 DEF SendAccepted, SendInline, SendUnclear
  <2>3. /\ UNCHANGED job /\ work[w].pc = "send" /\ work[w].pc \in Sender
        BY <1>36 DEF SendAccepted, SendInline, SendUnclear, Sender
  <2>4. PICK j \in Ids : j = work[w].job
        BY <1>1, <2>3 DEF WOK
  <2>5. /\ txs'[n] = [txs[n] EXCEPT !.st = x] /\ \A u \in TxIds \ {n} : txs'[u] = txs[u]
        BY <1>1, <2>2
  <2>6. /\ txs'[n].job = txs[n].job /\ txs'[n].wallet = txs[n].wallet /\ txs'[n].st = x
        BY <1>1, <2>5 DEF Txs
  <2>7. \/ /\ work' = [work EXCEPT ![w] = Idle] /\ UNCHANGED detached
        \/ /\ work' = [work EXCEPT ![w] = Idle] /\ Owns(w)
           /\ \A i \in Ids \ {j} : detached'[i] = detached[i]
        \/ /\ work' = [work EXCEPT ![w].pc = "await"] /\ UNCHANGED detached
           /\ txs' = [txs EXCEPT ![n].st = "sent"]
        BY <1>1, <1>36, <2>1, <2>4 DEF SendAccepted, SendInline, SendUnclear
  <2>8. /\ \A v \in Wallets \ {w} : work'[v] = work[v]
        /\ \/ work'[w].pc = "idle"
           \/ /\ work'[w].pc = "await" /\ work'[w].job = j /\ work'[w].token = work[w].token
              /\ txs'[n].st = "sent"
        BY <1>1, <2>4, <2>6, <2>7, Blanks DEF Works, Txs
  <2>9. ASSUME NEW v \in Wallets \ {w} PROVE WOK(v)' /\ SOK(v)'
    <3>1. Stays(v)
          BY <2>8 DEF Stays
    <3>2. WOK(v)'
          BY <1>3, <2>3, <3>1
    <3>3. SOK(v)'
      <4>1. \A u \in TxIds : txs'[u].job = txs[u].job
            BY <2>5, <2>6
      <4>2. \A u \in TxIds : txs[u].wallet = v => txs'[u] = txs[u]
            BY <2>1, <2>5
      <4>3. work'[v] = work[v] /\ job'[work[v].job] = job[work[v].job]
            BY <2>3, <2>8
      <4> QED
          BY <1>17, <4>1, <4>2, <4>3
    <3> QED
        BY <3>2, <3>3
  <2>10. WOK(w)'
    <3>1. PICK r : r = job[j] /\ Fits(w, "send", r)
          BY <1>1, <2>3, <2>4 DEF WOK
    <3>2. Fits(w, "await", r)
          BY <3>1 DEF Fits, Sender
    <3> QED
        BY <2>3, <2>8, <3>1, <3>2 DEF WOK
  <2>11. SOK(w)'
    <3>1. CASE work'[w].pc = "idle"
          BY <1>15, <3>1 DEF SOK
    <3>2. CASE /\ work'[w].pc = "await" /\ work'[w].job = j /\ work'[w].token = work[w].token
               /\ txs'[n].st = "sent"
      <4>1. PICK t \in TxIds : LastTx(j, t) /\ Backed(w, work[w], job[j], t)
            BY <1>1, <2>3, <2>4 DEF SOK
      <4>2. t = n
            BY <2>1, <2>4, <4>1, SentIsLast
      <4>3. \A u \in TxIds : txs'[u].job = txs[u].job
            BY <2>5, <2>6
      <4>4. \A u \in (n + 1)..MaxSigns : u \in TxIds
            BY <1>1 DEF TxIds
      <4>5. LastTx(work[w].job, n)'
            BY <3>2, <4>1, <4>2, <4>3, <4>4 DEF LastTx
      <4>6. \/ job[j].st = "broadcast" /\ job[j].wallet = w /\ job[j].token = work[w].token /\ job[j].tx = n
            \/ job[j].st = "gone" /\ n \in waived'
            BY <1>1, <4>1, <4>2 DEF Backed
      <4> QED
          BY <2>1, <2>3, <2>6, <3>2, <4>5, <4>6 DEF SOK, Backed
    <3> QED
        BY <2>8, <3>1, <3>2
  <2>12. ASSUME NEW i \in Ids PROVE DOK(i)'
    <3>1. \A v \in Wallets : work'[v].pc \in Sender /\ work'[v].job = i =>
                               work[v].pc \in Sender /\ work[v].job = i
          BY <1>15, <2>3, <2>4, <2>8
    <3>2. CASE detached'[i] = detached[i]
          BY <1>1, <2>3, <3>1, <3>2 DEF DOK
    <3>3. CASE i = j /\ Owns(w) /\ work'[w].pc = "idle"
      <4>1. job[j].st = "broadcast" /\ job[j].wallet = w
            BY <1>13, <2>3, <2>4, <3>3
      <4>2. \A v \in Wallets : ~(work'[v].pc \in Sender /\ work'[v].job = j)
            BY <1>14, <1>15, <2>4, <2>8, <3>3, <4>1
      <4> QED
          BY <2>3, <3>3, <4>1, <4>2 DEF DOK
    <3>4. work' = [work EXCEPT ![w] = Idle] => work'[w].pc = "idle"
          BY <1>1, Blanks
    <3> QED
        BY <2>7, <3>2, <3>3, <3>4
  <2> QED
      BY <2>9, <2>10, <2>11, <2>12 DEF Goal
<1>38. ASSUME NEW w \in Wallets, SendRejected(w) \/ InlineResult(w) \/ InlineMismatch(w) PROVE Goal
  <2>1. PICK j \in Ids : j = work[w].job /\ job[j].st = "broadcast" /\ job[j].wallet = w
        BY <1>13, <1>38 DEF SendRejected, InlineResult, InlineMismatch, Sender
  <2>2. PICK s : job' = [job EXCEPT ![j] = s] /\ s.st \in {"finalized", "failed"}
        BY <1>11, <1>38, <2>1 DEF SendRejected, InlineResult, InlineMismatch
  <2>3. /\ UNCHANGED <<txs, detached>> /\ work' = [work EXCEPT ![w] = Idle]
        /\ work[w].pc \in Sender
        BY <1>38 DEF SendRejected, InlineResult, InlineMismatch, chainVars, Sender
  <2>4. detached[j] = NoRun /\ work'[w].pc = "idle"
        BY <1>1, <2>1, <2>3, Blanks DEF DOK
  <2>5. \A v \in Wallets : work[v].pc \in Sender /\ work[v].job = j => work'[v].pc = "idle"
        BY <1>14, <2>1, <2>4
  <2> QED
      BY <1>6, <1>10, <1>15, <2>1, <2>2, <2>3, <2>4, <2>5
<1>42. ASSUME NEW w \in Wallets, InlineUnclear(w) \/ Escape(w) PROVE Goal
  <2>1. UNCHANGED <<job, txs, detached>> /\ work' = [work EXCEPT ![w] = Idle]
        BY <1>42 DEF InlineUnclear, Escape, chainVars
  <2> QED
      BY <1>7, <1>10, <2>1
<1>43. ASSUME NEW w \in Wallets, Stale(w) PROVE Goal
  <2>1. PICK j \in Ids : j = work[w].job
        BY <1>1, <1>43 DEF Stale, WOK
  <2>2. UNCHANGED <<txs, detached>> /\ work' = [work EXCEPT ![w] = Idle]
        BY <1>43 DEF Stale, chainVars
  <2>3. \/ UNCHANGED job
        \/ job[j].st \in {"claimed", "validated"} /\ job' = [job EXCEPT ![j] = Reset(job[j], FALSE)]
        BY <1>43, <2>1 DEF Stale
  <2>4. \A v \in Wallets : Stays(v)
        BY <1>10, <2>2
  <2>5. CASE UNCHANGED job
        BY <1>7, <1>10, <2>2, <2>4, <2>5
  <2>6. CASE job[j].st \in {"claimed", "validated"} /\ job' = [job EXCEPT ![j] = Reset(job[j], FALSE)]
    <3>1. Reset(job[j], FALSE).st \notin Live
          BY <1>11, <1>15
    <3> QED
        BY <1>9, <2>2, <2>4, <2>6, <3>1
  <2> QED
      BY <2>3, <2>5, <2>6
<1>46. ASSUME NEW j \in Ids, SettleDetached(j) PROVE Goal
  <2>1. /\ UNCHANGED <<txs, work>> /\ detached' = [detached EXCEPT ![j] = NoRun]
        /\ detached[j] # NoRun
        BY <1>46 DEF SettleDetached, chainVars, Certified
  <2>2. \/ UNCHANGED job
        \/ /\ job[j].st \in {"broadcast", "included"}
           /\ job' = [job EXCEPT ![j] = Finalized(job[j])]
        BY <1>46 DEF SettleDetached
  <2>3. CASE UNCHANGED job
        BY <1>7, <1>10, <2>1, <2>3
  <2>4. CASE /\ job[j].st \in {"broadcast", "included"}
             /\ job' = [job EXCEPT ![j] = Finalized(job[j])]
    <3>1. \A v \in Wallets : ~(work[v].pc \in Sender /\ work[v].job = j)
          BY <1>1, <2>1, <2>4 DEF DOK
    <3> QED
        BY <1>6, <1>10, <1>11, <1>15, <2>1, <2>4, <3>1
  <2> QED
      BY <2>2, <2>3, <2>4
<1>47. ASSUME NEW j \in Ids, AbandonDetached(j) \/ AskHeld(j) PROVE Goal
  <2>1. /\ UNCHANGED <<job, txs, work>>
        /\ UNCHANGED detached \/ detached' = [detached EXCEPT ![j] = NoRun]
        BY <1>47 DEF AbandonDetached, AskHeld, chainVars
  <2> QED
      BY <1>7, <1>10, <2>1
<1>48. ASSUME NEW j \in Ids, EarlyRelease(j) \/ EarlyReleaseTorn(j) PROVE Goal
  <2>1. /\ UNCHANGED <<txs, work, detached>> /\ job[j].st \in {"broadcast", "included"}
        /\ detached[j] # NoRun
        BY <1>48 DEF EarlyRelease, EarlyReleaseTorn, HintProven, chainVars
  <2>2. PICK s : s = [job[j] EXCEPT !.st = "included"]
        OBVIOUS
  <2>3. s.st = "included" /\ s.wallet = job[j].wallet
        BY <1>1, <2>2 DEF Rows
  <2>4. job' = [job EXCEPT ![j] = s]
        BY <1>48, <2>2 DEF EarlyRelease, EarlyReleaseTorn
  <2>5. job'[j] = s /\ \A i \in Ids \ {j} : job'[i] = job[i]
        BY <1>1, <2>4
  <2>6. \A v \in Wallets : ~(work[v].pc \in Sender /\ work[v].job = j)
        BY <1>1, <2>1 DEF DOK
  <2>7. ASSUME NEW v \in Wallets PROVE WOK(v)' /\ SOK(v)'
    <3>1. work[v].pc # "idle" => work[v].job \in Ids
          BY <1>1 DEF WOK
    <3>2. work[v].pc # "idle" /\ work[v].job = j /\ job[j].wallet = v => work[v].pc \in Sender
          BY <1>1, <1>15, <2>1 DEF WOK, Fits, Live
    <3>3. WOK(v)'
      <4>1. Stays(v)
            BY <1>10, <2>1
      <4>2. work[v].pc # "idle" => \/ job'[work[v].job] = job[work[v].job]
                                   \/ job'[work[v].job].wallet # v
            BY <2>3, <2>5, <2>6, <3>1, <3>2
      <4> QED
          BY <1>3, <4>1, <4>2
    <3>6. work'[v] = work[v]
          BY <2>1
    <3>4. CASE work[v].pc \notin Sender
          BY <3>3, <3>4, <3>6 DEF SOK
    <3>5. CASE work[v].pc \in Sender
          BY <1>4, <1>10, <1>15, <2>1, <2>5, <2>6, <3>1, <3>3, <3>5
    <3> QED
        BY <3>4, <3>5
  <2>8. ASSUME NEW i \in Ids PROVE DOK(i)'
        BY <1>1, <2>1, <2>3, <2>5, <2>6 DEF DOK
  <2> QED
      BY <2>7, <2>8 DEF Goal
<1>50. ASSUME NEW j \in Ids, Reconcile(j) PROVE Goal
  <2>1. /\ UNCHANGED <<txs, work, detached>> /\ job[j].st # "gone" /\ detached[j] = NoRun
        /\ ~Processing(j)
        BY <1>50 DEF Reconcile, Actionable, chainVars
  <2>2. \/ UNCHANGED job
        \/ job' = [job EXCEPT ![j] = Finalized(job[j])]
        \/ job' = [job EXCEPT ![j] = Failed(job[j], "reverted")]
        \/ job' = [job EXCEPT ![j] = Reset(job[j], TRUE)]
        BY <1>50 DEF Reconcile
  <2>3. \A v \in Wallets : ~(work[v].pc \in Sender /\ work[v].job = j)
        BY <1>15, <2>1 DEF Processing
  <2>4. ASSUME NEW s, job' = [job EXCEPT ![j] = s], s.st \in {"finalized", "failed", "accepted"}
        PROVE  Goal
        BY <1>6, <1>10, <1>15, <2>1, <2>3, <2>4
  <2> QED
      BY <1>7, <1>10, <1>11, <2>1, <2>2, <2>4
<1>51. ASSUME NEW j \in Ids, RecoverPreBroadcast(j) PROVE Goal
  <2>1. /\ UNCHANGED <<txs, work, detached>> /\ job[j].st \in {"claimed", "validated"}
        /\ job' = [job EXCEPT ![j] = Reset(job[j], FALSE)]
        BY <1>51 DEF RecoverPreBroadcast, chainVars
  <2> QED
      BY <1>9, <1>10, <1>11, <1>15, <2>1
<1>52. ASSUME NEW w \in Wallets, FinishRelease(w) \/ SweepLock(w) \/ Expire(w) PROVE Goal
  <2>1. UNCHANGED <<job, txs, work, detached>>
        BY <1>52 DEF FinishRelease, SweepLock, Expire, chainVars
  <2> QED
      BY <1>7, <1>10, <2>1
<1>55. ASSUME NEW j \in Ids, ApplyHeld(j) PROVE Goal
  <2>1. UNCHANGED <<txs, work, detached>>
        BY <1>55 DEF ApplyHeld, chainVars
  <2>2. PICK r \in Rows : r = job[j]
        BY <1>1
  <2>3. \/ UNCHANGED job
        \/ r = asked[j].row /\ job' = [job EXCEPT ![j] = Disposed(r, asked[j].verdict)]
        BY <1>55, <2>2 DEF ApplyHeld, SameHeld
  <2>4. CASE r = asked[j].row /\ job' = [job EXCEPT ![j] = Disposed(r, asked[j].verdict)]
    <3>1. PICK s : s = Disposed(r, asked[j].verdict)
          OBVIOUS
    <3>2. r.st = "failed"
          BY <1>55, <2>4 DEF ApplyHeld, AskedInv, Held
    <3>3. s.st \in {"finalized", "failed", "accepted"}
          BY <1>11, <2>2, <3>1, <3>2 DEF Disposed
    <3> QED
        BY <1>9, <1>10, <1>15, <2>1, <2>2, <2>4, <3>1, <3>2, <3>3
  <2> QED
      BY <1>7, <1>10, <2>1, <2>3, <2>4
<1>56. ASSUME UNCHANGED <<job, work, detached>>,
              \A u \in TxIds : /\ txs'[u].job = txs[u].job /\ txs'[u].wallet = txs[u].wallet
                               /\ txs'[u].st = "signed" <=> txs[u].st = "signed"
       PROVE  Goal
      BY <1>3, <1>5, <1>10, <1>17, <1>56 DEF Goal
<1>57. ASSUME NEW t \in TxIds, Mine(t) \/ Evict(t) PROVE Goal
  <2>1. PICK x \in {"mined", "reverted", "evicted"} : txs' = [txs EXCEPT ![t].st = x]
        BY <1>57 DEF Mine, Evict
  <2>2. txs[t].st # "signed" /\ UNCHANGED <<job, work, detached>>
        BY <1>57 DEF Mine, Evict, CanLand
  <2>3. txs'[t] = [txs[t] EXCEPT !.st = x] /\ \A u \in TxIds \ {t} : txs'[u] = txs[u]
        BY <1>1, <2>1
  <2>4. txs'[t].job = txs[t].job /\ txs'[t].wallet = txs[t].wallet /\ txs'[t].st = x
        BY <1>1, <2>3 DEF Txs
  <2> QED
      BY <1>56, <2>2, <2>3, <2>4
<1>58. ASSUME NEW w \in Wallets, OtherSend(w) PROVE Goal
  <2>1. UNCHANGED <<job, work, detached, txs>>
        BY <1>58 DEF OtherSend
  <2> QED
      BY <1>7, <1>10, <2>1
<1>60. CASE Crash
  <2>1. UNCHANGED <<job, txs>> /\ (\A w \in Wallets : work'[w] = Idle) /\ \A j \in Ids : detached'[j] = NoRun
        BY <1>60 DEF Crash, chainVars
  <2>2. (\A w \in Wallets : Stays(w)) /\ \A j \in Ids : Ends(j)
        BY <2>1, Blanks DEF Stays, Ends
  <2> QED
      BY <1>7, <2>1, <2>2
<1> QED
    BY <1>20, <1>21, <1>22, <1>23, <1>24, <1>25, <1>28, <1>29, <1>30, <1>34, <1>36, <1>38, <1>42,
       <1>43, <1>46, <1>47, <1>48, <1>50, <1>51, <1>52, <1>55, <1>57, <1>58, <1>60
    DEF Next, Control, Operator, Claims, Sends, Inline, Worker, Detached, Pass

-------------------------------------------------------------------------------
(* The queue's invariant and what follows from it.                            *)

(* Nothing has been admitted, signed or asked at the start.                   *)
LEMMA InitQueueInv == Init => QueueInv
<1> SUFFICES ASSUME Init PROVE QueueInv
    OBVIOUS
<1>1. TypeOK
  <2>1. /\ MaxSigns \in Nat /\ MaxOther \in Nat /\ MaxFaults \in Nat
        BY LiftBoundAssumption
  <2>2. job \in [Ids -> Rows] /\ lock \in [Wallets -> Locks] /\ work \in [Wallets -> Works]
        BY Blanks DEF Init
  <2>3. detached \in [Ids -> Runs] /\ asked \in [Ids -> Answers] /\ txs \in [TxIds -> Txs]
        BY Blanks DEF Init
  <2> QED
      BY <2>1, <2>2, <2>3 DEF Init, TypeOK, Locks, Works, Runs, Answers, Txs
<1>2. /\ \A j \in Ids : job[j] = NoRow /\ detached[j] = NoRun /\ asked[j] = Unasked
      /\ \A w \in Wallets : work[w].pc = "idle"
      /\ \A t \in TxIds : txs[t] = NoSignature
      /\ signed = 0 /\ waived = {}
      BY DEF Init, Idle
<1>3. TxInv
      BY <1>2 DEF TxInv, TxIds
<1>4. RowInv
      BY <1>2 DEF RowInv, NoRow
<1>5. WorkInv /\ SenderInv /\ DetachedInv /\ AskedInv
      BY <1>2 DEF WorkInv, SenderInv, DetachedInv, AskedInv
<1>6. EvidenceKept
      BY <1>2 DEF EvidenceKept, CanLand, NoSignature
<1> QED
    BY <1>1, <1>3, <1>4, <1>5, <1>6 DEF QueueInv

(* The invariant is inductive.                                                *)
LEMMA QueueInvStep ==
    ASSUME QueueInv, [Next]_vars
    PROVE  QueueInv' /\ Step
<1>1. TypeOK /\ TxInv /\ RowInv /\ WorkInv /\ SenderInv /\ DetachedInv /\ AskedInv /\ EvidenceKept
      BY DEF QueueInv
<1>2. Step
      BY Steps
<1>3. TypeOK'
      BY <1>1, TypeStep
<1>4. TxInv'
      BY <1>1, <1>2, ChainMoves
<1>5. RowInv'
      BY <1>1, <1>2, <1>3, RowStepKeepsRows
<1>6. WorkInv' /\ SenderInv' /\ DetachedInv'
      BY <1>1, <1>2, StepKeepsWorkers
<1>7. AskedInv'
      BY <1>1, <1>2, StepKeepsAnswers
<1>8. EvidenceKept'
      BY <1>1, <1>2, <1>3, StepKeepsEvidence
<1> QED
    BY <1>2, <1>3, <1>4, <1>5, <1>6, <1>7, <1>8 DEF QueueInv

(* The queue's invariant holds throughout.                                    *)
LEMMA QueueInvHolds == Spec => []QueueInv
    BY InitQueueInv, QueueInvStep, PTL DEF Spec

(* Every variable of the queue, its workers and the chain keeps its type.     *)
THEOREM LiftTypes == Spec => []TypeOK
<1>1. QueueInv => TypeOK
      BY DEF QueueInv
<1> QED
    BY <1>1, QueueInvHolds, PTL

(* A transaction that is out is never forgotten: until an operator gives it   *)
(* up, the job row that was written ahead of the send names it while it can   *)
(* land, and once it has landed until the job is done.                        *)
THEOREM EvidenceIsKept == Spec => []EvidenceKept
<1>1. QueueInv => EvidenceKept
      BY DEF QueueInv
<1> QED
    BY <1>1, QueueInvHolds, PTL

(* Reconciliation, recovery, dispatch, sweeps and the other workers leave the *)
(* row of a worker that is sending alone: it is the broadcast that worker     *)
(* wrote, under its own claim, unless an operator removed the job.            *)
THEOREM SendersAreFenced == Spec => []SenderIsFenced
<1>1. ASSUME QueueInv PROVE SenderIsFenced
  <2>1. SenderInv
        BY <1>1 DEF QueueInv
  <2> SUFFICES ASSUME NEW w \in Wallets, work[w].pc \in {"send", "await"}, Exists(work[w].job)
               PROVE  LET r == job[work[w].job]
                      IN  /\ r.st = "broadcast" /\ r.wallet = w /\ r.token = work[w].token
                          /\ txs[r.tx].st = "signed" <=> work[w].pc = "send"
      BY DEF SenderIsFenced
  <2> QED
      BY <2>1, SenderFacts DEF Exists
<1> QED
    BY <1>1, QueueInvHolds, PTL

(* A job is finalized only when a transaction for its asset has landed,       *)
(* whichever of the lanes finished it: the worker's result, a detached        *)
(* result, the reconciliation pass, the dispatcher or a preflight.            *)
THEOREM FinalizedHasLanded == Spec => []FinalizedIsLanded
<1>1. Init => FinalizedIsLanded
      BY DEF Init, FinalizedIsLanded, NoRow
<1>2. ASSUME QueueInv, FinalizedIsLanded, [Next]_vars PROVE FinalizedIsLanded'
  <2>1. Step /\ TypeOK /\ TxInv /\ SenderInv
        BY <1>2, QueueInvStep DEF QueueInv
  <2>2. job \in [Ids -> Rows] /\ signed \in Nat
        BY <2>1, LiftBoundAssumption DEF TypeOK
  <2>3. ASSUME NEW a, Landed(a) PROVE Landed(a)'
    <3>1. PICK t \in TxIds : txs[t].st = "mined" /\ txs[t].job[1] = a
          BY <2>3 DEF Landed, AssetOf
    <3>2. t \in 1..signed
          BY <2>1, <2>2, <3>1 DEF TxInv, NoSignature, TxIds
    <3>3. txs'[t].st = "mined" /\ txs'[t].job = txs[t].job
          BY <2>1, <3>1, <3>2, ChainMoves
    <3> QED
        BY <3>1, <3>3 DEF Landed, AssetOf
  <2>4. ASSUME NEW j \in Ids, job'[j].st = "finalized", job[j].st # "finalized" PROVE Landed(j[1])
    <3>1. ASSUME NEW k \in Ids, NEW s \in Rows, RowStep(k, s) PROVE Landed(j[1])
      <4>1. k = j /\ s.st = "finalized" /\ Moves(j, s)
            BY <2>2, <2>4, <3>1 DEF RowStep
      <4> QED
          BY <4>1 DEF Moves, Admits, Requeues, Drops, ClaimsRow, Validates, Finishes, FailsEarly,
                      FailsInDoubt, FailsForGood, Includes
    <3>2. ASSUME NEW w \in Wallets, NEW s \in Rows, SignStep(w, s) PROVE FALSE
          BY <2>2, <2>4, <3>2 DEF SignStep
    <3> QED
        BY <2>1, <2>4, <3>1, <3>2 DEF Step, SendStep, ChainStep
  <2>5. ASSUME NEW j \in Ids, job'[j].st = "finalized" PROVE Landed(j[1])'
    <3>1. Landed(j[1])
          BY <1>2, <2>4, <2>5 DEF FinalizedIsLanded
    <3> QED
        BY <2>3, <3>1
  <2> QED
      BY <2>5 DEF FinalizedIsLanded
<1> QED
    BY <1>1, <1>2, QueueInvHolds, PTL DEF Spec

(* A job that was cleared or cancelled never comes back, whatever verdict,    *)
(* result, reset or retry was under way for it.                               *)
THEOREM RemovedIsFinal == Spec => RemovedStaysRemoved
<1>1. ASSUME QueueInv, [Next]_vars
      PROVE  [\A j \in Ids : job[j].st = "gone" => job'[j].st = "gone"]_vars
  <2>1. Step /\ job \in [Ids -> Rows]
        BY <1>1, QueueInvStep DEF QueueInv, TypeOK
  <2>2. ASSUME NEW j \in Ids, job[j].st = "gone" PROVE job'[j].st = "gone"
    <3>1. ASSUME NEW k \in Ids, NEW s \in Rows, RowStep(k, s) PROVE job'[j] = job[j]
      <4>1. job' = [job EXCEPT ![k] = s] /\ Moves(k, s)
            BY <3>1 DEF RowStep
      <4>2. k # j
            BY <2>2, <4>1 DEF Moves, Admits, Requeues, Drops, ClaimsRow, Validates, Finishes,
                              FailsEarly, FailsInDoubt, FailsForGood, Includes, Occupying, InDoubt,
                              Held
      <4> QED
          BY <2>1, <4>1, <4>2
    <3>2. ASSUME NEW w \in Wallets, NEW s \in Rows, SignStep(w, s) PROVE job'[j] = job[j]
          BY <2>1, <2>2, <3>2 DEF SignStep
    <3> QED
        BY <2>1, <2>2, <3>1, <3>2 DEF Step, SendStep, ChainStep
  <2> QED
      BY <2>2
<1> QED
    BY <1>1, QueueInvHolds, PTL DEF Spec, RemovedStaysRemoved

-------------------------------------------------------------------------------
(* One publish per asset.                                                     *)

(* Of the jobs of an asset at most one is still to do anything, so at most    *)
(* one has a transaction in doubt.                                            *)
LEMMA OneOccupying ==
    ASSUME OrderInv, NEW j \in Ids, NEW k \in Ids, j[1] = k[1], Occupying(job[j]), Occupying(job[k])
    PROVE  j = k
<1>1. job[j].st # "none" /\ job[k].st # "none"
      BY DEF Occupying
<1>2. ~(j[2] < k[2]) /\ ~(k[2] < j[2])
      BY <1>1 DEF OrderInv
<1>3. j[2] \in Nat /\ k[2] \in Nat /\ j = <<j[1], j[2]>> /\ k = <<k[1], k[2]>>
      BY IdShape
<1>4. j[2] = k[2]
      BY <1>2, <1>3
<1> QED
    BY <1>3, <1>4

(* A job whose transaction is in doubt occupies its asset.                    *)
LEMMA DoubtOccupies ==
    ASSUME NEW r, InDoubt(r)
    PROVE  Occupying(r) /\ r.st \in {"broadcast", "included", "failed"}
    BY DEF InDoubt, Occupying, Held

(* Jobs of an asset are admitted one after the other.                         *)
LEMMA StepKeepsOrder ==
    ASSUME QueueInv, OrderInv, Step
    PROVE  OrderInv'
<1>1. job \in [Ids -> Rows]
      BY DEF QueueInv, TypeOK
<1> DEFINE Ordered(r, q) == q.st # "none" => r.st # "none" /\ ~Occupying(r)
<1>2. SUFFICES ASSUME NEW j \in Ids, NEW k \in Ids, j[1] = k[1], j[2] < k[2]
               PROVE  Ordered(job'[j], job'[k])
      BY DEF OrderInv, Occupying, Held, HasEvidence
<1>3. Ordered(job[j], job[k])
      BY <1>2 DEF OrderInv
<1>4. j # k
      BY <1>2, IdShape
<1>5. ASSUME NEW i \in Ids, NEW s \in Rows, RowStep(i, s) PROVE Ordered(job'[j], job'[k])
  <2>1. job'[i] = s /\ (\A x \in Ids \ {i} : job'[x] = job[x]) /\ Moves(i, s)
        BY <1>1, <1>5 DEF RowStep
  <2>2. CASE i # j /\ i # k
        BY <1>3, <2>1, <2>2
  <2>3. CASE i = j
    <3>1. job[j].st # "none" /\ ~Occupying(job[j]) => s.st # "none" /\ ~Occupying(s)
      <4>1. Admits(j, s) \/ Requeues(j, s) => job[j].st = "none" \/ Occupying(job[j])
            BY DEF Admits, Requeues
      <4>2. ClaimsRow(j, s) \/ Validates(j, s) \/ FailsEarly(j, s) \/ FailsInDoubt(j, s)
            \/ Includes(j, s) => Occupying(job[j])
            BY DEF ClaimsRow, Validates, FailsEarly, FailsInDoubt, Includes, Occupying
      <4>3. Drops(j, s) \/ Finishes(j, s) \/ FailsForGood(j, s) => s.st # "none" /\ ~Occupying(s)
            BY DEF Drops, Finishes, FailsForGood, Occupying
      <4> QED
          BY <2>1, <2>3, <4>1, <4>2, <4>3 DEF Moves
    <3> QED
        BY <1>3, <1>4, <2>1, <2>3, <3>1
  <2>4. CASE i = k
    <3>1. CASE job[k].st # "none"
          BY <1>3, <1>4, <2>1, <2>4, <3>1
    <3>2. CASE job[k].st = "none"
      <4>1. Admits(k, s)
            BY <2>1, <2>4, <3>2 DEF Moves, Requeues, Drops, ClaimsRow, Validates, Finishes,
               FailsEarly, FailsInDoubt, FailsForGood, Includes, Occupying, InDoubt, Held
      <4>2. job[j].st # "none" /\ Binding(j[1]) = {}
            BY <1>2, <4>1 DEF Admits
      <4>3. ASSUME Occupying(job[j]) PROVE FALSE
        <5>1. PICK n \in (j[2] + 1)..MaxJobs[j[1]] : Exists(<<j[1], n>>)
              BY <4>2, <4>3 DEF Binding
        <5>2. j[2] \in Nat /\ j[1] \in Assets /\ MaxJobs[j[1]] \in Nat /\ j[2] \in 1..MaxJobs[j[1]]
              BY IdShape, LiftBoundAssumption
        <5>3. n \in 1..MaxJobs[j[1]] /\ j[2] < n
              BY <5>1, <5>2
        <5>4. PICK x \in Ids : x = <<j[1], n>> /\ x[1] = j[1] /\ x[2] = n
              BY <5>2, <5>3, IdShape
        <5>5. job[x].st # "none"
              BY <5>1, <5>4 DEF Exists
        <5> QED
            BY <4>3, <5>3, <5>4, <5>5 DEF OrderInv
      <4> QED
          BY <1>4, <2>1, <2>4, <4>2, <4>3
    <3> QED
        BY <3>1, <3>2
  <2> QED
      BY <2>2, <2>3, <2>4
<1>6. ASSUME NEW w \in Wallets, NEW s \in Rows, SignStep(w, s) PROVE Ordered(job'[j], job'[k])
  <2>1. PICK i \in Ids : i = work[w].job /\ job[i].st = "validated" /\ job' = [job EXCEPT ![i] = s]
        BY <1>6 DEF SignStep
  <2>2. Occupying(job[i])
        BY <2>1 DEF Occupying
  <2>3. job'[i] = s /\ \A x \in Ids \ {i} : job'[x] = job[x]
        BY <1>1, <2>1
  <2>4. CASE i = j
        BY <1>3, <1>4, <2>2, <2>3, <2>4
  <2>5. CASE i = k
        BY <1>3, <1>4, <2>1, <2>3, <2>5
  <2>6. CASE i # j /\ i # k
        BY <1>3, <2>3, <2>6
  <2> QED
      BY <2>4, <2>5, <2>6
<1>7. CASE UNCHANGED job
      BY <1>3, <1>7
<1> HIDE DEF Ordered
<1> QED
    BY <1>5, <1>6, <1>7 DEF Step, SendStep, ChainStep

(* What an operator gives up is a transaction that was signed, or nothing.    *)
WaivedInv == waived \subseteq 1..signed \cup {NoTx}

(* Only the override by id waives, and what it waives is on the row.          *)
LEMMA StepKeepsWaived ==
    ASSUME QueueInv, WaivedInv, [Next]_vars
    PROVE  WaivedInv'
<1>1. QueueInv' /\ Step /\ TypeOK /\ TxInv /\ SenderInv /\ RowInv
      BY QueueInvStep DEF QueueInv
<1>2. signed \in Nat /\ signed' \in Nat /\ signed <= signed'
      BY <1>1, ChainMoves, LiftBoundAssumption DEF TypeOK
<1>3. UNCHANGED waived \/ \E j \in Ids : Override(j)
  <2>1. CASE UNCHANGED vars
        BY <2>1 DEF vars
  <2>2. CASE Control
        BY <2>2 DEF Control, Enqueue
  <2>3. ASSUME NEW j \in Ids, Reaccept(j) \/ Remove(j) \/ Detached(j) PROVE UNCHANGED waived
        BY <2>3 DEF Reaccept, Remove, Detached, SettleDetached, AbandonDetached, EarlyRelease,
                    EarlyReleaseTorn
  <2>4. ASSUME NEW j \in Ids, Pass(j) PROVE UNCHANGED waived
        BY <2>4 DEF Pass, Reconcile, RecoverPreBroadcast, AskHeld, ApplyHeld
  <2>5. ASSUME NEW w \in Wallets, Claims(w) PROVE UNCHANGED waived
        BY <2>5 DEF Claims, Claim, ClaimTorn
  <2>6. ASSUME NEW w \in Wallets, Worker(w) PROVE UNCHANGED waived
    <3>1. CASE Validate(w) \/ Preflight(w) \/ Noop(w) \/ FailPreSend(w)
          BY <3>1 DEF Validate, Preflight, Noop, FailPreSend
    <3>2. CASE WriteAhead(w) \/ WriteAheadStuck(w) \/ Stale(w)
          BY <3>2 DEF WriteAhead, WriteAheadStuck, Stale
    <3>3. CASE Sends(w)
          BY <3>3 DEF Sends, SendAccepted, SendInline, SendUnclear, SendRejected
    <3>4. CASE Inline(w)
          BY <3>4 DEF Inline, InlineResult, InlineMismatch, InlineUnclear
    <3> QED
        BY <2>6, <3>1, <3>2, <3>3, <3>4 DEF Worker
  <2>7. ASSUME NEW w \in Wallets, Escape(w) \/ FinishRelease(w) \/ SweepLock(w) \/ OtherSend(w)
                                  \/ Expire(w)
        PROVE  UNCHANGED waived
        BY <2>7 DEF Escape, FinishRelease, SweepLock, OtherSend, Expire
  <2>8. ASSUME NEW t \in TxIds, Mine(t) \/ Evict(t) PROVE UNCHANGED waived
        BY <2>8 DEF Mine, Evict
  <2>9. CASE Crash
        BY <2>9 DEF Crash
  <2> QED
      BY <2>1, <2>2, <2>3, <2>4, <2>5, <2>6, <2>7, <2>8, <2>9 DEF Next, Operator
<1>4. CASE UNCHANGED waived
      BY <1>2, <1>4 DEF WaivedInv
<1>5. ASSUME NEW j \in Ids, Override(j) PROVE WaivedInv'
  <2>1. Evidence(job[j]) \in 1..signed \cup {NoTx}
        BY <1>1 DEF Evidence, RowInv
  <2>2. waived' = waived \cup {Evidence(job[j])}
        BY <1>5 DEF Override
  <2>3. 1..signed \subseteq 1..signed'
        BY <1>2
  <2> QED
      BY <2>1, <2>2, <2>3 DEF WaivedInv
<1> QED
    BY <1>3, <1>4, <1>5

(* Once a transaction of an asset has landed, the preflights and the order of *)
(* the jobs keep every other one from being signed.                           *)
LEMMA StepKeepsOnce ==
    ASSUME QueueInv, OrderInv, WaivedInv, OnceInv, [Next]_vars
    PROVE  OnceInv'
<1>1. TypeOK /\ TxInv /\ RowInv /\ SenderInv /\ EvidenceKept /\ Step
      BY QueueInvStep DEF QueueInv
<1>2. /\ job \in [Ids -> Rows] /\ signed \in Nat /\ waived \subseteq waived'
      /\ \A t \in 1..signed : txs'[t].job = txs[t].job /\ txs[t].job \in Ids /\ t \in TxIds
  <2>1. job \in [Ids -> Rows] /\ signed \in 0..MaxSigns /\ MaxSigns \in Nat
        BY <1>1, LiftBoundAssumption DEF TypeOK
  <2>2. waived \subseteq waived' /\ \A t \in 1..signed : txs'[t].job = txs[t].job
        BY <1>1, ChainMoves
  <2>3. \A t \in 1..signed : txs[t].job \in Ids /\ t \in TxIds
        BY <1>1, <2>1 DEF TxInv, TxIds
  <2> QED
      BY <2>1, <2>2, <2>3
<1> DEFINE Single(t, r) == /\ r.st # "validated"
                           /\ InDoubt(r) /\ r.tx # NoTx => r.tx = t
<1>3. \A t \in TxIds : txs[t].st = "mined" \/ CanLand(t) => t \in 1..signed
      BY <1>1, <1>2 DEF TxInv, NoSignature, CanLand, TxIds
<1>4. ASSUME NEW a, ~WaivedAsset(a)' PROVE ~WaivedAsset(a)
      BY <1>2, <1>4 DEF WaivedAsset, WaivedInv, AssetOf
<1>5. \A t \in TxIds : t # NoTx
      BY DEF TxIds, NoTx
<1>6. ASSUME NEW t \in TxIds, ~WaivedAsset(AssetOf(t)) PROVE t \notin waived
      BY <1>5, <1>6 DEF WaivedAsset
<1>7. ASSUME NEW t \in TxIds, CanLand(t), ~WaivedAsset(AssetOf(t))
      PROVE  /\ txs[t].job \in Ids /\ InDoubt(job[txs[t].job]) /\ job[txs[t].job].tx = t
             /\ t # NoTx
      BY <1>1, <1>2, <1>3, <1>5, <1>6, <1>7 DEF EvidenceKept
<1>8. SUFFICES ASSUME NEW t \in TxIds, NEW a, a = txs'[t].job[1], txs'[t].st = "mined",
                      ~WaivedAsset(a)'
               PROVE  /\ \A j \in Ids : j[1] = a => Single(t, job'[j])
                      /\ \A u \in TxIds : txs'[u].st = "mined" /\ txs'[u].job[1] = a => u = t
      BY DEF OnceInv, AssetOf, WaivedAsset, InDoubt, Held, HasEvidence
<1>9. ~WaivedAsset(a)
      BY <1>4, <1>8
<1>10. ASSUME NEW u \in TxIds, txs'[u].st = "mined"
       PROVE  /\ txs[u].st = "mined" \/ (CanLand(u) /\ UNCHANGED <<job, waived>>)
              /\ u \in 1..signed /\ txs'[u].job = txs[u].job /\ txs[u].job \in Ids
       BY <1>1, <1>2, <1>3, <1>10, ChainMoves
<1>11. ASSUME NEW u \in TxIds, txs[u].st = "mined", AssetOf(u) = a
       PROVE  /\ \A j \in Ids : j[1] = a => Single(u, job[j])
              /\ \A x \in TxIds : txs[x].st = "mined" /\ AssetOf(x) = a => x = u
       BY <1>9, <1>11 DEF OnceInv
<1>12. AssetOf(t) = a
       BY <1>8, <1>10 DEF AssetOf
<1>13. ASSUME NEW u \in TxIds, CanLand(u), AssetOf(u) = a, NEW x \in TxIds, txs[x].st = "mined",
              AssetOf(x) = a
       PROVE  FALSE
  <2>1. txs[u].job \in Ids /\ InDoubt(job[txs[u].job]) /\ job[txs[u].job].tx = u /\ u # NoTx
        BY <1>7, <1>9, <1>13
  <2>2. txs[u].job[1] = a
        BY <1>13 DEF AssetOf
  <2>3. u = x
        BY <1>11, <1>13, <2>1, <2>2
  <2> QED
      BY <1>13, <2>3 DEF CanLand
<1>14. CASE CanLand(t) /\ UNCHANGED <<job, waived>>
  <2>1. PICK i \in Ids : /\ i = txs[t].job /\ i[1] = a /\ InDoubt(job[i]) /\ job[i].tx = t
                         /\ Occupying(job[i])
        BY <1>7, <1>9, <1>12, <1>14, DoubtOccupies DEF AssetOf
  <2>2. ASSUME NEW j \in Ids, j[1] = a PROVE Single(t, job[j])
    <3>1. CASE j = i
          BY <2>1, <3>1, DoubtOccupies
    <3>2. CASE j # i
      <4>1. ~Occupying(job[j])
            BY <2>1, <2>2, <3>2, OneOccupying
      <4>2. job[j].st # "validated" /\ ~InDoubt(job[j])
            BY <4>1, DoubtOccupies DEF Occupying
      <4> QED
          BY <4>2
    <3> QED
        BY <3>1, <3>2
  <2>3. ASSUME NEW u \in TxIds, txs'[u].st = "mined", txs'[u].job[1] = a PROVE u = t
    <3>1. AssetOf(u) = a /\ (txs[u].st = "mined" \/ CanLand(u))
          BY <1>10, <2>3 DEF AssetOf
    <3>2. CanLand(u)
          BY <1>12, <1>13, <1>14, <3>1
    <3>3. txs[u].job \in Ids /\ InDoubt(job[txs[u].job]) /\ job[txs[u].job].tx = u
          BY <1>7, <1>9, <3>1, <3>2
    <3>4. txs[u].job[1] = a /\ Occupying(job[txs[u].job])
          BY <3>1, <3>3, DoubtOccupies DEF AssetOf
    <3>5. txs[u].job = i
          BY <2>1, <3>3, <3>4, OneOccupying
    <3> QED
        BY <2>1, <3>3, <3>5
  <2> QED
      BY <1>14, <2>2, <2>3
<1>15. CASE txs[t].st = "mined"
  <2>1. ASSUME NEW u \in TxIds, txs'[u].st = "mined", txs'[u].job[1] = a PROVE u = t
    <3>1. AssetOf(u) = a /\ (txs[u].st = "mined" \/ CanLand(u))
          BY <1>10, <2>1 DEF AssetOf
    <3>2. txs[u].st = "mined"
          BY <1>12, <1>13, <1>15, <3>1
    <3> QED
        BY <1>11, <1>12, <1>15, <3>1, <3>2
  <2>2. ASSUME NEW j \in Ids, j[1] = a PROVE Single(t, job'[j])
    <3>1. Single(t, job[j])
          BY <1>11, <1>12, <1>15, <2>2
    <3>2. ASSUME NEW i \in Ids, NEW s \in Rows, RowStep(i, s) PROVE Single(t, job'[j])
      <4>1. CASE i # j
        <5>1. job'[j] = job[j]
              BY <1>2, <3>2, <4>1 DEF RowStep
        <5> QED
            BY <3>1, <5>1
      <4>2. CASE i = j
        <5>1. job'[j] = s /\ Moves(j, s)
              BY <1>2, <3>2, <4>2 DEF RowStep
        <5>2. CASE Admits(j, s) \/ Requeues(j, s) \/ Drops(j, s) \/ ClaimsRow(j, s) \/ Finishes(j, s)
              BY <5>1, <5>2 DEF Admits, Requeues, Drops, ClaimsRow, Finishes, InDoubt, Held
        <5>3. CASE FailsEarly(j, s)
          <6>1. s.st = "failed" /\ s.tx = NoTx
                BY <1>1, <5>3 DEF FailsEarly, Keeps, RowInv
          <6> QED
              BY <5>1, <6>1
        <5>4. CASE FailsInDoubt(j, s) \/ Includes(j, s)
          <6>1. /\ s.st # "validated" /\ s.tx = job[j].tx /\ InDoubt(job[j])
                BY <5>4 DEF FailsInDoubt, Includes, KeepsClaim, Keeps, InDoubt
          <6> QED
              BY <3>1, <5>1, <6>1
        <5>5. CASE FailsForGood(j, s)
          <6>1. s.st = "failed" /\ ~InDoubt(s)
                BY <5>5, DoubtOccupies DEF FailsForGood
          <6> QED
              BY <5>1, <6>1
        <5>6. CASE Validates(j, s)
          <6>1. PICK k \in Ids : k = txs[t].job /\ k[1] = a /\ t \notin waived
                BY <1>6, <1>8, <1>9, <1>10, <1>12 DEF AssetOf
          <6>2. job[j].st = "claimed" /\ ~Advanced(a)
                BY <2>2, <5>6 DEF Validates
          <6>3. InDoubt(job[k])
                BY <1>1, <1>12, <1>15, <6>1, <6>2 DEF EvidenceKept, Advanced
          <6>4. Occupying(job[j]) /\ Occupying(job[k])
                BY <6>2, <6>3, DoubtOccupies DEF Occupying
          <6>5. j = k
                BY <2>2, <6>1, <6>4, OneOccupying
          <6> QED
              BY <6>2, <6>3, <6>5, DoubtOccupies
        <5> QED
            BY <5>1, <5>2, <5>3, <5>4, <5>5, <5>6 DEF Moves
      <4> QED
          BY <4>1, <4>2
    <3>3. ASSUME NEW w \in Wallets, NEW s \in Rows, SignStep(w, s) PROVE Single(t, job'[j])
      <4>1. PICK i \in Ids : i = work[w].job /\ job[i].st = "validated"
                             /\ job' = [job EXCEPT ![i] = s]
            BY <3>3 DEF SignStep
      <4>2. i # j
            BY <3>1, <4>1
      <4>3. job'[j] = job[j]
            BY <1>2, <4>1, <4>2
      <4> QED
          BY <3>1, <4>3
    <3>4. CASE UNCHANGED job
          BY <3>1, <3>4
    <3> HIDE DEF Single
    <3> QED
        BY <1>1, <3>2, <3>3, <3>4 DEF Step, SendStep, ChainStep
  <2> QED
      BY <2>1, <2>2
<1> QED
    BY <1>8, <1>10, <1>14, <1>15

(* An asset is published once: over all its jobs, retries, resets, crashes    *)
(* and restarts, of the transactions signed for it at most one has landed or  *)
(* still can, unless an operator gave one of them up.                         *)
THEOREM AssetIsPublishedOnce == Spec => []PublishedOnce
<1> DEFINE Inv == QueueInv /\ OrderInv /\ WaivedInv /\ OnceInv
<1>1. Init => Inv
  <2>1. ASSUME Init PROVE OrderInv /\ WaivedInv /\ OnceInv
        BY <2>1 DEF Init, OrderInv, WaivedInv, OnceInv, NoRow, NoSignature
  <2> QED
      BY <2>1, InitQueueInv
<1>2. ASSUME Inv, [Next]_vars PROVE Inv'
      BY <1>2, QueueInvStep, StepKeepsOrder, StepKeepsWaived, StepKeepsOnce
<1>3. ASSUME Inv PROVE PublishedOnce
  <2>1. QueueInv /\ OrderInv /\ OnceInv /\ TxInv /\ EvidenceKept
        BY <1>3 DEF QueueInv
  <2> SUFFICES ASSUME NEW t \in TxIds, NEW u \in TxIds, t # u, txs[t].job # NoJob, txs[u].job # NoJob,
                      AssetOf(t) = AssetOf(u), ~WaivedAsset(AssetOf(t)),
                      CanLand(t) \/ txs[t].st = "mined", CanLand(u) \/ txs[u].st = "mined"
               PROVE  FALSE
      BY DEF PublishedOnce
  <2>2. t \notin waived /\ u \notin waived /\ t # NoTx /\ u # NoTx
        BY DEF WaivedAsset, TxIds, NoTx
  <2>3. PICK j \in Ids, k \in Ids : j = txs[t].job /\ k = txs[u].job
        BY <2>1 DEF TxInv, NoSignature
  <2>4. j[1] = k[1] /\ j[1] = AssetOf(t) /\ k[1] = AssetOf(u)
        BY <2>3 DEF AssetOf
  <2>5. CanLand(t) => InDoubt(job[j]) /\ job[j].tx = t
        BY <2>1, <2>2, <2>3 DEF EvidenceKept
  <2>6. CanLand(u) => InDoubt(job[k]) /\ job[k].tx = u
        BY <2>1, <2>2, <2>3 DEF EvidenceKept
  <2>7. CASE CanLand(t) /\ CanLand(u)
    <3>1. Occupying(job[j]) /\ Occupying(job[k])
          BY <2>5, <2>6, <2>7, DoubtOccupies
    <3> QED
        BY <2>1, <2>4, <2>5, <2>6, <2>7, <3>1, OneOccupying
  <2>8. CASE CanLand(t) /\ txs[u].st = "mined"
        BY <2>1, <2>2, <2>4, <2>5, <2>8 DEF OnceInv
  <2>9. CASE CanLand(u) /\ txs[t].st = "mined"
        BY <2>1, <2>2, <2>4, <2>6, <2>9 DEF OnceInv
  <2>10. CASE txs[t].st = "mined" /\ txs[u].st = "mined"
        BY <2>1, <2>10 DEF OnceInv
  <2> QED
      BY <2>7, <2>8, <2>9, <2>10
<1> QED
    BY <1>1, <1>2, <1>3, PTL DEF Spec

-------------------------------------------------------------------------------
(* The wallet of a transaction in doubt.                                      *)

(* A job waits for a transaction of its own that has not landed.              *)
Waits(j) == InDoubt(job[j]) /\ job[j].tx # NoTx /\ txs[job[j].tx].st # "mined"

(* A job that waits was just written ahead, or waited before under the same   *)
(* claim.                                                                     *)
LEMMA WaitMoves ==
    ASSUME QueueInv, Step, NEW j \in Ids, Waits(j)'
    PROVE  \/ /\ Waits(j) /\ job'[j].tx = job[j].tx /\ job'[j].wallet = job[j].wallet
              /\ job'[j].token = job[j].token /\ txs'[job[j].tx].wallet = txs[job[j].tx].wallet
           \/ /\ Matches(txs'[job'[j].tx].wallet, j) /\ job'[j].wallet = txs'[job'[j].tx].wallet
              /\ job'[j].token = job[j].token /\ txs'[job'[j].tx].wallet \in Wallets
<1>1. TypeOK /\ TxInv /\ RowInv /\ SenderInv
      BY DEF QueueInv
<1>2. /\ job \in [Ids -> Rows] /\ signed \in Nat /\ MaxSigns \in Nat /\ txs \in [TxIds -> Txs]
      BY <1>1, LiftBoundAssumption DEF TypeOK, Txs
<1>3. \A t \in 1..signed : /\ txs'[t].wallet = txs[t].wallet
                           /\ txs[t].st = "mined" => txs'[t].st = "mined"
      BY <1>1, ChainMoves
<1>4. job[j].tx # NoTx => job[j].tx \in 1..signed
      BY <1>1 DEF RowInv
<1>5. InDoubt(job'[j]) /\ job'[j].tx # NoTx /\ txs'[job'[j].tx].st # "mined"
      BY DEF Waits, InDoubt, Held, HasEvidence
<1>6. CASE UNCHANGED job
      BY <1>3, <1>4, <1>5, <1>6 DEF Waits
<1>7. ASSUME NEW i \in Ids, NEW s \in Rows, RowStep(i, s), i = j
      PROVE  InDoubt(job[j]) /\ KeepsClaim(j, s) /\ s = job'[j]
  <2>1. s = job'[j] /\ Moves(j, s) /\ UNCHANGED txs
        BY <1>2, <1>7 DEF RowStep
  <2>2. CASE Admits(j, s) \/ Requeues(j, s) \/ Drops(j, s) \/ ClaimsRow(j, s) \/ Finishes(j, s)
             \/ Validates(j, s)
        BY <1>5, <2>1, <2>2 DEF Admits, Requeues, Drops, ClaimsRow, Finishes, Validates, InDoubt, Held
  <2>3. CASE FailsEarly(j, s)
        BY <1>1, <1>5, <2>1, <2>3 DEF FailsEarly, Keeps, RowInv
  <2>4. CASE FailsInDoubt(j, s) \/ Includes(j, s)
        BY <2>1, <2>4 DEF FailsInDoubt, Includes, InDoubt
  <2>5. CASE FailsForGood(j, s)
        BY <1>5, <2>1, <2>5, DoubtOccupies DEF FailsForGood
  <2> QED
      BY <2>1, <2>2, <2>3, <2>4, <2>5 DEF Moves
<1>8. ASSUME NEW i \in Ids, NEW s \in Rows, RowStep(i, s)
      PROVE  /\ Waits(j) /\ job'[j].tx = job[j].tx /\ job'[j].wallet = job[j].wallet
             /\ job'[j].token = job[j].token /\ txs'[job[j].tx].wallet = txs[job[j].tx].wallet
  <2>1. UNCHANGED txs /\ (i # j => job'[j] = job[j])
        BY <1>2, <1>8 DEF RowStep
  <2>2. CASE i # j
        BY <1>5, <2>1, <2>2 DEF Waits
  <2>3. CASE i = j
        BY <1>5, <1>7, <1>8, <2>1, <2>3 DEF Waits, KeepsClaim, Keeps
  <2> QED
      BY <2>2, <2>3
<1>9. ASSUME NEW w \in Wallets, NEW s \in Rows, SignStep(w, s), work[w].job = j
      PROVE  /\ Matches(txs'[job'[j].tx].wallet, j) /\ job'[j].wallet = txs'[job'[j].tx].wallet
             /\ job'[j].token = job[j].token /\ txs'[job'[j].tx].wallet \in Wallets
  <2>1. PICK n \in TxIds : n = signed + 1
        BY <1>2, <1>9 DEF SignStep, TxIds
  <2>2. /\ job'[j] = s /\ s.tx = n /\ s.wallet = w /\ s.token = job[j].token /\ Matches(w, j)
        BY <1>2, <1>9, <2>1 DEF SignStep
  <2>3. txs'[n].wallet = w
        BY <1>2, <1>9, <2>1 DEF SignStep
  <2> QED
      BY <2>2, <2>3
<1>10. ASSUME NEW w \in Wallets, NEW s \in Rows, SignStep(w, s), work[w].job # j
       PROVE  /\ Waits(j) /\ job'[j].tx = job[j].tx /\ job'[j].wallet = job[j].wallet
              /\ job'[j].token = job[j].token /\ txs'[job[j].tx].wallet = txs[job[j].tx].wallet
  <2>1. job'[j] = job[j]
        BY <1>2, <1>10 DEF SignStep
  <2> QED
      BY <1>3, <1>4, <1>5, <2>1 DEF Waits
<1> QED
    BY <1>6, <1>8, <1>9, <1>10 DEF Step, SendStep, ChainStep

(* Whoever loses its wallet lock does not wait: no lease, sweep, claim or     *)
(* other job's release takes the wallet of a transaction in doubt.            *)
LEMMA LockMoves ==
    ASSUME QueueInv, WalletInv, SlowRelease = FALSE, [Next]_vars
    PROVE  /\ \A w \in Wallets : deleting'[w] = NoJob
           /\ \A w \in Wallets, j \in Ids : Matches(w, j) /\ Waits(j)' =>
                 lock'[w].job = lock[w].job /\ lock'[w].token = lock[w].token
<1> DEFINE Kept(w) == lock'[w].job = lock[w].job /\ lock'[w].token = lock[w].token
           Safe == \A w \in Wallets, j \in Ids : Matches(w, j) /\ Waits(j)' => Kept(w)
           Goal == (\A w \in Wallets : deleting'[w] = NoJob) /\ Safe
<1> SUFFICES Goal
    OBVIOUS
<1>1. /\ TypeOK /\ RowInv /\ WorkInv /\ SenderInv /\ AskedInv /\ TxInv
      /\ job \in [Ids -> Rows] /\ lock \in [Wallets -> Locks]
      /\ \A w \in Wallets : deleting[w] = NoJob
      /\ \A j \in Ids : Waits(j) => Matches(txs[job[j].tx].wallet, j)
      BY DEF QueueInv, TypeOK, Locks, WalletInv, Waits
<1>2. UNCHANGED deleting => \A w \in Wallets : deleting'[w] = NoJob
      BY <1>1
<1>3. UNCHANGED lock => Safe
      OBVIOUS
<1>4. ASSUME NEW j \in Ids, lock' = ReleasedBy(j), ~Waits(j)' PROVE Safe
  <2>1. ASSUME NEW w \in Wallets, ~Matches(w, j) PROVE Kept(w)
        BY <1>4, <2>1 DEF ReleasedBy
  <2>2. ASSUME NEW w \in Wallets, NEW k \in Ids, Matches(w, k), k # j PROVE ~Matches(w, j)
        BY <2>2 DEF Matches
  <2> QED
      BY <1>4, <2>1, <2>2
<1>5. ASSUME NEW w \in Wallets, lock' = [lock EXCEPT ![w] = NoLock], NEW j \in Ids, Matches(w, j),
             ~Waits(j)'
      PROVE  Safe
  <2>1. \A v \in Wallets \ {w} : Kept(v)
        BY <1>1, <1>5
  <2>2. \A k \in Ids : Matches(w, k) => k = j
        BY <1>5 DEF Matches
  <2> QED
      BY <1>5, <2>1, <2>2
<1>6. ASSUME NEW w \in Wallets, NEW x, lock' = [lock EXCEPT ![w].live = x] PROVE Safe
      BY <1>1, <1>6 DEF Locks
<1>7. ASSUME NEW w \in Wallets, ~Usable(w), NEW j \in Ids, Matches(w, j) PROVE ~Waits(j)
  <2>1. SUFFICES ASSUME Waits(j) PROVE FALSE
        OBVIOUS
  <2>2. lock[w].job = j /\ job[j].wallet = w /\ lock[w] # NoLock
    <3>1. lock[w].job = j /\ job[j].wallet = w
          BY <1>7 DEF Matches
    <3> QED
        BY <3>1, IdShape DEF NoLock
  <2>3. txs[job[j].tx].wallet = w /\ InDoubt(job[j]) /\ Evidence(job[j]) = job[j].tx
    <3>1. Matches(txs[job[j].tx].wallet, j)
          BY <1>1, <2>1
    <3> QED
        BY <2>1, <2>2, <3>1 DEF Matches, Waits, Evidence
  <2>4. Mode(job[j]) = "proof"
        BY <2>3 DEF Mode, InDoubt, Held
  <2> QED
      BY <1>7, <2>2, <2>3, <2>4 DEF Usable
<1>8. ASSUME NEW j \in Ids, ~InDoubt(job'[j]) PROVE ~Waits(j)'
      BY <1>8 DEF Waits, InDoubt, Held, HasEvidence
<1>9. ASSUME NEW j \in Ids, NEW s, job' = [job EXCEPT ![j] = s], ~InDoubt(s) PROVE ~Waits(j)'
      BY <1>1, <1>8, <1>9
<1>11. ASSUME NEW j \in Ids
       PROVE  /\ \A b \in BOOLEAN : ~InDoubt(Reset(job[j], b))
              /\ ~InDoubt(Finalized(job[j]))
              /\ ~InDoubt(Failed(job[j], "reverted")) /\ ~InDoubt(Failed(job[j], "unfunded"))
              /\ ~InDoubt([NoRow EXCEPT !.st = "gone"])
  <2>1. job[j] \in Rows /\ {"reverted", "unfunded"} \subseteq Codes /\ {"reverted", "unfunded"} = Ineffective
        BY <1>1 DEF Codes, Ineffective
  <2>2. \A b \in BOOLEAN : Reset(job[j], b).st = "accepted"
        BY <2>1, RowFields
  <2>3. Finalized(job[j]).st = "finalized"
        BY <2>1, RowFields
  <2>4. ASSUME NEW c \in Ineffective PROVE ~InDoubt(Failed(job[j], c))
    <3>1. Failed(job[j], c).st = "failed" /\ ~Held(Failed(job[j], c))
          BY <2>1, <2>4, RowFields
    <3> QED
        BY <3>1 DEF InDoubt
  <2>5. [NoRow EXCEPT !.st = "gone"].st = "gone"
        BY DEF NoRow
  <2>6. \A b \in BOOLEAN : ~InDoubt(Reset(job[j], b))
        BY <2>2 DEF InDoubt, Held
  <2>7. ~InDoubt(Finalized(job[j]))
        BY <2>3 DEF InDoubt, Held
  <2>8. ~InDoubt([NoRow EXCEPT !.st = "gone"])
        BY <2>5 DEF InDoubt, Held
  <2> QED
      BY <2>1, <2>4, <2>6, <2>7, <2>8
<1>12. ASSUME NEW w \in Wallets, Owns(w)
       PROVE  /\ work[w].job \in Ids /\ Matches(w, work[w].job)
              /\ work[w].pc = "claimed" => job[work[w].job].st = "claimed"
              /\ work[w].pc \in {"validated", "sign"} => job[work[w].job].st = "validated"
       BY <1>1, <1>12, OwnerFacts
<1> HIDE DEF Safe, Kept
<1>20. CASE UNCHANGED vars
       BY <1>2, <1>3, <1>20 DEF vars
<1>21. ASSUME NEW a \in Assets, Enqueue(a) PROVE Goal
       BY <1>2, <1>3, <1>21 DEF Enqueue
<1>22. ASSUME NEW j \in Ids, Reaccept(j) PROVE Goal
  <2>1. PICK s : /\ job' = [job EXCEPT ![j] = s]
                 /\ s = [Reset(job[j], FALSE) EXCEPT
                           !.tries = IF job[j].tries >= MaxRetries THEN 0 ELSE job[j].tries + 1]
        BY <1>22 DEF Reaccept
  <2>2. s.st = "accepted"
        BY <2>1 DEF Reset, NoRow
  <2>5. ~InDoubt(s)
        BY <2>2 DEF InDoubt, Held
  <2>3. ~Waits(j)'
        BY <1>9, <2>1, <2>5
  <2>4. lock' = ReleasedBy(j) /\ UNCHANGED deleting
        BY <1>22 DEF Reaccept
  <2> QED
      BY <1>2, <1>4, <2>3, <2>4
<1>23. ASSUME NEW j \in Ids, Remove(j) \/ Override(j) PROVE Goal
  <2>1. /\ lock' = ReleasedBy(j) /\ UNCHANGED deleting
        /\ job' = [job EXCEPT ![j] = [NoRow EXCEPT !.st = "gone"]]
        BY <1>23 DEF Remove, Override
  <2> QED
      BY <1>2, <1>4, <1>9, <1>11, <2>1
<1>25. ASSUME NEW w \in Wallets, NEW j \in Ids, Claim(w, j) PROVE Goal
  <2>1. PICK k \in Tokens :
          /\ job' = [job EXCEPT ![j] = ClaimedRow(w, j, k)]
          /\ lock' = [lock EXCEPT ![w] = [job |-> j, token |-> k, live |-> TRUE]]
        BY <1>25 DEF Claim
  <2>2. ~Usable(w) /\ UNCHANGED <<txs, deleting>>
        BY <1>25 DEF Claim, Claimable, chainVars
  <2>3. ClaimedRow(w, j, k).st = "claimed"
        BY <1>1 DEF ClaimedRow, Rows
  <2>7. ~InDoubt(ClaimedRow(w, j, k))
        BY <2>3 DEF InDoubt, Held
  <2>4. ~Waits(j)'
        BY <1>9, <2>1, <2>7
  <2>5. ASSUME NEW i \in Ids, Matches(w, i), Waits(i)' PROVE FALSE
    <3>1. i # j
          BY <2>4, <2>5
    <3>2. job'[i] = job[i]
          BY <1>1, <2>1, <3>1
    <3>3. Waits(i)
          BY <2>2, <2>5, <3>2 DEF Waits, InDoubt, Held, HasEvidence
    <3> QED
        BY <1>7, <2>2, <2>5, <3>3
  <2>6. \A v \in Wallets \ {w} : Kept(v)
        BY <1>1, <2>1 DEF Kept
  <2> QED
      BY <1>2, <2>2, <2>5, <2>6 DEF Safe
<1>26. ASSUME NEW w \in Wallets, NEW j \in Ids, ClaimTorn(w, j) PROVE Goal
       BY <1>2, <1>3, <1>26 DEF ClaimTorn
<1>28. ASSUME NEW w \in Wallets, Validate(w) \/ WriteAhead(w) \/ Expire(w) PROVE Goal
       BY <1>2, <1>6, <1>28 DEF Validate, WriteAhead, Expire
<1>29. ASSUME NEW w \in Wallets, Preflight(w) \/ WriteAheadStuck(w) \/ SendAccepted(w) \/ SendInline(w)
                                 \/ SendUnclear(w)
       PROVE  Goal
       BY <1>2, <1>3, <1>29 DEF Preflight, WriteAheadStuck, SendAccepted, SendInline, SendUnclear
<1>30. ASSUME NEW w \in Wallets, InlineMismatch(w) \/ InlineUnclear(w) \/ Escape(w) \/ OtherSend(w)
       PROVE  Goal
       BY <1>2, <1>3, <1>30 DEF InlineMismatch, InlineUnclear, Escape, OtherSend
<1>31. ASSUME NEW w \in Wallets, Noop(w) \/ InlineResult(w) \/ SendRejected(w) PROVE Goal
  <2>1. PICK j \in Ids : j = work[w].job /\ Matches(w, j)
        BY <1>12, <1>31 DEF Noop, InlineResult, SendRejected
  <2>2. /\ lock' = [lock EXCEPT ![w] = NoLock] /\ UNCHANGED deleting
        /\ \/ job' = [job EXCEPT ![j] = Finalized(job[j])]
           \/ job' = [job EXCEPT ![j] = Failed(job[j], "unfunded")]
        BY <1>31, <2>1 DEF Noop, InlineResult, SendRejected
  <2> QED
      BY <1>2, <1>5, <1>9, <1>11, <2>1, <2>2
<1>32. ASSUME NEW w \in Wallets, FailPreSend(w) PROVE Goal
  <2>1. PICK j \in Ids : j = work[w].job /\ Matches(w, j)
        BY <1>12, <1>32 DEF FailPreSend
  <2>2. PICK c \in {"retryable", "terminal"} :
          /\ job' = [job EXCEPT ![j] = Failed(job[j], c)] /\ UNCHANGED deleting
          /\ lock' = IF Held(Failed(job[j], c)) THEN lock ELSE [lock EXCEPT ![w] = NoLock]
        BY <1>32, <2>1 DEF FailPreSend
  <2>3. PICK f : f = Failed(job[j], c)
        OBVIOUS
  <2>4. f.st = "failed"
    <3>1. c \in Codes /\ job[j] \in Rows
          BY <1>1 DEF Codes
    <3> QED
        BY <2>3, <3>1, RowFields
  <2>5. CASE Held(f)
        BY <1>2, <1>3, <2>2, <2>3, <2>5
  <2>6. CASE ~Held(f)
    <3>1. ~InDoubt(f)
          BY <2>4, <2>6 DEF InDoubt
    <3>2. ~Waits(j)'
          BY <1>9, <2>2, <2>3, <3>1
    <3>3. lock' = [lock EXCEPT ![w] = NoLock]
          BY <2>2, <2>3, <2>6
    <3> QED
        BY <1>2, <1>5, <2>1, <2>2, <3>2, <3>3
  <2> QED
      BY <2>5, <2>6
<1>33. ASSUME NEW j \in Ids, lock' = ReleasedBy(j), UNCHANGED deleting, NEW s,
              job' = [job EXCEPT ![j] = s], ~InDoubt(s)
       PROVE  Goal
       BY <1>2, <1>4, <1>9, <1>33
<1>34. ASSUME UNCHANGED <<lock, deleting>> PROVE Goal
       BY <1>2, <1>3, <1>34
<1>43. ASSUME NEW w \in Wallets, Stale(w) PROVE Goal
  <2>1. PICK j \in Ids : j = work[w].job
        BY <1>1, <1>43 DEF Stale, WorkInv
  <2>2. \/ UNCHANGED <<lock, deleting>>
        \/ /\ lock' = ReleasedBy(j) /\ UNCHANGED deleting
           /\ job' = [job EXCEPT ![j] = Reset(job[j], FALSE)]
        BY <1>43, <2>1 DEF Stale
  <2> QED
      BY <1>11, <1>33, <1>34, <2>2
<1>46. ASSUME NEW j \in Ids, SettleDetached(j) PROVE Goal
  <2>1. \/ UNCHANGED <<lock, deleting>>
        \/ /\ lock' = ReleasedBy(j) /\ UNCHANGED deleting
           /\ job' = [job EXCEPT ![j] = Finalized(job[j])]
        BY <1>46 DEF SettleDetached
  <2> QED
      BY <1>11, <1>33, <1>34, <2>1
<1>47. ASSUME NEW j \in Ids, AbandonDetached(j) \/ AskHeld(j) \/ EarlyReleaseTorn(j) PROVE Goal
       BY <1>34, <1>47 DEF AbandonDetached, AskHeld, EarlyReleaseTorn
<1>48. ASSUME NEW j \in Ids, txs[job[j].tx].st = "mined", UNCHANGED txs, job'[j].tx = job[j].tx
       PROVE  ~Waits(j)'
       BY <1>48 DEF Waits
<1>49. ASSUME NEW j \in Ids, EarlyRelease(j) PROVE Goal
  <2>1. /\ lock' = ReleasedBy(j) /\ UNCHANGED <<txs, deleting>> /\ txs[job[j].tx].st = "mined"
        BY <1>49, Verdicts DEF EarlyRelease, HintProven, chainVars
  <2>2. job'[j].tx = job[j].tx
        BY <1>1, <1>49 DEF EarlyRelease, Rows
  <2> QED
      BY <1>2, <1>4, <1>48, <2>1, <2>2
<1>50. ASSUME NEW j \in Ids, Reconcile(j) PROVE Goal
  <2>1. /\ lock' = ReleasedBy(j) /\ UNCHANGED <<txs, deleting>>
        /\ \/ job' = [job EXCEPT ![j] = Finalized(job[j])]
           \/ Verdict(job[j].tx) = "recovered" /\ UNCHANGED job
           \/ job' = [job EXCEPT ![j] = Failed(job[j], "reverted")]
           \/ job' = [job EXCEPT ![j] = Reset(job[j], TRUE)]
        BY <1>50 DEF Reconcile, ReleaseLater, chainVars
  <2>2. CASE Verdict(job[j].tx) = "recovered" /\ UNCHANGED job
        BY <1>2, <1>4, <1>48, <2>1, <2>2, Verdicts
  <2> QED
      BY <1>11, <1>33, <2>1, <2>2
<1>51. ASSUME NEW j \in Ids, RecoverPreBroadcast(j) PROVE Goal
  <2>1. /\ lock' = ReleasedBy(j) /\ UNCHANGED deleting
        /\ job' = [job EXCEPT ![j] = Reset(job[j], FALSE)]
        BY <1>51 DEF RecoverPreBroadcast, ReleaseLater
  <2> QED
      BY <1>11, <1>33, <2>1
<1>52. ASSUME NEW w \in Wallets, FinishRelease(w) PROVE Goal
       BY <1>1, <1>52 DEF FinishRelease
<1>53. ASSUME NEW w \in Wallets, SweepLock(w) PROVE Goal
  <2>1. /\ ~Usable(w) /\ lock' = [lock EXCEPT ![w] = NoLock] /\ UNCHANGED <<job, txs, deleting>>
        BY <1>53 DEF SweepLock, chainVars
  <2>2. \A j \in Ids : Matches(w, j) => ~Waits(j)'
        BY <1>7, <2>1 DEF Waits, InDoubt, Held, HasEvidence
  <2>3. \A v \in Wallets \ {w} : Kept(v)
        BY <1>1, <2>1 DEF Kept
  <2> QED
      BY <1>2, <2>1, <2>2, <2>3 DEF Safe
<1>55. ASSUME NEW j \in Ids, ApplyHeld(j) PROVE Goal
  <2>1. UNCHANGED <<txs, deleting>>
        BY <1>55 DEF ApplyHeld, chainVars
  <2>2. PICK r \in Rows : r = job[j]
        BY <1>1
  <2>3. PICK v : v = asked[j].verdict
        OBVIOUS
  <2>4. \/ UNCHANGED lock
        \/ /\ r = asked[j].row /\ lock' = ReleasedBy(j)
           /\ \/ job' = [job EXCEPT ![j] = Disposed(r, v)]
              \/ v = "recovered" /\ UNCHANGED job
        BY <1>55, <2>2, <2>3 DEF ApplyHeld, SameHeld
  <2>5. CASE UNCHANGED lock
        BY <1>34, <2>1, <2>5
  <2>6. CASE r = asked[j].row /\ lock' = ReleasedBy(j)
    <3>1. v = "recovered" => txs[Evidence(r)].st = "mined"
          BY <1>1, <1>55, <2>3, <2>6 DEF ApplyHeld, AskedInv
    <3>2. ASSUME v = "recovered", UNCHANGED job PROVE ~Waits(j)'
      <4>1. CASE r.tx = NoTx
            BY <2>2, <3>2, <4>1 DEF Waits
      <4>2. CASE r.tx # NoTx
            BY <1>48, <2>1, <2>2, <3>1, <3>2, <4>2 DEF Evidence
      <4> QED
          BY <4>1, <4>2
    <3>3. ASSUME r.tx = NoTx, UNCHANGED job PROVE ~Waits(j)'
          BY <2>2, <3>3 DEF Waits
    <3>4. ASSUME job' = [job EXCEPT ![j] = Disposed(r, v)] PROVE ~Waits(j)'
      <4>1. \/ Disposed(r, v) \in {Finalized(r), Failed(r, "reverted"), Reset(r, TRUE)}
            \/ Disposed(r, v) = r /\ (v = "recovered" \/ r.tx = NoTx)
        <5>1. v \in {"recovered", "reverted", "absent"}
              BY <1>1, <1>55, <2>3 DEF ApplyHeld, AskedInv
        <5>2. CASE v = "recovered"
              BY <5>2 DEF Disposed
        <5>3. CASE v = "reverted"
              BY <5>3 DEF Disposed
        <5>4. CASE v = "absent"
              BY <5>4 DEF Disposed
        <5> QED
            BY <5>1, <5>2, <5>3, <5>4
      <4>2. CASE Disposed(r, v) \in {Finalized(r), Failed(r, "reverted"), Reset(r, TRUE)}
        <5>1. ~InDoubt(Disposed(r, v))
              BY <1>11, <2>2, <4>2
        <5> QED
            BY <1>9, <3>4, <5>1
      <4>3. CASE Disposed(r, v) = r /\ (v = "recovered" \/ r.tx = NoTx)
        <5>1. UNCHANGED job
              BY <1>1, <2>2, <3>4, <4>3
        <5> QED
            BY <3>2, <3>3, <4>3, <5>1
      <4> QED
          BY <4>1, <4>2, <4>3
    <3>5. ~Waits(j)'
          BY <2>4, <2>6, <3>2, <3>4, <1>55, <2>2, <2>3 DEF ApplyHeld, SameHeld
    <3> QED
        BY <1>2, <1>4, <2>1, <2>6, <3>5
  <2> QED
      BY <2>4, <2>5, <2>6
<1>56. ASSUME NEW t \in TxIds, Mine(t) \/ Evict(t) PROVE Goal
       BY <1>34, <1>56 DEF Mine, Evict
<1>60. CASE Crash
  <2>1. UNCHANGED lock /\ \A w \in Wallets : deleting'[w] = NoJob
        BY <1>60 DEF Crash
  <2> QED
      BY <1>3, <2>1
<1> HIDE DEF Goal
<1> QED
    BY <1>20, <1>21, <1>22, <1>23, <1>25, <1>26, <1>28, <1>29, <1>30, <1>31, <1>32, <1>43, <1>46,
       <1>47, <1>49, <1>50, <1>51, <1>52, <1>53, <1>55, <1>56, <1>60
    DEF Next, Control, Operator, Claims, Sends, Inline, Worker, Detached, Pass

(* While a transaction can still land, the wallet that signed it is reserved  *)
(* for its job, provided that a release that was read under the job lock      *)
(* deletes the wallet lock before anyone else writes it: no lease, sweep,     *)
(* reset or other job's release frees the nonce.                              *)
THEOREM OpenTxKeepsWallet ==
    ASSUME SlowRelease = FALSE
    PROVE  Spec => []OpenTxOwnsWallet
<1>1. Init => WalletInv
      BY DEF Init, WalletInv, InDoubt, Held, NoRow
<1>2. ASSUME QueueInv, WalletInv, [Next]_vars PROVE WalletInv'
  <2>1. Step
        BY <1>2, QueueInvStep
  <2>2. /\ \A w \in Wallets : deleting'[w] = NoJob
        /\ \A w \in Wallets, j \in Ids : Matches(w, j) /\ Waits(j)' =>
              lock'[w].job = lock[w].job /\ lock'[w].token = lock[w].token
        BY <1>2, LockMoves
  <2>3. ASSUME NEW j \in Ids, Waits(j)' PROVE Matches(txs[job[j].tx].wallet, j)'
    <3>1. CASE /\ Waits(j) /\ job'[j].tx = job[j].tx /\ job'[j].wallet = job[j].wallet
               /\ job'[j].token = job[j].token /\ txs'[job[j].tx].wallet = txs[job[j].tx].wallet
      <4>1. PICK w \in Wallets : w = txs[job[j].tx].wallet
        <5>1. job[j].tx \in 1..signed /\ job[j].tx \in TxIds
              BY <1>2, <3>1, LiftBoundAssumption DEF QueueInv, RowInv, Waits, TypeOK, TxIds
        <5> QED
            BY <1>2, <5>1 DEF QueueInv, TxInv
      <4>2. Matches(w, j)
            BY <1>2, <3>1, <4>1 DEF WalletInv, Waits
      <4>3. lock'[w].job = lock[w].job /\ lock'[w].token = lock[w].token
            BY <2>2, <2>3, <4>2
      <4> QED
          BY <3>1, <4>1, <4>2, <4>3 DEF Matches
    <3>2. CASE /\ Matches(txs'[job'[j].tx].wallet, j) /\ job'[j].wallet = txs'[job'[j].tx].wallet
               /\ job'[j].token = job[j].token /\ txs'[job'[j].tx].wallet \in Wallets
      <4>1. PICK w \in Wallets : w = txs'[job'[j].tx].wallet
            BY <3>2
      <4>2. lock'[w].job = lock[w].job /\ lock'[w].token = lock[w].token
            BY <2>2, <2>3, <3>2, <4>1
      <4> QED
          BY <3>2, <4>1, <4>2 DEF Matches
    <3> QED
        BY <1>2, <2>1, <2>3, <3>1, <3>2, WaitMoves
  <2>4. \A j \in Ids : Waits(j)' => Matches(txs[job[j].tx].wallet, j)'
        BY <2>3
  <2> QED
      BY <2>2, <2>4 DEF WalletInv, Waits
<1>3. ASSUME QueueInv, WalletInv PROVE OpenTxOwnsWallet
  <2>1. TypeOK /\ TxInv /\ EvidenceKept
        BY <1>3 DEF QueueInv
  <2> SUFFICES ASSUME NEW t \in TxIds, t \notin waived, CanLand(t)
               PROVE  Usable(txs[t].wallet) /\ lock[txs[t].wallet].job = txs[t].job
      BY DEF OpenTxOwnsWallet
  <2>2. PICK j \in Ids : j = txs[t].job
        BY <2>1 DEF CanLand, TxInv, NoSignature
  <2>3. /\ InDoubt(job[j]) /\ job[j].tx = t /\ t # NoTx /\ txs[t].st # "mined"
        BY <2>1, <2>2 DEF EvidenceKept, CanLand, TxIds, NoTx
  <2>4. PICK w : w = txs[t].wallet
        OBVIOUS
  <2>5. Matches(w, j)
        BY <1>3, <2>3, <2>4 DEF WalletInv
  <2>6. lock[w].job = j /\ lock[w] # NoLock
    <3>1. lock[w].job = j
          BY <2>5 DEF Matches
    <3> QED
        BY <3>1, IdShape DEF NoLock
  <2>7. Mode(job[j]) = "proof" /\ Evidence(job[j]) = t
        BY <2>3 DEF Mode, InDoubt, Held, Evidence
  <2> QED
      BY <2>2, <2>4, <2>5, <2>6, <2>7 DEF Usable
<1> QED
    BY <1>1, <1>2, <1>3, QueueInvHolds, PTL DEF Spec
===============================================================================
