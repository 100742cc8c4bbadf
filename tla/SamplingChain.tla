--------------------------- MODULE SamplingChain ---------------------------
(***************************************************************************)
(* The random-sampling contracts as one node sees them: the proof-period   *)
(* cursor, the node's challenge with its pinned commitment, the            *)
(* governance of the period duration, and the proofs credited per period.  *)
(* One knowledge asset stands for the drawn one; its content is abstracted *)
(* to a version number, which is also its Merkle root.  Stake, the score   *)
(* formula and the weighted draw are left out.                             *)
(***************************************************************************)
EXTENDS Integers

CONSTANTS
    Durations,   \* proof-period durations governance may choose, in blocks
    MaxBlock,    \* bound: last block produced
    MaxEpoch,    \* bound: last epoch
    MaxVersion,  \* bound: last content version of the asset
    MaxSweeps    \* bound: uses of clearOutstandingChallenges

ASSUME DurationAssumption == Durations \subseteq Nat \ {0} /\ Durations # {}
ASSUME ChainBoundAssumption == /\ MaxBlock \in Nat /\ MaxEpoch \in Nat \ {0}
                               /\ MaxVersion \in Nat /\ MaxSweeps \in Nat

VARIABLES
    block,     \* block.number
    epoch,     \* chronos.getCurrentEpoch()
    dur,       \* duration in force in this epoch
    nextDur,   \* duration in force from the next epoch on
    cursor,    \* activeProofPeriodStartBlock, as stored
    chal,      \* nodesChallenges[identityId]
    live,      \* current content version of the asset
    score,     \* history: proofs credited to the node, by period start
    sweeps     \* history: uses of clearOutstandingChallenges

clockVars == <<block, epoch, dur, nextDur>>
chainVars == <<clockVars, cursor, chal, live, score, sweeps>>

Blocks == 0..MaxBlock
Versions == 0..MaxVersion

Challenges == [drawn : BOOLEAN, start : Blocks, epoch : 0..MaxEpoch,
               dur : Durations \cup {0}, solved : BOOLEAN, root : Versions]

\* The all-zero struct of a node without a challenge.
NoChallenge == [drawn |-> FALSE, start |-> 0, epoch |-> 0,
                dur |-> 0, solved |-> FALSE, root |-> 0]

ChainTypeOK ==
    /\ block \in Blocks
    /\ epoch \in 1..MaxEpoch
    /\ dur \in Durations /\ nextDur \in Durations
    /\ cursor \in Blocks
    /\ chal \in Challenges
    /\ live \in Versions
    /\ score \in [Blocks -> Nat]
    /\ sweeps \in 0..MaxSweeps

ChainInit ==
    /\ block = 0 /\ epoch = 1
    /\ dur \in Durations /\ nextDur = dur
    /\ cursor = 0 /\ chal = NoChallenge
    /\ live = 0
    /\ score = [b \in Blocks |-> 0]
    /\ sweeps = 0

-----------------------------------------------------------------------------
\* updateAndGetActiveProofPeriodStartBlock: the value it stores and returns.
ActiveStart ==
    IF block > cursor + dur - 1 THEN cursor + ((block - cursor) \div dur) * dur ELSE cursor

\* Mutant of MayCreate: a solved challenge does not block the next draw.
MayCreateAgain == ~(chal.start = ActiveStart /\ chal.drawn /\ ~chal.solved)

\* createChallenge succeeds unless the node has a challenge in this period.
MayCreate == ~(chal.start = ActiveStart /\ (chal.solved \/ chal.drawn))

\* _generateChallenge: the drawn asset with its commitment, epoch and duration
\* pinned; which asset and leaf are drawn is abstracted.
GeneratedChallenge == [drawn |-> TRUE, start |-> ActiveStart, epoch |-> epoch,
                       dur |-> dur, solved |-> FALSE, root |-> live]

CreateChallenge ==
    /\ MayCreate
    /\ cursor' = ActiveStart
    /\ chal' = GeneratedChallenge
    /\ UNCHANGED <<clockVars, live, score, sweeps>>

\* The checks of submitProof, in their order.
ProofVerdict(material) ==
    CASE chal.solved               -> "solved"
      [] chal.start # ActiveStart  -> "inactive"
      [] ~chal.drawn \/ material # chal.root -> "mismatch"
      [] OTHER                     -> "ok"

\* The score of the period goes up; how much is abstracted to one proof.
Credit(start) == score' = [score EXCEPT ![start] = @ + 1]

\* Mutant of SubmitProof: the challenge is credited and not marked solved.
SubmitProofUnsolved(material) ==
    /\ ProofVerdict(material) = "ok"
    /\ cursor' = ActiveStart
    /\ Credit(ActiveStart)
    /\ UNCHANGED <<chal, clockVars, live, sweeps>>

\* submitProof credits the period it is mined in; every refusal reverts.
SubmitProof(material) ==
    /\ ProofVerdict(material) = "ok"
    /\ cursor' = ActiveStart
    /\ chal' = [chal EXCEPT !.solved = TRUE]
    /\ Credit(ActiveStart)
    /\ UNCHANGED <<clockVars, live, sweeps>>

-----------------------------------------------------------------------------
(***************************************************************************)
(* What happens on the chain without this node.                            *)
(***************************************************************************)

\* The duration in effect in an epoch: a pending one waits for the next epoch.
EpochDuration(e) == IF e > epoch THEN nextDur ELSE dur

\* A block is produced; its timestamp may fall into the next epoch.
NewBlock ==
    /\ block < MaxBlock
    /\ block' = block + 1
    /\ \/ UNCHANGED <<epoch, dur>>
       \/ epoch < MaxEpoch /\ epoch' = epoch + 1 /\ dur' = EpochDuration(epoch + 1)
    /\ UNCHANGED <<nextDur, cursor, chal, live, score, sweeps>>

\* setProofingPeriodDurationInBlocks adds or replaces the pending duration.
SetDuration(d) ==
    /\ nextDur # d
    /\ nextDur' = d
    /\ UNCHANGED <<block, epoch, dur, cursor, chal, live, score, sweeps>>

\* Another node's transaction advances the stored cursor.
OtherNodeTouches ==
    /\ cursor # ActiveStart
    /\ cursor' = ActiveStart
    /\ UNCHANGED <<clockVars, chal, live, score, sweeps>>

\* The owner of the asset publishes an update.
UpdateAsset ==
    /\ live < MaxVersion
    /\ live' = live + 1
    /\ UNCHANGED <<clockVars, cursor, chal, score, sweeps>>

\* clearOutstandingChallenges deletes the node's challenge, solved or not.
ClearChallenge ==
    /\ sweeps < MaxSweeps /\ chal.drawn
    /\ sweeps' = sweeps + 1
    /\ chal' = NoChallenge
    /\ UNCHANGED <<clockVars, cursor, live, score>>

ChainMoves ==
    \/ NewBlock \/ OtherNodeTouches \/ UpdateAsset \/ ClearChallenge
    \/ \E d \in Durations : SetDuration(d)

-----------------------------------------------------------------------------
\* The node has been credited in the period that is running.
PeriodSolved == chal.solved /\ chal.start = ActiveStart

\* A period is credited once; only a sweep of the node's challenge lets it draw
\* and prove a second time in the period.
OneProofPerPeriod == \A b \in Blocks : score[b] <= 1 + sweeps
=============================================================================
