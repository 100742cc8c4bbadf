--------------------------- MODULE SamplingProofs ---------------------------
(***************************************************************************)
(* Theorems about the random-sampling contracts and the prover, for every  *)
(* set of period durations and every value of the bounds.                  *)
(***************************************************************************)
EXTENDS SamplingProver, TLAPS

\* The stored cursor is a past block, no later period has a credit, and the
\* period of the cursor has its one credit only if its challenge is solved.
ChainInv ==
    /\ cursor <= block /\ chal.start <= cursor
    /\ \A b \in Blocks : b > cursor => score[b] = 0
    /\ OneProofPerPeriod
    /\ \/ chal.drawn /\ chal.solved /\ chal.start = cursor
       \/ score[cursor] <= sweeps

\* Pinned material proves the root of the challenge it is pinned for.
PinInv ==
    /\ pin.key.drawn => pin.material = pin.key.root
    /\ SubmitsPinnedRoot

\* Without late transactions a tick works on the node's challenge until it is
\* swept, and its log runs ahead of the chain.
LogInv ==
    /\ pending = NoTx
    /\ pc # "reading" => seen.got = {}
    /\ "challenge" \in seen.got => chal \in {seen.chal, NoChallenge}
    /\ pc \in {"extract", "build", "built", "submit"} => chal \in {mine, NoChallenge}
    /\ pc \in {"submit", "log", "observe"} => <<mine.start, "built">> \in wal
    /\ pc = "log" => score[mine.start] > 0
    /\ WalMatchesChain

\* A period that began at this block in this epoch is the cursor's until it is
\* over.
Grounded(start, e) == e = epoch => cursor = start \/ block >= start + dur

\* A duration that goes with a challenge of this epoch is the one in force.
Agrees(e, d) == e = epoch => d \in {NoDuration, dur}

Sound(ch, d) == ch.epoch <= epoch /\ Grounded(ch.start, ch.epoch) /\ Agrees(ch.epoch, d)

\* What the tick has read of a challenge of this epoch is still so.
ReadInv ==
    /\ probe = NoDuration
    /\ pc # "reading" => seen = NothingSeen
    /\ Sound(chal, chal.dur) /\ Agrees(chal.epoch, seen.dur)
    /\ Sound(seen.chal, seen.dur)
    /\ Sound(mine, obsDur)

\* Until a sweep the challenge a tick read is the node's challenge.
OwnInv ==
    sweeps = 0 =>
        /\ "challenge" \in seen.got => chal = seen.chal
        /\ pc \in {"extract", "build", "built", "submit"} => chal = mine
        /\ pc \in {"log", "observe"} => chal.solved /\ chal.start = mine.start
        /\ record.on => chal.solved /\ chal.start = record.start

RecordInv ==
    record.on =>
        /\ pc = "idle" /\ record.epoch <= epoch
        /\ Grounded(record.start, record.epoch)
        /\ record.epoch = epoch => record.reread < record.start + dur

SkipInv == ReadInv /\ OwnInv /\ RecordInv

-----------------------------------------------------------------------------
\* updateAndGetActiveProofPeriodStartBlock steps the cursor by whole periods to
\* the one that holds the current block.
LEMMA ActiveStartBounds ==
    ASSUME ChainTypeOK, cursor <= block
    PROVE  /\ ActiveStart \in Blocks
           /\ cursor <= ActiveStart /\ ActiveStart <= block
           /\ block < ActiveStart + dur
           /\ block < cursor + dur => ActiveStart = cursor
<1>1. block \in Nat /\ cursor \in Nat /\ dur \in Nat \ {0} /\ block <= MaxBlock
      BY DurationAssumption, ChainBoundAssumption DEF ChainTypeOK, Blocks
<1>2. ASSUME NEW n \in Nat, NEW d \in Nat \ {0}
      PROVE  /\ n \div d \in Nat /\ (n \div d) * d <= n 
             /\ n < (n \div d) * d + d
      OBVIOUS
<1>3. ASSUME NEW q \in Nat, NEW d \in Nat PROVE q * d \in Nat
      OBVIOUS
<1> DEFINE q == ((block - cursor) \div dur) * dur
<1>4. q \in Nat /\ q <= block - cursor /\ block - cursor < q + dur
      BY <1>1, <1>2, <1>3
<1>5. ActiveStart = IF block > cursor + dur - 1 THEN cursor + q ELSE cursor
      BY DEF ActiveStart
<1> HIDE DEF q
<1> QED
    BY <1>1, <1>4, <1>5, ChainBoundAssumption DEF Blocks

-----------------------------------------------------------------------------
(***************************************************************************)
(* The contracts.                                                          *)
(***************************************************************************)

\* What a step of the system may do to the contracts.
ChainEffect ==
    \/ UNCHANGED chainVars
    \/ CreateChallenge
    \/ \E m \in Versions : SubmitProof(m)
    \/ ChainMoves

\* A transaction or a move of the chain keeps the types of the contracts' state.
LEMMA ChainTypes ==
    ASSUME ChainTypeOK, cursor <= block, ChainEffect
    PROVE  ChainTypeOK'
<1>1. ActiveStart \in Blocks
      BY ActiveStartBounds
<1>2. /\ 0 \in Blocks /\ 0 \in Versions /\ epoch \in 0..MaxEpoch /\ 0 \in 0..MaxEpoch
      /\ MaxBlock \in Nat /\ MaxEpoch \in Nat /\ MaxVersion \in Nat /\ MaxSweeps \in Nat
      BY ChainBoundAssumption DEF Blocks, Versions, ChainTypeOK
<1>3. CASE UNCHANGED chainVars
      BY <1>3 DEF chainVars, clockVars, ChainTypeOK
<1>4. CASE CreateChallenge
  <2>1. GeneratedChallenge \in Challenges
        BY <1>1, <1>2 DEF GeneratedChallenge, Challenges, ChainTypeOK
  <2> QED
      BY <1>1, <1>4, <2>1 DEF CreateChallenge, ChainTypeOK, clockVars
<1>5. ASSUME NEW m \in Versions, SubmitProof(m) PROVE ChainTypeOK'
  <2>1. [chal EXCEPT !.solved = TRUE] \in Challenges
        BY DEF ChainTypeOK, Challenges
  <2>2. score' \in [Blocks -> Nat]
        BY <1>1, <1>5 DEF SubmitProof, Credit, ChainTypeOK
  <2> QED
      BY <1>1, <1>5, <2>1, <2>2 DEF SubmitProof, ChainTypeOK, clockVars
<1>6. CASE NewBlock
  <2>1. block' \in Blocks /\ epoch' \in 1..MaxEpoch
        BY <1>2, <1>6 DEF NewBlock, ChainTypeOK, Blocks
  <2>2. dur' \in Durations
        BY <1>6 DEF NewBlock, EpochDuration, ChainTypeOK
  <2> QED
      BY <1>6, <2>1, <2>2 DEF NewBlock, ChainTypeOK
<1>7. CASE OtherNodeTouches
      BY <1>1, <1>7 DEF OtherNodeTouches, ChainTypeOK, clockVars
<1>8. CASE UpdateAsset
      BY <1>2, <1>8 DEF UpdateAsset, ChainTypeOK, clockVars, Versions
<1>9. CASE ClearChallenge
  <2>1. NoChallenge \in Challenges
        BY <1>2 DEF NoChallenge, Challenges
  <2>2. sweeps' \in 0..MaxSweeps
        BY <1>2, <1>9 DEF ClearChallenge, ChainTypeOK
  <2> QED
      BY <1>9, <2>1, <2>2 DEF ClearChallenge, ChainTypeOK, clockVars
<1>10. ASSUME NEW d \in Durations, SetDuration(d) PROVE ChainTypeOK'
      BY <1>10 DEF SetDuration, ChainTypeOK
<1> QED
    BY <1>3, <1>4, <1>5, <1>6, <1>7, <1>8, <1>9, <1>10 DEF ChainEffect, ChainMoves

\* A transaction or a move of the chain keeps the credits apart by period.
LEMMA ChainStepKeeps ==
    ASSUME ChainTypeOK, ChainInv, ChainEffect
    PROVE  ChainInv'
<1>1. /\ ActiveStart \in Blocks /\ cursor <= ActiveStart /\ ActiveStart <= block
      /\ block < cursor + dur => ActiveStart = cursor
      BY ActiveStartBounds DEF ChainInv
<1>2. /\ block \in Nat /\ cursor \in Nat /\ chal.start \in Nat /\ sweeps \in Nat
      /\ cursor \in Blocks /\ ActiveStart \in Nat
      /\ score \in [Blocks -> Nat]
      BY <1>1, ChainBoundAssumption DEF ChainTypeOK, Blocks, Challenges
<1>3. CASE UNCHANGED chainVars
      BY <1>3 DEF chainVars, clockVars, ChainInv, OneProofPerPeriod
<1>4. CASE CreateChallenge
  <2>1. score[ActiveStart] <= sweeps
    <3>1. CASE ActiveStart = cursor
          BY <1>4, <3>1 DEF CreateChallenge, MayCreate, ChainInv
    <3>2. CASE ActiveStart # cursor
          BY <1>1, <1>2, <3>2 DEF ChainInv
    <3> QED
        BY <3>1, <3>2
  <2>2. cursor' = ActiveStart /\ chal'.start = ActiveStart /\ UNCHANGED <<block, score, sweeps>>
        BY <1>4 DEF CreateChallenge, GeneratedChallenge, clockVars
  <2> QED
      BY <1>1, <1>2, <2>1, <2>2 DEF ChainInv, OneProofPerPeriod
<1>5. ASSUME NEW m \in Versions, SubmitProof(m) PROVE ChainInv'
  <2>1. chal.drawn /\ ~chal.solved /\ chal.start = ActiveStart
        BY <1>5 DEF SubmitProof, ProofVerdict
  <2>2. ActiveStart = cursor /\ score[cursor] <= sweeps
        BY <1>1, <1>2, <2>1 DEF ChainInv
  <2>3. chal'.drawn /\ chal'.solved /\ chal'.start = cursor
        BY <1>5, <2>1, <2>2 DEF SubmitProof, ChainTypeOK, Challenges
  <2>4. cursor' = cursor /\ UNCHANGED <<block, sweeps>>
        BY <1>5, <2>2 DEF SubmitProof, clockVars
  <2>5. /\ \A b \in Blocks \ {cursor} : score'[b] = score[b]
        /\ score'[cursor] = score[cursor] + 1
        BY <1>2, <1>5, <2>2 DEF SubmitProof, Credit
  <2>6. \A b \in Blocks : score'[b] <= 1 + sweeps
        BY <1>2, <2>2, <2>5 DEF ChainInv, OneProofPerPeriod
  <2> QED
      BY <1>2, <2>3, <2>4, <2>5, <2>6 DEF ChainInv, OneProofPerPeriod
<1>6. CASE NewBlock
      BY <1>2, <1>6 DEF NewBlock, ChainInv, OneProofPerPeriod
<1>7. CASE OtherNodeTouches
  <2>1. /\ cursor' = ActiveStart /\ ActiveStart > cursor
        /\ UNCHANGED <<block, chal, score, sweeps>>
        BY <1>1, <1>2, <1>7 DEF OtherNodeTouches, clockVars
  <2>2. score[ActiveStart] = 0
        BY <1>1, <2>1 DEF ChainInv
  <2> QED
      BY <1>1, <1>2, <2>1, <2>2 DEF ChainInv, OneProofPerPeriod
<1>8. CASE UpdateAsset
      BY <1>8 DEF UpdateAsset, clockVars, ChainInv, OneProofPerPeriod
<1>9. CASE ClearChallenge
  <2>1. /\ sweeps' = sweeps + 1 /\ chal'.start = 0
        /\ UNCHANGED <<block, cursor, score>>
        BY <1>9 DEF ClearChallenge, clockVars, NoChallenge
  <2>2. \A b \in Blocks : score[b] <= 1 + sweeps /\ score[b] \in Nat
        BY <1>2 DEF ChainInv, OneProofPerPeriod
  <2> QED
      BY <1>2, <2>1, <2>2 DEF ChainInv, OneProofPerPeriod
<1>10. ASSUME NEW d \in Durations, SetDuration(d) PROVE ChainInv'
      BY <1>10 DEF SetDuration, ChainInv, OneProofPerPeriod
<1> QED
    BY <1>3, <1>4, <1>5, <1>6, <1>7, <1>8, <1>9, <1>10 DEF ChainEffect, ChainMoves

-----------------------------------------------------------------------------
(***************************************************************************)
(* The prover's state.                                                     *)
(***************************************************************************)

\* Every step of the system is, for the contracts, one of their own.
LEMMA ChainEffects ==
    ASSUME TypeOK, [Next]_vars
    PROVE  ChainEffect
<1> USE DEF ChainEffect
<1>1. material \in Versions /\ pending.material \in Versions
      BY DEF TypeOK
<1>2. CASE UNCHANGED vars
      BY <1>2 DEF vars
<1>3. CASE TickReuses \/ TickReadsLive \/ Read \/ Decide
      BY <1>3 DEF TickReuses, TickReadsLive, Read, ReadStatus, ReadDuration, ReadChallenge,
                  Decide, NoCurrentChallenge, AlreadySolved, ForceRotation, TakeExisting, vars
<1>4. CASE Prove
      BY <1>1, <1>4 DEF Prove, CreateMined, ReadBack, CoolDown, ExtractMissing, ExtractBroken,
                  Extract, BuildProof, BuildFails, LogBuilt, SubmitMined, SubmitReverts,
                  LogSubmitted, ObserveSubmitted
<1>5. CASE TickThrows \/ ReceiptTimesOut \/ PendingSettles \/ Crash \/ StoreChanges \/ ChainStep
      BY <1>1, <1>5 DEF TickThrows, ReceiptTimesOut, PendingSettles, Crash, StoreChanges, ChainStep
<1> QED
    BY <1>2, <1>3, <1>4, <1>5 DEF Next

TickTypeOK ==
    /\ pc \in Steps
    /\ seen \in [got : SUBSET LiveReads, start : Blocks,
                 dur : Durations \cup {NoDuration}, chal : Challenges]
    /\ mine \in Challenges
    /\ obsDur \in Durations \cup {NoDuration}
    /\ contents \in Versions /\ material \in Versions

MemTypeOK ==
    /\ probe \in Durations \cup {NoDuration}
    /\ record \in [on : BOOLEAN, start : Blocks, epoch : 0..MaxEpoch, reread : Nat]
    /\ pin \in [key : Challenges, material : Versions]
    /\ cooldown \in 0..CooldownTicks
    /\ store \in Versions \cup {Missing, Broken}
    /\ wal \subseteq Blocks \X {"built", "submitted"}
    /\ pending \in [kind : {"none", "create", "submit"}, material : Versions]

\* The blank values of the prover's records have their types.
LEMMA Blanks ==
    /\ NoChallenge \in Challenges
    /\ NothingSeen \in [got : SUBSET LiveReads, start : Blocks,
                        dur : Durations \cup {NoDuration}, chal : Challenges]
    /\ NoRecord \in [on : BOOLEAN, start : Blocks, epoch : 0..MaxEpoch, reread : Nat]
    /\ NoPin \in [key : Challenges, material : Versions]
    /\ NoTx \in [kind : {"none", "create", "submit"}, material : Versions]
    /\ 0 \in Versions /\ 0 \in Blocks
<1>1. 0 \in Versions /\ 0 \in Blocks /\ 0 \in 0..MaxEpoch
      BY ChainBoundAssumption DEF Versions, Blocks
<1>2. NoChallenge \in Challenges
      BY <1>1 DEF NoChallenge, Challenges
<1> QED
    BY <1>1, <1>2 DEF NothingSeen, NoRecord, NoPin, NoTx, NoDuration

\* A tick that ends leaves its blank state, and a step that starts no tick and
\* ends none leaves its state alone.
LEMMA TickEnds ==
    /\ EndTick => TickTypeOK'
    /\ TickTypeOK /\ UNCHANGED tickVars => TickTypeOK'
    BY Blanks DEF EndTick, TickTypeOK, tickVars, Steps, NoDuration

\* The record observe leaves is a record.
LEMMA ObservedTypes ==
    ASSUME ChainTypeOK, NEW c, NEW ch \in Challenges, NEW d \in Durations \cup {NoDuration}
    PROVE  Observed(c, ch, d) \in [on : BOOLEAN, start : Blocks, epoch : 0..MaxEpoch, reread : Nat]
<1>1. CASE c = "full" /\ d # NoDuration /\ ch.epoch = epoch
  <2>1. d \in Nat \ {0} /\ block \in Nat /\ ch.start \in Nat /\ ch.start \in Blocks
        /\ epoch \in 0..MaxEpoch
        BY <1>1, DurationAssumption, ChainBoundAssumption DEF ChainTypeOK, Blocks, Challenges
  <2>2. d \div 2 \in Nat
        BY <2>1
  <2>3. block + (d \div 2) \in Nat /\ ch.start + d - 1 \in Nat
        BY <2>1, <2>2
  <2> QED
      BY <1>1, <2>1, <2>3 DEF Observed
<1> QED
    BY <1>1, Blanks DEF Observed

\* Every step keeps the types of what the tick and the prover remember.
LEMMA ProverTypes ==
    ASSUME TypeOK, [Next]_vars
    PROVE  TickTypeOK' /\ MemTypeOK'
<1> USE DEF NoDuration
<1>1. ChainTypeOK /\ TickTypeOK /\ MemTypeOK
      BY DEF TypeOK, TickTypeOK, MemTypeOK
<1>2. ASSUME UNCHANGED <<probe, memVars, store, wal, pending>> PROVE MemTypeOK'
      BY <1>1, <1>2 DEF MemTypeOK, memVars
<1>3. CASE UNCHANGED vars
      BY <1>1, <1>2, <1>3, TickEnds DEF vars
<1>4. CASE TickReuses
      BY <1>1, <1>2, <1>4, TickEnds DEF TickReuses, vars
<1>5. CASE TickReadsLive
      BY <1>1, <1>5, Blanks DEF TickReadsLive, TickTypeOK, MemTypeOK, Steps
<1>6. CASE ReadStatus
  <2>1. cursor \in Blocks
        BY <1>1 DEF ChainTypeOK
  <2>2. seen.got \cup {"status"} \in SUBSET LiveReads
        BY <1>1 DEF TickTypeOK, LiveReads
  <2>3. TickTypeOK'
        BY <1>1, <1>6, <2>1, <2>2 DEF ReadStatus, TickTypeOK
  <2> QED
      BY <1>2, <1>6, <2>3 DEF ReadStatus
<1>7. CASE ReadDuration
  <2>1. dur \in Durations
        BY <1>1 DEF ChainTypeOK
  <2>2. seen.got \cup {"duration"} \in SUBSET LiveReads
        BY <1>1 DEF TickTypeOK, LiveReads
  <2>3. TickTypeOK'
        BY <1>1, <1>7, <2>1, <2>2 DEF ReadDuration, TickTypeOK, MemTypeOK
  <2> QED
      BY <1>1, <1>7, <2>1, <2>3 DEF ReadDuration, MemTypeOK, memVars
<1>8. CASE ReadChallenge
  <2>1. chal \in Challenges
        BY <1>1 DEF ChainTypeOK
  <2>2. seen.got \cup {"challenge"} \in SUBSET LiveReads
        BY <1>1 DEF TickTypeOK, LiveReads
  <2>3. TickTypeOK'
        BY <1>1, <1>8, <2>1, <2>2 DEF ReadChallenge, TickTypeOK
  <2> QED
      BY <1>2, <1>8, <2>3 DEF ReadChallenge
<1>9. CASE NoCurrentChallenge
      BY <1>1, <1>2, <1>9, Blanks DEF NoCurrentChallenge, TickTypeOK, Steps
<1>10. ASSUME NEW c \in Contexts, AlreadySolved(c) PROVE TickTypeOK' /\ MemTypeOK'
  <2>1. seen.chal \in Challenges /\ seen.dur \in Durations \cup {NoDuration}
        BY <1>1 DEF TickTypeOK
  <2>2. record' \in [on : BOOLEAN, start : Blocks, epoch : 0..MaxEpoch, reread : Nat]
        BY <1>1, <1>10, <2>1, ObservedTypes DEF AlreadySolved
  <2> QED
      BY <1>1, <1>10, <2>2, TickEnds DEF AlreadySolved, MemTypeOK
<1>11. ASSUME NEW c \in Contexts, ForceRotation(c) PROVE TickTypeOK' /\ MemTypeOK'
      BY <1>1, <1>2, <1>11, Blanks DEF ForceRotation, TickTypeOK, Steps
<1>12. ASSUME NEW c \in Contexts, TakeExisting(c) PROVE TickTypeOK' /\ MemTypeOK'
      BY <1>1, <1>2, <1>12, Blanks DEF TakeExisting, TickTypeOK, Steps
<1>13. CASE CreateMined
      BY <1>1, <1>2, <1>13 DEF CreateMined, TickTypeOK, Steps
<1>14. CASE ReadBack
  <2>1. chal \in Challenges /\ chal.dur \in Durations \cup {NoDuration}
        BY <1>1 DEF ChainTypeOK, Challenges
  <2> QED
      BY <1>1, <1>2, <1>14, <2>1 DEF ReadBack, TickTypeOK, Steps
<1>15. CASE CoolDown
  <2>1. cooldown' \in 0..CooldownTicks
        BY <1>1, <1>15, ProverAssumption DEF CoolDown, MemTypeOK
  <2> QED
      BY <1>1, <1>15, <2>1, TickEnds DEF CoolDown, MemTypeOK
<1>16. CooldownTicks \in 0..CooldownTicks
      BY ProverAssumption
<1>17. CASE ExtractMissing
      BY <1>2, <1>17, TickEnds DEF ExtractMissing
<1>18. CASE ExtractBroken
      BY <1>1, <1>16, <1>18, TickEnds DEF ExtractBroken, MemTypeOK
<1>19. ASSUME NEW v \in Versions, Extract(v) PROVE TickTypeOK' /\ MemTypeOK'
      BY <1>1, <1>2, <1>19 DEF Extract, TickTypeOK, Steps
<1>20. CASE BuildProof
  <2>1. PICK m \in ProofFor : material' = m /\ pin' = [key |-> mine, material |-> m]
        BY <1>20 DEF BuildProof
  <2>2. m \in Versions
        BY <1>1 DEF ProofFor, TickTypeOK, MemTypeOK
  <2> QED
      BY <1>1, <1>20, <2>1, <2>2 DEF BuildProof, TickTypeOK, MemTypeOK, Steps
<1>21. CASE BuildFails
      BY <1>1, <1>16, <1>21, TickEnds DEF BuildFails, MemTypeOK
<1>22. mine.start \in Blocks
      BY <1>1 DEF TickTypeOK, Challenges
<1>23. CASE LogBuilt
      BY <1>1, <1>22, <1>23 DEF LogBuilt, TickTypeOK, MemTypeOK, memVars, Steps
<1>24. CASE SubmitMined
      BY <1>1, <1>2, <1>24 DEF SubmitMined, TickTypeOK, Steps
<1>25. CASE SubmitReverts
      BY <1>1, <1>16, <1>25, Blanks, TickEnds DEF SubmitReverts, MemTypeOK
<1>26. CASE LogSubmitted
      BY <1>1, <1>22, <1>26 DEF LogSubmitted, TickTypeOK, MemTypeOK, memVars, Steps
<1>27. ASSUME NEW c \in Contexts, ObserveSubmitted(c) PROVE TickTypeOK' /\ MemTypeOK'
  <2>1. mine \in Challenges /\ obsDur \in Durations \cup {NoDuration}
        BY <1>1 DEF TickTypeOK
  <2>2. record' \in [on : BOOLEAN, start : Blocks, epoch : 0..MaxEpoch, reread : Nat]
        BY <1>1, <1>27, <2>1, Blanks, ObservedTypes DEF ObserveSubmitted
  <2> QED
      BY <1>1, <1>27, <2>2, TickEnds DEF ObserveSubmitted, MemTypeOK
<1>28. CASE TickThrows
      BY <1>2, <1>28, TickEnds DEF TickThrows
<1>29. CASE ReceiptTimesOut
      BY <1>1, <1>29, TickEnds DEF ReceiptTimesOut, TickTypeOK, MemTypeOK, memVars
<1>30. CASE PendingSettles
      BY <1>1, <1>30, Blanks, TickEnds DEF PendingSettles, MemTypeOK, memVars
<1>31. CASE Crash
  <2>1. 0 \in 0..CooldownTicks
        BY ProverAssumption
  <2> QED
      BY <1>1, <1>31, <2>1, Blanks, TickEnds DEF Crash, MemTypeOK
<1>32. CASE StoreChanges
  <2>1. 0..live \subseteq Versions
        BY <1>1, ChainBoundAssumption DEF ChainTypeOK, Versions
  <2> QED
      BY <1>1, <1>32, <2>1, TickEnds DEF StoreChanges, MemTypeOK, memVars
<1>33. CASE ChainStep
      BY <1>1, <1>2, <1>33, TickEnds DEF ChainStep
<1> QED
    BY <1>3, <1>4, <1>5, <1>6, <1>7, <1>8, <1>9, <1>10, <1>11, <1>12, <1>13, <1>14, <1>15,
       <1>17, <1>18, <1>19, <1>20, <1>21, <1>23, <1>24, <1>25, <1>26, <1>27, <1>28, <1>29,
       <1>30, <1>31, <1>32, <1>33
    DEF Next, Read, Decide, Prove

\* The types and the credits of the periods, from the first state on.
LEMMA ChainInvariant == Spec => [](TypeOK /\ ChainInv)
<1>1. Init => TypeOK /\ ChainInv
  <2> SUFFICES ASSUME Init PROVE TypeOK /\ ChainInv
      OBVIOUS
  <2>1. ChainTypeOK
        BY Blanks, ChainBoundAssumption DEF Init, ChainInit, ChainTypeOK, Blocks, Versions
  <2>2. TickTypeOK /\ MemTypeOK
        BY Blanks, ProverAssumption DEF Init, IdleTick, TickTypeOK, MemTypeOK, Steps, NoDuration
  <2>3. ChainInv
        BY Blanks DEF Init, ChainInit, ChainInv, OneProofPerPeriod, NoChallenge
  <2> QED
      BY <2>1, <2>2, <2>3 DEF TypeOK, TickTypeOK, MemTypeOK
<1>2. TypeOK /\ ChainInv /\ [Next]_vars => (TypeOK /\ ChainInv)'
  <2> SUFFICES ASSUME TypeOK, ChainInv, [Next]_vars PROVE TypeOK' /\ ChainInv'
      OBVIOUS
  <2>1. ChainTypeOK /\ cursor <= block /\ ChainEffect
        BY ChainEffects DEF TypeOK, ChainInv
  <2>2. ChainTypeOK' /\ ChainInv'
        BY <2>1, ChainTypes, ChainStepKeeps
  <2> QED
      BY <2>2, ProverTypes DEF TypeOK, TickTypeOK, MemTypeOK
<1> QED
    BY <1>1, <1>2, PTL DEF Spec

\* Every variable of the prover and of the contracts keeps its type; that the
\* start of a period is a block of the chain rests on the cursor never being
\* ahead of the head.
THEOREM SamplingTypes == Spec => []TypeOK
    BY ChainInvariant, PTL

\* A period is credited once for each challenge the node was given in it, and it
\* is given a second one only after a sweep: whatever receipts come late, ticks
\* die or durations change.
THEOREM OneProof == Spec => []OneProofPerPeriod
<1>1. ChainInv => OneProofPerPeriod
      BY DEF ChainInv
<1> QED
    BY <1>1, ChainInvariant, PTL

-----------------------------------------------------------------------------
(***************************************************************************)
(* Proof material.                                                         *)
(***************************************************************************)

\* Material that leaves for the chain proves the root its challenge pinned,
\* whatever happens to the asset, to the store and to the process meanwhile.
THEOREM PinnedRootIsSubmitted == Spec => []SubmitsPinnedRoot
<1>1. Init => PinInv
      BY DEF Init, IdleTick, PinInv, SubmitsPinnedRoot, NoPin, NoChallenge
<1>2. TypeOK /\ PinInv /\ [Next]_vars => PinInv'
  <2> SUFFICES ASSUME TypeOK, PinInv, [Next]_vars PROVE PinInv'
      OBVIOUS
  <2> USE DEF PinInv, SubmitsPinnedRoot
  <2>1. ASSUME pin' = pin \/ pin' = NoPin, pc' \notin {"built", "submit"} PROVE PinInv'
        BY <2>1 DEF NoPin, NoChallenge
  <2>2. ASSUME UNCHANGED <<pin, pc, mine, material>> PROVE PinInv'
        BY <2>2
  <2>3. CASE BuildProof
    <3>1. PICK m \in ProofFor : material' = m /\ pin' = [key |-> mine, material |-> m]
          BY <2>3 DEF BuildProof
    <3>2. m = mine.root
          BY DEF ProofFor, Pinned
    <3> QED
        BY <2>3, <3>1, <3>2 DEF BuildProof
  <2>4. CASE LogBuilt
        BY <2>4 DEF LogBuilt, memVars
  <2>5. CASE UNCHANGED vars \/ TickReuses \/ Read
        BY <2>2, <2>5 DEF TickReuses, Read, ReadStatus, ReadDuration, ReadChallenge, vars,
                          tickVars, memVars
  <2>6. CASE PendingSettles \/ StoreChanges \/ ChainStep
        BY <2>2, <2>6 DEF PendingSettles, StoreChanges, ChainStep, tickVars, memVars
  <2>7. CASE TickReadsLive \/ Decide \/ TickThrows \/ ReceiptTimesOut \/ Crash
        BY <2>1, <2>7 DEF TickReadsLive, Decide, NoCurrentChallenge, AlreadySolved,
                          ForceRotation, TakeExisting, TickThrows, ReceiptTimesOut, Crash,
                          EndTick, memVars
  <2>8. CASE Prove /\ ~BuildProof /\ ~LogBuilt
        BY <2>1, <2>8 DEF Prove, CreateMined, ReadBack, CoolDown, ExtractMissing, ExtractBroken,
                          Extract, BuildFails, SubmitMined, SubmitReverts, LogSubmitted,
                          ObserveSubmitted, EndTick, memVars
  <2> QED
      BY <2>3, <2>4, <2>5, <2>6, <2>7, <2>8 DEF Next
<1>3. PinInv => SubmitsPinnedRoot
      BY DEF PinInv
<1> QED
    BY <1>1, <1>2, <1>3, ChainInvariant, PTL DEF Spec

-----------------------------------------------------------------------------
(***************************************************************************)
(* The write-ahead log.                                                    *)
(***************************************************************************)

Working == {"extract", "build", "built", "submit"}

\* Every step keeps the log ahead of the chain, when no transaction is mined
\* after its receipt wait gave up.
LEMMA LogStep ==
    ASSUME LateReceipts = FALSE, TypeOK, ChainInv, LogInv, [Next]_vars
    PROVE  LogInv'
<1>1. /\ score \in [Blocks -> Nat] /\ ActiveStart \in Blocks /\ mine.start \in Blocks
      /\ \A b \in Blocks : score[b] \in Nat
      BY ActiveStartBounds DEF TypeOK, ChainTypeOK, ChainInv, Challenges
<1> USE DEF LogInv, WalMatchesChain
<1>2. ASSUME UNCHANGED <<score, wal, pending>>, seen'.got = {},
             pc' \notin {"extract", "build", "built", "submit", "log", "observe"}
      PROVE  LogInv'
      BY <1>2
<1>3. ASSUME UNCHANGED <<chal, score, wal, pending, mine, seen>>,
             pc' = pc \/ (pc \in Working /\ pc' \in Working \ {"submit"})
      PROVE  LogInv'
      BY <1>3 DEF Working
<1>4. CASE UNCHANGED vars \/ TickReuses
      BY <1>3, <1>4 DEF TickReuses, vars, tickVars, chainVars
<1>20. CASE Read
  <2>1. /\ UNCHANGED <<chal, score, wal, pending, mine, pc>> /\ pc = "reading"
        /\ "challenge" \in seen'.got =>
              \/ "challenge" \in seen.got /\ seen'.chal = seen.chal
              \/ seen'.chal = chal
    <3>1. seen \in [got : SUBSET LiveReads, start : Blocks,
                    dur : Durations \cup {NoDuration}, chal : Challenges]
          BY DEF TypeOK
    <3>2. CASE ReadStatus
          BY <3>1, <3>2 DEF Reading, ReadStatus, chainVars
    <3>3. CASE ReadDuration
      <4>1. seen'.got = seen.got \cup {"duration"} /\ seen'.chal = seen.chal
            BY <3>1, <3>3 DEF ReadDuration
      <4> QED
          BY <3>3, <4>1 DEF Reading, ReadDuration, chainVars
    <3>4. CASE ReadChallenge
          BY <3>1, <3>4 DEF Reading, ReadChallenge, chainVars
    <3> QED
        BY <1>20, <3>2, <3>3, <3>4 DEF Read
  <2> QED
      BY <2>1
<1>5. CASE TickReadsLive \/ TickThrows \/ ReceiptTimesOut \/ Crash \/ NoCurrentChallenge
      BY <1>2, <1>5 DEF TickReadsLive, NoCurrentChallenge, TickThrows, ReceiptTimesOut, Crash,
                        EndTick, chainVars, NothingSeen
<1>6. ASSUME NEW c \in Contexts, AlreadySolved(c) \/ ForceRotation(c) PROVE LogInv'
      BY <1>2, <1>6 DEF AlreadySolved, ForceRotation, EndTick, chainVars, NothingSeen
<1>7. CASE StoreChanges
      BY <1>3, <1>7 DEF StoreChanges, tickVars, chainVars
<1>8. CASE ChainStep
  <2>1. UNCHANGED <<score, wal, pending, mine, pc, seen>> /\ chal' \in {chal, NoChallenge}
        BY <1>8 DEF ChainStep, ChainMoves, NewBlock, OtherNodeTouches, UpdateAsset,
                    ClearChallenge, SetDuration, tickVars
  <2> QED
      BY <2>1
<1>9. CASE PendingSettles
      BY <1>9 DEF PendingSettles
<1>10. CASE CreateMined
      BY <1>2, <1>10 DEF CreateMined, CreateChallenge
<1>11. CASE ReadBack
      BY <1>11 DEF ReadBack, chainVars
<1>12. CASE CoolDown \/ ExtractMissing \/ ExtractBroken \/ BuildFails \/ SubmitReverts
      BY <1>2, <1>12 DEF CoolDown, ExtractMissing, ExtractBroken, BuildFails, SubmitReverts,
                         EndTick, chainVars, NothingSeen
<1>13. ASSUME NEW v \in Versions, Extract(v) PROVE LogInv'
      BY <1>3, <1>13 DEF Extract, Working, chainVars
<1>14. CASE BuildProof
      BY <1>3, <1>14 DEF BuildProof, Working, chainVars
<1>15. CASE LogBuilt
      BY <1>15 DEF LogBuilt, chainVars
<1>16. CASE SubmitMined
  <2>1. chal.drawn /\ chal.start = ActiveStart /\ chal = mine
        BY <1>16 DEF SubmitMined, SubmitProof, ProofVerdict, NoChallenge
  <2>2. /\ \A b \in Blocks \ {mine.start} : score'[b] = score[b]
        /\ score'[mine.start] = score[mine.start] + 1
        BY <1>1, <1>16, <2>1 DEF SubmitMined, SubmitProof, Credit
  <2>3. score'[mine.start] > 0
        BY <1>1, <2>2
  <2>4. UNCHANGED <<mine, wal, pending, seen>> /\ pc = "submit" /\ pc' = "log"
        BY <1>16 DEF SubmitMined
  <2> QED
      BY <1>1, <2>2, <2>3, <2>4
<1>17. CASE LogSubmitted
      BY <1>1, <1>17 DEF LogSubmitted, chainVars
<1>18. ASSUME NEW c \in Contexts, ObserveSubmitted(c) PROVE LogInv'
      BY <1>2, <1>18 DEF ObserveSubmitted, EndTick, chainVars, NothingSeen
<1>19. ASSUME NEW c \in Contexts, TakeExisting(c) PROVE LogInv'
  <2>1. chal \in {seen.chal, NoChallenge}
        BY <1>19 DEF TakeExisting, ExistingIsCurrent, LiveReads
  <2> QED
      BY <1>19, <2>1 DEF TakeExisting, chainVars, NothingSeen
<1> QED
    BY <1>4, <1>5, <1>6, <1>7, <1>8, <1>9, <1>10, <1>11, <1>12, <1>13, <1>14, <1>15, <1>16,
       <1>17, <1>18, <1>19, <1>20
    DEF Next, Decide, Prove

\* The log from the first state on.
LEMMA LogInvariant ==
    ASSUME LateReceipts = FALSE
    PROVE  Spec => []LogInv
<1>1. Init => LogInv
      BY DEF Init, IdleTick, ChainInit, LogInv, WalMatchesChain, NothingSeen
<1>2. TypeOK /\ ChainInv /\ LogInv /\ [Next]_vars => LogInv'
      BY LogStep
<1> QED
    BY <1>1, <1>2, ChainInvariant, PTL DEF Spec

\* The log entry of a proof is written before its period is credited and its
\* submission is logged after: wherever a tick or the process dies.  A proof that
\* is mined after its receipt wait gave up may meet the next challenge and credit
\* a period the log does not know.
THEOREM LogIsAhead ==
    ASSUME LateReceipts = FALSE
    PROVE  Spec => []WalMatchesChain
<1>1. LogInv => WalMatchesChain
      BY DEF LogInv
<1> QED
    BY <1>1, LogInvariant, PTL

-----------------------------------------------------------------------------
(***************************************************************************)
(* The solved-period record.                                               *)
(***************************************************************************)

\* The clock runs forward, the duration holds for its epoch, and the cursor moves
\* only to the start of the running period.
LEMMA ClockStep ==
    ASSUME TypeOK, ChainInv, [Next]_vars
    PROVE  /\ epoch <= epoch' /\ (epoch' = epoch => dur' = dur)
           /\ block <= block' /\ cursor' \in {cursor, ActiveStart}
           /\ sweeps <= sweeps'
<1>1. ChainEffect /\ block \in Nat /\ epoch \in Nat /\ sweeps \in Nat
      BY ChainEffects, ChainBoundAssumption DEF TypeOK, ChainTypeOK, Blocks
<1>2. CASE NewBlock
      BY <1>1, <1>2 DEF NewBlock
<1>3. CASE ClearChallenge
      BY <1>1, <1>3 DEF ClearChallenge, clockVars
<1>4. CASE UNCHANGED chainVars \/ CreateChallenge \/ \E m \in Versions : SubmitProof(m)
      BY <1>1, <1>4 DEF CreateChallenge, SubmitProof, chainVars, clockVars
<1>5. CASE OtherNodeTouches \/ UpdateAsset \/ \E d \in Durations : SetDuration(d)
      BY <1>1, <1>5 DEF OtherNodeTouches, UpdateAsset, SetDuration, clockVars
<1> QED
    BY <1>1, <1>2, <1>3, <1>4, <1>5 DEF ChainEffect, ChainMoves

\* What is known of a period that began in this epoch stays known.
LEMMA SoundStays ==
    ASSUME TypeOK, ChainInv, [Next]_vars, NEW ch \in Challenges, NEW d, Sound(ch, d)
    PROVE  Sound(ch, d)'
<1>1. /\ epoch <= epoch' /\ (epoch' = epoch => dur' = dur)
      /\ block <= block' /\ cursor' \in {cursor, ActiveStart}
      BY ClockStep
<1>2. block < cursor + dur => ActiveStart = cursor
      BY ActiveStartBounds DEF TypeOK, ChainInv
<1>3. /\ epoch \in Nat /\ epoch' \in Nat /\ ch.epoch \in Nat /\ ch.start \in Nat
      /\ block \in Nat /\ block' \in Nat /\ cursor \in Nat /\ dur \in Nat
  <2>1. ChainTypeOK /\ ChainTypeOK'
        BY ChainEffects, ChainTypes DEF TypeOK, ChainInv
  <2> QED
      BY <2>1, ChainBoundAssumption, DurationAssumption DEF ChainTypeOK, Challenges, Blocks
<1>4. ASSUME ch.epoch = epoch' PROVE epoch' = epoch /\ ch.epoch = epoch
      BY <1>1, <1>3, <1>4 DEF Sound
<1>5. Grounded(ch.start, ch.epoch)'
      BY <1>1, <1>2, <1>3, <1>4 DEF Sound, Grounded
<1>6. Agrees(ch.epoch, d)'
      BY <1>1, <1>4 DEF Sound, Agrees
<1>7. ch.epoch <= epoch'
      BY <1>1, <1>3 DEF Sound
<1> QED
    BY <1>5, <1>6, <1>7 DEF Sound

\* Only the node's own tick gives it a challenge or solves the one it has.
LEMMA OwnTransactions ==
    ASSUME LateReceipts = FALSE, TypeOK, LogInv, [Next]_vars
    PROVE  \/ UNCHANGED <<chal, sweeps>>
           \/ ChainStep /\ chal' = NoChallenge /\ sweeps' = sweeps + 1
           \/ CreateMined
           \/ SubmitMined
<1>1. CASE UNCHANGED vars \/ TickReuses \/ TickReadsLive \/ Read \/ Decide
      BY <1>1 DEF TickReuses, TickReadsLive, Read, ReadStatus, ReadDuration, ReadChallenge,
                  Decide, NoCurrentChallenge, AlreadySolved, ForceRotation, TakeExisting, vars,
                  chainVars
<1>2. CASE Prove
      BY <1>2 DEF Prove, ReadBack, CoolDown, ExtractMissing, ExtractBroken,
                  Extract, BuildProof, BuildFails, LogBuilt, SubmitReverts,
                  LogSubmitted, ObserveSubmitted, chainVars
<1>3. CASE TickThrows \/ ReceiptTimesOut \/ PendingSettles \/ Crash \/ StoreChanges
      BY <1>3 DEF TickThrows, ReceiptTimesOut, PendingSettles, Crash, StoreChanges, LogInv,
                  chainVars
<1>4. CASE ChainStep
      BY <1>4 DEF ChainStep, ChainMoves, NewBlock, OtherNodeTouches, UpdateAsset,
                  ClearChallenge, SetDuration
<1> QED
    BY <1>1, <1>2, <1>3, <1>4 DEF Next

\* What a tick has read, and what it works on, after any step.
LEMMA TickMoves ==
    ASSUME SlowProbe = FALSE, TypeOK, ReadInv, [Next]_vars
    PROVE  /\ probe' = NoDuration
           /\ \/ seen' = NothingSeen
              \/ seen' = seen /\ pc' = pc
              \/ /\ UNCHANGED <<chainVars, pc, mine, obsDur, record>> /\ pc = "reading"
                 /\ seen'.dur \in {seen.dur, dur}
                 /\ \/ seen'.chal = seen.chal
                       /\ ("challenge" \in seen'.got => "challenge" \in seen.got)
                    \/ seen'.chal = chal /\ seen'.dur = seen.dur
           /\ \/ mine' = NoChallenge
              \/ mine' = mine /\ obsDur' = obsDur
              \/ UNCHANGED chainVars /\ mine' = seen.chal /\ obsDur' = seen.dur
              \/ UNCHANGED chainVars /\ mine' = chal /\ obsDur' = chal.dur
<1>1. /\ seen \in [got : SUBSET LiveReads, start : Blocks,
                   dur : Durations \cup {NoDuration}, chal : Challenges]
      /\ probe = NoDuration
      /\ pc # "reading" => seen = NothingSeen
      BY DEF TypeOK, ReadInv
<1>2. CASE UNCHANGED vars \/ TickReuses \/ TickReadsLive
      BY <1>1, <1>2 DEF TickReuses, TickReadsLive, vars, tickVars
<1>3. CASE ReadStatus
      BY <1>1, <1>3 DEF ReadStatus, Reading, memVars
<1>4. CASE ReadDuration
  <2>1. /\ seen'.got = seen.got \cup {"duration"} /\ seen'.chal = seen.chal
        /\ seen'.dur \in {seen.dur, dur} /\ probe' = NoDuration
        BY <1>1, <1>4 DEF ReadDuration
  <2> QED
      BY <1>4, <2>1 DEF ReadDuration, Reading, memVars
<1>5. CASE ReadChallenge
      BY <1>1, <1>5 DEF ReadChallenge, Reading, memVars
<1>6. CASE Decide
      BY <1>1, <1>6 DEF Decide, NoCurrentChallenge, AlreadySolved, ForceRotation, TakeExisting,
                  EndTick
<1>7. CASE CreateMined \/ ReadBack \/ BuildProof \/ LogBuilt \/ SubmitMined \/ LogSubmitted
           \/ \E v \in Versions : Extract(v)
      BY <1>1, <1>7 DEF CreateMined, ReadBack, BuildProof, LogBuilt, SubmitMined, LogSubmitted,
                        Extract
<1>8. CASE CoolDown \/ ExtractMissing \/ ExtractBroken \/ BuildFails \/ SubmitReverts
           \/ \E c \in Contexts : ObserveSubmitted(c)
      BY <1>1, <1>8 DEF CoolDown, ExtractMissing, ExtractBroken, BuildFails, SubmitReverts,
                        ObserveSubmitted, EndTick
<1>9. CASE TickThrows \/ ReceiptTimesOut \/ PendingSettles \/ Crash \/ StoreChanges \/ ChainStep
      BY <1>1, <1>9 DEF TickThrows, ReceiptTimesOut, PendingSettles, Crash, StoreChanges,
                        ChainStep, EndTick, tickVars
<1> QED
    BY <1>2, <1>3, <1>4, <1>5, <1>6, <1>7, <1>8, <1>9 DEF Next, Read, Prove

\* What the tick knows of a challenge of this epoch stays so in every step.
LEMMA ReadStep ==
    ASSUME LateReceipts = FALSE, SlowProbe = FALSE,
           TypeOK, ChainInv, LogInv, ReadInv, [Next]_vars
    PROVE  ReadInv'
<1>1. /\ chal \in Challenges /\ mine \in Challenges /\ seen.chal \in Challenges
      /\ NoChallenge \in Challenges /\ TypeOK'
      /\ ChainTypeOK /\ ChainInv'
  <2>1. ChainTypeOK /\ cursor <= block /\ ChainEffect
        BY ChainEffects DEF TypeOK, ChainInv
  <2>2. ChainTypeOK' /\ ChainInv'
        BY <2>1, ChainTypes, ChainStepKeeps
  <2> QED
      BY <2>1, <2>2, Blanks, ProverTypes DEF TypeOK, TickTypeOK, MemTypeOK, ChainTypeOK
<1>2. /\ epoch \in Nat \ {0} /\ epoch' \in Nat \ {0}
      BY <1>1, ChainBoundAssumption DEF TypeOK, ChainTypeOK
<1>3. ASSUME NEW d PROVE Sound(NoChallenge, d)'
      BY <1>2 DEF Sound, Grounded, Agrees, NoChallenge
<1>4. ASSUME NEW d PROVE Sound(NoChallenge, d)
      BY <1>2 DEF Sound, Grounded, Agrees, NoChallenge
<1>5. PICK c0, c1, m0, m1, s0, s1, o0, o1 :
         /\ c0 = chal /\ c1 = chal' /\ m0 = mine /\ m1 = mine'
         /\ s0 = seen /\ s1 = seen' /\ o0 = obsDur /\ o1 = obsDur'
      OBVIOUS
<1>6. /\ c0 \in Challenges /\ m0 \in Challenges /\ s0.chal \in Challenges
      /\ Sound(c0, c0.dur) /\ Agrees(c0.epoch, s0.dur) /\ Sound(s0.chal, s0.dur) /\ Sound(m0, o0)
      BY <1>1, <1>5 DEF ReadInv
<1>7. /\ \/ s1 = NothingSeen
         \/ s1 = s0 /\ pc' = pc
         \/ /\ UNCHANGED <<chainVars, pc, mine, obsDur, record>> /\ pc = "reading"
            /\ s1.dur \in {s0.dur, dur}
            /\ \/ s1.chal = s0.chal
               \/ s1.chal = c0 /\ s1.dur = s0.dur
      /\ \/ m1 = NoChallenge
         \/ m1 = m0 /\ o1 = o0
         \/ UNCHANGED chainVars /\ m1 = s0.chal /\ o1 = s0.dur
         \/ UNCHANGED chainVars /\ m1 = c0 /\ o1 = c0.dur
      /\ probe' = NoDuration
      BY <1>5, TickMoves
<1>8. ASSUME NEW ch \in Challenges, NEW d, Sound(ch, d) PROVE Sound(ch, d)'
      BY <1>8, SoundStays
<1>9. CASE CreateMined
  <2>1. /\ c1.epoch = epoch' /\ c1.start = cursor' /\ c1.dur = dur'
        /\ seen = NothingSeen /\ UNCHANGED <<seen, mine, obsDur>> /\ pc' # "reading"
        BY <1>5, <1>9 DEF CreateMined, CreateChallenge, GeneratedChallenge, clockVars, ReadInv
  <2>2. Sound(c1, c1.dur)' /\ Agrees(c1.epoch, s1.dur)'
        BY <1>2, <1>5, <2>1 DEF Sound, Grounded, Agrees, NothingSeen
  <2>3. Sound(m1, o1)' /\ Sound(s1.chal, s1.dur)'
        BY <1>5, <1>6, <1>8, <2>1
  <2> QED
      BY <1>5, <1>7, <2>1, <2>2, <2>3 DEF ReadInv
<1>10. CASE ~CreateMined
  <2>1. \/ c1 = c0 \/ c1 = NoChallenge
        \/ c1.epoch = c0.epoch /\ c1.start = c0.start /\ c1.dur = c0.dur
    <3>1. CASE SubmitMined
          BY <1>1, <1>5, <3>1 DEF SubmitMined, SubmitProof, Challenges
    <3> QED
        BY <1>5, <1>10, <3>1, OwnTransactions
  <2>2. Sound(c1, c1.dur)'
    <3>1. Sound(c0, c0.dur)'
          BY <1>6, <1>8
    <3> QED
        BY <1>3, <2>1, <3>1 DEF Sound
  <2>3. ASSUME NEW d, Sound(c0, d) PROVE Agrees(c1.epoch, d)'
    <3>1. Sound(c0, d)'
          BY <1>6, <1>8, <2>3
    <3> QED
        BY <1>3, <2>1, <3>1 DEF Sound
  <2>4. Sound(c0, s0.dur) /\ Sound(c0, dur) /\ Sound(c0, NoDuration)
        BY <1>6 DEF Sound, Agrees
  <2>5. NothingSeen.dur = NoDuration /\ NothingSeen.chal = NoChallenge
        BY DEF NothingSeen
  <2>6. Agrees(c1.epoch, s1.dur)'
    <3>1. PICK d : d = s1.dur
          OBVIOUS
    <3>2. d = NoDuration \/ d = s0.dur \/ d = dur
          BY <1>7, <2>5, <3>1
    <3>3. Agrees(c1.epoch, d)'
          BY <2>3, <2>4, <3>2
    <3> QED
        BY <3>1, <3>3
  <2>7. Sound(s1.chal, s1.dur)'
    <3>1. CASE s1 = NothingSeen
          BY <1>3, <2>5, <3>1
    <3>2. CASE s1 = s0
          BY <1>6, <1>8, <3>2
    <3>3. CASE /\ s1.dur \in {s0.dur, dur}
               /\ \/ s1.chal = s0.chal
                  \/ s1.chal = c0 /\ s1.dur = s0.dur
      <4>1. PICK d, ch : d = s1.dur /\ ch = s1.chal
            OBVIOUS
      <4>2. Sound(s0.chal, dur)
            BY <1>6 DEF Sound, Agrees
      <4>3. ch \in Challenges /\ Sound(ch, d)
            BY <1>6, <2>4, <3>3, <4>1, <4>2
      <4>4. Sound(ch, d)'
            BY <1>8, <4>3
      <4> QED
          BY <4>1, <4>4
    <3> QED
        BY <1>7, <3>1, <3>2, <3>3
  <2>8. Sound(m1, o1)'
        BY <1>3, <1>6, <1>7, <1>8
  <2>9. pc' # "reading" => s1 = NothingSeen
        BY <1>5, <1>7 DEF ReadInv
  <2> QED
      BY <1>5, <1>7, <2>2, <2>6, <2>7, <2>8, <2>9 DEF ReadInv
<1> QED
    BY <1>9, <1>10

\* Until a sweep the challenge a tick works on is the node's challenge.
LEMMA OwnStep ==
    ASSUME LateReceipts = FALSE, SlowProbe = FALSE,
           TypeOK, ChainInv, LogInv, ReadInv, RecordInv, OwnInv, [Next]_vars
    PROVE  OwnInv'
<1> SUFFICES ASSUME sweeps' = 0
             PROVE  /\ "challenge" \in seen'.got => chal' = seen'.chal
                    /\ pc' \in Working => chal' = mine'
                    /\ pc' \in {"log", "observe"} => chal'.solved /\ chal'.start = mine'.start
                    /\ record'.on => chal'.solved /\ chal'.start = record'.start
    BY DEF OwnInv, Working
<1>1. /\ sweeps = 0 /\ chal \in Challenges
      /\ seen \in [got : SUBSET LiveReads, start : Blocks,
                   dur : Durations \cup {NoDuration}, chal : Challenges]
      BY ClockStep, ChainBoundAssumption DEF TypeOK, ChainTypeOK
<1>2. /\ "challenge" \in seen.got => chal = seen.chal
      /\ pc \in Working => chal = mine
      /\ pc \in {"log", "observe"} => chal.solved /\ chal.start = mine.start
      /\ record.on => chal.solved /\ chal.start = record.start
      BY <1>1 DEF OwnInv, Working
<1>3. /\ pc # "reading" => seen = NothingSeen
      /\ record.on => pc = "idle"
      /\ NothingSeen.got = {} /\ ~NoRecord.on
      BY DEF ReadInv, RecordInv, NothingSeen, NoRecord
<1>4. CASE UNCHANGED vars \/ TickReuses
      BY <1>2, <1>4 DEF TickReuses, vars, tickVars, memVars, chainVars
<1>5. CASE TickReadsLive
      BY <1>3, <1>5 DEF TickReadsLive, Working
<1>6. CASE ReadStatus
      BY <1>1, <1>2, <1>3, <1>6 DEF ReadStatus, Reading, memVars, chainVars, Working
<1>7. CASE ReadDuration
  <2>1. seen'.got = seen.got \cup {"duration"} /\ seen'.chal = seen.chal
        BY <1>1, <1>7 DEF ReadDuration
  <2> QED
      BY <1>2, <1>3, <1>7, <2>1 DEF ReadDuration, Reading, memVars, chainVars, Working
<1>8. CASE ReadChallenge
      BY <1>1, <1>2, <1>3, <1>8 DEF ReadChallenge, Reading, memVars, chainVars, Working
<1>9. CASE NoCurrentChallenge \/ \E c \in Contexts : ForceRotation(c)
      BY <1>3, <1>9 DEF NoCurrentChallenge, ForceRotation, ExistingIsCurrent, Working, memVars
<1>10. ASSUME NEW c \in Contexts, AlreadySolved(c) PROVE OwnInv'
  <2>1. chal = seen.chal /\ seen.chal.solved
        BY <1>2, <1>10 DEF AlreadySolved, ExistingIsCurrent, LiveReads
  <2>2. record'.on => record'.start = seen.chal.start
        BY <1>10 DEF AlreadySolved, Observed, NoRecord
  <2> QED
      BY <1>3, <1>10, <2>1, <2>2 DEF AlreadySolved, EndTick, Working, OwnInv, chainVars
<1>11. ASSUME NEW c \in Contexts, TakeExisting(c) PROVE OwnInv'
  <2>1. chal = seen.chal
        BY <1>2, <1>11 DEF TakeExisting, ExistingIsCurrent, LiveReads
  <2> QED
      BY <1>3, <1>11, <2>1 DEF TakeExisting, ExistingIsCurrent, Working, OwnInv, chainVars, memVars
<1>12. CASE CreateMined
      BY <1>3, <1>12 DEF CreateMined, Working, memVars
<1>13. CASE ReadBack
      BY <1>3, <1>13 DEF ReadBack, Working, memVars, chainVars
<1>14. CASE \/ CoolDown \/ ExtractMissing \/ ExtractBroken \/ BuildFails \/ SubmitReverts
            \/ TickThrows \/ ReceiptTimesOut
      BY <1>3, <1>14 DEF CoolDown, ExtractMissing, ExtractBroken, BuildFails, SubmitReverts,
                  TickThrows, ReceiptTimesOut, EndTick, Working, memVars
<1>15. CASE BuildProof \/ LogBuilt \/ LogSubmitted \/ \E v \in Versions : Extract(v)
      BY <1>2, <1>3, <1>15 DEF BuildProof, LogBuilt, LogSubmitted, Extract, Working, memVars,
                  chainVars
<1>16. CASE SubmitMined
  <2>1. chal = mine /\ chal'.solved /\ chal'.start = chal.start
        BY <1>1, <1>2, <1>16 DEF SubmitMined, SubmitProof, Challenges, Working
  <2> QED
      BY <1>3, <1>16, <2>1 DEF SubmitMined, Working, memVars
<1>17. ASSUME NEW c \in Contexts, ObserveSubmitted(c) PROVE OwnInv'
  <2>1. record'.on => record'.start = mine.start
        BY <1>17 DEF ObserveSubmitted, Observed, NoRecord
  <2> QED
      BY <1>2, <1>3, <1>17, <2>1 DEF ObserveSubmitted, EndTick, Working, OwnInv, chainVars
<1>18. CASE PendingSettles
      BY <1>18 DEF PendingSettles, LogInv
<1>19. CASE Crash
      BY <1>3, <1>19 DEF Crash, EndTick, Working
<1>20. CASE StoreChanges
      BY <1>2, <1>20 DEF StoreChanges, tickVars, memVars, chainVars
<1>21. CASE ChainStep
  <2>1. chal' = chal
        BY <1>1, <1>21 DEF ChainStep, ChainMoves, NewBlock, OtherNodeTouches, UpdateAsset,
                    ClearChallenge, SetDuration
  <2> QED
      BY <1>2, <1>21, <2>1 DEF ChainStep, tickVars, memVars
<1> QED
    BY <1>4, <1>5, <1>6, <1>7, <1>8, <1>9, <1>10, <1>11, <1>12, <1>13, <1>14, <1>15, <1>16,
       <1>17, <1>18, <1>19, <1>20, <1>21
    DEF Next, Read, Decide, Prove, OwnInv, Working

\* The record observe leaves ends before the period it was made for.
LEMMA ObservedIsShort ==
    ASSUME TypeOK, NEW c, NEW ch \in Challenges, NEW d \in Durations \cup {NoDuration},
           Sound(ch, d), Observed(c, ch, d).on
    PROVE  LET r == Observed(c, ch, d) IN
           r.epoch = epoch /\ r.start = ch.start /\ ch.epoch = epoch
           /\ r.reread < r.start + dur
<1>1. c = "full" /\ d # NoDuration /\ ch.epoch = epoch
      BY DEF Observed, NoRecord
<1>2. d = dur
      BY <1>1 DEF Sound, Agrees
<1>3. block \in Nat /\ ch.start \in Nat /\ d \in Nat \ {0} /\ d \div 2 \in Nat
      BY <1>1, DurationAssumption, ChainBoundAssumption DEF TypeOK, ChainTypeOK, Blocks, Challenges
<1>4. Observed(c, ch, d).reread < ch.start + d
      BY <1>1, <1>3 DEF Observed
<1> QED
    BY <1>1, <1>2, <1>4 DEF Observed

\* A record speaks of the running period in every state it is used.
LEMMA RecordStep ==
    ASSUME LateReceipts = FALSE, SlowProbe = FALSE,
           TypeOK, ChainInv, ReadInv, RecordInv, [Next]_vars
    PROVE  RecordInv'
<1>1. CASE record' = NoRecord
      BY <1>1 DEF RecordInv, NoRecord
<1>2. CASE UNCHANGED <<record, pc>>
  <2> SUFFICES ASSUME record.on PROVE RecordInv'
      BY <1>2 DEF RecordInv
  <2>1. PICK r : r = record
        OBVIOUS
  <2>2. pc' = "idle" /\ record' = r
        BY <1>2, <2>1 DEF RecordInv
  <2>3. PICK ch \in Challenges : ch.start = r.start /\ ch.epoch = r.epoch
    <3>1. NoChallenge \in Challenges /\ r.start \in Blocks /\ r.epoch \in 0..MaxEpoch
          BY <2>1, Blanks DEF TypeOK
    <3>2. [NoChallenge EXCEPT !.start = r.start, !.epoch = r.epoch] \in Challenges
          BY <3>1 DEF Challenges
    <3> WITNESS [NoChallenge EXCEPT !.start = r.start, !.epoch = r.epoch] \in Challenges
    <3> QED
        BY <3>1 DEF Challenges
  <2>4. Sound(ch, NoDuration)
        BY <2>1, <2>3 DEF RecordInv, Sound, Agrees
  <2>5. Sound(ch, NoDuration)'
        BY <2>4, SoundStays
  <2>6. r.epoch = epoch' => r.reread < r.start + dur'
    <3>1. epoch <= epoch' /\ (epoch' = epoch => dur' = dur) /\ r.epoch <= epoch
          BY <2>1, ClockStep DEF RecordInv
    <3>2. epoch \in Nat /\ r.epoch \in Nat
          BY <2>1, ChainBoundAssumption DEF TypeOK, ChainTypeOK
    <3>3. r.epoch = epoch' => r.epoch = epoch /\ epoch' = epoch
          BY <3>1, <3>2
    <3> QED
        BY <2>1, <3>1, <3>3 DEF RecordInv
  <2> QED
      BY <2>2, <2>3, <2>5, <2>6 DEF RecordInv, Sound
<1>3. ASSUME NEW c, NEW ch \in Challenges, NEW d \in Durations \cup {NoDuration}, Sound(ch, d),
             record' = Observed(c, ch, d), pc' = "idle", UNCHANGED chainVars
      PROVE  RecordInv'
  <2> SUFFICES ASSUME record'.on PROVE RecordInv'
      BY DEF RecordInv
  <2>1. /\ record'.epoch = epoch /\ record'.start = ch.start /\ ch.epoch = epoch
        /\ record'.reread < record'.start + dur
        BY <1>3, ObservedIsShort
  <2>2. epoch' = epoch /\ dur' = dur /\ cursor' = cursor /\ block' = block /\ epoch \in Nat
        BY <1>3, ChainBoundAssumption DEF chainVars, clockVars, TypeOK, ChainTypeOK
  <2> QED
      BY <1>3, <2>1, <2>2 DEF RecordInv, Sound, Grounded
<1>4. ASSUME pc # "idle" PROVE ~record.on
      BY <1>4 DEF RecordInv
<1>5. ASSUME pc # "idle", UNCHANGED record PROVE RecordInv'
      BY <1>4, <1>5 DEF RecordInv
<1>6. CASE UNCHANGED vars \/ TickReuses \/ StoreChanges \/ ChainStep \/ PendingSettles
      BY <1>2, <1>6 DEF TickReuses, StoreChanges, ChainStep, PendingSettles, vars, tickVars,
                        memVars
<1>7. CASE TickReadsLive \/ Crash
      BY <1>1, <1>7 DEF TickReadsLive, Crash
<1>8. CASE Read \/ NoCurrentChallenge \/ \E c \in Contexts : ForceRotation(c) \/ TakeExisting(c)
      BY <1>5, <1>8 DEF Read, Reading, ReadStatus, ReadDuration, ReadChallenge,
                        NoCurrentChallenge, ForceRotation, TakeExisting, ExistingIsCurrent, memVars
<1>9. ASSUME NEW c \in Contexts, AlreadySolved(c) PROVE RecordInv'
  <2>1. /\ seen.chal \in Challenges /\ seen.dur \in Durations \cup {NoDuration}
        /\ Sound(seen.chal, seen.dur)
        BY DEF TypeOK, ReadInv
  <2> QED
      BY <1>3, <1>9, <2>1 DEF AlreadySolved, EndTick
<1>10. ASSUME NEW c \in Contexts, ObserveSubmitted(c) PROVE RecordInv'
  <2>1. mine \in Challenges /\ obsDur \in Durations \cup {NoDuration} /\ Sound(mine, obsDur)
        BY DEF TypeOK, ReadInv
  <2> QED
      BY <1>1, <1>3, <1>10, <2>1 DEF ObserveSubmitted, EndTick
<1>11. CASE Prove /\ ~(\E c \in Contexts : ObserveSubmitted(c))
      BY <1>5, <1>11 DEF Prove, CreateMined, ReadBack, CoolDown, ExtractMissing, ExtractBroken,
                  Extract, BuildProof, BuildFails, LogBuilt, SubmitMined, SubmitReverts,
                  LogSubmitted, memVars
<1>12. CASE TickThrows \/ ReceiptTimesOut
      BY <1>5, <1>12 DEF TickThrows, ReceiptTimesOut, memVars
<1> QED
    BY <1>6, <1>7, <1>8, <1>9, <1>10, <1>11, <1>12 DEF Next, Decide, Prove

\* A tick that trusts the solved-period record skips no period: the period is
\* still the running one by the contract's arithmetic, across epochs and duration
\* changes, a block of it is left, and without a sweep the node was credited in
\* it.  Both hypotheses are needed: a probe that outlives its timeout, or a
\* challenge mined after the tick asked for the duration, brings a duration of
\* another epoch into the record.
THEOREM SkipSkipsNoPeriod ==
    ASSUME LateReceipts = FALSE, SlowProbe = FALSE
    PROVE  Spec => []SkipIsSound
<1>1. Init => SkipInv
  <2> SUFFICES ASSUME Init PROVE SkipInv
      OBVIOUS
  <2>1. /\ epoch = 1 /\ chal = NoChallenge /\ mine = NoChallenge /\ seen = NothingSeen
        /\ probe = NoDuration /\ record = NoRecord /\ pc = "idle"
        BY DEF Init, ChainInit, IdleTick
  <2>2. ReadInv
        BY <2>1 DEF ReadInv, Sound, Grounded, Agrees, NothingSeen, NoChallenge
  <2>3. OwnInv /\ RecordInv
        BY <2>1 DEF OwnInv, RecordInv, NothingSeen, NoRecord
  <2> QED
      BY <2>2, <2>3 DEF SkipInv
<1>2. TypeOK /\ ChainInv /\ LogInv /\ SkipInv /\ [Next]_vars => SkipInv'
      BY ReadStep, OwnStep, RecordStep DEF SkipInv
<1>3. TypeOK /\ ChainInv /\ SkipInv => SkipIsSound
  <2> SUFFICES ASSUME TypeOK, ChainInv, SkipInv, Reusable
               PROVE  /\ ActiveStart = record.start
                      /\ block + 1 < record.start + dur
                      /\ sweeps = 0 => PeriodSolved
      BY DEF SkipIsSound
  <2>1. /\ record.on /\ record.epoch = epoch /\ record.start <= block
        /\ block < record.reread
        BY DEF Reusable
  <2>2. record.reread < record.start + dur /\ (cursor = record.start \/ block >= record.start + dur)
        BY <2>1 DEF SkipInv, RecordInv, Grounded
  <2>3. block \in Nat /\ record.start \in Nat /\ record.reread \in Nat /\ dur \in Nat
        BY ChainBoundAssumption, DurationAssumption DEF TypeOK, ChainTypeOK, Blocks
  <2>4. cursor = record.start /\ block + 1 < record.start + dur /\ block < cursor + dur
        BY <2>1, <2>2, <2>3
  <2>5. ActiveStart = cursor
        BY <2>4, ActiveStartBounds DEF TypeOK, ChainInv
  <2>6. sweeps = 0 => chal.solved /\ chal.start = record.start
        BY <2>1 DEF SkipInv, OwnInv
  <2> QED
      BY <2>4, <2>5, <2>6 DEF PeriodSolved
<1> QED
    BY <1>1, <1>2, <1>3, ChainInvariant, LogInvariant, PTL DEF Spec
=============================================================================
