--------------------------- MODULE SamplingProver ---------------------------
(***************************************************************************)
(* The random-sampling prover of one node: RandomSamplingProver with its   *)
(* SolvedPeriodSkip, driven tick by tick against the contracts of          *)
(* SamplingChain.  An action ends where the code awaits the chain, the     *)
(* store or the WAL, so the chain and the store move between any two reads *)
(* of a tick.  Logging and the chunk index are left out; the WAL is kept   *)
(* as the set of 'built' and 'submitted' entries.                          *)
(***************************************************************************)
EXTENDS SamplingChain

CONSTANTS
    CooldownTicks,  \* DATA_CORRUPTION_COOLDOWN_TICKS
    HasRepair,      \* the repairMissingKnowledgeAsset hook is installed
    SlowProbe,      \* the duration read may outlive its two-second timeout
    LateReceipts,   \* a transaction may be mined after its receipt wait gave up
    Crashes         \* the process may die

ASSUME ProverAssumption ==
    CooldownTicks \in Nat /\ {HasRepair, SlowProbe, LateReceipts, Crashes} \subseteq BOOLEAN

VARIABLES
    pc,        \* the await the running tick is at; "idle" between ticks
    seen,      \* what the live read of this tick has returned so far
    probe,     \* duration an abandoned probe will still deliver
    mine,      \* the challenge this tick works on
    obsDur,    \* observedDurationInBlocks
    contents,  \* version the extraction returned
    material,  \* proof material in hand
    record,    \* the solved-period record
    pin,       \* pinnedProofMaterial: the challenge and its material
    cooldown,  \* dataCorruptionCooldown of the asset
    store,     \* the asset in the local triple store
    wal,       \* WAL entries <<period start, status>>
    pending    \* a transaction whose receipt wait timed out

tickVars == <<pc, seen, mine, obsDur, contents, material>>
memVars == <<record, pin, cooldown>>
vars == <<chainVars, tickVars, probe, memVars, store, wal, pending>>

Missing == -1    \* the asset is not in the local store
Broken == -2     \* its meta graph is inconsistent
NoDuration == 0  \* the live duration was not answered

NoRecord == [on |-> FALSE, start |-> 0, epoch |-> 0, reread |-> 0]
NoPin == [key |-> NoChallenge, material |-> 0]
NoTx == [kind |-> "none", material |-> 0]

LiveReads == {"status", "duration", "challenge"}
NothingSeen == [got |-> {}, start |-> 0, dur |-> NoDuration, chal |-> NoChallenge]

Steps == {"idle", "reading", "create", "created", "extract", "build", "built",
          "submit", "log", "observe"}

\* The type of every variable of the prover and of the contracts.
TypeOK ==
    /\ ChainTypeOK
    /\ pc \in Steps
    /\ seen \in [got : SUBSET LiveReads, start : Blocks,
                 dur : Durations \cup {NoDuration}, chal : Challenges]
    /\ probe \in Durations \cup {NoDuration}
    /\ mine \in Challenges
    /\ obsDur \in Durations \cup {NoDuration}
    /\ contents \in Versions /\ material \in Versions
    /\ record \in [on : BOOLEAN, start : Blocks, epoch : 0..MaxEpoch, reread : Nat]
    /\ pin \in [key : Challenges, material : Versions]
    /\ cooldown \in 0..CooldownTicks
    /\ store \in Versions \cup {Missing, Broken}
    /\ wal \subseteq Blocks \X {"built", "submitted"}
    /\ pending \in [kind : {"none", "create", "submit"}, material : Versions]

IdleTick ==
    /\ pc = "idle" /\ seen = NothingSeen
    /\ mine = NoChallenge /\ obsDur = NoDuration
    /\ contents = 0 /\ material = 0

Init ==
    /\ ChainInit /\ IdleTick
    /\ probe = NoDuration
    /\ record = NoRecord /\ pin = NoPin /\ cooldown = 0
    /\ store = 0
    /\ wal = {} /\ pending = NoTx

-----------------------------------------------------------------------------
(***************************************************************************)
(* SolvedPeriodSkip.                                                       *)
(***************************************************************************)

\* What a block-context read yields: head and epoch of one block, the head
\* alone (the fallback getBlockNumber), or nothing.
Contexts == {"full", "head", "none"}

\* readCachedChallengeStaleness: fail-open, and against the live duration when
\* it was answered.
Stale(c, ch, d) ==
    c # "none" /\ block >= ch.start + (IF d # NoDuration THEN d ELSE ch.dur)

\* Mutant of Observed: the epoch of the challenge is not compared.
ObservedAnyEpoch(c, ch, d) ==
    IF c = "full" /\ d # NoDuration
      THEN [on |-> TRUE, start |-> ch.start, epoch |-> epoch,
            reread |-> IF block + (d \div 2) < ch.start + d - 1
                         THEN block + (d \div 2) ELSE ch.start + d - 1]
      ELSE NoRecord

\* observe: the record a solved, non-stale challenge leaves behind.
Observed(c, ch, d) ==
    IF c = "full" /\ d # NoDuration /\ ch.epoch = epoch
      THEN [on |-> TRUE, start |-> ch.start, epoch |-> epoch,
            reread |-> IF block + (d \div 2) < ch.start + d - 1
                         THEN block + (d \div 2) ELSE ch.start + d - 1]
      ELSE NoRecord

\* reusable: the guards of the record against the block context of this instant.
Reusable == /\ record.on /\ record.epoch = epoch
            /\ record.start <= block /\ block < record.reread

-----------------------------------------------------------------------------
(***************************************************************************)
(* The tick.                                                               *)
(***************************************************************************)

\* The tick returns or throws; what it held in local variables is gone.
EndTick ==
    /\ pc' = "idle" /\ seen' = NothingSeen
    /\ mine' = NoChallenge /\ obsDur' = NoDuration
    /\ contents' = 0 /\ material' = 0

\* already-solved without a live read.
TickReuses == pc = "idle" /\ Reusable /\ UNCHANGED vars

\* No record, a guard of it failed, its minute is over, or no context was read:
\* the record is forgotten and the live read starts.
TickReadsLive ==
    /\ pc = "idle"
    /\ pc' = "reading"
    /\ record' = NoRecord
    /\ UNCHANGED <<chainVars, seen, mine, obsDur, contents, material, probe, pin, cooldown,
                   store, wal, pending>>

Reading(kind) == pc = "reading" /\ kind \notin seen.got

ReadStatus ==
    /\ Reading("status")
    /\ seen' = [seen EXCEPT !.got = @ \cup {"status"}, !.start = cursor]
    /\ UNCHANGED <<chainVars, pc, mine, obsDur, contents, material, probe, memVars,
                   store, wal, pending>>

\* The best-effort duration probe: answered in time, or given up and possibly
\* left running for a later tick to join.
ReadDuration ==
    /\ Reading("duration")
    /\ LET answer == IF probe # NoDuration THEN probe ELSE dur
       IN  \/ /\ seen' = [seen EXCEPT !.got = @ \cup {"duration"}, !.dur = answer]
              /\ probe' = NoDuration
           \/ /\ seen' = [seen EXCEPT !.got = @ \cup {"duration"}]
              /\ probe' \in IF SlowProbe THEN {NoDuration, answer} ELSE {NoDuration}
    /\ UNCHANGED <<chainVars, pc, mine, obsDur, contents, material, memVars,
                   store, wal, pending>>

ReadChallenge ==
    /\ Reading("challenge")
    /\ seen' = [seen EXCEPT !.got = @ \cup {"challenge"}, !.chal = chal]
    /\ UNCHANGED <<chainVars, pc, mine, obsDur, contents, material, probe, memVars,
                   store, wal, pending>>

\* The reads are in and the challenge belongs to the period the status named.
ExistingIsCurrent == pc = "reading" /\ seen.got = LiveReads
                     /\ seen.chal.drawn /\ seen.chal.start = seen.start

\* No current challenge: create one.
NoCurrentChallenge ==
    /\ pc = "reading" /\ seen.got = LiveReads /\ ~ExistingIsCurrent
    /\ pc' = "create"
    /\ seen' = NothingSeen
    /\ UNCHANGED <<chainVars, mine, obsDur, contents, material, probe, memVars,
                   store, wal, pending>>

\* Solved and not stale: observe it and return already-solved.
AlreadySolved(c) ==
    /\ ExistingIsCurrent /\ seen.chal.solved /\ ~Stale(c, seen.chal, seen.dur)
    /\ record' = Observed(c, seen.chal, seen.dur)
    /\ EndTick
    /\ UNCHANGED <<chainVars, probe, pin, cooldown, store, wal, pending>>

\* Mutant of ForceRotation: an unsolved challenge is never taken for stale.
ForceRotationOfSolved(c) ==
    /\ ExistingIsCurrent /\ seen.chal.solved /\ Stale(c, seen.chal, seen.dur)
    /\ pc' = "create"
    /\ seen' = NothingSeen
    /\ UNCHANGED <<chainVars, mine, obsDur, contents, material, probe, memVars,
                   store, wal, pending>>

\* Stale, solved or not: force a rotation by creating a challenge.
ForceRotation(c) ==
    /\ ExistingIsCurrent /\ Stale(c, seen.chal, seen.dur)
    /\ pc' = "create"
    /\ seen' = NothingSeen
    /\ UNCHANGED <<chainVars, mine, obsDur, contents, material, probe, memVars,
                   store, wal, pending>>

\* Unsolved and not stale: work on it.
TakeExisting(c) ==
    /\ ExistingIsCurrent /\ ~seen.chal.solved /\ ~Stale(c, seen.chal, seen.dur)
    /\ pc' = "extract"
    /\ mine' = seen.chal /\ obsDur' = seen.dur
    /\ seen' = NothingSeen
    /\ UNCHANGED <<chainVars, contents, material, probe, memVars, store, wal, pending>>

\* The createChallenge transaction is mined.
CreateMined ==
    /\ pc = "create"
    /\ CreateChallenge
    /\ pc' = "created"
    /\ UNCHANGED <<seen, mine, obsDur, contents, material, probe, memVars,
                   store, wal, pending>>

\* The challenge is read back; an empty struct throws (TickThrows).
ReadBack ==
    /\ pc = "created" /\ chal.drawn
    /\ pc' = "extract"
    /\ mine' = chal /\ obsDur' = chal.dur
    /\ UNCHANGED <<chainVars, seen, contents, material, probe, memVars,
                   store, wal, pending>>

\* Mutant of CoolDown: the count is consumed past its end.
CoolDownPastEnd ==
    /\ pc = "extract"
    /\ cooldown' = cooldown - 1
    /\ EndTick
    /\ UNCHANGED <<chainVars, probe, record, pin, store, wal, pending>>

\* A tick inside the cooldown returns kc-not-synced.
CoolDown ==
    /\ pc = "extract" /\ cooldown > 0
    /\ cooldown' = cooldown - 1
    /\ EndTick
    /\ UNCHANGED <<chainVars, probe, record, pin, store, wal, pending>>

\* The extraction yields version v: the local one, or, when that is missing or
\* does not match the challenge, the one the repair hook returns.
Extract(v) ==
    /\ pc = "extract" /\ cooldown = 0
    /\ v = store \/ (HasRepair /\ store \notin {mine.root, Broken})
    /\ pc' = "build"
    /\ contents' = v
    /\ UNCHANGED <<chainVars, seen, mine, obsDur, material, probe, memVars,
                   store, wal, pending>>

\* The asset is missing and not repaired: kc-not-synced.
ExtractMissing ==
    /\ pc = "extract" /\ cooldown = 0 /\ store = Missing
    /\ EndTick
    /\ UNCHANGED <<chainVars, probe, memVars, store, wal, pending>>

\* The meta graph is broken: data-corrupted, with a cooldown.
ExtractBroken ==
    /\ pc = "extract" /\ cooldown = 0 /\ store = Broken
    /\ cooldown' = CooldownTicks
    /\ EndTick
    /\ UNCHANGED <<chainVars, probe, record, pin, store, wal, pending>>

\* pinnedMaterialFor: verified material of exactly this challenge.
Pinned == pin.key.drawn /\ pin.key = mine

\* Mutant of ProofFor: pinned material is reused for any challenge.
ProofForAny == IF contents = mine.root THEN {contents}
               ELSE IF pin.key.drawn THEN {pin.material} ELSE {}

\* The material the builder verifies against the pinned root, or the material
\* pinned earlier when the content no longer matches.
ProofFor == IF contents = mine.root THEN {contents}
            ELSE IF Pinned THEN {pin.material} ELSE {}

BuildProof ==
    /\ pc = "build"
    /\ \E m \in ProofFor : material' = m /\ pin' = [key |-> mine, material |-> m]
    /\ pc' = "built"
    /\ UNCHANGED <<chainVars, seen, mine, obsDur, contents, probe, record, cooldown,
                   store, wal, pending>>

\* data-corrupted: the content matches neither the root nor a pinned proof.
BuildFails ==
    /\ pc = "build" /\ ProofFor = {}
    /\ cooldown' = CooldownTicks
    /\ EndTick
    /\ UNCHANGED <<chainVars, probe, record, pin, store, wal, pending>>

\* Mutant of LogBuilt: the proof is submitted without its WAL entry.
LogBuiltSkipped ==
    /\ pc = "built"
    /\ pc' = "submit"
    /\ UNCHANGED <<chainVars, seen, mine, obsDur, contents, material, probe, memVars,
                   store, wal, pending>>

\* The 'built' entry is synced before the proof is sent.
LogBuilt ==
    /\ pc = "built"
    /\ pc' = "submit"
    /\ wal' = wal \cup {<<mine.start, "built">>}
    /\ UNCHANGED <<chainVars, seen, mine, obsDur, contents, material, probe, memVars,
                   store, pending>>

SubmitMined ==
    /\ pc = "submit"
    /\ SubmitProof(material)
    /\ pc' = "log"
    /\ UNCHANGED <<seen, mine, obsDur, contents, material, probe, memVars,
                   store, wal, pending>>

\* ChallengeNoLongerActive drops the pinned material, MerkleRootMismatch also
\* starts a cooldown, any other revert is thrown.
SubmitReverts ==
    /\ pc = "submit" /\ ProofVerdict(material) # "ok"
    /\ pin' = IF ProofVerdict(material) = "solved" THEN pin ELSE NoPin
    /\ cooldown' = IF ProofVerdict(material) = "mismatch" THEN CooldownTicks ELSE cooldown
    /\ EndTick
    /\ UNCHANGED <<chainVars, probe, record, store, wal, pending>>

LogSubmitted ==
    /\ pc = "log"
    /\ pc' = "observe"
    /\ wal' = wal \cup {<<mine.start, "submitted">>}
    /\ UNCHANGED <<chainVars, seen, mine, obsDur, contents, material, probe, memVars,
                   store, pending>>

\* observeSubmittedProof, and the tick returns submitted.
ObserveSubmitted(c) ==
    /\ pc = "observe"
    /\ record' = IF Stale(c, mine, obsDur) THEN NoRecord ELSE Observed(c, mine, obsDur)
    /\ EndTick
    /\ UNCHANGED <<chainVars, probe, pin, cooldown, store, wal, pending>>

\* A read, the extraction, the builder, a transaction or the WAL throws, no
\* graph or asset is eligible, or the asset has no graph.
TickThrows ==
    /\ pc # "idle"
    /\ EndTick
    /\ UNCHANGED <<chainVars, probe, memVars, store, wal, pending>>

-----------------------------------------------------------------------------
(***************************************************************************)
(* Faults and the local store.                                             *)
(***************************************************************************)

\* The wait for a receipt times out; the transaction is still in the mempool.
ReceiptTimesOut ==
    /\ pc \in {"create", "submit"} /\ pending = NoTx
    /\ LateReceipts
    /\ pending' = [kind |-> pc, material |-> material]
    /\ EndTick
    /\ UNCHANGED <<chainVars, probe, memVars, store, wal>>

\* The late transaction is mined or reverts.
PendingSettles ==
    /\ pending # NoTx
    /\ pending' = NoTx
    /\ \/ pending.kind = "create" /\ CreateChallenge
       \/ pending.kind = "submit" /\ SubmitProof(pending.material)
       \/ UNCHANGED chainVars
    /\ UNCHANGED <<tickVars, probe, memVars, store, wal>>

Crash ==
    /\ Crashes
    /\ EndTick
    /\ probe' = NoDuration
    /\ record' = NoRecord /\ pin' = NoPin /\ cooldown' = 0
    /\ UNCHANGED <<chainVars, store, wal, pending>>

\* Sync, garbage collection or an update in progress changes the local asset.
StoreChanges ==
    /\ store' \in ((0..live) \cup {Missing, Broken}) \ {store}
    /\ UNCHANGED <<chainVars, tickVars, probe, memVars, wal, pending>>

ChainStep ==
    /\ ChainMoves
    /\ UNCHANGED <<tickVars, probe, memVars, store, wal, pending>>

-----------------------------------------------------------------------------
Read == ReadStatus \/ ReadDuration \/ ReadChallenge

Decide == NoCurrentChallenge
          \/ \E c \in Contexts : AlreadySolved(c) \/ ForceRotation(c) \/ TakeExisting(c)

Prove == \/ CreateMined \/ ReadBack \/ CoolDown \/ ExtractMissing \/ ExtractBroken
         \/ \E v \in Versions : Extract(v)
         \/ BuildProof \/ BuildFails \/ LogBuilt
         \/ SubmitMined \/ SubmitReverts \/ LogSubmitted
         \/ \E c \in Contexts : ObserveSubmitted(c)

Next == \/ TickReuses \/ TickReadsLive \/ Read \/ Decide \/ Prove \/ TickThrows
        \/ ReceiptTimesOut \/ PendingSettles \/ Crash \/ StoreChanges \/ ChainStep

Spec == Init /\ [][Next]_vars

-----------------------------------------------------------------------------
(***************************************************************************)
(* Safety.                                                                 *)
(***************************************************************************)

\* A tick that trusts the record skips no period: the period it was made for is
\* still the running one, by the contract's own arithmetic and across epochs
\* and duration changes, at least one block of it is left for a live read, and
\* unless the challenge was swept the node has been credited in it.
SkipIsSound ==
    Reusable => /\ ActiveStart = record.start
                /\ block + 1 < record.start + dur
                /\ sweeps = 0 => PeriodSolved

\* Write-ahead: a period is credited only after its 'built' entry was synced,
\* and a 'submitted' entry is only written for a credited period.
WalMatchesChain ==
    \A b \in Blocks : /\ score[b] > 0 => <<b, "built">> \in wal
                      /\ <<b, "submitted">> \in wal => score[b] > 0

\* Whatever is updated or lost in the local store, material that leaves for the
\* chain is a proof of the commitment its challenge pinned.
SubmitsPinnedRoot == pc \in {"built", "submit"} => material = mine.root

-----------------------------------------------------------------------------
(***************************************************************************)
(* Liveness.  The loop keeps ticking and every await settles (weak         *)
(* fairness); the head of an expired period and the content of the asset   *)
(* are not out of reach every time they are asked for (strong fairness).   *)
(***************************************************************************)

Fairness ==
    /\ WF_vars(TickReadsLive)
    /\ WF_vars(Read \/ Decide \/ Prove \/ TickThrows)
    /\ SF_vars(\E c \in Contexts : ForceRotation(c))
    /\ SF_vars(Extract(mine.root))
    /\ WF_vars(PendingSettles)

FairSpec == Spec /\ Fairness

\* In the end no tick throws, the process does not crash and no receipt wait
\* times out (a step that ends a tick is one of its ordinary ends), and the meta
\* graph of the asset is sound.
Calm == /\ <>[][TickThrows \/ Crash \/ ReceiptTimesOut => Decide \/ Prove]_vars
        /\ <>[](store # Broken)

\* The period the chain is in when it stops moving is proved: neither a stale
\* status view, nor an expired challenge, nor a content update strands the node.
LastPeriodIsProved == Calm => ((block = MaxBlock) ~> (score[ActiveStart] > 0))
=============================================================================
