--------------------------- MODULE StorageAckProofs ---------------------------
(* Theorems about a core's StorageACK copies, for every set of contents,      *)
(* operations and handlers and every value of the time bounds.                *)
EXTENDS StorageAck, TLAPS

Locked == {"replace", "deleteMeta", "insertMeta", "deleteHead", "insertHead",
           "supersede", "sign"}

(* The lock is held by the one handler that rewrites the copy, a handler that *)
(* is not idle has an operation, and a row the audit classified has a mark.   *)
LockInv ==
    /\ \A h \in Handlers : lock = h <=> req[h].pc \in Locked
    /\ \A h \in Handlers : req[h].pc # "idle" => req[h].op \in AckOps
    /\ audit # NoAudit => audit.op \in AckOps /\ audit.mark # "none"

(* What the holder of the lock has written so far.                            *)
WriteInv ==
    \A h \in Handlers : LET r == req[h] IN
       /\ r.pc \in Locked \ {"replace"} => graph = r.op.content \/ r.op \in lapsed
       /\ r.pc \in {"deleteHead", "insertHead", "supersede", "sign"} =>
             ops[r.op] = 0 \/ (ops[r.op] < 0 /\ r.op \in lapsed)
       /\ r.pc \in {"supersede", "sign"} /\ r.asker = "remote" => head = r.op

Replying(x) == \E h \in Handlers :
    req[h].pc = "reply" /\ req[h].op = x /\ req[h].asker = "remote"

(* A signature that left for a publisher, or is about to, and still counts,   *)
(* of a copy that none of the gaps has hit.                                   *)
Promised(x) ==
    /\ x \notin lapsed
    /\ acked[x] >= 0 \/ x \in due \/ Replying(x)
    /\ vm.ver < x.ver
    /\ Len(chain) < x.ver \/ IsLatest(x)

(* Its ledger row is owed and as young as its audience knows it.              *)
RowKept(x) ==
    /\ Owed(x)
    /\ Replying(x) => ledger[x].age = 0 /\ ledger[x].absent = -1
    /\ acked[x] >= 0 => ledger[x].age <= acked[x] /\ ledger[x].absent = -1
    /\ \/ ledger[x].registered
       \/ /\ ops[x] <= ledger[x].age
          /\ ledger[x].age <= StallAge \/ ledger[x].age <= PendingWindow

(* The copy is at the head, or being rewritten with the same content.         *)
CopyKept(x) ==
    /\ graph = x.content
    /\ lock = Free => head = x /\ ops[x] >= 0
    /\ \A h \in Handlers : req[h].pc \in Locked =>
          /\ req[h].op = x /\ req[h].asker = "remote" /\ req[h].supersede = {}
          /\ head = IF req[h].pc = "insertHead" THEN NoOp ELSE x
          /\ req[h].pc # "insertMeta" => ops[x] >= 0

(* A pass that works against it chose it before it was signed.                *)
PassKept(x) ==
    /\ sweep.op = x => ops[x] <= Ttl
    /\ audit.op = x => audit.mark = "registered" \/ ledger[x].age < Ttl

Kept(x) == RowKept(x) /\ CopyKept(x) /\ PassKept(x)
PromiseInv == \A x \in AckOps : Promised(x) => Kept(x)
DueInv == \A x \in due : IsLatest(x)

AckInv == TypeOK /\ LockInv /\ WriteInv /\ DueInv /\ PromiseInv

-------------------------------------------------------------------------------
(* Types.                                                                     *)

Reqs == [pc : Pcs, op : AckOps \cup {NoOp}, writes : BOOLEAN,
         asker : Askers, live : BOOLEAN, supersede : SUBSET AckOps]

(* What every proof needs of the constants: the bounds are ordered naturals,  *)
(* an operation is its version and content, and the blanks are none of them.  *)
LEMMA Constants ==
    /\ PendingWindow \in Nat /\ StallAge \in Nat /\ Ttl \in Nat /\ Ceiling \in Nat
    /\ PendingWindow < Ttl /\ StallAge < Ceiling /\ Ttl < Ceiling
    /\ LedgerCap \in Nat /\ LedgerCap > StallAge /\ LedgerCap > Ttl /\ LedgerCap <= Ceiling
    /\ MaxVersion \in Nat /\ MaxRequests \in Nat /\ MaxFaults \in Nat
    /\ NoOp \notin Ops /\ NoOp.ver = 0
    /\ \A o \in Ops : o.ver \in Nat /\ o.ver >= 1 /\ o.ver <= MaxVersion /\ o.content \in Contents
    /\ \A x, y \in AckOps : x.ver = y.ver /\ x.content = y.content => x = y
    /\ AckOps \cap ShareOps = {} /\ AckOps \subseteq Ops /\ ShareOps \subseteq Ops
    BY OpsAssumption, TimesAssumption
    DEF Ops, OpsOf, Versions, NoOp, LedgerCap

(* The blank values have their types.                                         *)
LEMMA Blanks ==
    /\ Idle \in Reqs /\ EmptyRow \in Rows
    /\ -1 \in Ages /\ 0 \in Ages /\ 0 \in 0..MaxFaults
    /\ NoSweep \in [op : Ops \cup {NoOp}, stage : {"none", "selected", "torn"}]
    /\ NoAudit \in [op : AckOps \cup {NoOp}, mark : {"none", "registered", "absent", "released"}]
    BY Constants
    DEF Idle, Reqs, Pcs, Askers, EmptyRow, Rows, Ages, NoSweep, NoAudit

ReqMoved(h, r) ==
    /\ req' \in [Handlers -> Reqs]
    /\ req'[h] = r
    /\ \A g \in Handlers \ {h} : req'[g] = req[g]

(* A handler that goes on changes its place only; one that ends is idle.      *)
LEMMA ReqMoves ==
    ASSUME TypeOK, NEW h \in Handlers
    PROVE  /\ \A p \in Pcs : Goes(h, p) =>
                 /\ ReqMoved(h, [req[h] EXCEPT !.pc = p]) /\ UNCHANGED lock
                 /\ req'[h].pc = p /\ req'[h].op = req[h].op /\ req'[h].asker = req[h].asker
                 /\ req'[h].supersede = req[h].supersede
           /\ Ends(h) => ReqMoved(h, Idle)
<1>1. req \in [Handlers -> Reqs] /\ req[h] \in Reqs
      BY DEF TypeOK, Reqs
<1>2. ASSUME NEW p \in Pcs, Goes(h, p)
      PROVE  /\ ReqMoved(h, [req[h] EXCEPT !.pc = p]) /\ UNCHANGED lock
             /\ req'[h].pc = p /\ req'[h].op = req[h].op /\ req'[h].asker = req[h].asker
             /\ req'[h].supersede = req[h].supersede
  <2>1. [req[h] EXCEPT !.pc = p] \in Reqs
        BY <1>1 DEF Reqs
  <2>2. req' = [req EXCEPT ![h] = [req[h] EXCEPT !.pc = p]]
        BY <1>2 DEF Goes
  <2> QED
      BY <1>1, <1>2, <2>1, <2>2 DEF ReqMoved, Goes, Reqs
<1>3. Ends(h) => ReqMoved(h, Idle)
      BY <1>1, Blanks DEF Ends, ReqMoved
<1> QED
    BY <1>2, <1>3

StoreTypeOK == /\ graph \in Contents \cup {NoContent}
               /\ ops \in [Ops -> Ages]
               /\ head \in Ops \cup {NoOp}
WorldTypeOK == /\ chain \in Seq(Contents) /\ Len(chain) <= MaxVersion
               /\ vm \in [ver : 0..MaxVersion, content : Contents \cup {NoContent}]
               /\ companion \in BOOLEAN
HandlerTypeOK == req \in [Handlers -> Reqs] /\ lock \in Handlers \cup {Free}
PassTypeOK == /\ sweep \in [op : Ops \cup {NoOp}, stage : {"none", "selected", "torn"}]
              /\ audit \in [op : AckOps \cup {NoOp},
                            mark : {"none", "registered", "absent", "released"}]
PromiseTypeOK == /\ acked \in [AckOps -> -1..PendingWindow]
                 /\ due \in SUBSET AckOps /\ lapsed \in SUBSET AckOps
LedgerTypeOK == ledger \in [AckOps -> Rows]
SpentTypeOK == asked \in 0..MaxRequests /\ faults \in 0..MaxFaults

(* Every step keeps the type of every variable.                               *)
LEMMA TypeStep ==
    ASSUME TypeOK, LockInv, [Next]_vars
    PROVE  TypeOK'
<1>1. /\ StoreTypeOK /\ WorldTypeOK /\ HandlerTypeOK /\ PassTypeOK /\ PromiseTypeOK
      /\ LedgerTypeOK /\ SpentTypeOK
      BY DEF TypeOK, StoreTypeOK, WorldTypeOK, HandlerTypeOK, PassTypeOK, PromiseTypeOK,
             LedgerTypeOK, SpentTypeOK, Reqs
<1>2. SUFFICES /\ StoreTypeOK' /\ WorldTypeOK' /\ HandlerTypeOK' /\ PassTypeOK'
               /\ PromiseTypeOK' /\ LedgerTypeOK' /\ SpentTypeOK'
      BY DEF TypeOK, StoreTypeOK, WorldTypeOK, HandlerTypeOK, PassTypeOK, PromiseTypeOK,
             LedgerTypeOK, SpentTypeOK, Reqs
<1> DEFINE Goal == /\ StoreTypeOK' /\ WorldTypeOK' /\ HandlerTypeOK' /\ PassTypeOK'
                   /\ PromiseTypeOK' /\ LedgerTypeOK' /\ SpentTypeOK'
<1>3. /\ UNCHANGED store => StoreTypeOK'
      /\ UNCHANGED world => WorldTypeOK'
      /\ UNCHANGED <<req, lock>> => HandlerTypeOK'
      /\ UNCHANGED passes => PassTypeOK'
      /\ UNCHANGED promises => PromiseTypeOK'
      /\ UNCHANGED <<acked, due>> /\ lapsed' \in SUBSET AckOps => PromiseTypeOK'
      /\ UNCHANGED lapsed => lapsed' \in SUBSET AckOps
      /\ UNCHANGED ledger => LedgerTypeOK'
      /\ UNCHANGED spent => SpentTypeOK'
      /\ UNCHANGED asked /\ (Faults \/ UNCHANGED faults) => SpentTypeOK'
      BY <1>1, Constants DEF StoreTypeOK, WorldTypeOK, HandlerTypeOK, PassTypeOK, PromiseTypeOK,
             LedgerTypeOK, SpentTypeOK, store, world, passes, promises, spent, Faults
<1>4. ASSUME NEW h \in Handlers, NEW r, ReqMoved(h, r), lock' \in {lock, Free, h}
      PROVE  HandlerTypeOK'
      BY <1>1, <1>4 DEF HandlerTypeOK, ReqMoved
<1>5. ASSUME NEW h \in Handlers, NEW p \in Pcs, Goes(h, p) PROVE HandlerTypeOK'
      BY <1>4, <1>5, ReqMoves
<1>6. ASSUME NEW h \in Handlers, Ends(h), Faults \/ UNCHANGED faults,
             lapsed' \in SUBSET AckOps
      PROVE  Goal
      BY <1>3, <1>4, <1>6, ReqMoves DEF Ends
<1> HIDE DEF StoreTypeOK, WorldTypeOK, HandlerTypeOK, PassTypeOK, PromiseTypeOK, LedgerTypeOK, SpentTypeOK
<1>7. CASE UNCHANGED vars
      BY <1>3, <1>7 DEF vars
<1>8. ASSUME NEW h \in Handlers, NEW x \in AckOps, NEW inline \in BOOLEAN, NEW a \in Askers,
             Request(h, x, inline, a)
      PROVE  Goal
  <2>1. [Idle EXCEPT !.pc = "lock", !.op = x, !.live = TRUE,
                     !.writes = inline \/ companion, !.asker = a] \in Reqs
        BY Blanks DEF Reqs, Pcs
  <2>2. HandlerTypeOK'
        BY <1>1, <1>8, <2>1 DEF Request, HandlerTypeOK
  <2>3. SpentTypeOK'
        BY <1>1, <1>8, Constants DEF Request, SpentTypeOK
  <2> QED
      BY <1>3, <1>8, <2>2, <2>3 DEF Request
<1>9. ASSUME NEW h \in Handlers, Decline(h) \/ Abort(h) \/ StoreFails(h) PROVE Goal
  <2>1. HalfWritten(h) \subseteq AckOps
        BY DEF HalfWritten, LockInv
  <2>2. lapsed' \in SUBSET AckOps
        BY <1>1, <1>9, <2>1 DEF Decline, Abort, StoreFails, PromiseTypeOK
  <2> QED
      BY <1>6, <1>9, <2>2 DEF Decline, Abort, StoreFails
<1>10. ASSUME NEW h \in Handlers, Decide(h) PROVE Goal
  <2>1. Supersedes(req[h].op) \in SUBSET AckOps /\ {} \in SUBSET AckOps
        BY DEF Supersedes, Held
  <2>2. req[h] \in Reqs
        BY <1>1 DEF HandlerTypeOK
  <2> DEFINE s == IF req[h].asker = "local" THEN {} ELSE Supersedes(req[h].op)
  <2>3. s \in SUBSET AckOps
        BY <2>1
  <2>4. req' = [req EXCEPT ![h].pc = "replace", ![h].supersede = s] /\ lock' = h
        BY <1>10 DEF Decide
  <2> HIDE DEF s
  <2>5. [req[h] EXCEPT !.pc = "replace", !.supersede = s] \in Reqs
        BY <2>2, <2>3 DEF Reqs, Pcs
  <2>6. HandlerTypeOK'
        BY <1>1, <2>4, <2>5 DEF HandlerTypeOK
  <2> QED
      BY <1>3, <1>10, <2>6 DEF Decide
<1>11. ASSUME NEW h \in Handlers, req[h].pc # "idle" PROVE req[h].op \in AckOps
       BY <1>11 DEF LockInv
<1>12. ASSUME NEW h \in Handlers, ReplaceGraph(h) PROVE Goal
  <2>1. StoreTypeOK'
        BY <1>1, <1>11, <1>12, Constants DEF ReplaceGraph, StoreTypeOK
  <2>2. lapsed' \in SUBSET AckOps
        BY <1>1, <1>11, <1>12 DEF ReplaceGraph, PromiseTypeOK
  <2> QED
      BY <1>3, <1>5, <1>12, <2>1, <2>2 DEF ReplaceGraph, Pcs
<1>13. ASSUME NEW h \in Handlers, DeleteMeta(h) PROVE Goal
  <2>1. StoreTypeOK'
        BY <1>1, <1>13, Blanks DEF DeleteMeta, StoreTypeOK
  <2> QED
      BY <1>3, <1>5, <1>13, <2>1 DEF DeleteMeta, Pcs
<1>14. ASSUME NEW h \in Handlers, InsertMeta(h) PROVE Goal
  <2>1. StoreTypeOK'
        BY <1>1, <1>14, Blanks DEF InsertMeta, StoreTypeOK
  <2> QED
      BY <1>3, <1>5, <1>14, <2>1 DEF InsertMeta, Pcs
<1>15. ASSUME NEW h \in Handlers, DeleteHead(h) PROVE Goal
  <2>1. StoreTypeOK'
        BY <1>1, <1>15 DEF DeleteHead, StoreTypeOK
  <2> QED
      BY <1>3, <1>5, <1>15, <2>1 DEF DeleteHead, Pcs
<1>16. ASSUME NEW h \in Handlers, InsertHead(h) PROVE Goal
  <2>1. StoreTypeOK'
        BY <1>1, <1>11, <1>16, Constants DEF InsertHead, StoreTypeOK
  <2> QED
      BY <1>3, <1>5, <1>16, <2>1 DEF InsertHead, Pcs
<1>17. \A x \in AckOps : /\ ledger[x] \in Rows
                         /\ [ledger[x] EXCEPT !.released = TRUE] \in Rows
                         /\ [ledger[x] EXCEPT !.registered = TRUE] \in Rows
                         /\ [ledger[x] EXCEPT !.absent = ledger[x].age] \in Rows
      BY <1>1 DEF LedgerTypeOK, Rows
<1>18. ASSUME NEW h \in Handlers, Supersede(h) PROVE Goal
  <2>1. LedgerTypeOK'
        BY <1>17, <1>18 DEF Supersede, LedgerTypeOK
  <2> QED
      BY <1>3, <1>5, <1>18, <2>1 DEF Supersede, Pcs
<1>19. ASSUME NEW h \in Handlers, SignAndRecord(h) PROVE Goal
  <2>1. req[h].op \in AckOps /\ req[h] \in Reqs
        BY <1>1, <1>11, <1>19 DEF SignAndRecord, HandlerTypeOK
  <2>2. [EmptyRow EXCEPT !.age = 0, !.registered = ledger[req[h].op].registered] \in Rows
        BY <1>17, <2>1, Blanks DEF Rows
  <2>3. LedgerTypeOK'
        BY <1>1, <1>19, <2>2 DEF SignAndRecord, LedgerTypeOK
  <2>4. [req[h] EXCEPT !.pc = "reply"] \in Reqs
        BY <2>1 DEF Reqs, Pcs
  <2>5. HandlerTypeOK'
        BY <1>1, <1>19, <2>4 DEF SignAndRecord, HandlerTypeOK
  <2>6. lapsed' \in SUBSET AckOps
        BY <1>1, <1>19 DEF SignAndRecord, PromiseTypeOK
  <2> QED
      BY <1>3, <1>19, <2>3, <2>5, <2>6 DEF SignAndRecord
<1>20. ASSUME NEW h \in Handlers, Reply(h) PROVE Goal
  <2>1. req[h].op \in AckOps /\ req[h] \in Reqs
        BY <1>1, <1>11, <1>20 DEF Reply, HandlerTypeOK
  <2>2. req[h].asker = "remote" \/ req[h].asker = "local"
        BY <2>1 DEF Reqs, Askers
  <2>3. 0 \in -1..PendingWindow
        BY Constants
  <2>4. PromiseTypeOK'
        BY <1>1, <1>20, <2>1, <2>2, <2>3 DEF Reply, PromiseTypeOK
  <2>5. HandlerTypeOK'
        BY <1>1, <1>20, Blanks DEF Reply, HandlerTypeOK
  <2> QED
      BY <1>3, <1>20, <2>4, <2>5 DEF Reply
<1>21. ASSUME NEW h \in Handlers, Deadline(h) PROVE Goal
  <2>1. [req[h] EXCEPT !.live = FALSE] \in Reqs
        BY <1>1 DEF HandlerTypeOK, Reqs
  <2>2. HandlerTypeOK'
        BY <1>1, <1>21, <2>1 DEF Deadline, HandlerTypeOK
  <2> QED
      BY <1>3, <1>21, <2>2 DEF Deadline
<1>22. CASE Crash
  <2>1. HandlerTypeOK' /\ PassTypeOK'
        BY <1>22, Blanks DEF Crash, HandlerTypeOK, PassTypeOK
  <2>2. \A h \in Handlers : HalfWritten(h) \subseteq AckOps
        BY DEF HalfWritten, LockInv
  <2>3. lapsed' \in SUBSET AckOps
        BY <1>1, <1>22, <2>2 DEF Crash, PromiseTypeOK
  <2> QED
      BY <1>3, <1>22, <2>1, <2>3 DEF Crash
<1>23. ASSUME NEW s \in ShareOps, ReplayShare(s) PROVE Goal
  <2>1. StoreTypeOK'
        BY <1>1, <1>23, Constants DEF ReplayShare, StoreTypeOK
  <2> QED
      BY <1>3, <1>23, <2>1 DEF ReplayShare
<1>24. ASSUME NEW s \in ShareOps, NEW done \in 1..ShareWrites, GossipShare(s, done) PROVE Goal
  <2>1. StoreTypeOK'
        BY <1>1, <1>24, Constants, Blanks DEF GossipShare, StoreTypeOK
  <2> QED
      BY <1>3, <1>24, <2>1 DEF GossipShare
<1>25. ASSUME NEW c \in Contents, Land(c) PROVE Goal
  <2>1. WorldTypeOK'
        BY <1>1, <1>25, Constants DEF Land, WorldTypeOK
  <2>2. PromiseTypeOK'
        BY <1>1, <1>25 DEF Land, PromiseTypeOK
  <2> QED
      BY <1>3, <1>25, <2>1, <2>2 DEF Land
<1>26. CASE Promote
  <2>1. WorldTypeOK'
    <3>1. head \in Ops /\ graph = head.content
          BY <1>1, <1>26 DEF Promote, Promotable, StoreTypeOK
    <3> QED
        BY <1>1, <1>26, <3>1, Constants DEF Promote, WorldTypeOK
  <2> QED
      BY <1>3, <1>26, <2>1 DEF Promote
<1>27. CASE RetireTwin
  <2>1. StoreTypeOK'
        BY <1>1, <1>27, Blanks DEF RetireTwin, StoreTypeOK
  <2> QED
      BY <1>3, <1>27, <2>1 DEF RetireTwin
<1>28. CASE PruneOrphans
  <2>1. LedgerTypeOK'
        BY <1>17, <1>28, Blanks DEF PruneOrphans, LedgerTypeOK
  <2>2. lapsed' \in SUBSET AckOps
        BY <1>1, <1>28 DEF PruneOrphans, PromiseTypeOK, Orphans
  <2> QED
      BY <1>3, <1>28, <2>1, <2>2 DEF PruneOrphans
<1>29. ASSUME NEW o \in Ops, SweepSelect(o) PROVE Goal
  <2>1. PassTypeOK'
        BY <1>1, <1>29 DEF SweepSelect, PassTypeOK
  <2> QED
      BY <1>3, <1>29, <2>1 DEF SweepSelect
<1>30. CASE SweepTeardown
  <2>1. PassTypeOK' /\ StoreTypeOK'
        BY <1>1, <1>30 DEF SweepTeardown, PassTypeOK, StoreTypeOK
  <2>2. lapsed' \in SUBSET AckOps
        BY <1>1, <1>30 DEF SweepTeardown, PromiseTypeOK, Refreshed
  <2> QED
      BY <1>3, <1>30, <2>1, <2>2 DEF SweepTeardown
<1>31. CASE SweepDelete
  <2>1. PassTypeOK' /\ StoreTypeOK' /\ LedgerTypeOK'
        BY <1>1, <1>31, Blanks DEF SweepDelete, PassTypeOK, StoreTypeOK, LedgerTypeOK
  <2>2. lapsed' \in SUBSET AckOps
        BY <1>1, <1>31 DEF SweepDelete, PromiseTypeOK, Refreshed
  <2> QED
      BY <1>3, <1>31, <2>1, <2>2 DEF SweepDelete
<1>32. ASSUME NEW x \in AckOps, AuditRead(x) PROVE Goal
  <2>1. Mark(x) \in {"none", "registered", "absent", "released"}
        BY DEF Mark
  <2>2. PassTypeOK'
        BY <1>1, <1>32, <2>1 DEF AuditRead, PassTypeOK
  <2> QED
      BY <1>3, <1>32, <2>2 DEF AuditRead
<1>33. CASE AuditMark
  <2>1. PassTypeOK'
        BY <1>1, <1>33, Blanks DEF AuditMark, PassTypeOK
  <2>2. audit.op \in AckOps /\ audit.mark \in {"registered", "absent", "released"}
        BY <1>1, <1>33 DEF AuditMark, LockInv, PassTypeOK
  <2>3. PICK x \in AckOps : x = audit.op
        BY <2>2
  <2>4. \/ ledger' = [ledger EXCEPT ![x] = [ledger[x] EXCEPT !.registered = TRUE]]
        \/ ledger' = [ledger EXCEPT ![x] = [ledger[x] EXCEPT !.absent = ledger[x].age]]
        \/ ledger' = [ledger EXCEPT ![x] = [ledger[x] EXCEPT !.released = TRUE]]
        BY <1>33, <2>2, <2>3 DEF AuditMark
  <2>5. LedgerTypeOK'
        BY <1>1, <1>17, <2>4 DEF LedgerTypeOK
  <2>6. lapsed' \in SUBSET AckOps
        BY <1>1, <1>33, <2>2 DEF AuditMark, PromiseTypeOK
  <2> QED
      BY <1>3, <1>33, <2>1, <2>5, <2>6 DEF AuditMark
<1>34. CASE Tick
  <2>1. \A age \in Ages : /\ Older(age, Ceiling + 1) \in Ages
                          /\ Older(age, Ttl + 1) \in Ages /\ Older(age, LedgerCap) \in Ages
        BY Constants DEF Older, Ages
  <2>2. StoreTypeOK'
        BY <1>1, <1>34, <2>1 DEF Tick, StoreTypeOK
  <2>3. ASSUME NEW x \in AckOps
        PROVE  [ledger[x] EXCEPT !.age = Older(ledger[x].age, LedgerCap)] \in Rows
        BY <1>17, <2>1 DEF Rows
  <2>4. LedgerTypeOK'
        BY <1>1, <1>34, <2>3 DEF Tick, LedgerTypeOK
  <2>5. PromiseTypeOK'
    <3>1. \A x \in AckOps : acked[x] \in -1..PendingWindow
          BY <1>1 DEF PromiseTypeOK
    <3>2. ASSUME NEW n \in -1..PendingWindow
          PROVE  (IF n \in {-1, PendingWindow} THEN -1 ELSE n + 1) \in -1..PendingWindow
          BY Constants
    <3>3. acked' \in [AckOps -> -1..PendingWindow]
          BY <1>34, <3>1, <3>2 DEF Tick
    <3> QED
        BY <1>1, <1>34, <3>3 DEF Tick, PromiseTypeOK
  <2> QED
      BY <1>3, <1>34, <2>2, <2>4, <2>5 DEF Tick
<1> QED
    BY <1>2, <1>7, <1>8, <1>9, <1>10, <1>12, <1>13, <1>14, <1>15, <1>16, <1>18, <1>19, <1>20,
       <1>21, <1>22, <1>23, <1>24, <1>25, <1>26, <1>27, <1>28, <1>29, <1>30, <1>31, <1>32,
       <1>33, <1>34
    DEF Next, Commit

-------------------------------------------------------------------------------
(* The lock.                                                                  *)

(* What a handler's step may do to the lock and to its own place.             *)
LockMove(h) ==
    /\ \A g \in Handlers \ {h} : req'[g] = req[g]
    /\ req'[h].pc # "idle" => req'[h].op \in AckOps
    /\ \/ UNCHANGED lock /\ (req'[h].pc \in Locked <=> req[h].pc \in Locked)
       \/ lock = Free /\ lock' = h /\ req'[h].pc \in Locked
       \/ lock = h /\ lock' = Free /\ req'[h].pc \notin Locked

HandlerStep(h) ==
    \/ \E x \in AckOps, inline \in BOOLEAN, a \in Askers : Request(h, x, inline, a)
    \/ Commit(h) \/ Deadline(h) \/ StoreFails(h)

(* Every step of a handler takes, keeps or releases the lock with its place.  *)
LEMMA HandlerLocks ==
    ASSUME TypeOK, LockInv, NEW h \in Handlers, HandlerStep(h)
    PROVE  LockMove(h) /\ UNCHANGED passes
<1>1. /\ req \in [Handlers -> Reqs] /\ req[h] \in Reqs /\ Free \notin Handlers
      /\ lock = h <=> req[h].pc \in Locked
      /\ req[h].pc # "idle" => req[h].op \in AckOps
      BY OpsAssumption DEF TypeOK, Reqs, LockInv
<1> USE DEF LockMove
<1>2. ASSUME NEW p \in Pcs, Goes(h, p), req[h].pc # "idle", p # "idle",
             p \in Locked <=> req[h].pc \in Locked
      PROVE  LockMove(h)
      BY <1>1, <1>2, ReqMoves DEF ReqMoved
<1>3. ASSUME Ends(h) PROVE LockMove(h) /\ UNCHANGED passes
  <2>1. /\ \A g \in Handlers \ {h} : req'[g] = req[g]
        /\ req'[h] = Idle /\ lock' = IF lock = h THEN Free ELSE lock
        BY <1>3, ReqMoves DEF Ends, ReqMoved
  <2>2. req'[h].pc = "idle" /\ "idle" \notin Locked
        BY <2>1 DEF Idle, Locked
  <2> QED
      BY <1>1, <1>3, <2>1, <2>2 DEF Ends
<1> USE DEF Pcs, Locked
<1>4. ASSUME NEW x \in AckOps, NEW inline \in BOOLEAN, NEW a \in Askers, Request(h, x, inline, a)
      PROVE  LockMove(h) /\ UNCHANGED passes
      BY <1>1, <1>4 DEF Request, Idle
<1>5. CASE Decline(h) \/ Abort(h) \/ StoreFails(h)
      BY <1>3, <1>5 DEF Decline, Abort, StoreFails
<1>6. CASE Decide(h)
  <2>1. /\ \A g \in Handlers \ {h} : req'[g] = req[g]
        /\ req'[h].pc = "replace" /\ req'[h].op = req[h].op
        BY <1>1, <1>6 DEF Decide, Reqs
  <2> QED
      BY <1>1, <1>6, <2>1 DEF Decide
<1>7. CASE ReplaceGraph(h) \/ DeleteMeta(h) \/ InsertMeta(h) \/ DeleteHead(h) \/ InsertHead(h)
           \/ Supersede(h)
      BY <1>2, <1>7 DEF ReplaceGraph, DeleteMeta, InsertMeta, DeleteHead, InsertHead, Supersede
<1>8. CASE SignAndRecord(h)
  <2>1. /\ \A g \in Handlers \ {h} : req'[g] = req[g]
        /\ req'[h].pc = "reply" /\ req'[h].op = req[h].op
        BY <1>1, <1>8 DEF SignAndRecord, Reqs
  <2> QED
      BY <1>1, <1>8, <2>1 DEF SignAndRecord
<1>9. CASE Reply(h)
      BY <1>1, <1>9 DEF Reply, Idle
<1>10. CASE Deadline(h)
  <2>1. /\ \A g \in Handlers \ {h} : req'[g] = req[g]
        /\ req'[h].pc = req[h].pc /\ req'[h].op = req[h].op
        BY <1>1, <1>10 DEF Deadline, Reqs
  <2> QED
      BY <1>1, <1>10, <2>1 DEF Deadline
<1> QED
    BY <1>4, <1>5, <1>6, <1>7, <1>8, <1>9, <1>10 DEF HandlerStep, Commit

OtherStep ==
    \/ \E s \in ShareOps : ReplayShare(s) \/ \E done \in 1..ShareWrites : GossipShare(s, done)
    \/ \E c \in Contents : Land(c)
    \/ Promote \/ RetireTwin \/ PruneOrphans
    \/ \E o \in Ops : SweepSelect(o)
    \/ SweepTeardown \/ SweepDelete
    \/ \E x \in AckOps : AuditRead(x)
    \/ AuditMark \/ Tick

(* Nothing but a handler or a crash moves a handler.                          *)
LEMMA OthersLeaveHandlers == OtherStep => UNCHANGED <<req, lock>>
    BY DEF OtherStep, ReplayShare, GossipShare, Land, Promote, RetireTwin, PruneOrphans,
           SweepSelect, SweepTeardown, SweepDelete, AuditRead, AuditMark, Tick

(* The lock after every step.                                                 *)
LEMMA LockStep ==
    ASSUME TypeOK, LockInv, [Next]_vars
    PROVE  LockInv'
<1> DEFINE Marked == audit # NoAudit => audit.op \in AckOps /\ audit.mark # "none"
<1>1. Free \notin Handlers
      BY OpsAssumption
<1>2. ASSUME NEW h \in Handlers, HandlerStep(h) PROVE LockInv'
  <2>1. LockMove(h) /\ UNCHANGED passes
        BY <1>2, HandlerLocks
  <2> QED
      BY <1>1, <2>1 DEF LockMove, LockInv, passes
<1>3. CASE Crash
      BY <1>1, <1>3 DEF Crash, LockInv, Idle, Locked
<1>4. ASSUME UNCHANGED <<req, lock>>, Marked' PROVE LockInv'
      BY <1>4 DEF LockInv
<1>5. CASE UNCHANGED vars
      BY <1>4, <1>5 DEF vars, passes, LockInv
<1>6. CASE OtherStep
  <2>1. ASSUME UNCHANGED audit PROVE LockInv'
        BY <1>4, <1>6, <2>1, OthersLeaveHandlers DEF LockInv
  <2>2. ASSUME NEW x \in AckOps, AuditRead(x) PROVE LockInv'
    <3>1. audit'.op \in AckOps /\ audit'.mark # "none"
          BY <2>2 DEF AuditRead
    <3> QED
        BY <1>4, <1>6, <3>1, OthersLeaveHandlers
  <2>3. CASE AuditMark
        BY <1>4, <1>6, <2>3, OthersLeaveHandlers DEF AuditMark
  <2> QED
      BY <1>6, <2>1, <2>2, <2>3
      DEF OtherStep, ReplayShare, GossipShare, Land, Promote, RetireTwin, PruneOrphans,
          SweepSelect, SweepTeardown, SweepDelete, Tick, passes
<1> QED
    BY <1>2, <1>3, <1>5, <1>6 DEF Next, HandlerStep, OtherStep

(* The types and the lock from the first state on.                            *)
LEMMA LockInvariant == Spec => [](TypeOK /\ LockInv)
<1>1. Init => TypeOK /\ LockInv
  <2> SUFFICES ASSUME Init PROVE TypeOK /\ LockInv
      OBVIOUS
  <2>1. TypeOK
        BY Constants, Blanks, FlagsAssumption DEF Init, TypeOK, Reqs
  <2>2. LockInv
        BY OpsAssumption DEF Init, LockInv, Idle, Locked
  <2> QED
      BY <2>1, <2>2
<1>2. TypeOK /\ LockInv /\ [Next]_vars => (TypeOK /\ LockInv)'
      BY TypeStep, LockStep
<1> QED
    BY <1>1, <1>2, PTL DEF Spec

(* Every variable of the core's StorageACK state keeps its type.              *)
THEOREM AckTypes == Spec => []TypeOK
    BY LockInvariant, PTL

-------------------------------------------------------------------------------
(* What the holder of the lock has written.                                   *)

(* Nobody but a cleanup that chose a copy before it was rewritten writes it   *)
(* while a handler holds the lock, and that counts as a lapse of the copy.    *)
LEMMA OthersWait ==
    ASSUME LockInv, TypeOK, OtherStep, NEW h \in Handlers, req[h].pc \in Locked,
           NEW y \in AckOps
    PROVE  /\ UNCHANGED <<graph, head>> /\ (y \in lapsed => y \in lapsed')
           /\ ops'[y] = ops[y] \/ (ops'[y] < 0 /\ (ops[y] <= Ttl => y \in lapsed'))
<1>1. lock = h /\ lock # Free /\ ~Quiet
      BY OpsAssumption DEF LockInv, Quiet, Locked
<1>2. y \in Ops /\ ops \in [Ops -> Ages]
      BY Constants DEF TypeOK
<1>3. CASE SweepDelete
  <2>1. UNCHANGED <<graph, head>> /\ lapsed' = lapsed \cup Refreshed
        BY <1>3 DEF SweepDelete
  <2>2. CASE sweep.op # y
        BY <1>2, <1>3, <2>1, <2>2 DEF SweepDelete
  <2>3. CASE sweep.op = y
    <3>1. ops'[y] = -1
          BY <1>2, <1>3, <2>3 DEF SweepDelete
    <3>2. ops[y] <= Ttl => y \in Refreshed
          BY <2>3 DEF Refreshed
    <3> QED
        BY <2>1, <3>1, <3>2
  <2> QED
      BY <2>2, <2>3
<1>4. CASE ~SweepDelete
  <2>1. UNCHANGED store /\ lapsed \subseteq lapsed'
        BY <1>1, <1>4
        DEF OtherStep, ReplayShare, GossipShare, Land, Promote, RetireTwin, PruneOrphans,
            SweepSelect, SweepTeardown, AuditRead, AuditMark, Tick, promises
  <2> QED
      BY <2>1 DEF store
<1> QED
    BY <1>3, <1>4

(* The writes of a copy are in place step by step.                            *)
LEMMA WriteStep ==
    ASSUME TypeOK, LockInv, WriteInv, [Next]_vars
    PROVE  WriteInv'
<1>1. /\ req \in [Handlers -> Reqs] /\ Free \notin Handlers
      /\ \A h \in Handlers : lock = h <=> req[h].pc \in Locked
      /\ \A h \in Handlers : req[h].pc # "idle" => req[h].op \in AckOps /\ req[h].op \in Ops
      /\ ops \in [Ops -> Ages]
      BY OpsAssumption DEF TypeOK, Reqs, LockInv, Ops
<1> DEFINE OK(r) == /\ r.pc \in Locked \ {"replace"} => graph = r.op.content \/ r.op \in lapsed
                    /\ r.pc \in {"deleteHead", "insertHead", "supersede", "sign"}
                         => ops[r.op] = 0 \/ (ops[r.op] < 0 /\ r.op \in lapsed)
                    /\ r.pc \in {"supersede", "sign"} /\ r.asker = "remote" => head = r.op
<1>2. ASSUME \A h \in Handlers : \E r : r = req'[h] /\ OK(r)' PROVE WriteInv'
      BY <1>2 DEF WriteInv
<1>3. ASSUME NEW h \in Handlers PROVE OK(req[h])
      BY DEF WriteInv
<1>4. ASSUME NEW h \in Handlers, HandlerStep(h) PROVE WriteInv'
  <2>1. LockMove(h)
        BY <1>4, HandlerLocks
  <2>2. ASSUME NEW g \in Handlers \ {h}, NEW r, r = req'[g] PROVE OK(r)'
    <3>1. r = req[g] /\ OK(r)
          BY <1>3, <2>1, <2>2 DEF LockMove
    <3>2. CASE r.pc \notin Locked
          BY <3>2 DEF Locked
    <3>3. CASE r.pc \in Locked
      <4>1. lock = g /\ req[h].pc \notin Locked
            BY <1>1, <3>1, <3>3
      <4>2. UNCHANGED store /\ lapsed \subseteq lapsed'
            BY <1>4, <4>1
            DEF HandlerStep, Request, Commit, Decline, Decide, ReplaceGraph, DeleteMeta, InsertMeta,
                DeleteHead, InsertHead, Supersede, SignAndRecord, Reply, Abort, StoreFails, Ends,
                Deadline, Locked, promises
      <4> QED
          BY <3>1, <4>2 DEF store
    <3> QED
        BY <3>2, <3>3
  <2>3. PICK r : r = req'[h]
        OBVIOUS
  <2>4. OK(r)'
    <3>1. PICK q \in Reqs : q = req[h]
          BY <1>1
    <3>2. OK(q) /\ (q.pc # "idle" => q.op \in Ops)
          BY <1>1, <1>3, <3>1
    <3>3. ASSUME NEW p \in Pcs, Goes(h, p)
          PROVE  r.pc = p /\ r.op = q.op /\ r.asker = q.asker
          BY <2>3, <3>1, <3>3, ReqMoves
    <3>4. r.pc \notin Locked => OK(r)'
          BY DEF Locked
    <3>5. CASE Decline(h) \/ Abort(h) \/ StoreFails(h)
      <4>1. r = Idle
            BY <2>3, <3>5, ReqMoves DEF Decline, Abort, StoreFails, ReqMoved
      <4> QED
          BY <3>4, <4>1 DEF Idle, Locked
    <3>6. CASE \E x \in AckOps, inline \in BOOLEAN, a \in Askers : Request(h, x, inline, a)
          BY <1>1, <2>3, <3>4, <3>6 DEF Request, Idle, Locked
    <3>7. CASE Reply(h)
          BY <1>1, <2>3, <3>4, <3>7 DEF Reply, Idle, Locked
    <3>8. CASE Decide(h)
      <4>1. r.pc = "replace"
            BY <1>1, <2>3, <3>8 DEF Decide, Reqs
      <4> QED
          BY <4>1
    <3>9. CASE SignAndRecord(h)
      <4>1. r.pc = "reply"
            BY <1>1, <2>3, <3>9 DEF SignAndRecord, Reqs
      <4> QED
          BY <3>4, <4>1 DEF Locked
    <3>10. CASE Deadline(h)
      <4>1. r.pc = q.pc /\ r.op = q.op /\ r.asker = q.asker
            BY <1>1, <2>3, <3>1, <3>10 DEF Deadline, Reqs
      <4> QED
          BY <3>2, <3>10, <4>1 DEF Deadline, store, promises
    <3>11. CASE ReplaceGraph(h)
      <4>1. /\ r.pc = "deleteMeta" /\ r.op = q.op
            /\ graph' = q.op.content \/ (graph' = graph /\ (graph # q.op.content => q.op \in lapsed'))
            BY <3>1, <3>3, <3>11 DEF ReplaceGraph, Pcs
      <4> QED
          BY <4>1
    <3>12. CASE DeleteMeta(h)
           BY <3>1, <3>2, <3>3, <3>12 DEF DeleteMeta, Pcs, Locked, promises
    <3>13. CASE InsertMeta(h)
      <4>1. /\ q.pc = "insertMeta" /\ graph' = graph /\ ops' = [ops EXCEPT ![q.op] = 0]
            /\ Goes(h, IF q.asker = "local" THEN "supersede" ELSE "deleteHead")
            /\ lapsed' = lapsed
            BY <3>1, <3>13 DEF InsertMeta, promises
      <4>2. ops'[q.op] = 0 /\ (graph = q.op.content \/ q.op \in lapsed)
            BY <1>1, <3>2, <4>1 DEF Locked
      <4>3. /\ r.pc = (IF q.asker = "local" THEN "supersede" ELSE "deleteHead")
            /\ r.op = q.op /\ r.asker = q.asker
            BY <3>3, <4>1 DEF Pcs
      <4> QED
          BY <4>1, <4>2, <4>3
    <3>14. CASE DeleteHead(h)
           BY <3>1, <3>2, <3>3, <3>14 DEF DeleteHead, Pcs, Locked, promises
    <3>15. CASE InsertHead(h)
           BY <3>1, <3>2, <3>3, <3>15 DEF InsertHead, Pcs, Locked, promises
    <3>16. CASE Supersede(h)
           BY <3>1, <3>2, <3>3, <3>16 DEF Supersede, store, Pcs, Locked, promises
    <3> QED
        BY <1>4, <3>5, <3>6, <3>7, <3>8, <3>9, <3>10, <3>11, <3>12, <3>13, <3>14, <3>15, <3>16
        DEF HandlerStep, Commit
  <2> HIDE DEF OK
  <2> QED
      BY <1>2, <2>2, <2>3, <2>4
<1>5. CASE Crash
      BY <1>5 DEF Crash, WriteInv, Idle, Locked
<1>6. CASE UNCHANGED vars
      BY <1>6 DEF vars, store, promises, WriteInv
<1>7. CASE OtherStep
  <2>1. ASSUME NEW h \in Handlers, NEW r, r = req'[h] PROVE OK(r)'
    <3>1. r = req[h] /\ OK(r)
          BY <1>3, <1>7, <2>1, OthersLeaveHandlers
    <3>2. CASE r.pc \notin Locked
          BY <3>2 DEF Locked
    <3>3. CASE r.pc \in Locked
      <4>1. PICK y \in AckOps : y = r.op
            BY <1>1, <3>1, <3>3 DEF Locked
      <4>2. /\ UNCHANGED <<graph, head>> /\ (y \in lapsed => y \in lapsed')
            /\ ops'[y] = ops[y] \/ (ops'[y] < 0 /\ (ops[y] <= Ttl => y \in lapsed'))
            BY <1>7, <3>1, <3>3, OthersWait
      <4>3. ops[y] = 0 => ops[y] <= Ttl
            BY Constants
      <4> QED
          BY <3>1, <4>1, <4>2, <4>3
    <3> QED
        BY <3>2, <3>3
  <2> HIDE DEF OK
  <2> QED
      BY <1>2, <2>1
<1> QED
    BY <1>4, <1>5, <1>6, <1>7 DEF Next, HandlerStep, OtherStep

-------------------------------------------------------------------------------
(* What was promised.                                                         *)

(* A copy is due only while the chain's latest version is its own.            *)
LEMMA DueStep ==
    ASSUME TypeOK, LockInv, DueInv, [Next]_vars
    PROVE  DueInv'
<1> USE DEF DueInv, IsLatest
<1>1. ASSUME UNCHANGED <<chain, due>> PROVE DueInv'
      BY <1>1
<1>2. ASSUME NEW h \in Handlers, Reply(h) PROVE DueInv'
      BY <1>2 DEF Reply, world
<1>3. ASSUME NEW c \in Contents, Land(c) PROVE DueInv'
  <2>1. /\ chain \in Seq(Contents) /\ chain' = Append(chain, c)
        /\ \A x \in due' : x \in AckOps /\ x.ver = Len(chain) + 1 /\ x.content = c
        BY <1>3 DEF Land, TypeOK
  <2>2. Len(chain') = Len(chain) + 1 /\ chain'[Len(chain) + 1] = c
        BY <2>1
  <2> QED
      BY <2>1, <2>2
<1> QED
    BY <1>1, <1>2, <1>3
    DEF Next, vars, Commit, Request, Decline, Decide, ReplaceGraph, DeleteMeta, InsertMeta,
        DeleteHead, InsertHead, Supersede, SignAndRecord, Abort, StoreFails, Deadline, Ends, Crash,
        ReplayShare, GossipShare, Promote, RetireTwin, PruneOrphans, SweepSelect, SweepTeardown,
        SweepDelete, AuditRead, AuditMark, Tick, world, promises

(* What a promise says of the ages and marks in its ledger row: it can not be *)
(* taken for one that is no longer pending or no longer needed.               *)
LEMMA PromiseHolds ==
    ASSUME TypeOK, LockInv, DueInv, PromiseInv, NEW x \in AckOps, Promised(x)
    PROVE  /\ Kept(x) /\ Owed(x) /\ ledger[x] \in Rows /\ ops[x] \in Ages
           /\ acked[x] \in -1..PendingWindow /\ vm.ver \in Nat /\ Len(chain) \in Nat
           /\ vm.ver < x.ver /\ Len(chain) <= x.ver /\ x.ver \in Nat
           /\ Len(chain) < x.ver =>
                 ledger[x].age <= PendingWindow /\ ledger[x].absent = -1
           /\ Quiet => lock = Free
           /\ lock = Free => head = x /\ ops[x] >= 0 /\ x \in Held /\ ~Corrupt
<1>1. Kept(x) /\ vm.ver < x.ver /\ (Len(chain) < x.ver \/ IsLatest(x))
      BY DEF PromiseInv, Promised
<1>2. /\ ledger[x] \in Rows /\ ops[x] \in Ages /\ acked[x] \in -1..PendingWindow
      /\ vm.ver \in Nat /\ Len(chain) \in Nat /\ x.ver \in Nat /\ x \in Ops /\ x.ver >= 1
      BY Constants DEF TypeOK
<1>3. Owed(x)
      BY <1>1 DEF Kept, RowKept
<1>4. ASSUME Len(chain) < x.ver
      PROVE  ledger[x].age <= PendingWindow /\ ledger[x].absent = -1
  <2>1. acked[x] >= 0 \/ Replying(x)
        BY <1>2, <1>4 DEF Promised, DueInv, IsLatest
  <2>2. ledger[x].age \in Int
        BY <1>2 DEF Rows, Ages
  <2> QED
      BY <1>1, <1>2, <2>1, <2>2, Constants DEF Kept, RowKept
<1>5. Quiet => lock = Free
      BY DEF Quiet, LockInv, TypeOK, Locked
<1>6. lock = Free => head = x /\ ops[x] >= 0 /\ x \in Held /\ ~Corrupt
  <2> SUFFICES ASSUME lock = Free PROVE head = x /\ ops[x] >= 0 /\ x \in Held /\ ~Corrupt
      OBVIOUS
  <2>1. head = x /\ ops[x] >= 0
        BY <1>1 DEF Kept, CopyKept
  <2> QED
      BY <1>2, <1>3, <2>1 DEF Held, Corrupt, Ages
<1> QED
    BY <1>1, <1>2, <1>3, <1>4, <1>5, <1>6 DEF IsLatest

(* The step of a handler that decides while a promise is open rewrites the    *)
(* same copy for another publisher and supersedes nothing.                    *)
LEMMA DecideSpares ==
    ASSUME TypeOK, LockInv, DueInv, PromiseInv, NEW x \in AckOps, Promised(x),
           NEW h \in Handlers, Decide(h)
    PROVE  /\ req[h].op = x /\ req[h].asker = "remote"
           /\ req'[h].pc = "replace" /\ req'[h].op = x /\ req'[h].asker = "remote"
           /\ req'[h].supersede = {}
<1>1. PICK q \in Reqs : q = req[h]
      BY DEF TypeOK, Reqs
<1>2. q.op \in AckOps /\ lock = Free /\ Accepts(q.op, q.asker)
      BY <1>1 DEF Decide, LockInv
<1>3. /\ head = x /\ x \in Held /\ Len(chain) \in Nat /\ vm.ver \in Nat /\ x.ver \in Nat
      /\ vm.ver < x.ver /\ Len(chain) <= x.ver
      /\ Len(chain) < x.ver => ledger[x].age <= PendingWindow /\ ledger[x].absent = -1
      /\ ledger[x] \in Rows
      BY <1>2, PromiseHolds
<1>4. q.asker = "remote"
      BY <1>1, <1>2, <1>3, Constants DEF Accepts, Reqs, Askers
<1>5. ~NoLongerPending
  <2>1. ledger[x].age \in Int
        BY <1>3 DEF Rows, Ages
  <2> QED
      BY <1>3, <2>1, Constants DEF NoLongerPending
<1>6. ~NoLongerNeeded
      BY <1>3 DEF NoLongerNeeded
<1>7. SameContent(q.op)
      BY <1>2, <1>3, <1>4, <1>5, <1>6 DEF Accepts, Displaces
<1>8. q.op = x
      BY <1>2, <1>3, <1>7, Constants DEF SameContent
<1>9. Supersedes(x) = {}
      BY <1>7, <1>8 DEF Supersedes
<1>10. req' = [req EXCEPT ![h] = [q EXCEPT !.pc = "replace", !.supersede = {}]]
  <2>1. req' = [req EXCEPT ![h].pc = "replace", ![h].supersede = {}]
        BY <1>1, <1>4, <1>8, <1>9 DEF Decide
  <2> QED
      BY <1>1, <2>1 DEF TypeOK
<1>11. req'[h] = [q EXCEPT !.pc = "replace", !.supersede = {}]
       BY <1>10 DEF TypeOK
<1> QED
    BY <1>1, <1>4, <1>8, <1>11 DEF Reqs

(* No step of a handler breaks a promise, and signing makes one that is kept. *)
LEMMA PromiseHandler ==
    ASSUME TypeOK, LockInv, WriteInv, DueInv, PromiseInv,
           NEW h \in Handlers, HandlerStep(h), NEW x \in AckOps, Promised(x)'
    PROVE  Kept(x)'
<1>1. LockMove(h) /\ UNCHANGED passes
      BY HandlerLocks
<1>2. /\ req \in [Handlers -> Reqs] /\ Free \notin Handlers /\ x \in Ops
      /\ \A g \in Handlers : lock = g <=> req[g].pc \in Locked
      /\ ops \in [Ops -> Ages] /\ ledger \in [AckOps -> Rows]
      /\ acked \in [AckOps -> -1..PendingWindow]
      BY OpsAssumption, Constants DEF TypeOK, Reqs, LockInv
<1>3. PICK q \in Reqs : q = req[h]
      BY <1>2
<1>4. PICK r : r = req'[h]
      OBVIOUS
<1>5. \A g \in Handlers \ {h} : req'[g] = req[g]
      BY <1>1 DEF LockMove
<1> DEFINE Asks(t) == t.pc = "reply" /\ t.op = x /\ t.asker = "remote"
           Here(t) == t.pc \in Locked =>
                         /\ t.op = x /\ t.asker = "remote" /\ t.supersede = {}
                         /\ head = IF t.pc = "insertHead" THEN NoOp ELSE x
                         /\ t.pc # "insertMeta" => ops[x] >= 0
<1>6. ASSUME Asks(r) => Asks(q) PROVE Replying(x)' => Replying(x)
      BY <1>3, <1>4, <1>5, <1>6 DEF Replying
<1>7. ASSUME Asks(r) => Asks(q), UNCHANGED <<chain, vm, acked, due>>, lapsed \subseteq lapsed'
      PROVE  Promised(x)
      BY <1>6, <1>7 DEF Promised, IsLatest
<1>8. ASSUME Kept(x) PROVE Here(q) /\ \A g \in Handlers : Here(req[g])
      BY <1>3, <1>8 DEF Kept, CopyKept
<1>9. ASSUME Kept(x), ledger'[x].age = ledger[x].age,
             ops'[x] = ops[x] \/ ops'[x] \in {-1, 0}
      PROVE  PassKept(x)'
      BY <1>1, <1>9, Constants DEF Kept, PassKept, passes
<1>10. ASSUME Kept(x), UNCHANGED <<ledger, acked>>, Asks(r) => Asks(q),
              ops'[x] = ops[x] \/ ops'[x] \in {-1, 0}
       PROVE  RowKept(x)'
  <2>1. Replying(x)' => Replying(x)
        BY <1>6, <1>10
  <2>2. ledger[x] \in Rows /\ ledger[x].age \in Int
        BY <1>2 DEF Rows, Ages
  <2>3. ledger[x].age >= 0
        BY <1>10 DEF Kept, RowKept, Owed
  <2>4. ops[x] <= ledger[x].age => ops'[x] <= ledger[x].age
        BY <1>10, <2>2, <2>3
  <2> QED
      BY <1>10, <2>1, <2>4 DEF Kept, RowKept, Owed
<1>11. ASSUME q.pc \in Locked, NEW g \in Handlers \ {h} PROVE req'[g].pc \notin Locked
       BY <1>2, <1>3, <1>5, <1>11
<1>12. ASSUME q.pc \in Locked, lock' \in {lock, Free},
              graph' = x.content, lock' = Free => head' = x /\ ops'[x] >= 0, Here(r)'
       PROVE  CopyKept(x)'
       BY <1>2, <1>3, <1>4, <1>11, <1>12 DEF CopyKept
<1>13. ASSUME r.pc \notin Locked, UNCHANGED <<store, lock>>, Kept(x) PROVE CopyKept(x)'
       BY <1>4, <1>5, <1>8, <1>13 DEF Kept, CopyKept, store
<1>14. ASSUME Ends(h), lapsed \subseteq lapsed', HalfWritten(h) \subseteq lapsed'
       PROVE  Kept(x)'
  <2>1. r = Idle /\ r.pc \notin Locked /\ r.pc # "reply"
    <3>1. req'[h] = Idle
          BY <1>14, ReqMoves DEF ReqMoved
    <3> QED
        BY <1>4, <3>1 DEF Idle, Locked
  <2>2. UNCHANGED <<store, ledger, world, chain, vm, acked, due, ops>>
        BY <1>14 DEF Ends, store, world
  <2>3. Kept(x)
        BY <1>7, <1>14, <2>1, <2>2 DEF PromiseInv
  <2>4. RowKept(x)'
        BY <1>10, <2>1, <2>2, <2>3
  <2>5. ASSUME q.pc \in Locked PROVE CopyKept(x)'
    <3>1. q.op = x /\ x \notin lapsed'
          BY <1>8, <2>3, <2>5 DEF Promised
    <3>2. q.pc \notin {"insertMeta", "insertHead"}
          BY <1>3, <1>14, <3>1 DEF HalfWritten
    <3> QED
        BY <1>2, <1>3, <1>8, <1>12, <1>14, <2>1, <2>2, <2>3, <2>5, <3>2
        DEF Ends, Kept, CopyKept, store
  <2>6. ASSUME q.pc \notin Locked PROVE CopyKept(x)'
        BY <1>2, <1>3, <1>13, <1>14, <2>1, <2>2, <2>3, <2>6 DEF Ends
  <2> QED
      BY <1>9, <2>2, <2>3, <2>4, <2>5, <2>6 DEF Kept
<1>15. CASE Decline(h)
       BY <1>14, <1>15 DEF Decline, HalfWritten
<1>16. CASE Abort(h)
       BY <1>14, <1>16 DEF Abort, HalfWritten
<1>17. CASE StoreFails(h)
       BY <1>14, <1>17 DEF StoreFails
<1>18. ASSUME r.pc \notin Locked, r.pc # "reply", UNCHANGED <<store, lock, ledger, world, promises>>
       PROVE  Kept(x)'
  <2>1. Kept(x)
        BY <1>7, <1>18 DEF PromiseInv, world, promises
  <2> QED
      BY <1>9, <1>10, <1>13, <1>18, <2>1 DEF Kept, store, promises
<1>19. CASE \E y \in AckOps, inline \in BOOLEAN, a \in Askers : Request(h, y, inline, a)
  <2>1. r.pc = "lock"
        BY <1>2, <1>4, <1>19 DEF Request, Idle
  <2> QED
      BY <1>18, <1>19, <2>1 DEF Request, Locked
<1>20. CASE Decide(h)
  <2>1. r.pc = "replace"
        BY <1>2, <1>4, <1>20 DEF Decide, Reqs
  <2>2. UNCHANGED <<store, ledger, world, passes, promises, acked, ops>> /\ lock = Free /\ lock' = h
        BY <1>20 DEF Decide, store, promises
  <2>3. Promised(x) /\ Kept(x)
        BY <1>7, <2>1, <2>2 DEF PromiseInv, world, promises
  <2>4. r.op = x /\ r.asker = "remote" /\ r.supersede = {}
        BY <1>4, <1>20, <2>3, DecideSpares
  <2>5. RowKept(x)'
        BY <1>10, <2>1, <2>2, <2>3
  <2>6. head = x /\ ops[x] >= 0 /\ graph = x.content
        BY <2>2, <2>3 DEF Kept, CopyKept
  <2>7. \A g \in Handlers \ {h} : req'[g].pc \notin Locked
        BY <1>2, <1>5, <2>2
  <2>8. CopyKept(x)'
        BY <1>2, <1>4, <2>1, <2>2, <2>4, <2>6, <2>7 DEF CopyKept, store
  <2> QED
      BY <1>9, <2>2, <2>3, <2>5, <2>8 DEF Kept
<1>21. ASSUME NEW p \in Pcs, Goes(h, p)
       PROVE  /\ r.pc = p /\ r.op = q.op /\ r.asker = q.asker /\ r.supersede = q.supersede
              /\ UNCHANGED lock
       BY <1>3, <1>4, <1>21, ReqMoves
<1>22. ASSUME q.pc \in Locked, Goes(h, r.pc), r.pc \in Locked,
              UNCHANGED <<ledger, chain, vm, acked, due>>, lapsed \subseteq lapsed',
              Kept(x) => /\ graph' = x.content /\ Here(r)'
                         /\ ops'[x] = ops[x] \/ ops'[x] \in {-1, 0}
       PROVE  Kept(x)'
  <2>1. UNCHANGED lock /\ lock = h /\ r.pc # "reply"
        BY <1>2, <1>3, <1>22 DEF Goes, Locked
  <2>2. Kept(x)
        BY <1>7, <1>22, <2>1 DEF PromiseInv
  <2> QED
      BY <1>2, <1>9, <1>10, <1>12, <1>22, <2>1, <2>2 DEF Kept
<1>23. CASE ReplaceGraph(h)
  <2>1. q.pc = "replace" /\ Goes(h, "deleteMeta") /\ graph' \in {graph, q.op.content}
        BY <1>3, <1>23 DEF ReplaceGraph
  <2>2. r.pc = "deleteMeta" /\ r.op = q.op /\ r.asker = q.asker /\ r.supersede = q.supersede
        BY <1>21, <2>1 DEF Pcs
  <2>3. UNCHANGED <<ledger, chain, vm, acked, due, ops, head>> /\ lapsed \subseteq lapsed'
        BY <1>23 DEF ReplaceGraph, world
  <2>4. Kept(x) => graph = x.content /\ Here(q)
        BY <1>8 DEF Kept, CopyKept
  <2> QED
      BY <1>22, <2>1, <2>2, <2>3, <2>4 DEF Locked
<1>24. CASE DeleteMeta(h)
  <2>1. q.pc = "deleteMeta" /\ Goes(h, "insertMeta") /\ ops' = [ops EXCEPT ![q.op] = -1]
        BY <1>3, <1>24 DEF DeleteMeta
  <2>2. r.pc = "insertMeta" /\ r.op = q.op /\ r.asker = q.asker /\ r.supersede = q.supersede
        BY <1>21, <2>1 DEF Pcs
  <2>3. UNCHANGED <<ledger, chain, vm, acked, due, lapsed, graph, head>>
        BY <1>24 DEF DeleteMeta, world, promises
  <2>4. Kept(x) => graph = x.content /\ Here(q)
        BY <1>8 DEF Kept, CopyKept
  <2>5. ops'[x] = ops[x] \/ ops'[x] = -1
        BY <1>2, <2>1
  <2> QED
      BY <1>22, <2>1, <2>2, <2>3, <2>4, <2>5 DEF Locked
<1>25. CASE InsertMeta(h)
  <2>1. /\ q.pc = "insertMeta" /\ ops' = [ops EXCEPT ![q.op] = 0]
        /\ Goes(h, IF q.asker = "local" THEN "supersede" ELSE "deleteHead")
        BY <1>3, <1>25 DEF InsertMeta
  <2>2. /\ r.pc = (IF q.asker = "local" THEN "supersede" ELSE "deleteHead")
        /\ r.op = q.op /\ r.asker = q.asker /\ r.supersede = q.supersede
        BY <1>21, <2>1 DEF Pcs
  <2>3. UNCHANGED <<ledger, chain, vm, acked, due, lapsed, graph, head>>
        BY <1>25 DEF InsertMeta, world, promises
  <2>4. Kept(x) => graph = x.content /\ Here(q)
        BY <1>8 DEF Kept, CopyKept
  <2>5. (ops'[x] = ops[x] \/ ops'[x] = 0) /\ (q.op = x => ops'[x] = 0)
        BY <1>2, <2>1
  <2> QED
      BY <1>22, <2>1, <2>2, <2>3, <2>4, <2>5 DEF Locked
<1>26. CASE DeleteHead(h)
  <2>1. q.pc = "deleteHead" /\ Goes(h, "insertHead") /\ head' = NoOp
        BY <1>3, <1>26 DEF DeleteHead
  <2>2. r.pc = "insertHead" /\ r.op = q.op /\ r.asker = q.asker /\ r.supersede = q.supersede
        BY <1>21, <2>1 DEF Pcs
  <2>3. UNCHANGED <<ledger, chain, vm, acked, due, lapsed, graph, ops>>
        BY <1>26 DEF DeleteHead, world, promises
  <2>4. Kept(x) => graph = x.content /\ Here(q)
        BY <1>8 DEF Kept, CopyKept
  <2> QED
      BY <1>22, <2>1, <2>2, <2>3, <2>4 DEF Locked
<1>27. CASE InsertHead(h)
  <2>1. q.pc = "insertHead" /\ Goes(h, "supersede") /\ head' = q.op
        BY <1>3, <1>27 DEF InsertHead
  <2>2. r.pc = "supersede" /\ r.op = q.op /\ r.asker = q.asker /\ r.supersede = q.supersede
        BY <1>21, <2>1 DEF Pcs
  <2>3. UNCHANGED <<ledger, chain, vm, acked, due, lapsed, graph, ops>>
        BY <1>27 DEF InsertHead, world, promises
  <2>4. Kept(x) => graph = x.content /\ Here(q)
        BY <1>8 DEF Kept, CopyKept
  <2> QED
      BY <1>22, <2>1, <2>2, <2>3, <2>4 DEF Locked
<1>28. CASE Supersede(h)
  <2>1. q.pc = "supersede" /\ Goes(h, "sign")
        BY <1>3, <1>28 DEF Supersede
  <2>2. r.pc = "sign" /\ r.op = q.op /\ r.asker = q.asker /\ r.supersede = q.supersede
        BY <1>21, <2>1 DEF Pcs
  <2>3. UNCHANGED <<chain, vm, acked, due, lapsed, graph, ops, head>>
        BY <1>28 DEF Supersede, store, world, promises
  <2>4. Kept(x)
        BY <1>7, <2>2, <2>3 DEF PromiseInv
  <2>5. graph = x.content /\ Here(q) /\ q.supersede = {}
        BY <1>8, <2>1, <2>4 DEF Kept, CopyKept, Locked
  <2>6. ledger' = ledger
        BY <1>2, <1>3, <1>28, <2>5 DEF Supersede
  <2> QED
      BY <1>22, <2>1, <2>2, <2>3, <2>5, <2>6 DEF Locked
<1>29. CASE SignAndRecord(h)
  <2>1. q.pc = "sign" /\ lock = h /\ lock' = Free
        BY <1>2, <1>3, <1>29 DEF SignAndRecord, Locked
  <2>2. r.pc = "reply" /\ r.op = q.op /\ r.asker = q.asker
        BY <1>2, <1>3, <1>4, <1>29 DEF SignAndRecord, Reqs
  <2>3. UNCHANGED <<store, world, chain, vm, passes, acked, due>>
        BY <1>29 DEF SignAndRecord, world
  <2>4. /\ x \notin lapsed'
        /\ q.op # x => x \notin lapsed
        /\ q.op = x => x \notin lapsed \/ (head = x /\ ops[x] >= 0 /\ graph = x.content)
        BY <1>3, <1>29 DEF SignAndRecord, Promised
  <2>5. ASSUME x \notin lapsed PROVE q.op = x /\ head = x
    <3>1. CASE Asks(r)
          BY <1>3, <2>1, <2>2, <3>1 DEF WriteInv
    <3>2. CASE ~Asks(r)
      <4>1. Replying(x)' => Replying(x)
            BY <1>6, <3>2
      <4>2. Promised(x)
            BY <2>3, <2>5, <4>1 DEF Promised, IsLatest
      <4>3. Here(q)
            BY <1>8, <4>2 DEF PromiseInv
      <4> QED
          BY <2>1, <4>3 DEF Locked
    <3> QED
        BY <3>1, <3>2
  <2>6. q.op = x /\ head = x
        BY <2>4, <2>5
  <2>7. graph = x.content /\ ops[x] = 0
    <3>1. /\ graph = x.content \/ x \in lapsed
          /\ ops[x] = 0 \/ (ops[x] < 0 /\ x \in lapsed)
          BY <1>3, <2>1, <2>6 DEF WriteInv, Locked
    <3>2. ops[x] \in Int
          BY <1>2 DEF Ages
    <3> QED
        BY <2>4, <2>6, <3>1, <3>2
  <2>8. CopyKept(x)'
    <3>1. r.pc \notin Locked
          BY <2>2 DEF Locked
    <3> QED
        BY <1>12, <2>1, <2>3, <2>6, <2>7, <3>1 DEF store, Locked
  <2>9. /\ ledger'[x].age = 0 /\ ledger'[x].absent = -1 /\ ledger'[x].released = FALSE
        BY <1>2, <1>3, <1>29, <2>6 DEF SignAndRecord, EmptyRow
  <2>10. ops'[x] = 0 /\ acked'[x] \in -1..PendingWindow
         BY <1>2, <2>3, <2>7 DEF store
  <2>11. PassKept(x)'
         BY <2>9, <2>10, Constants DEF PassKept
  <2>12. RowKept(x)'
         BY <2>9, <2>10, Constants DEF RowKept, Owed
  <2> QED
      BY <2>8, <2>11, <2>12 DEF Kept
<1>30. CASE Reply(h)
  <2>1. q.pc = "reply" /\ r = Idle
        BY <1>2, <1>3, <1>4, <1>30 DEF Reply
  <2>2. r.pc \notin Locked /\ r.pc # "reply"
        BY <2>1 DEF Idle, Locked
  <2>3. UNCHANGED <<store, ledger, world, chain, vm, lock, lapsed, ops>>
        BY <1>30 DEF Reply, store, world
  <2>4. CASE q.op = x /\ q.asker = "remote"
    <3>1. Replying(x)
          BY <1>3, <2>1, <2>4 DEF Replying
    <3>2. Promised(x) /\ Kept(x)
          BY <2>3, <3>1 DEF Promised, IsLatest, PromiseInv
    <3>3. acked'[x] = 0
          BY <1>2, <1>3, <1>30, <2>4 DEF Reply
    <3>4. ledger[x].age = 0 /\ ledger[x].absent = -1
          BY <3>1, <3>2 DEF Kept, RowKept
    <3>5. RowKept(x)'
          BY <2>3, <3>2, <3>3, <3>4 DEF Kept, RowKept, Owed
    <3> QED
        BY <1>9, <1>13, <2>2, <2>3, <3>2, <3>5 DEF Kept
  <2>5. CASE ~(q.op = x /\ q.asker = "remote")
    <3>1. acked'[x] = acked[x]
      <4>1. q.asker = "local" \/ q.asker = "remote"
            BY DEF Reqs, Askers
      <4> QED
          BY <1>2, <1>3, <1>30, <2>5, <4>1 DEF Reply
    <3>2. x \in due' => x \in due
          BY <1>3, <1>30, <2>5 DEF Reply
    <3>3. Replying(x)' => Replying(x)
          BY <1>6, <2>2
    <3>4. Kept(x)
          BY <2>3, <3>1, <3>2, <3>3 DEF Promised, IsLatest, PromiseInv
    <3>5. RowKept(x)'
          BY <2>3, <3>1, <3>3, <3>4 DEF Kept, RowKept, Owed
    <3> QED
        BY <1>9, <1>13, <2>2, <2>3, <3>4, <3>5 DEF Kept
  <2> QED
      BY <2>4, <2>5
<1>31. CASE Deadline(h)
  <2>1. r.pc = q.pc /\ r.op = q.op /\ r.asker = q.asker /\ r.supersede = q.supersede
        BY <1>2, <1>3, <1>4, <1>31 DEF Deadline, Reqs
  <2>2. UNCHANGED <<store, ledger, world, promises, acked, ops, lock>>
        BY <1>31 DEF Deadline, store, promises
  <2>3. Kept(x)
        BY <1>7, <2>1, <2>2 DEF PromiseInv, world, promises
  <2>4. CopyKept(x)'
    <3>1. Here(r)
          BY <1>8, <2>1, <2>3
    <3>2. \A g \in Handlers : \E t : t = req'[g] /\ Here(t)
          BY <1>4, <1>5, <1>8, <2>3, <3>1
    <3> QED
        BY <2>2, <2>3, <3>2 DEF Kept, CopyKept, store
  <2> QED
      BY <1>9, <1>10, <2>1, <2>2, <2>3, <2>4 DEF Kept
<1> QED
    BY <1>15, <1>16, <1>17, <1>19, <1>20, <1>23, <1>24, <1>25, <1>26, <1>27, <1>28, <1>29, <1>30,
       <1>31
    DEF HandlerStep, Commit

(* A crash between two writes of a copy leaves the copy where it was, or,     *)
(* between a delete and the insert that follows it, among the lapsed.         *)
LEMMA PromiseCrash ==
    ASSUME TypeOK, LockInv, DueInv, PromiseInv, Crash, NEW x \in AckOps, Promised(x)'
    PROVE  Kept(x)'
<1>1. /\ UNCHANGED <<store, ledger, world, chain, vm, acked, due>>
      /\ req' = [h \in Handlers |-> Idle] /\ lock' = Free /\ sweep' = NoSweep /\ audit' = NoAudit
      /\ lapsed' = lapsed \cup UNION {HalfWritten(h) : h \in Handlers}
      BY DEF Crash, world
<1>2. \A h \in Handlers : req'[h].pc = "idle"
      BY <1>1 DEF Idle
<1>3. ~Replying(x)'
      BY <1>2 DEF Replying
<1>4. Promised(x) /\ Kept(x)
      BY <1>1, <1>3 DEF Promised, IsLatest, PromiseInv
<1>5. RowKept(x)'
      BY <1>1, <1>3, <1>4 DEF Kept, RowKept, Owed, store
<1>6. head = x /\ ops[x] >= 0 /\ graph = x.content
  <2>1. CASE lock = Free
        BY <1>4, <2>1 DEF Kept, CopyKept
  <2>2. CASE lock # Free
    <3>1. PICK h \in Handlers : lock = h /\ req[h].pc \in Locked
          BY <2>2 DEF TypeOK, LockInv
    <3>2. HalfWritten(h) \subseteq lapsed' /\ x \notin lapsed'
          BY <1>1 DEF Promised
    <3>3. req[h].op = x
          BY <1>4, <3>1 DEF Kept, CopyKept
    <3>4. req[h].pc \notin {"insertMeta", "insertHead"}
          BY <3>2, <3>3 DEF HalfWritten
    <3> QED
        BY <1>4, <3>1, <3>4 DEF Kept, CopyKept
  <2> QED
      BY <2>1, <2>2
<1>7. CopyKept(x)'
      BY <1>1, <1>2, <1>6 DEF CopyKept, store, Locked
<1>8. PassKept(x)'
      BY <1>1, Constants DEF PassKept, NoSweep, NoAudit
<1> QED
    BY <1>5, <1>7, <1>8 DEF Kept

(* What the audit makes of a landed copy and of a young one.                  *)
LEMMA Marks ==
    ASSUME TypeOK, NEW x \in AckOps
    PROVE  /\ IsLatest(x) => Mark(x) = IF ledger[x].registered THEN "none" ELSE "registered"
           /\ Len(chain) < x.ver /\ ledger[x].age < Ttl => Mark(x) = "none"
<1>1. ledger[x].age \in Int /\ Ttl \in Int /\ x.ver \in Int /\ Len(chain) \in Int
      BY Constants DEF TypeOK, Rows, Ages
<1>2. IsLatest(x) => Landed(x) /\ ~Overtaken(x)
      BY <1>1 DEF IsLatest, Landed, Overtaken
<1>3. Len(chain) < x.ver => ~Landed(x) /\ ~Overtaken(x)
      BY <1>1 DEF IsLatest, Landed, Overtaken
<1>4. ASSUME IsLatest(x)
      PROVE  Mark(x) = IF ledger[x].registered THEN "none" ELSE "registered"
      BY <1>2, <1>4 DEF Mark
<1>5. ASSUME Len(chain) < x.ver, ledger[x].age < Ttl PROVE Mark(x) = "none"
  <2>1. ~(ledger[x].age >= Ttl)
        BY <1>1, <1>5
  <2> QED
      BY <1>3, <1>5, <2>1 DEF Mark
<1> QED
    BY <1>4, <1>5

(* Gossip, the chain, promotion, the background passes and time break no      *)
(* promise.                                                                   *)
LEMMA PromiseOthers ==
    ASSUME TypeOK, LockInv, DueInv, PromiseInv, OtherStep,
           NEW x \in AckOps, Promised(x)'
    PROVE  Kept(x)'
<1>1. UNCHANGED <<req, lock>>
      BY OthersLeaveHandlers
<1>2. Replying(x)' <=> Replying(x)
      BY <1>1 DEF Replying
<1>3. /\ x \in Ops /\ ops \in [Ops -> Ages] /\ ledger \in [AckOps -> Rows]
      /\ acked \in [AckOps -> -1..PendingWindow] /\ x.ver \in Nat
      /\ chain \in Seq(Contents) /\ vm.ver \in Nat /\ head \in Ops \cup {NoOp}
      BY Constants DEF TypeOK
<1>4. ASSUME Promised(x)
      PROVE  /\ Kept(x) /\ Owed(x) /\ ledger[x] \in Rows /\ ops[x] \in Ages
             /\ acked[x] \in -1..PendingWindow
             /\ vm.ver < x.ver /\ Len(chain) <= x.ver
             /\ Len(chain) < x.ver =>
                   ledger[x].age <= PendingWindow /\ ledger[x].absent = -1
             /\ Quiet => lock = Free
             /\ lock = Free => head = x /\ ops[x] >= 0 /\ x \in Held /\ ~Corrupt
      BY <1>4, PromiseHolds
<1>5. ASSUME UNCHANGED <<chain, vm, acked, due>>, lapsed \subseteq lapsed' PROVE Promised(x)
      BY <1>2, <1>5 DEF Promised, IsLatest
<1>6. ASSUME Kept(x), ops'[x] = ops[x], ledger'[x] = ledger[x], UNCHANGED acked
      PROVE  RowKept(x)'
      BY <1>2, <1>6 DEF Kept, RowKept, Owed
<1>7. ASSUME Kept(x), ops'[x] = ops[x], UNCHANGED <<graph, head>> PROVE CopyKept(x)'
      BY <1>1, <1>7 DEF Kept, CopyKept
<1>8. ASSUME Kept(x), UNCHANGED passes, ops'[x] = ops[x], ledger'[x] = ledger[x]
      PROVE  PassKept(x)'
      BY <1>8 DEF Kept, PassKept, passes
<1>9. ASSUME NEW s \in ShareOps, ReplayShare(s) PROVE FALSE
      BY <1>4, <1>5, <1>9, Constants DEF ReplayShare, world, promises
<1>10. ASSUME NEW s \in ShareOps, NEW done \in 1..ShareWrites, GossipShare(s, done) PROVE FALSE
       BY <1>3, <1>4, <1>5, <1>10 DEF GossipShare, world, promises
<1>11. ASSUME NEW c \in Contents, Land(c) PROVE Kept(x)'
  <2>1. Len(chain') = Len(chain) + 1 /\ Len(chain) \in Nat /\ vm' = vm /\ acked' = acked
        BY <1>3, <1>11 DEF Land
  <2>2. Len(chain) < x.ver
        BY <1>3, <2>1 DEF Promised, IsLatest
  <2>3. acked[x] >= 0 \/ Replying(x)
        BY <1>2, <1>11, <2>1 DEF Promised, Land
  <2>4. Promised(x)
        BY <1>11, <2>1, <2>2, <2>3 DEF Promised, Land
  <2> QED
      BY <1>4, <1>6, <1>7, <1>8, <1>11, <2>4 DEF Land, Kept, store
<1>12. CASE Promote
  <2>1. chain' = chain /\ due' = due /\ acked' = acked /\ lapsed' = lapsed /\ vm'.ver = head.ver /\ head.ver > vm.ver
        BY <1>12 DEF Promote, Promotable, promises
  <2>2. head.ver \in Nat
        BY <1>3, Constants
  <2>3. Promised(x)
        BY <1>2, <1>3, <2>1, <2>2 DEF Promised, IsLatest
  <2> QED
      BY <1>4, <1>6, <1>7, <1>8, <1>12, <2>1, <2>3 DEF Promote, Kept, store
<1>13. CASE RetireTwin
       BY <1>3, <1>4, <1>5, <1>13, Constants DEF RetireTwin, world, promises
<1>14. CASE PruneOrphans
  <2>1. Promised(x) /\ x \notin lapsed'
        BY <1>5, <1>14 DEF PruneOrphans, world, Promised
  <2>2. ops[x] >= 0
    <3>1. CASE lock = Free
          BY <1>4, <2>1, <3>1
    <3>2. CASE lock # Free
      <4>1. PICK h \in Handlers : req[h].pc \in Locked
            BY <3>2 DEF TypeOK, LockInv
      <4>2. req[h].op = x /\ (req[h].pc # "insertMeta" => ops[x] >= 0)
            BY <1>4, <2>1, <4>1 DEF Kept, CopyKept
      <4>3. CASE req[h].pc = "insertMeta"
        <5>1. x \in HalfWritten(h)
              BY <4>2, <4>3 DEF HalfWritten
        <5>2. x \notin Orphans
              BY <1>14, <2>1, <5>1 DEF PruneOrphans
        <5> QED
            BY <1>3, <1>4, <2>1, <5>2 DEF Orphans, Owed, Ages
      <4> QED
          BY <4>2, <4>3
    <3> QED
        BY <3>1, <3>2
  <2>3. ledger'[x] = ledger[x]
        BY <1>3, <1>14, <2>2 DEF PruneOrphans, Orphans, Ages
  <2> QED
      BY <1>4, <1>6, <1>7, <1>8, <1>14, <2>1, <2>3 DEF PruneOrphans, Kept, store
<1>15. ASSUME NEW o \in Ops, SweepSelect(o) PROVE Kept(x)'
  <2>1. Promised(x)
        BY <1>5, <1>15 DEF SweepSelect, world, promises
  <2>2. o # x
    <3> SUFFICES ASSUME o = x PROVE FALSE
        OBVIOUS
    <3>1. Owed(x) /\ vm.ver < x.ver /\ ops[x] \in Int /\ ledger[x].age \in Int
          BY <1>4, <2>1 DEF Rows, Ages
    <3>2. ~ledger[x].registered /\ ops[x] > Ceiling
          BY <1>15, <3>1, Constants DEF SweepSelect, Retained
    <3>3. ops[x] <= ledger[x].age /\ (ledger[x].age <= StallAge \/ ledger[x].age <= PendingWindow)
          BY <1>4, <2>1, <3>2 DEF Kept, RowKept
    <3> QED
        BY <3>1, <3>2, <3>3, Constants
  <2>3. PassKept(x)'
        BY <1>4, <1>15, <2>1, <2>2 DEF SweepSelect, Kept, PassKept, store
  <2> QED
      BY <1>4, <1>6, <1>7, <1>15, <2>1, <2>3 DEF SweepSelect, Kept, store, promises
<1>16. CASE SweepTeardown
  <2>1. Promised(x) /\ x \notin Refreshed
        BY <1>5, <1>16 DEF SweepTeardown, world, Promised
  <2>2. head = x /\ sweep.op # x
        BY <1>4, <1>16, <2>1 DEF SweepTeardown, Kept, PassKept, Refreshed
  <2>3. sweep'.op = sweep.op
        BY <1>16 DEF SweepTeardown, TypeOK
  <2>4. PassKept(x)'
        BY <1>4, <1>16, <2>1, <2>2, <2>3 DEF SweepTeardown, Kept, PassKept
  <2> QED
      BY <1>4, <1>6, <1>7, <1>16, <2>1, <2>2, <2>4 DEF SweepTeardown, Kept
<1>17. CASE SweepDelete
  <2>1. Promised(x) /\ x \notin Refreshed
        BY <1>5, <1>17 DEF SweepDelete, world, Promised
  <2>2. sweep.op # x
        BY <1>4, <2>1 DEF Kept, PassKept, Refreshed
  <2>3. ops'[x] = ops[x] /\ ledger'[x] = ledger[x]
        BY <1>3, <1>17, <2>2 DEF SweepDelete
  <2>4. PassKept(x)'
        BY <1>3, <1>4, <1>17, <2>1, <2>3, Constants DEF SweepDelete, Kept, PassKept, NoSweep
  <2> QED
      BY <1>4, <1>6, <1>7, <1>17, <2>1, <2>3, <2>4 DEF SweepDelete, Kept
<1>18. ASSUME NEW y \in AckOps, AuditRead(y) PROVE Kept(x)'
  <2>1. Promised(x)
        BY <1>5, <1>18 DEF AuditRead, world, promises
  <2>2. y = x => Mark(x) = "registered"
    <3> SUFFICES ASSUME y = x PROVE Mark(x) = "registered"
        OBVIOUS
    <3>1. Mark(x) # "none"
          BY <1>18 DEF AuditRead
    <3>2. CASE IsLatest(x)
          BY <3>1, <3>2, Marks
    <3>3. CASE ~IsLatest(x)
      <4>1. Len(chain) < x.ver /\ Len(chain) \in Nat
            BY <1>3, <2>1, <3>3 DEF Promised
      <4>2. ledger[x].age < Ttl
        <5>1. ledger[x].age \in Int
              BY <1>3 DEF Rows, Ages
        <5> QED
            BY <1>4, <2>1, <4>1, <5>1, Constants
      <4> QED
          BY <3>1, <4>1, <4>2, Marks
    <3> QED
        BY <3>2, <3>3
  <2>3. PassKept(x)'
        BY <1>4, <1>18, <2>1, <2>2 DEF AuditRead, Kept, PassKept, store
  <2> QED
      BY <1>4, <1>6, <1>7, <1>18, <2>1, <2>3 DEF AuditRead, Kept, store, promises
<1>19. CASE AuditMark
  <2>1. Promised(x) /\ x \notin lapsed'
        BY <1>5, <1>19 DEF AuditMark, world, Promised
  <2>2. PassKept(x)'
        BY <1>3, <1>4, <1>19, <2>1, Constants DEF AuditMark, Kept, PassKept, NoAudit, store
  <2>3. audit.op \in AckOps /\ audit.mark \in {"registered", "absent", "released"}
        BY <1>19 DEF AuditMark, LockInv, TypeOK
  <2>4. PICK y \in AckOps : y = audit.op
        BY <2>3
  <2>5. CASE y # x
    <3>1. \/ ledger' = [ledger EXCEPT ![y] = [ledger[y] EXCEPT !.registered = TRUE]]
          \/ ledger' = [ledger EXCEPT ![y] = [ledger[y] EXCEPT !.absent = ledger[y].age]]
          \/ ledger' = [ledger EXCEPT ![y] = [ledger[y] EXCEPT !.released = TRUE]]
          BY <1>19, <2>3, <2>4 DEF AuditMark
    <3>2. ledger'[x] = ledger[x]
          BY <1>3, <2>5, <3>1
    <3> QED
        BY <1>4, <1>6, <1>7, <1>19, <2>1, <2>2, <3>2 DEF AuditMark, Kept, store
  <2>6. CASE y = x
    <3>1. audit.mark = "registered"
          BY <1>4, <1>19, <2>1, <2>4, <2>6 DEF Kept, PassKept, AuditMark
    <3>2. ledger' = [ledger EXCEPT ![x].registered = TRUE]
          BY <1>19, <2>4, <2>6, <3>1 DEF AuditMark
    <3>3. /\ ledger'[x].registered = TRUE /\ ledger'[x].age = ledger[x].age
          /\ ledger'[x].absent = ledger[x].absent /\ ledger'[x].released = ledger[x].released
          BY <1>3, <3>2 DEF Rows
    <3>4. RowKept(x)'
          BY <1>2, <1>4, <1>19, <2>1, <3>3 DEF AuditMark, store, Kept, RowKept, Owed
    <3> QED
        BY <1>4, <1>7, <1>19, <2>1, <2>2, <3>4 DEF AuditMark, Kept, store
  <2> QED
      BY <2>5, <2>6
<1>20. CASE Tick
  <2>1. /\ Quiet /\ sweep = NoSweep /\ audit = NoAudit
        /\ UNCHANGED <<chain, vm, due, lapsed, graph, head, sweep, audit>>
        BY <1>20 DEF Tick, world, passes, NoPass
  <2>2. ~Replying(x) /\ ~Replying(x)'
        BY <1>2, <2>1 DEF Quiet, Replying
  <2>3. PICK n \in -1..PendingWindow : n = acked[x]
        BY <1>3
  <2>4. acked'[x] = IF n \in {-1, PendingWindow} THEN -1 ELSE n + 1
        BY <1>20, <2>3 DEF Tick
  <2>5. acked'[x] >= 0 => n >= 0 /\ n < PendingWindow /\ acked'[x] = n + 1
        BY <2>4, Constants
  <2>6. Promised(x)
        BY <2>1, <2>2, <2>3, <2>5 DEF Promised, IsLatest
  <2>7. Kept(x) /\ Owed(x) /\ lock = Free /\ head = x /\ ops[x] >= 0
        BY <1>4, <2>1, <2>6
  <2>8. PICK row \in Rows : row = ledger[x]
        BY <1>3
  <2>9. PICK a \in Ages : a = ops[x]
        BY <1>3
  <2>10. /\ row.age \in Int /\ row.age >= 0 /\ ~row.released /\ a >= 0 /\ a \in Int
         /\ row.age <= Ceiling + 1
         /\ n >= 0 => row.age <= n /\ row.absent = -1
         /\ row.registered \/ (a <= row.age /\ (row.age <= StallAge \/ row.age <= PendingWindow))
         BY <2>3, <2>7, <2>8, <2>9 DEF Kept, RowKept, Owed, Rows, Ages
  <2>11. /\ ledger'[x].registered = row.registered /\ ledger'[x].released = row.released
         /\ ledger'[x].absent = row.absent /\ ledger'[x].age = Older(row.age, LedgerCap)
         BY <1>20, <2>8 DEF Tick, Rows
  <2>12. ops'[x] = Older(a, Ceiling + 1)
         BY <1>3, <1>20, <2>9 DEF Tick
  <2>13. /\ Older(row.age, LedgerCap) \in Int /\ Older(row.age, LedgerCap) >= 0
         /\ Older(row.age, LedgerCap) <= row.age + 1
         /\ Older(a, Ceiling + 1) >= 0 /\ Older(a, Ceiling + 1) \in Int
         /\ Older(a, Ceiling + 1) <= a + 1
         /\ row.age < LedgerCap => Older(row.age, LedgerCap) = row.age + 1
         BY <2>10, Constants DEF Older
  <2>14. ASSUME ~row.registered
         PROVE  /\ ops'[x] <= ledger'[x].age
                /\ ledger'[x].age <= StallAge \/ ledger'[x].age <= PendingWindow
    <3>1. row.age < LedgerCap /\ ledger'[x].age = row.age + 1
          BY <2>10, <2>11, <2>13, <2>14, Constants
    <3>2. ops'[x] <= ledger'[x].age
          BY <2>10, <2>12, <2>13, <2>14, <3>1
    <3>3. CASE acked'[x] >= 0
          BY <2>3, <2>5, <2>10, <3>1, <3>2, <3>3, Constants
    <3>4. CASE ~(acked'[x] >= 0)
      <4>1. x \in due /\ IsLatest(x)
            BY <2>1, <2>2, <3>4 DEF Promised, DueInv
      <4>2. Mark(x) = "registered"
            BY <2>8, <2>14, <4>1, Marks
      <4>3. ~(ledger[x].age >= StallAge)
            BY <1>4, <1>20, <2>6, <2>7, <4>2 DEF Tick, Candidate
      <4> QED
          BY <2>8, <2>10, <3>1, <3>2, <4>3, Constants
    <3> QED
        BY <3>3, <3>4
  <2>15. RowKept(x)'
    <3>1. acked'[x] >= 0 => ledger'[x].age <= acked'[x] /\ ledger'[x].absent = -1
          BY <2>5, <2>10, <2>11, <2>13
    <3>2. Owed(x)'
          BY <2>10, <2>11, <2>13 DEF Owed
    <3> QED
        BY <2>2, <2>11, <2>14, <3>1, <3>2 DEF RowKept
  <2>16. CopyKept(x)'
    <3>1. ops'[x] >= 0 /\ graph = x.content
          BY <2>7, <2>12, <2>13 DEF Kept, CopyKept
    <3>2. \A h \in Handlers : req'[h].pc \notin Locked
          BY <1>1, <2>1 DEF Quiet, Locked
    <3> QED
        BY <1>1, <2>1, <2>7, <3>1, <3>2 DEF CopyKept
  <2>17. PassKept(x)'
         BY <1>3, <2>1, Constants DEF PassKept, NoSweep, NoAudit
  <2> QED
      BY <2>15, <2>16, <2>17 DEF Kept
<1> QED
    BY <1>9, <1>10, <1>11, <1>12, <1>13, <1>14, <1>15, <1>16, <1>17, <1>18, <1>19, <1>20
    DEF OtherStep

(* The whole invariant is inductive.                                          *)
LEMMA AckInvariant == Spec => []AckInv
<1>1. Init => AckInv
  <2> SUFFICES ASSUME Init PROVE AckInv
      OBVIOUS
  <2>1. TypeOK
        BY Constants, Blanks, FlagsAssumption DEF Init, TypeOK, Reqs
  <2>2. \A h \in Handlers : req[h] = Idle /\ req[h].pc = "idle"
        BY DEF Init, Idle
  <2>3. LockInv
        BY <2>2, OpsAssumption DEF Init, LockInv, Locked
  <2>4. WriteInv
        BY <2>2 DEF WriteInv, Locked
  <2>5. DueInv
        BY DEF Init, DueInv
  <2>6. PromiseInv
        BY <2>2 DEF Init, PromiseInv, Promised, Replying
  <2> QED
      BY <2>1, <2>3, <2>4, <2>5, <2>6 DEF AckInv
<1>2. AckInv /\ [Next]_vars => AckInv'
  <2> SUFFICES ASSUME AckInv, [Next]_vars PROVE AckInv'
      OBVIOUS
  <2>1. TypeOK /\ LockInv /\ WriteInv /\ DueInv /\ PromiseInv
        BY DEF AckInv
  <2>2. TypeOK' /\ LockInv' /\ WriteInv' /\ DueInv'
        BY <2>1, TypeStep, LockStep, WriteStep, DueStep
  <2>3. ASSUME NEW x \in AckOps, Promised(x)' PROVE Kept(x)'
    <3>1. CASE UNCHANGED vars
          BY <2>1, <2>3, <3>1
          DEF vars, store, world, passes, promises, PromiseInv, Promised, Replying, IsLatest,
              Kept, RowKept, CopyKept, PassKept, Owed
    <3>2. CASE Next
      <4>1. (\E h \in Handlers : HandlerStep(h)) \/ Crash \/ OtherStep
            BY <3>2 DEF Next, HandlerStep, OtherStep
      <4> QED
          BY <2>1, <2>3, <4>1, PromiseHandler, PromiseCrash, PromiseOthers
    <3> QED
        BY <3>1, <3>2
  <2> QED
      BY <2>2, <2>3 DEF AckInv, PromiseInv
<1> QED
    BY <1>1, <1>2, PTL DEF Spec

(* Whatever other requests, shares, crashes, failed writes and background     *)
(* passes do, overlapping the request or not, a core holds the bytes it ACKed *)
(* to a publisher while the publish transaction may be pending, or landed in  *)
(* time, until the version is in VM or the chain took another root, unless    *)
(* one of the gaps `lapsed` records has hit that copy since it was signed:    *)
(* the five gaps are the only ways in which a core loses bytes it promised.   *)
THEOREM OwedCopyStays == Spec => []OwedCopyIsKept
<1>1. AckInv => OwedCopyIsKept
  <2> SUFFICES ASSUME AckInv, NEW x \in AckOps \ lapsed, Outstanding(x) PROVE graph = x.content
      BY DEF OwedCopyIsKept
  <2>1. Promised(x)
        BY DEF Outstanding, Promised
  <2> QED
      BY <2>1 DEF AckInv, PromiseInv, Kept, CopyKept
<1> QED
    BY <1>1, AckInvariant, PTL

(* With the same exceptions, an ACKed copy that landed in time is promotable  *)
(* whenever no request holds the lock: its head, its operation rows, its      *)
(* bytes and its ledger row are all there for reconcile to find.              *)
THEOREM DueCopyIsReady == Spec => []DueCopyIsPromotable
<1>1. AckInv => DueCopyIsPromotable
  <2> SUFFICES ASSUME AckInv, NEW x \in due \ lapsed, Outstanding(x), lock = Free PROVE Promotable
      BY DEF DueCopyIsPromotable
  <2>1. x \in AckOps /\ TypeOK /\ LockInv /\ DueInv /\ PromiseInv
        BY DEF AckInv, TypeOK
  <2>2. Promised(x) /\ IsLatest(x)
        BY <2>1 DEF Outstanding, Promised, DueInv
  <2>3. /\ head = x /\ x \in Held /\ ~Corrupt /\ vm.ver < x.ver /\ Kept(x)
        BY <2>1, <2>2, PromiseHolds
  <2>4. x \in Ops /\ x # NoOp /\ x.ver >= 1 /\ x.ver \in Nat /\ vm.ver \in Nat
        BY <2>1, Constants DEF TypeOK
  <2>5. graph = x.content
        BY <2>3 DEF Kept, CopyKept
  <2> QED
      BY <2>2, <2>3, <2>4, <2>5 DEF Promotable, IsLatest
<1> QED
    BY <1>1, AckInvariant, PTL
===============================================================================
