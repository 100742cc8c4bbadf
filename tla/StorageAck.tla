------------------------------ MODULE StorageAck ------------------------------
(* A core node's side of StorageACK for one Knowledge Asset: the handler that *)
(* persists a copy, signs and records it, the gossip of shares into the same  *)
(* shared-memory (SWM) graph, the chain, promotion into verifiable memory     *)
(* (VM), and the background passes that age copies out.                       *)
(*                                                                            *)
(* Packages publisher (storage-ack-handler, graph-scoped-ack-persistence,     *)
(* storage-ack-ledger, workspace-handler) and agent (storage-ack-retention,   *)
(* dkg-agent-lifecycle, dkg-agent-vm-promotion).  Content stands for a public *)
(* quad set with its Merkle root and digest.  Times are ages in abstract      *)
(* units: -1 is "no timestamp", and an age stops growing one unit past the    *)
(* largest bound it is compared with.                                         *)
EXTENDS Integers, Sequences, FiniteSets

CONSTANTS
    Contents,       \* the contents an assertion may have
    MaxVersion,     \* the number of roots the chain may take
    AckOps,         \* StorageACK operations: one id per (version, content)
    ShareOps,       \* share operations, from gossip or queued locally
    Handlers,       \* concurrent handler executions
    PendingWindow,  \* pendingAckTxWindowMs
    StallAge,       \* VM_PROMOTION_STALL_THRESHOLD_MS
    Ttl,            \* sharedMemoryTtlMs
    Ceiling,        \* the retention ceiling of a StorageACK copy
    Companions,     \* whether the asset may have a durable root companion
    MaxRequests,    \* bound on the requests received
    MaxFaults,      \* bound on deadlines, failed writes and crashes
    NoContent, Free

Versions == 1..MaxVersion
OpsOf(kind) == [kind : {kind}, ver : Versions, content : Contents]
Ops == AckOps \cup ShareOps
NoOp == [kind |-> "none", ver |-> 0, content |-> NoContent]
Ages == -1..(Ceiling + 1)
LedgerCap == (IF StallAge > Ttl THEN StallAge ELSE Ttl) + 1
Askers == {"remote", "local"}

ASSUME OpsAssumption == /\ AckOps \subseteq OpsOf("ack")
                        /\ ShareOps \subseteq OpsOf("share")
                        /\ NoContent \notin Contents
                        /\ Free \notin Handlers
ASSUME TimesAssumption == /\ {PendingWindow, StallAge, Ttl, Ceiling} \subseteq Nat
                          /\ PendingWindow < Ttl /\ StallAge < Ceiling
                          /\ Ttl < Ceiling
                          /\ {MaxRequests, MaxFaults, MaxVersion} \subseteq Nat
ASSUME FlagsAssumption == Companions \subseteq BOOLEAN

VARIABLES
    graph,   \* the content of the asset's SWM assertion graph
    ops,     \* age of each operation's metadata rows, -1 when there are none
    head,    \* the operation the SWM head names
    ledger,  \* the signed-ACK ledger
    chain,   \* the contents of the landed versions
    vm,      \* the version and content confirmed in VM
    companion, \* the root graph is written together with a durable companion
    req,     \* the handler executions
    lock,    \* owner of the per-asset write lock
    sweep,   \* the operation the TTL cleanup is evicting
    audit,   \* the row the promotion audit has classified
    acked,   \* age of each ACK returned to a publisher, -1 past the pending window
    due,     \* those of the latest version whose copy landed while pending
    lapsed,  \* copies that a gap of the code has hit since they were last signed whole
    asked,   \* requests received so far
    faults   \* deadlines, failed writes and crashes so far

store == <<graph, ops, head>>
world == <<chain, vm, companion>>
passes == <<sweep, audit>>
promises == <<acked, due, lapsed>>
spent == <<asked, faults>>
vars == <<store, ledger, world, req, lock, passes, promises, spent>>

EmptyRow == [age |-> -1, absent |-> -1, registered |-> FALSE, released |-> FALSE]
Rows == [age : Ages, absent : Ages, registered : BOOLEAN, released : BOOLEAN]
Idle == [pc |-> "idle", op |-> NoOp, writes |-> FALSE, asker |-> "remote",
         live |-> FALSE, supersede |-> {}]
NoSweep == [op |-> NoOp, stage |-> "none"]
NoAudit == [op |-> NoOp, mark |-> "none"]

Pcs == {"idle", "lock", "replace", "deleteMeta", "insertMeta", "deleteHead",
        "insertHead", "supersede", "sign", "reply"}
TypeOK ==
    /\ graph \in Contents \cup {NoContent}
    /\ ops \in [Ops -> Ages]
    /\ head \in Ops \cup {NoOp}
    /\ ledger \in [AckOps -> Rows]
    /\ chain \in Seq(Contents) /\ Len(chain) <= MaxVersion
    /\ vm \in [ver : 0..MaxVersion, content : Contents \cup {NoContent}]
    /\ companion \in BOOLEAN
    /\ req \in [Handlers -> [pc : Pcs, op : AckOps \cup {NoOp}, writes : BOOLEAN,
                             asker : Askers, live : BOOLEAN, supersede : SUBSET AckOps]]
    /\ lock \in Handlers \cup {Free}
    /\ sweep \in [op : Ops \cup {NoOp}, stage : {"none", "selected", "torn"}]
    /\ audit \in [op : AckOps \cup {NoOp},
                  mark : {"none", "registered", "absent", "released"}]
    /\ acked \in [AckOps -> -1..PendingWindow]
    /\ due \in SUBSET AckOps /\ lapsed \in SUBSET AckOps
    /\ asked \in 0..MaxRequests /\ faults \in 0..MaxFaults

Init ==
    /\ graph = NoContent
    /\ ops = [o \in Ops |-> -1]
    /\ head = NoOp
    /\ ledger = [x \in AckOps |-> EmptyRow]
    /\ chain = <<>>
    /\ vm = [ver |-> 0, content |-> NoContent]
    /\ companion \in Companions
    /\ req = [h \in Handlers |-> Idle]
    /\ lock = Free
    /\ sweep = NoSweep
    /\ audit = NoAudit
    /\ acked = [x \in AckOps |-> -1]
    /\ due = {} /\ lapsed = {}
    /\ asked = 0 /\ faults = 0

-------------------------------------------------------------------------------
(* What the handler decides from.                                             *)

(* A head whose operation rows are gone reads as corrupt.                     *)
Corrupt == head # NoOp /\ ops[head] < 0

Owed(x) == ledger[x].age >= 0 /\ ~ledger[x].released

(* The signed copies still owed for the head's version, head alias or not;    *)
(* none when there is no head.                                                *)
Held == {x \in AckOps : x.ver = head.ver /\ Owed(x)}

SameContent(x) == head.ver = x.ver /\ head.content = x.content

\* Mutant of NoLongerPending: any copy that has not landed gives way at once.
NoLongerPendingAtOnce == Len(chain) < head.ver

(* An owed copy of the same version gives way only once it is not on chain    *)
(* and cannot be pending any more.                                            *)
NoLongerPending ==
    /\ Len(chain) < head.ver
    /\ \A y \in Held : ledger[y].absent >= 0 \/ ledger[y].age > PendingWindow

(* A newer version waits until the held one is in VM or the chain is past it. *)
NoLongerNeeded == vm.ver >= head.ver \/ Len(chain) > head.ver

Displaces(x) == \/ Held = {}
                \/ x.ver = head.ver /\ NoLongerPending
                \/ x.ver > head.ver /\ NoLongerNeeded

(* planStorageAckHeadPersistence and checkAckCopyAgainstHead.  A local        *)
(* self-ACK names the queued share it expects at the head and preserves it.   *)
Accepts(x, asker) ==
    /\ ~Corrupt
    /\ IF asker = "local"
       THEN head \in ShareOps /\ SameContent(x)
       ELSE SameContent(x) \/ Displaces(x)

\* Mutant of Supersedes: releases the operation at the head, a share included.
SupersedesHead(x) ==
    IF SameContent(x) \/ (x.ver > head.ver /\ vm.ver >= head.ver) THEN {} ELSE {head}

Supersedes(x) ==
    IF SameContent(x) \/ (x.ver > head.ver /\ vm.ver >= head.ver) THEN {} ELSE Held

-------------------------------------------------------------------------------
(* The handler.                                                               *)

Quiet == \A h \in Handlers : req[h].pc = "idle"
NoPass == sweep = NoSweep /\ audit = NoAudit

(* A request is accepted before the lock: an inline payload has the root, or  *)
(* the SWM graph read just now has it.  commitCopy will write the bytes of an *)
(* inline payload, or of any with the root companion.  A local self-ACK is    *)
(* asked for a share of the same assertion.                                   *)
Request(h, x, inline, asker) ==
    /\ req[h].pc = "idle"
    /\ asked < MaxRequests /\ asked' = asked + 1
    /\ inline \/ graph = x.content
    /\ asker = "local" => \E s \in ShareOps : s.ver = x.ver /\ s.content = x.content
    /\ req' = [req EXCEPT ![h] = [Idle EXCEPT !.pc = "lock", !.op = x, !.live = TRUE,
                                              !.writes = inline \/ companion,
                                              !.asker = asker]]
    /\ UNCHANGED <<store, ledger, world, lock, passes, promises, faults>>

(* The request ends without an ACK and leaves what it has written.            *)
Ends(h) == /\ req' = [req EXCEPT ![h] = Idle]
           /\ lock' = IF lock = h THEN Free ELSE lock
           /\ UNCHANGED <<store, ledger, world, passes, acked, due, asked>>

Faults == faults < MaxFaults /\ faults' = faults + 1

Decline(h) == /\ req[h].pc = "lock" /\ lock = Free
              /\ ~Accepts(req[h].op, req[h].asker)
              /\ Ends(h) /\ UNCHANGED <<lapsed, faults>>

Decide(h) ==
    LET r == req[h] IN
    /\ r.pc = "lock" /\ r.live /\ lock = Free
    /\ Accepts(r.op, r.asker)
    /\ lock' = h
    /\ req' = [req EXCEPT ![h].pc = "replace",
                          ![h].supersede = IF r.asker = "local" THEN {} ELSE Supersedes(r.op)]
    /\ UNCHANGED <<store, ledger, world, passes, promises, spent>>

Goes(h, pc) == req' = [req EXCEPT ![h].pc = pc] /\ UNCHANGED lock

(* Without a write, a graph replaced since the request was verified stays     *)
(* unseen.                                                                    *)
ReplaceGraph(h) ==
    LET r == req[h] IN
    /\ r.pc = "replace" /\ r.live
    /\ graph' = IF r.writes THEN r.op.content ELSE graph
    /\ lapsed' = lapsed \cup {x \in {r.op} : ~r.writes /\ graph # x.content}
    /\ Goes(h, "deleteMeta")
    /\ UNCHANGED <<ops, head, ledger, world, passes, acked, due, spent>>

(* Only the first mutation of the sequence may be cancelled.                  *)
DeleteMeta(h) ==
    /\ req[h].pc = "deleteMeta" /\ (req[h].live \/ req[h].writes)
    /\ ops' = [ops EXCEPT ![req[h].op] = -1]
    /\ Goes(h, "insertMeta")
    /\ UNCHANGED <<graph, head, ledger, world, passes, promises, spent>>

InsertMeta(h) ==
    /\ req[h].pc = "insertMeta"
    /\ ops' = [ops EXCEPT ![req[h].op] = 0]
    /\ Goes(h, IF req[h].asker = "local" THEN "supersede" ELSE "deleteHead")
    /\ UNCHANGED <<graph, head, ledger, world, passes, promises, spent>>

DeleteHead(h) ==
    /\ req[h].pc = "deleteHead"
    /\ head' = NoOp
    /\ Goes(h, "insertHead")
    /\ UNCHANGED <<graph, ops, ledger, world, passes, promises, spent>>

InsertHead(h) ==
    /\ req[h].pc = "insertHead"
    /\ head' = req[h].op
    /\ Goes(h, "supersede")
    /\ UNCHANGED <<graph, ops, ledger, world, passes, promises, spent>>

Supersede(h) ==
    /\ req[h].pc = "supersede"
    /\ ledger' = [x \in AckOps |-> IF x \in req[h].supersede
                                   THEN [ledger[x] EXCEPT !.released = TRUE]
                                   ELSE ledger[x]]
    /\ Goes(h, "sign")
    /\ UNCHANGED <<store, world, passes, promises, spent>>

(* A live request signs; the row replaces every mark but the registration,    *)
(* and the lock is released after it.                                         *)
SignAndRecord(h) ==
    LET x == req[h].op IN
    /\ req[h].pc = "sign" /\ req[h].live
    /\ ledger' = [ledger EXCEPT ![x] = [EmptyRow EXCEPT !.age = 0,
                                        !.registered = ledger[x].registered]]
    /\ req' = [req EXCEPT ![h].pc = "reply"]
    /\ lock' = Free
    /\ lapsed' = lapsed \ {y \in {x} : head = y /\ ops[y] >= 0 /\ graph = y.content}
    /\ UNCHANGED <<store, world, passes, acked, due, spent>>

IsLatest(x) == Len(chain) = x.ver /\ chain[x.ver] = x.content

Reply(h) ==
    LET r == req[h] IN
    /\ r.pc = "reply" /\ r.live
    /\ r.asker = "remote" => acked' = [acked EXCEPT ![r.op] = 0]
    /\ r.asker = "local" => UNCHANGED acked
    /\ due' = due \cup {x \in {r.op} : r.asker = "remote" /\ IsLatest(x)}
    /\ req' = [req EXCEPT ![h] = Idle]
    /\ UNCHANGED <<store, ledger, world, lock, passes, lapsed, spent>>

(* runWithDeadline answers with a decline and aborts the work's signal.       *)
Deadline(h) ==
    /\ req[h].live /\ Faults
    /\ req' = [req EXCEPT ![h].live = FALSE]
    /\ UNCHANGED <<store, ledger, world, lock, passes, promises, asked>>

Abort(h) ==
    /\ ~req[h].live
    /\ req[h].pc \in {"lock", "replace", "sign", "reply"}
            \cup IF req[h].writes THEN {} ELSE {"deleteMeta"}
    /\ Ends(h) /\ UNCHANGED <<lapsed, faults>>

(* The copies a handler has deleted the rows or the head of and not yet       *)
(* inserted: two writes, so a stop here leaves neither.                       *)
HalfWritten(h) == {x \in {req[h].op} : req[h].pc \in {"insertMeta", "insertHead"}}

(* A store write throws: the request declines, the writes before it stay.     *)
StoreFails(h) ==
    /\ req[h].pc \in {"replace", "deleteMeta", "insertMeta", "deleteHead", "insertHead",
                      "supersede", "sign"}
    /\ lapsed' = lapsed \cup HalfWritten(h)
    /\ Ends(h) /\ Faults

Crash ==
    /\ Faults
    /\ ~Quiet \/ ~NoPass
    /\ lapsed' = lapsed \cup UNION {HalfWritten(h) : h \in Handlers}
    /\ req' = [h \in Handlers |-> Idle]
    /\ lock' = Free
    /\ sweep' = NoSweep /\ audit' = NoAudit
    /\ UNCHANGED <<store, ledger, world, acked, due, asked>>

-------------------------------------------------------------------------------
(* Shares, the chain, VM.                                                     *)

(* A share is applied under the lock over no head, or over an older head that *)
(* is not an owed unpromoted copy: the graph, the rows and the head, the last *)
(* two as a delete and an insert.  A failure leaves the `done` writes made.   *)
ShareWrites == 5
GossipShare(s, done) ==
    /\ lock = Free /\ ~Corrupt
    /\ s.ver > head.ver /\ (Held = {} \/ vm.ver >= head.ver)
    /\ graph' = s.content
    /\ ops' = [ops EXCEPT ![s] = IF done = 1 THEN @ ELSE IF done = 2 THEN -1 ELSE 0]
    /\ head' = IF done < 4 THEN head ELSE IF done = 4 THEN NoOp ELSE s
    /\ IF done = ShareWrites THEN UNCHANGED faults ELSE Faults
    /\ UNCHANGED <<ledger, world, req, lock, passes, promises, asked>>

(* An exact replay rewrites the bytes with the companion.                     *)
ReplayShare(s) ==
    /\ lock = Free /\ head = s /\ ~Corrupt /\ companion
    /\ graph' = s.content
    /\ UNCHANGED <<ops, head, ledger, world, req, lock, passes, promises, spent>>

(* The chain takes the next version of the asset.                             *)
Land(c) ==
    /\ Len(chain) < MaxVersion
    /\ chain' = Append(chain, c)
    /\ due' = {x \in AckOps : acked[x] >= 0 /\ x.ver = Len(chain) + 1 /\ x.content = c}
    /\ UNCHANGED <<store, ledger, vm, companion, req, lock, passes, acked, lapsed, spent>>

(* Reconcile: the head's copy becomes VM when its bytes have the latest root. *)
(* An update reaches it only through an owed ledger row.                      *)
Promotable ==
    /\ head # NoOp /\ ~Corrupt /\ Len(chain) > 0
    /\ graph = head.content /\ graph = chain[Len(chain)]
    /\ head.ver > vm.ver
    /\ head.ver > 1 => \E x \in Held : IsLatest(x)

Promote ==
    /\ Promotable
    /\ vm' = [ver |-> head.ver, content |-> graph]
    /\ UNCHANGED <<store, ledger, chain, companion, req, lock, passes, promises, spent>>

(* The SWM twin of a confirmed asset is retired under the lock.               *)
RetireTwin ==
    /\ lock = Free /\ vm.ver > 0
    /\ \/ head = NoOp /\ graph = vm.content
       \/ /\ ~Corrupt
          /\ head.ver = vm.ver /\ head.content = vm.content
          /\ graph \in {vm.content, NoContent}
    /\ graph' = NoContent
    /\ head' = NoOp
    /\ ops' = [o \in Ops |-> IF o.ver <= vm.ver THEN -1 ELSE ops[o]]
    /\ UNCHANGED <<ledger, world, req, lock, passes, promises, spent>>

-------------------------------------------------------------------------------
(* The background passes.                                                     *)

(* pruneStorageAckLedgerOrphans: one store update.  A copy whose rows a        *)
(* request is rewriting looks like an orphan.                                 *)
Orphans == {x \in AckOps : ledger[x].age >= 0 /\ ops[x] < 0}
PruneOrphans ==
    /\ Orphans # {}
    /\ ledger' = [x \in AckOps |-> IF x \in Orphans THEN EmptyRow ELSE ledger[x]]
    /\ lapsed' = lapsed \cup (Orphans \cap UNION {HalfWritten(h) : h \in Handlers})
    /\ UNCHANGED <<store, world, req, lock, passes, acked, due, spent>>

\* Mutant of Retained: the ceiling also ends a copy known to be on chain.
RetainedToCeiling(o) ==
    /\ o \in AckOps
    /\ Owed(o) /\ vm.ver < o.ver
    /\ ops[o] <= Ceiling

(* An owed copy outlives the TTL while it is below the ceiling, and past the  *)
(* ceiling once the audit saw it registered.                                  *)
Retained(o) ==
    /\ o \in AckOps
    /\ Owed(o) /\ vm.ver < o.ver
    /\ ledger[o].registered \/ ops[o] <= Ceiling

SweepSelect(o) ==
    /\ sweep = NoSweep
    /\ ops[o] > Ttl /\ ~Retained(o)
    /\ sweep' = [op |-> o, stage |-> "selected"]
    /\ UNCHANGED <<store, ledger, world, req, lock, audit, promises, spent>>

(* The cleanup selects outside the lock and does not look again: an operation *)
(* written anew since, or being written, is evicted all the same.             *)
Refreshed == {x \in AckOps : x = sweep.op /\ ops[x] <= Ttl}

(* Under the lock: the graph and the head go only with the head's operation.  *)
SweepTeardown ==
    /\ sweep.stage = "selected" /\ lock = Free
    /\ graph' = IF head = sweep.op THEN NoContent ELSE graph
    /\ head' = IF head = sweep.op THEN NoOp ELSE head
    /\ sweep' = [sweep EXCEPT !.stage = "torn"]
    /\ lapsed' = lapsed \cup Refreshed
    /\ UNCHANGED <<ops, ledger, world, req, lock, audit, acked, due, spent>>

SweepDelete ==
    /\ sweep.stage = "torn"
    /\ ops' = [ops EXCEPT ![sweep.op] = -1]
    /\ ledger' = IF sweep.op \in AckOps THEN [ledger EXCEPT ![sweep.op] = EmptyRow] ELSE ledger
    /\ sweep' = NoSweep
    /\ lapsed' = lapsed \cup Refreshed
    /\ UNCHANGED <<graph, head, world, req, lock, audit, acked, due, spent>>

(* classifyStorageAckCopy and recordStorageAckAbsence: absence is recorded    *)
(* past the TTL and releases the copy when seen again an interval later,      *)
(* which an age at its cap no longer shows.                                   *)
Landed(x) == IsLatest(x)
Overtaken(x) == Len(chain) > x.ver \/ (Len(chain) = x.ver /\ chain[x.ver] # x.content)
Mark(x) ==
    LET row == ledger[x] IN
    CASE Landed(x) -> IF row.registered THEN "none" ELSE "registered"
      [] Overtaken(x) -> "released"
      [] OTHER -> CASE row.age < Ttl -> "none"
                    [] row.age >= Ttl /\ row.absent < Ttl -> "absent"
                    [] OTHER -> IF row.age > row.absent \/ row.age = LedgerCap
                                THEN "released" ELSE "none"

Candidate(x) == Owed(x) /\ ledger[x].age >= StallAge /\ vm.ver < x.ver

(* The update lane looks at an owed update before it stalls, and records what *)
(* the chain says of it but never an absence.                                 *)
PendingUpdate(x) == Owed(x) /\ x.ver > 1 /\ vm.ver < x.ver /\ (Landed(x) \/ Overtaken(x))

AuditRead(x) ==
    /\ audit = NoAudit
    /\ Candidate(x) \/ PendingUpdate(x)
    /\ Mark(x) # "none"
    /\ audit' = [op |-> x, mark |-> Mark(x)]
    /\ UNCHANGED <<store, ledger, world, req, lock, sweep, promises, spent>>

(* The mark is written whatever became of the row since: an absence read for  *)
(* an old signature lands on a fresh one.                                     *)
AuditMark ==
    LET x == audit.op IN
    /\ audit # NoAudit
    /\ lapsed' = lapsed \cup {y \in {x} : audit.mark # "registered" /\ ledger[y].age < Ttl}
    /\ ledger' = CASE audit.mark = "registered" -> [ledger EXCEPT ![x].registered = TRUE]
                   [] audit.mark = "absent" -> [ledger EXCEPT ![x].absent = ledger[x].age]
                   [] audit.mark = "released" -> [ledger EXCEPT ![x].released = TRUE]
    /\ audit' = NoAudit
    /\ UNCHANGED <<store, world, req, lock, sweep, acked, due, spent>>

-------------------------------------------------------------------------------
(* A unit of time is longer than a request or a pass, and the audit meets a   *)
(* landed copy before it grows a unit older.                                  *)
Older(age, cap) == IF age < 0 \/ age >= cap THEN age ELSE age + 1
Tick ==
    /\ Quiet /\ NoPass
    /\ \A x \in AckOps : ~(Candidate(x) /\ Mark(x) = "registered")
    /\ ops' = [o \in Ops |-> Older(ops[o], IF o \in AckOps THEN Ceiling + 1 ELSE Ttl + 1)]
    /\ ledger' = [x \in AckOps |-> [ledger[x] EXCEPT !.age = Older(@, LedgerCap)]]
    /\ acked' = [x \in AckOps |-> IF acked[x] \in {-1, PendingWindow} THEN -1 ELSE acked[x] + 1]
    /\ UNCHANGED <<graph, head, world, req, lock, passes, due, lapsed, spent>>

Commit(h) == \/ Decline(h) \/ Decide(h) \/ ReplaceGraph(h)
             \/ DeleteMeta(h) \/ InsertMeta(h) \/ DeleteHead(h) \/ InsertHead(h)
             \/ Supersede(h) \/ SignAndRecord(h) \/ Reply(h) \/ Abort(h)

Next ==
    \/ \E h \in Handlers :
          \/ \E x \in AckOps, inline \in BOOLEAN, a \in Askers : Request(h, x, inline, a)
          \/ Commit(h) \/ Deadline(h) \/ StoreFails(h)
    \/ Crash
    \/ \E s \in ShareOps : ReplayShare(s) \/ \E done \in 1..ShareWrites : GossipShare(s, done)
    \/ \E c \in Contents : Land(c)
    \/ Promote \/ RetireTwin \/ PruneOrphans
    \/ \E o \in Ops : SweepSelect(o)
    \/ SweepTeardown \/ SweepDelete
    \/ \E x \in AckOps : AuditRead(x)
    \/ AuditMark \/ Tick

Spec == Init /\ [][Next]_vars

-------------------------------------------------------------------------------
(* An ACK returned to a publisher is outstanding while its transaction may be *)
(* pending, or has landed in that time, until its version is in VM or the     *)
(* chain has taken another root.                                              *)
Outstanding(x) ==
    /\ acked[x] >= 0 \/ x \in due
    /\ vm.ver < x.ver
    /\ Len(chain) < x.ver \/ IsLatest(x)

(* A core that returned an ACK to a publisher still holds the bytes while the *)
(* ACK is outstanding, whatever other requests, shares, faults and background *)
(* passes did, unless one of the five gaps of the code that `lapsed` records  *)
(* has hit the copy since it was last signed with everything in place: it was *)
(* accepted against a graph that changed before the lock, its rewrite stopped *)
(* between a delete and its insert, the prune took it for an orphan inside    *)
(* such a rewrite, or the cleanup or the audit acted on a choice made before  *)
(* the copy was signed again.                                                 *)
OwedCopyIsKept ==
    \A x \in AckOps \ lapsed : Outstanding(x) => graph = x.content

(* A copy that was ACKed to a publisher and landed in time can be promoted    *)
(* into VM whenever no request is rewriting it, until the chain moves on: its *)
(* bytes, its head, its operation rows and, for an update, its ledger row are *)
(* all there, unless one of the same five gaps has hit it.                    *)
DueCopyIsPromotable ==
    \A x \in due \ lapsed : Outstanding(x) /\ lock = Free => Promotable

(* The TTL cleanup never deletes the bytes of a copy the core signed, still   *)
(* owes and retains.                                                          *)
TtlSparesOwedCopy ==
    [][SweepTeardown => \A x \in AckOps :
          Retained(x) /\ SameContent(x) /\ graph = x.content => graph' = graph]_vars
===============================================================================
