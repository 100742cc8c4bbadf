---------------------------- MODULE MCStorageAck ----------------------------
(* One asset with a first version of two contents and an update.            *)
EXTENDS StorageAck, TLC
CONSTANTS a, b, h1, h2

Ack(v, c) == [kind |-> "ack", ver |-> v, content |-> c]
Share(v, c) == [kind |-> "share", ver |-> v, content |-> c]
TwoVersions == {Ack(1, a), Ack(1, b), Ack(2, b)}
UpdateShare == {Share(2, b)}
FirstVersion == {Ack(1, a)}
QueuedShare == {Share(1, a)}
SameHandlers == Permutations(Handlers)

(* A version that may still have to be promoted.                              *)
StillNeeded(x) == vm.ver < x.ver /\ (Len(chain) < x.ver \/ IsLatest(x))

(* The invariants speak of an outstanding copy that has not lapsed.  Without  *)
(* one, without a request left to receive and without a live request that can *)
(* still return or restore one, none appears any more: such a state is        *)
(* checked and not explored further.                                          *)
SomethingAtStake ==
    \/ \E x \in AckOps \ lapsed : Outstanding(x)
    \/ asked < MaxRequests /\ \E x \in AckOps : StillNeeded(x)
    \/ \E h \in Handlers :
          /\ req[h].live /\ StillNeeded(req[h].op)
          /\ req[h].asker = "remote" \/ Outstanding(req[h].op)

(* The two first versions differ only in that b is also the update's content: *)
(* of the histories that start with a landing of b, only that step is taken.  *)
Explored == SomethingAtStake /\ (chain = <<>> \/ chain[1] = a)
=============================================================================
