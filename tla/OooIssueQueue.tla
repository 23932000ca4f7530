----------------------------- MODULE OooIssueQueue -----------------------------
(***************************************************************************)
(* backend/OooIssueQueue.scala: the router and one issue queue per execution  *)
(* port, resident uops compacted in age order.  The load/store port has a     *)
(* two-slot registered output behind its queue; the others offer the selected  *)
(* uop in the cycle it is woken.                                            *)
(***************************************************************************)
EXTENDS OooCoreConfig, Sequences, FiniteSets

CONSTANTS
    Ports,                  \* of execution
    LoadStorePort,          \* the one with the registered output
    Capabilities,           \* function from Ports to sets of uop kinds
    IssueQueueEntries

ASSUME IssueQueueAssumption ==
    /\ LoadStorePort \in Ports
    /\ Ports \subseteq Nat /\ \E last \in Ports : Ports = 0 .. last
    /\ IssueQueueEntries \in Nat /\ IssueQueueEntries > 1

VARIABLES
    queue,                  \* per port
    enqueueReady,           \* enqueueReadyReg per port
    output, outputReady     \* outputSlots and outputEnqueueReady

issueQueueVars == <<queue, enqueueReady, output, outputReady>>

IssueQueueInit ==
    /\ queue = [p \in Ports |-> <<>>]
    /\ enqueueReady = [p \in Ports |-> TRUE]
    /\ output = <<>> /\ outputReady = TRUE

IsStore(uop) == uop.kind \in {"store", "sc"}
Serializing(uop) == uop.kind \in {"serial", "barrier", "preload", "ll", "sc"}

(***************************************************************************)
(* Router: each uop of the window takes the lowest ready port that can        *)
(* execute it and no older uop took; the first that finds none ends the group. *)
(***************************************************************************)
LowestOf(set) == CHOOSE x \in set : \A y \in set : x <= y
RoutePrefix(uops, portReady) ==
    LET route[k \in 0 .. Len(uops)] ==
          IF k = 0 THEN <<>>
          ELSE LET before == route[k - 1]
                   free == {p \in portReady : /\ uops[k].kind \in Capabilities[p]
                                              /\ \A j \in DOMAIN before : before[j] # p}
               IN  IF Len(before) < k - 1 \/ free = {} THEN before
                   ELSE Append(before, LowestOf(free))
    IN  route[Len(uops)]

(***************************************************************************)
(* Wakeup and selection in port p's queue; `tags` wake this cycle.            *)
(***************************************************************************)
Woken(uop, tags) ==
    [uop EXCEPT !.source1Ready = @ \/ uop.psrc1 \in tags,
                !.source2Ready = @ \/ uop.psrc2 \in tags]
(* A store issues for its address alone, a serializing uop as the oldest.      *)
(* Mutant: a serializing uop need not be the oldest.                          *)
ReadyAnywhere(p, uop, tags, robHead) ==
    /\ Woken(uop, tags).source1Ready
    /\ Woken(uop, tags).source2Ready \/ (p = LoadStorePort /\ IsStore(uop))
ReadyToIssue(p, uop, tags, robHead) ==
    /\ Woken(uop, tags).source1Ready
    /\ Woken(uop, tags).source2Ready \/ (p = LoadStorePort /\ IsStore(uop))
    /\ Serializing(uop) => uop.robPointer = robHead
Selected(p, tags, robHead) ==
    LET ready == {k \in DOMAIN queue[p] : ReadyToIssue(p, queue[p][k], tags, robHead)}
    IN  IF ready = {} THEN {} ELSE {LowestOf(ready)}

(* The queue after an edge: what is behind the uop that leaves moves up by one    *)
(* slot, and wakeups of the cycle reach the uops that stay, also those that move   *)
(* up, and the one that enters.                                              *)
(* Mutant: a uop that moves up keeps the ready bits it had.                   *)
MovedUp(k, dequeued) == \E i \in dequeued : i < k
StayingMovedUnwoken(p, k, dequeued, tags) ==
    IF MovedUp(k, dequeued) THEN queue[p][k] ELSE Woken(queue[p][k], tags)
Staying(p, k, dequeued, tags) == Woken(queue[p][k], tags)
AfterEdge(p, dequeued, entering, tags) ==
    LET from(k) == IF \E i \in dequeued : i <= k THEN k + 1 ELSE k
    IN  [k \in 1 .. Len(queue[p]) - Cardinality(dequeued) |->
            Staying(p, from(k), dequeued, tags)]
          \o [k \in DOMAIN entering |-> Woken(entering[k], tags)]

(* Ready is registered and describes the previous cycle: one slot is reserved.  *)
ReadyNextCycle(p) == Len(queue[p]) < IssueQueueEntries - 1

(* One edge of all queues: `dequeued[p]` leave the queue of p, `entering[p]`    *)
(* enter it, `taken` says whether the output slot's uop is taken.              *)
IssueQueueStep(dequeued, entering, tags, taken, flush) ==
    /\ enqueueReady' = [p \in Ports |-> ReadyNextCycle(p)]
    /\ IF flush
       THEN /\ queue' = [p \in Ports |-> <<>>]
            /\ output' = <<>> /\ outputReady' = TRUE
       ELSE LET pushed == dequeued[LoadStorePort]
                rest == IF taken THEN Tail(output) ELSE output
            IN  /\ queue' = [p \in Ports |-> AfterEdge(p, dequeued[p], entering[p], tags)]
                /\ output' = rest \o [k \in 1 .. Cardinality(pushed) |->
                       queue[LoadStorePort][CHOOSE i \in pushed : TRUE]]
                /\ outputReady' = (Len(rest) + Cardinality(pushed) < 2)
=============================================================================
