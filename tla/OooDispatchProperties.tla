------------------------- MODULE OooDispatchProperties -------------------------
(***************************************************************************)
(* What the path from rename to completion promises.                         *)
(***************************************************************************)
EXTENDS OooDispatchPath, Functions

(***************************************************************************)
(* Where the uops of the reorder buffer are: <<place, position, pointer>>.     *)
(***************************************************************************)
In(place, sequence) == {<<place, k, sequence[k].robPointer>> : k \in DOMAIN sequence}
At(place, set) == {<<place, 0, uop.robPointer>> : uop \in set}
BeforeIssueQueues == In(<<"queue", 0>>, dispatchQueue) \cup In(<<"window", 0>>, window)
Whereabouts ==
    BeforeIssueQueues
      \cup (UNION {In(<<"issue", p>>, queue[p]) : p \in Ports}) \cup In(<<"output", 0>>, output)
      \cup (UNION {At(<<"address", p>>, address[p]) : p \in OrdinaryPorts})
      \cup (UNION {At(<<"operand", p>>, operand[p]) : p \in Ports})
      \cup At(<<"multiply", 0>>, multiplying) \cup At(<<"divide", 0>>, dividing) \cup At(<<"divided", 0>>, divided)
      \cup At(<<"barrier", 0>>, barrier) \cup At(<<"memory", 0>>, memory)
      \cup (UNION {At(<<"staged", l>>, staged[l]) : l \in Lanes})
DataWhereabouts ==
    {place \in BeforeIssueQueues : \E uop \in Range(live) :
        uop.robPointer = place[3] /\ IsStore(uop)}
      \cup (UNION {At(<<"slot", s>>, slots[s]) : s \in Slot}) \cup At(<<"output", 0>>, dataOutput)
      \cup {<<<<"sent", 0>>, 0, pointer>> : pointer \in dataSent}
Unfinished == {uop \in Range(live) : uop.robPointer \notin done}
StagedPointers == {uop.robPointer : uop \in UNION {staged[l] : l \in Lanes}}

(* Each of the unfinished uops of the reorder buffer is in exactly one place     *)
(* between rename and its registered result: none is dropped where a queue       *)
(* refuses, a window compacts or two results meet on one lane, none issues       *)
(* twice, and none survives a flush.                                         *)
NothingLostOrDuplicated ==
    /\ {place[3] : place \in Whereabouts} = {uop.robPointer : uop \in Unfinished}
    /\ Cardinality(Whereabouts) = Cardinality(Unfinished)

(* The data half of a store travels apart from its address and is, until the     *)
(* store completes, in exactly one place as well: no store enters one of the     *)
(* two queues and not the other.                                             *)
StoreDataFollowsStore ==
    LET stores == {uop \in Unfinished : IsStore(uop) /\ uop.robPointer \notin StagedPointers}
    IN  /\ {place[3] : place \in DataWhereabouts} = {uop.robPointer : uop \in stores}
        /\ Cardinality(DataWhereabouts) = Cardinality(stores)

(* Nothing waits for a register that has its result: whatever edge a result      *)
(* arrives at, while a uop enters a queue, moves up in it or stays, the uop is    *)
(* woken by it.                                                             *)
NoLostWakeup ==
    /\ \A p \in Ports : \A k \in DOMAIN queue[p] :
          /\ queue[p][k].psrc1 \in ready => queue[p][k].source1Ready
          /\ queue[p][k].psrc2 \in ready => queue[p][k].source2Ready
    /\ \A s \in Slot : \A data \in slots[s] : data.psrc \in ready => data.ready

(* Registers that a read port returns the value of: written, written by a        *)
(* registered result this cycle, or forwarded from the multiplier.             *)
Readable == ready \cup RegisteredTags \cup Tags(multiplying)
(* A uop that was woken early, before its sources were written, finds their      *)
(* values in the register file or on a bypass when it reads its operands; a      *)
(* store's data is read through the load/store port without the bypass of the    *)
(* multiplier's.                                                            *)
OperandsHoldResults ==
    [][/\ \A p \in Ports : \A uop \in operand'[p] \ operand[p] :
             /\ uop.psrc1 \in Readable
             /\ uop.psrc2 \in Readable \/ IsStore(uop)
       /\ dataSent' \ dataSent # {} =>
             \A data \in dataOutput : data.psrc \in ready \cup RegisteredTags]_pathAllVars

(* Every queue is a slice of the reorder buffer within its bounds: the window   *)
(* and the dispatch queue hold the youngest uops in order, each issue queue is    *)
(* sorted by age, so that its lowest ready slot is the oldest, and no group that   *)
(* a registered ready let in finds its queue or a slot taken.                  *)
AgeOf(pointer) == CHOOSE k \in DOMAIN live : live[k].robPointer = pointer
QueuesHoldProgramOrder ==
    /\ LET waiting == window \o dispatchQueue
       IN  waiting = SubSeq(live, Len(live) - Len(waiting) + 1, Len(live))
    /\ \A p \in Ports : \A j, k \in DOMAIN queue[p] :
          j < k => AgeOf(queue[p][j].robPointer) < AgeOf(queue[p][k].robPointer)
    /\ Len(dispatchQueue) <= DispatchQueueEntries /\ Len(window) <= DispatchWidth
    /\ \A p \in Ports : Len(queue[p]) <= IssueQueueEntries
    /\ Len(output) <= 2 /\ \A s \in Slot : Cardinality(slots[s]) <= 1

(* A serializing uop that has left its issue queue is the oldest of the reorder   *)
(* buffer and stays it until its result is registered: nothing older can still    *)
(* fault or redirect under its effects.                                       *)
SerializingIsOldest ==
    \A place \in Whereabouts :
      (place \notin BeforeIssueQueues /\ \A p \in Ports : place[1] # <<"issue", p>>) =>
        LET uop == live[AgeOf(place[3])] IN Serializing(uop) => uop = live[1]
=============================================================================
