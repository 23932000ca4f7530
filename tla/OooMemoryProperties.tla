-------------------------- MODULE OooMemoryProperties --------------------------
(***************************************************************************)
(* What the load/store queue promises the program and the memory.            *)
(***************************************************************************)
EXTENDS OooMemoryBackend

Live(i) == \E k \in DOMAIN window : IsStore(window[k]) /\ window[k].index = i
ValidStores == {i \in StoreIndex : stores[i].valid}
ValidLoads == {i \in LoadIndex : loads[i].valid}
Position(pointer) == 1 + ((pointer - robHead) % PointerModulus)

(* A load that retires has read every byte from the youngest older store, in   *)
(* program order, or from a memory that already had all of them: a load that   *)
(* read anything else is behind a redirect that discards it.                  *)
RetiredLoadsSeeOlderStores ==
    \A k \in DOMAIN window :
        window[k].stale =>
            redirectPending \/ \E j \in 1 .. k - 1 : Redirects(window[j])

(* What is buffered for memory is the oldest retired store it still lacks.     *)
MemoryTakesStoresInOrder ==
    \A r \in requestBuffer : r.isWrite /\ ~r.uncached =>
        undrained # <<>> /\ undrained[1].index = r.index

(* In ring order from the head, the committed cached slots the cache has not    *)
(* accepted are exactly the stores memory still has to take.                   *)
RingSlots == [k \in 1 .. StoreQueueEntries |-> (storeHead + k - 1) % StoreQueueEntries]
Undelivered(i) ==
    LET s == stores[i]
    IN  /\ s.valid /\ s.committed /\ ~s.uncached /\ (s.isSc => s.scSuccess)
        /\ i \notin accepted
CommittedSlotsAreUndrained ==
    /\ SelectSeq(RingSlots, Undelivered) = [k \in DOMAIN undrained |-> undrained[k].index]
    /\ \A k \in DOMAIN undrained :
          LET s == stores[undrained[k].index]
          IN  s.completed /\ s.dataReady /\ s.translationDone

(* No retired store is lost, whatever is flushed, and memory takes cached       *)
(* stores in program order, once each, and never one that has not retired.     *)
RetiredStoresKept == MemoryTakesStoresInOrder /\ CommittedSlotsAreUndrained

(* The allocator and the queues agree: outside a drain its counts are the      *)
(* occupied slots, and no slot it could hand out is occupied.                 *)
AllocatorMatchesQueues ==
    /\ ~drainAfterFlush =>
          /\ storeOccupancy = Cardinality(ValidStores)
          /\ \A n \in 0 .. StoreQueueEntries - storeOccupancy - 1 :
                AllocatedStoreIndex(n) \notin ValidStores
    /\ loadOccupancy = Cardinality(ValidLoads)
    /\ \A n \in 0 .. LoadQueueEntries - loadOccupancy - 1 :
          AllocatedLoadIndex(n) \notin ValidLoads

(* No completion is lost or made twice: an access the queue regards as          *)
(* complete is so in the reorder buffer, or its completion is registered, and   *)
(* a registered completion belongs to an access that waits for it.            *)
Owed == completion \cup aguException
QueueEntry(u) == IF IsLoad(u) THEN loads[u.index] ELSE stores[u.index]
NoCompletionLostOrRepeated ==
    /\ \A k \in DOMAIN window :
          IsMemory(window[k]) /\ QueueEntry(window[k]).completed =>
              window[k].done # "no" \/ \E c \in Owed : c.robPointer = Pointer(k)
    /\ \A c \in Owed :
          /\ Position(c.robPointer) <= Len(window)
          /\ window[Position(c.robPointer)].done = "no"
    /\ completion \cap aguException = {}

(* An answer of the translator reaches the access it was asked for, and the     *)
(* registered copy of the scheduled load never knows less or other than the     *)
(* queue does.                                                              *)
TranslationReachesItsOwner ==
    /\ translation.active =>
          LET e == IF translation.store THEN stores[translation.index]
                   ELSE loads[translation.index]
          IN  /\ e.valid /\ e.addressReady /\ ~e.translationDone
              /\ e.robPointer = translation.robPointer
    /\ LoadHeadReady =>
          /\ Load.translationDone = LoadHead.translationDone
          /\ Load.word = LoadHead.word /\ Load.uncached = LoadHead.uncached
          /\ Load.mask = LoadHead.mask

(* An uncached access happens at most once per uop and only if that uop then    *)
(* retires: a recovery discards no uop memory has already seen.               *)
UncachedAccessesHappenOnce ==
    \A k \in DOMAIN window :
        /\ window[k].accesses <= 1
        /\ window[k].accesses = 1 => ~redirectPending /\ k = 1

(* A barrier has completed only when memory has taken every older store, and    *)
(* no access younger than a barrier is on its way before the barrier retired.   *)
BarrierSeparatesAccesses ==
    \A k \in DOMAIN window : window[k].kind = "barrier" =>
        /\ window[k].done = "good" => undrained = <<>>
        /\ \A r \in requestBuffer : Position(r.robPointer) <= Len(window)
              /\ ~(r.isWrite /\ ~r.uncached) => Position(r.robPointer) < k
=============================================================================
