---------------------------- MODULE OooLsqAllocator ----------------------------
(***************************************************************************)
(* backend/OooLsqAllocator.scala: tails and occupancies of the load and the  *)
(* store queue.  Slots are handed out in ring order with the rename group    *)
(* and given back by count, in any order the release ports report.            *)
(***************************************************************************)
EXTENDS OooCoreConfig

CONSTANTS
    LoadQueueEntries, StoreQueueEntries

(* A store queue of one slot would ask memory for the store it has just sent:   *)
(* the head it moves on to is that slot, which the next edge empties.          *)
ASSUME LsqAllocatorAssumption ==
    /\ LoadQueueEntries \in Nat \ {0}
    /\ StoreQueueEntries \in Nat /\ StoreQueueEntries > 1

VARIABLES loadTail, storeTail, loadOccupancy, storeOccupancy

allocatorVars == <<loadTail, storeTail, loadOccupancy, storeOccupancy>>

LoadIndex == 0 .. LoadQueueEntries - 1
StoreIndex == 0 .. StoreQueueEntries - 1

AllocatorInit ==
    /\ loadTail = 0 /\ storeTail = 0
    /\ loadOccupancy = 0 /\ storeOccupancy = 0

(* The slot of a lane with `older` requests of its kind before it.           *)
AllocatedLoadIndex(older) == (loadTail + older) % LoadQueueEntries
AllocatedStoreIndex(older) == (storeTail + older) % StoreQueueEntries

AllocatorReady(loadRequests, storeRequests, flush) ==
    /\ ~flush
    /\ LoadQueueEntries - loadOccupancy >= loadRequests
    /\ StoreQueueEntries - storeOccupancy >= storeRequests

(* Requests are those of the accepted group.                                 *)
AllocatorStep(loadRequests, storeRequests, loadsReleased, storesReleased, flush) ==
    /\ loadTail' = IF flush THEN 0 ELSE AllocatedLoadIndex(loadRequests)
    /\ storeTail' = IF flush THEN 0 ELSE AllocatedStoreIndex(storeRequests)
    /\ loadOccupancy' =
         IF flush THEN 0 ELSE loadOccupancy + loadRequests - loadsReleased
    /\ storeOccupancy' =
         IF flush THEN 0 ELSE storeOccupancy + storeRequests - storesReleased
=============================================================================
