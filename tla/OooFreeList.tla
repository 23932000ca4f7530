----------------------------- MODULE OooFreeList -----------------------------
(***************************************************************************)
(* The free list of physical registers (backend/OooRegisterStructures.scala,*)
(* class OooFreeList): a ring of PhysicalRegs slots, one of them a          *)
(* sentinel, with a speculative head that every rename advances and an      *)
(* architectural head that every retirement advances.  A flush moves the    *)
(* speculative head back to the architectural one.                          *)
(*                                                                         *)
(* The component is synchronous: FreeListStep is one clock edge.  Lanes     *)
(* without a destination have no effect on it, so a group of lanes is       *)
(* represented by the number of registers it asks for, and a retirement     *)
(* batch by the previous mapping of each of its lanes that has one.          *)
(***************************************************************************)
EXTENDS OooCoreConfig, FiniteSets

VARIABLES
    freeEntries,            \* the ring itself
    headPtr,                \* next slot to allocate from, speculative
    architecturalHeadPtr,   \* next slot to allocate from after a flush
    tailPtr,                \* next slot to release into
    freeCount,              \* slots between headPtr and tailPtr
    architecturalFreeCount  \* slots between architecturalHeadPtr and tailPtr

freeListVars == <<freeEntries, headPtr, architecturalHeadPtr, tailPtr,
                  freeCount, architecturalFreeCount>>

UsableCapacity == PhysicalRegs - 1

(* Natural binary wrap of a ring pointer; amount never exceeds the ring. *)
AdvanceFree(pointer, amount) ==
    IF pointer + amount < PhysicalRegs
    THEN pointer + amount
    ELSE pointer + amount - PhysicalRegs

FreeListInit ==
    /\ freeEntries = [i \in Phys |-> IF i < UsableCapacity THEN i + 1 ELSE 0]
    /\ headPtr = 0
    /\ architecturalHeadPtr = 0
    /\ tailPtr = UsableCapacity
    /\ freeCount = UsableCapacity
    /\ architecturalFreeCount = UsableCapacity

(* io.allocatePdst of the lane that has `earlier` requesting lanes before it. *)
AllocatePdst(earlier) == freeEntries[AdvanceFree(headPtr, earlier)]

(* io.allocateReady for a group that asks for `requested` registers. *)
FreeListReady(requested, flush) == ~flush /\ freeCount >= requested

(* What a flush restores: the architectural view after the batch that the    *)
(* preceding cycle retired.                                                 *)
ConfirmedHead(freed) == AdvanceFree(architecturalHeadPtr, Cardinality(DOMAIN freed))
RestoredHead(freed) == ConfirmedHead(freed)

(* A lane's release goes as many slots behind the tail as older lanes release. *)
ReleaseSlot(released, lane) ==
    AdvanceFree(tailPtr, Cardinality({older \in released : older < lane}))

(* One clock edge: `accepted` registers leave the speculative view, `freed`  *)
(* is the registered retirement batch (previous mappings, p0 included).      *)
FreeListStep(accepted, freed, flush) ==
    LET released == {lane \in DOMAIN freed : freed[lane] # 0}
        releaseCount == Cardinality(released)
        confirmedCount ==
            architecturalFreeCount - Cardinality(DOMAIN freed) + releaseCount
    IN  /\ freeEntries' =
             [i \in Phys |->
                IF \E lane \in released : ReleaseSlot(released, lane) = i
                THEN freed[CHOOSE lane \in released : ReleaseSlot(released, lane) = i]
                ELSE freeEntries[i]]
        /\ headPtr' = IF flush THEN RestoredHead(freed) ELSE AdvanceFree(headPtr, accepted)
        /\ freeCount' = IF flush THEN confirmedCount
                        ELSE freeCount - accepted + releaseCount
        /\ architecturalHeadPtr' = ConfirmedHead(freed)
        /\ architecturalFreeCount' = confirmedCount
        /\ tailPtr' = AdvanceFree(tailPtr, releaseCount)

(* The registers a rename can still be given, as positions of the ring. *)
FreeSlots == {AdvanceFree(headPtr, k) : k \in 0 .. freeCount - 1}
FreeRegs  == {freeEntries[i] : i \in FreeSlots}
=============================================================================
