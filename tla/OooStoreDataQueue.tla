--------------------------- MODULE OooStoreDataQueue ---------------------------
(***************************************************************************)
(* backend/OooStoreDataQueue.scala: the data half of a store waits for its    *)
(* second source and is read from the register file, apart from the address.   *)
(***************************************************************************)
EXTENDS OooCoreConfig, FiniteSets

CONSTANT DataSlots      \* storeQueueEntries slots

ASSUME DataSlotsAssumption == DataSlots \in Nat /\ DataSlots > 1

VARIABLES
    slots,              \* per slot nothing or one [robPointer, psrc, ready]
    dataEnqueueReady,   \* enqueueReadyReg
    dataOutput          \* the output stage, nothing or one entry

storeDataVars == <<slots, dataEnqueueReady, dataOutput>>

Slot == 0 .. DataSlots - 1
StoreDataInit ==
    /\ slots = [s \in Slot |-> {}]
    /\ dataEnqueueReady = TRUE
    /\ dataOutput = {}

FirstSlot(set) == IF set = {} THEN 0 ELSE CHOOSE s \in set : \A t \in set : s <= t
Occupied == {s \in Slot : slots[s] # {}}
ReadySlots(tags) ==
    {s \in Occupied : \E d \in slots[s] : d.ready \/ (d.psrc # 0 /\ d.psrc \in tags)}

(* `entering` is the store that enters, or nothing; `read` whether the register *)
(* file and the load/store queue take the output this cycle.                   *)
NewSlot(uop, tags) ==
    [robPointer |-> uop.robPointer, psrc |-> uop.psrc2,
     ready |-> uop.source2Ready \/ uop.psrc2 = 0 \/ uop.psrc2 \in tags]
StoreDataStep(entering, tags, read, flush) ==
    LET outputFree == dataOutput = {} \/ read
        leaving == IF outputFree /\ ReadySlots(tags) # {} THEN {FirstSlot(ReadySlots(tags))}
                   ELSE {}
        free == FirstSlot(Slot \ Occupied)
    IN  /\ dataEnqueueReady' = (Cardinality(Occupied) < DataSlots - 1)
        /\ IF flush THEN slots' = [s \in Slot |-> {}] /\ dataOutput' = {}
           ELSE /\ dataOutput' = IF outputFree THEN UNION {slots[s] : s \in leaving}
                                 ELSE dataOutput
                /\ slots' = [s \in Slot |->
                       IF entering # {} /\ s = free THEN {NewSlot(u, tags) : u \in entering}
                       ELSE IF s \in leaving THEN {}
                       ELSE {[d EXCEPT !.ready = @ \/ (d.psrc # 0 /\ d.psrc \in tags)] :
                                d \in slots[s]}]
=============================================================================
