---------------------------- MODULE OooDispatchQueue ----------------------------
(***************************************************************************)
(* backend/OooDispatchQueue.scala: the ring that takes whole rename groups   *)
(* and the registered window the router reads.  Both are sequences in        *)
(* program order; the ring's pointers and the window's shift table only say   *)
(* where an entry sits.                                                     *)
(***************************************************************************)
EXTENDS OooCoreConfig, Sequences

CONSTANTS
    DispatchQueueEntries,
    DispatchWidth       \* slots of the window

ASSUME DispatchAssumption ==
    /\ {DispatchQueueEntries, DispatchWidth} \subseteq Nat \ {0}
    /\ DispatchQueueEntries >= 2 * DispatchWidth

VARIABLES dispatchQueue, window

dispatchVars == <<dispatchQueue, window>>

DispatchInit == dispatchQueue = <<>> /\ window = <<>>

(* Ready looks at the registered count: what leaves this cycle makes no room.  *)
DispatchQueueReady(n) == Len(dispatchQueue) + n <= DispatchQueueEntries

(* Mutant: the free slots of the cycle before, though survivors have moved up. *)
RefillEmptyOnly(out) ==
    IF DispatchWidth < Len(dispatchQueue) THEN DispatchWidth ELSE Len(dispatchQueue)

(* Uops the window takes when the router takes `out` of it: every slot that    *)
(* is or becomes free.                                                      *)
Refill(out) ==
    LET free == DispatchWidth - (Len(window) - out)
    IN  IF free < Len(dispatchQueue) THEN free ELSE Len(dispatchQueue)

(* One edge: an accepted group enters, `out` uops leave for the issue queues.   *)
(* The window's registers take what the ring offers, the ring drops what the     *)
(* window says it takes.                                                     *)
DispatchStep(group, out, flush) ==
    IF flush THEN dispatchQueue' = <<>> /\ window' = <<>>
    ELSE LET offered == SubSeq(window, out + 1, Len(window)) \o dispatchQueue
         IN  /\ window' = SubSeq(offered, 1, IF Len(offered) < DispatchWidth THEN Len(offered)
                                             ELSE DispatchWidth)
             /\ dispatchQueue' =
                   SubSeq(dispatchQueue, Refill(out) + 1, Len(dispatchQueue)) \o group
=============================================================================
