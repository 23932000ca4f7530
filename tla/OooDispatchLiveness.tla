-------------------------- MODULE OooDispatchLiveness --------------------------
(***************************************************************************)
(* The path from rename to completion under a clock that ticks: `clock` tells   *)
(* an edge that changes nothing from no edge at all.  Stated over the ports     *)
(* and mixes of MCOooDispatch, where it is checked.                            *)
(***************************************************************************)
EXTENDS MCOooDispatch

VARIABLE clock

clockedVars == <<pathAllVars, clock>>

(***************************************************************************)
(* Fairness: the clock ticks, and retirement, memory, the divider and the       *)
(* barrier machine answer what keeps being asked of them.                      *)
(***************************************************************************)
AguWaits == \E uop \in operand[LoadStorePort] : UsesAgu(uop)
FairPathSpec ==
    /\ PathInit /\ clock = 0
    /\ [][PathNext /\ clock' = 1 - clock]_clockedVars
    /\ WF_clock(clock' = 1 - clock)
    /\ <>[](live # <<>> /\ Retirable(1)) => []<><<head' # head>>_clockedVars
    /\ <>[]AguWaits => []<><<memory' \ memory # {}>>_clockedVars
    /\ <>[](dataOutput # {}) => []<><<dataSent' \ dataSent # {}>>_clockedVars
    /\ <>[](MemoryCompletes # {}) => []<><<memory \ memory' # {}>>_clockedVars
    /\ <>[](dividing # {}) => []<><<divided' # {}>>_clockedVars
    /\ <>[]BarrierMayEnd => []<><<barrier' = {} /\ ~barrierDropping'>>_clockedVars

(* Every uop that enters the reorder buffer leaves it, by retirement or by a      *)
(* flush: no queue, register or unit of the path waits for another that waits     *)
(* for it, and no wakeup is lost for good.                                     *)
EveryUopLeavesPath ==
    \A pointer \in 0 .. PointerModulus - 1 :
        (\E uop \in Range(live) : uop.robPointer = pointer)
            ~> (\A uop \in Range(live) : uop.robPointer # pointer)
=============================================================================
