---------------------------- MODULE OooMemoryLiveness ----------------------------
(***************************************************************************)
(* The load/store queue under a clock that ticks: `clock` tells an edge that    *)
(* changes nothing from no edge at all.  Stated over the small queue of       *)
(* MCOooMemory, where it is checked.                                         *)
(***************************************************************************)
EXTENDS MCOooMemory

VARIABLE clock

clockedVars == <<memoryVars, clock>>

(* Fairness: the clock ticks, not every edge is a flush, the cache takes a        *)
(* request it is offered again and again, and memory answers.                  *)
FairMemorySpec ==
    /\ MemoryInit /\ clock = 0
    /\ [][MemoryNext /\ clock' = 1 - clock]_clockedVars
    /\ []<><<recoveryEpoch' = recoveryEpoch>>_clock
    /\ <>[](requestBuffer # {}) => []<><<requestBuffer' # requestBuffer>>_clockedVars
    /\ <>[](responses # {}) => []<><<responses \ responses' # {}>>_clockedVars

(* The drain after a flush ends, so that renaming resumes.                    *)
DrainEnds == drainAfterFlush ~> ~drainAfterFlush
=============================================================================
