--------------------------- MODULE OooBackendLiveness ---------------------------
(***************************************************************************)
(* Rename to retirement under a clock that ticks: `clock` tells an edge that   *)
(* changes nothing from no edge at all.  Stated over the small cores of       *)
(* MCOooBackend, where it is checked.                                        *)
(***************************************************************************)
EXTENDS MCOooBackend

VARIABLE clock

clockedVars == <<backendVars, clock>>

(* Fairness: the clock ticks, and a live uop that may issue gets its result      *)
(* presented: the functional units and the memory answer.                     *)
Awaited(pointer) ==
    \E u \in executing : u.live /\ u.robPointer = pointer /\ MayComplete(u)
FairBackendSpec ==
    /\ BackendInit /\ clock = 0
    /\ [][BackendNext /\ clock' = 1 - clock]_clockedVars
    /\ WF_clock(clock' = 1 - clock)
    /\ \A pointer \in RobPointer :
          <>[]Awaited(pointer) => []<><<~Awaited(pointer)'>>_clockedVars

Holds(pointer) == \E i \in LiveEntries : entries[i].pointer = pointer

(* No uop stays in the reorder buffer forever: a registered completion, the    *)
(* prefetched candidates or the payload-ready bit never strand an entry.       *)
EveryUopLeaves == \A pointer \in RobPointer : Holds(pointer) ~> ~Holds(pointer)
=============================================================================
