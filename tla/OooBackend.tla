------------------------------ MODULE OooBackend ------------------------------
(***************************************************************************)
(* Rename, retirement and recovery of the core: the free list, the register *)
(* map and the reorder buffer as backend/OooBackend.scala connects them,     *)
(* with the recovery register of core/OooCore.scala and the privileged       *)
(* redirect of core/OooCoreSystem.scala, which turn a retirement into the    *)
(* flush of the following cycle.                                            *)
(*                                                                         *)
(* One step is one clock edge.  The inputs of a cycle are the decoded group, *)
(* the results the execution cluster presents and the interrupt line.        *)
(* Issue queues, execution and the load/store queue are represented by        *)
(* `executing`, the uops whose result has not been presented yet: a result   *)
(* may take any time and may outlive the flush that discarded its uop.        *)
(***************************************************************************)
EXTENDS OooFreeList, OooRegisterMap, OooRob, OooIdleController

CONSTANTS
    Decoded,         \* the decoded lanes considered: [rd, op, fault, outcomes]
    WritebackWidth,  \* results presented in one cycle
    StaleResults     \* bound: results of discarded uops kept in flight

(* A destination is as wide as an architectural register number.              *)
ASSUME DecodedAssumption == \A lane \in Decoded : lane.rd \in Arch

VARIABLES
    recoveryEpoch, committedMemoryEpoch, speculativeMemoryEpoch,
    retiredFree,        \* registered retirement batch on its way to the free list
    recoveryPending,    \* OooCore: a retired lane asked for recovery
    privilegedPending,  \* OooCoreSystem: a serializing lane asked for a refetch
    executing,          \* uops that still owe a result
    registers           \* history: what the physical register file holds, see Contents

epochVars == <<recoveryEpoch, committedMemoryEpoch, speculativeMemoryEpoch>>
backendVars == <<freeListVars, registerMapVars, robVars, idleVars, epochVars,
                 retiredFree, recoveryPending, privilegedPending, executing, registers>>

(* Operations the retirement logic tells apart.  A csr read serializes but    *)
(* refetches nothing; a barrier separates memory epochs and refetches.        *)
Serializing(op) == op # "plain"

(* A register holds the result of the uop it was last given to, nothing since *)
(* it was given, or the result of a uop that no longer owns it.               *)
Contents == {"result", "awaited", "foreign"}

BackendInit ==
    /\ FreeListInit /\ RegisterMapInit /\ RobInit /\ IdleInit
    /\ recoveryEpoch = 0
    /\ committedMemoryEpoch = 0
    /\ speculativeMemoryEpoch = 0
    /\ retiredFree = <<>>
    /\ recoveryPending = FALSE
    /\ privilegedPending = FALSE
    /\ executing = {}
    /\ registers = [p \in Phys |-> "result"]

ExternalRedirect == privilegedPending \/ IdleRedirect
Flush == recoveryPending \/ ExternalRedirect

(***************************************************************************)
(* Rename of a decoded group, a sequence of Decoded lanes, taken whole or    *)
(* not at all.                                                              *)
(***************************************************************************)
CountBefore(group, i, Test(_)) == Cardinality({j \in 1 .. i - 1 : Test(group[j])})
WritesRegister(lane) == lane.rd # 0
IsBarrier(lane) == lane.op = "barrier"

Requested(group) == CountBefore(group, Len(group) + 1, WritesRegister)
ResourcesReady(group) ==
    /\ RobReady(Len(group), Flush)
    /\ FreeListReady(Requested(group), Flush)

RenamedWrites(group) ==
    [i \in DOMAIN group |->
        [rd   |-> group[i].rd,
         pdst |-> IF WritesRegister(group[i])
                  THEN AllocatePdst(CountBefore(group, i, WritesRegister))
                  ELSE 0]]

(* The memory epoch of a lane counts the barriers older than it, those of its *)
(* own group included.                                                      *)
(* Mutant: they are not.                                                    *)
GroupEpoch(group, i) == speculativeMemoryEpoch
RenamedMemoryEpoch(group, i) ==
    (speculativeMemoryEpoch + CountBefore(group, i, IsBarrier)) % MemoryEpochs

RobLane(group, i) ==
    LET writes == RenamedWrites(group)
    IN  [fault |-> group[i].fault,
         serializing |-> Serializing(group[i].op),
         payload |->
           [rd |-> group[i].rd, op |-> group[i].op, pdst |-> writes[i].pdst,
            oldPdst |-> RenamedSource(writes, i, group[i].rd),
            memoryEpoch |-> RenamedMemoryEpoch(group, i)]]

ExecutingLane(group, i) ==
    [robPointer |-> AllocatedPointer(i), recoveryEpoch |-> recoveryEpoch,
     pdst |-> RenamedWrites(group)[i].pdst, live |-> TRUE,
     serializing |-> Serializing(group[i].op), outcomes |-> group[i].outcomes]

(***************************************************************************)
(* Results.  A serializing uop issues only when its pointer is the reorder    *)
(* buffer head, so only then can its result appear.                          *)
(***************************************************************************)
MayComplete(u) == u.live /\ u.serializing => u.robPointer = commitPointer

Result(u, outcome) ==
    [robPointer |-> u.robPointer, recoveryEpoch |-> u.recoveryEpoch, pdst |-> u.pdst,
     live |-> u.live, exception |-> outcome = "exception",
     mispredict |-> outcome = "mispredict"]

(* What execution may still answer after this edge: a flush discards the uop  *)
(* but possibly not its result, which never outlives a full turn of the       *)
(* recovery epoch.                                                          *)
Survivors(us) ==
    {[u EXCEPT !.live = FALSE] :
        u \in {v \in us : v.recoveryEpoch # (recoveryEpoch + 1) % RecoveryEpochs}}

ExecutingStep(group, presented) ==
    IF Flush
    THEN executing' \in {us \in SUBSET Survivors(executing \ presented) :
                            Cardinality(us) <= StaleResults}
    ELSE executing' = (executing \ presented)
                        \cup {ExecutingLane(group, i) : i \in DOMAIN group}

(***************************************************************************)
(* Retirement: io.commit is what the reorder buffer shows, whether or not    *)
(* the cycle is a flush; every user masks it in its own way.                 *)
(***************************************************************************)
Retires(e) == ~e.exception
CommitsDestination ==
    {lane \in DOMAIN Commit : Retires(Commit[lane]) /\ Commit[lane].payload.rd # 0}
CommittedMappings ==
    [lane \in CommitsDestination |->
        [rd |-> Commit[lane].payload.rd, pdst |-> Commit[lane].payload.pdst]]
RetiresOp(op) == \E i \in DOMAIN Commit : Retires(Commit[i]) /\ Commit[i].payload.op = op
CommittedBarriers ==
    Cardinality({i \in DOMAIN Commit : Retires(Commit[i]) /\ Commit[i].payload.op = "barrier"})

EpochStep(group) ==
    LET nextCommitted == (committedMemoryEpoch + CommittedBarriers) % MemoryEpochs
    IN  /\ recoveryEpoch' = IF Flush THEN (recoveryEpoch + 1) % RecoveryEpochs
                            ELSE recoveryEpoch
        /\ committedMemoryEpoch' = nextCommitted
        /\ speculativeMemoryEpoch' =
              IF Flush THEN nextCommitted
              ELSE (speculativeMemoryEpoch + CountBefore(group, Len(group) + 1, IsBarrier))
                      % MemoryEpochs

(* Mutant: the batch is not masked in a flush cycle.                         *)
RetireInFlushStep ==
    retiredFree' = [lane \in CommitsDestination |-> Commit[lane].payload.oldPdst]
RetireStep ==
    retiredFree' = IF Flush THEN <<>>
                   ELSE [lane \in CommitsDestination |-> Commit[lane].payload.oldPdst]

RedirectStep(interrupt) ==
    /\ recoveryPending' = (RecoveryValid /\ ~recoveryPending /\ ~ExternalRedirect)
    /\ privilegedPending' = (~Flush /\ RetiresOp("barrier"))
    /\ IdleStep(~Flush /\ RetiresOp("idle"), interrupt)

RegistersStep(group) ==
    registers' =
         [p \in Phys |->
            IF \E i \in DOMAIN group : p # 0 /\ RenamedWrites(group)[i].pdst = p
            THEN "awaited"
            ELSE IF p \in Wakeups(Flush)
            THEN IF \E c \in stagedCompletion : c.pdst = p /\ ~c.live
                 THEN "foreign" ELSE "result"
            ELSE registers[p]]

(* One clock edge with the lanes accepted, the uops whose result is presented *)
(* and the way each of them ended.                                           *)
Cycle(group, outcome, interrupt) ==
    LET presented == DOMAIN outcome
    IN  /\ FreeListStep(Requested(group), retiredFree, Flush)
        /\ RegisterMapStep(RenamedWrites(group), Wakeups(Flush),
                           CommittedMappings, Flush)
        /\ RobStep([i \in DOMAIN group |-> RobLane(group, i)],
                   {Result(u, outcome[u]) : u \in presented}, recoveryEpoch, Flush)
        /\ EpochStep(group)
        /\ RetireStep
        /\ RedirectStep(interrupt)
        /\ ExecutingStep(group, presented)
        /\ RegistersStep(group)

Groups == UNION {[1 .. n -> Decoded] : n \in 0 .. RenameWidth}
Presentable == {us \in SUBSET {u \in executing : MayComplete(u)} :
                    Cardinality(us) <= WritebackWidth}
OutcomesOf(us) == {o \in [us -> {"good", "exception", "mispredict"}] :
                      \A u \in us : o[u] \in u.outcomes}

BackendNext ==
    \E group \in Groups, us \in Presentable, interrupt \in BOOLEAN :
        /\ group # <<>> => ResourcesReady(group)
        /\ \E outcome \in OutcomesOf(us) : Cycle(group, outcome, interrupt)

BackendSpec == BackendInit /\ [][BackendNext]_backendVars
=============================================================================
