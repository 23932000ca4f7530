------------------------- MODULE OooBackendProperties -------------------------
(***************************************************************************)
(* What rename, retirement and recovery promise together.                   *)
(***************************************************************************)
EXTENDS OooBackend

LiveEntries == {i \in RobIndex : entries[i].valid}
InFlightRegs == {entries[i].payload.pdst : i \in LiveEntries} \ {0}
MappedRegs == {architectural[a] : a \in Arch} \ {0}
ConfirmingCount == Cardinality(DOMAIN retiredFree)
RetiringRegs == {retiredFree[i] : i \in DOMAIN retiredFree} \ {0}

(* The free registers once the retirement batch of the previous cycle counts:  *)
(* what a flush in this cycle would leave allocatable, before its releases.    *)
ConfirmedFreeRegs ==
    {freeEntries[AdvanceFree(architecturalHeadPtr, k)] :
        k \in ConfirmingCount .. architecturalFreeCount - 1}

Partition(parts, whole) ==
    /\ UNION {parts[i] : i \in DOMAIN parts} = whole
    /\ \A i, j \in DOMAIN parts : i # j => parts[i] \cap parts[j] = {}

(* Architecturally each register is in one place: free once the registered   *)
(* batch is confirmed, mapped, or in the batch on its way back to the ring,   *)
(* and no ring slot lists one twice.                                         *)
ArchitecturalFreeListExact ==
    /\ Partition(<<ConfirmedFreeRegs, MappedRegs, RetiringRegs>>, Phys \ {0})
    /\ Cardinality(ConfirmedFreeRegs) = architecturalFreeCount - ConfirmingCount

(* Outside recovery what is not mapped or retiring is either still free or the *)
(* destination of one live uop.                                              *)
SpeculativeFreeListExact ==
    ~Flush =>
      /\ Partition(<<FreeRegs, InFlightRegs>>, ConfirmedFreeRegs)
      /\ Cardinality(FreeRegs) = freeCount
      /\ \A i, j \in LiveEntries :
            i # j /\ entries[i].payload.pdst # 0 =>
                entries[i].payload.pdst # entries[j].payload.pdst

(* No physical register is lost or shared.  Rename, retirement, the registered *)
(* batch and the flush that restores the head must agree for none to be handed *)
(* out twice or leaked, in the architectural and in the speculative view.     *)
NoRegisterLostOrShared == ArchitecturalFreeListExact /\ SpeculativeFreeListExact

(* The value of an architectural register is always in the register file: a   *)
(* retired mapping names a register that holds the result of its own uop, also *)
(* right after a flush has reset every ready bit and dropped every result.     *)
ArchitecturalStatePreserved ==
    \A a \in Arch : architectural[a] # 0 => registers[architectural[a]] = "result"

(* A source that rename would mark ready can be read: ready never runs ahead   *)
(* of the register file for a register the speculative map still names.        *)
ReadySourcesHoldResults ==
    \A a \in Arch : ready[speculative[a]] => registers[speculative[a]] = "result"

(* An entry is complete only by its own result: no live uop still executing    *)
(* has a complete entry, unless decoding already gave it its exception.        *)
CompletedByOwnResult ==
    \A u \in executing : u.live =>
        /\ entries[Index(u.robPointer)].valid =>
              /\ entries[Index(u.robPointer)].pointer = u.robPointer
              /\ entries[Index(u.robPointer)].complete =>
                    entries[Index(u.robPointer)].exception
        /\ ~entries[Index(u.robPointer)].valid => Flush

(* Retirement is in program order and shows the payload that was renamed: the  *)
(* prefetched candidates are the oldest entries, in order, and the            *)
(* synchronous payload read of a retiring lane happened after its write.       *)
RetirementInOrder ==
    \A lane \in CommitLane : CanCommit(lane) =>
        /\ candidatePointer[lane] = AdvanceRob(commitPointer, lane - 1)
        /\ Candidate(lane).pointer = candidatePointer[lane]
        /\ candidateFresh[lane]

(* The live entries are the ring between the two pointers and nothing else.    *)
WindowMatchesPointers ==
    /\ allocatePointer = AdvanceRob(commitPointer, occupancy)
    /\ LiveEntries = {Index(AdvanceRob(commitPointer, k)) : k \in 0 .. occupancy - 1}

(* Outside recovery every live memory access carries the number of barriers    *)
(* that precede it: its epoch is the committed one plus the live older         *)
(* barriers, and the speculative epoch counts all of them.                    *)
OlderBarriers(n) ==
    Cardinality({k \in 0 .. n - 1 :
        entries[Index(AdvanceRob(commitPointer, k))].payload.op = "barrier"})
MemoryEpochCountsBarriers ==
    ~Flush =>
      /\ speculativeMemoryEpoch =
            (committedMemoryEpoch + OlderBarriers(occupancy)) % MemoryEpochs
      /\ \A k \in 0 .. occupancy - 1 :
            entries[Index(AdvanceRob(commitPointer, k))].payload.memoryEpoch =
               (committedMemoryEpoch + OlderBarriers(k)) % MemoryEpochs

(* A core put to sleep by IDLE holds no uop at all, whatever was renamed or    *)
(* executing when the IDLE retired.                                          *)
AsleepMeansEmpty ==
    sleeping => occupancy = 0 /\ LiveEntries = {} /\ \A u \in executing : ~u.live

(***************************************************************************)
(* The core implements in-order retirement: the window is read off the ring   *)
(* in pointer order, and a pending flush is a pending squash.                *)
(***************************************************************************)
Outcome(e) ==
    IF ~e.complete THEN "none"
    ELSE IF e.exception \/ e.mispredict THEN "recover" ELSE "good"
Window ==
    [k \in 1 .. occupancy |->
        LET e == entries[Index(AdvanceRob(commitPointer, k - 1))]
        IN  [alone |-> e.serializing, outcome |-> Outcome(e)]]

Retirement == INSTANCE InOrderRetirement
    WITH EnterWidth <- RenameWidth, LeaveWidth <- CommitWidth,
         window <- Window, squash <- Flush

(* Ring, wrap bits, epochs, registered completions and the redirect registers  *)
(* together behave as a queue that retires in order and squashes at once.      *)
RetirementImplemented == Retirement!RetirementSpec
=============================================================================
