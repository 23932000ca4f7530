-------------------------------- MODULE OooRob --------------------------------
(***************************************************************************)
(* The reorder buffer (backend/OooRob.scala): a ring of RobEntries slots     *)
(* addressed by pointers that carry one wrap bit, completions validated     *)
(* against the recovery epoch and registered for a cycle before they reach  *)
(* an entry, and a payload memory read one cycle ahead of retirement.        *)
(*                                                                         *)
(* RobStep is one clock edge.  The lanes of a group are a sequence: invalid *)
(* lanes take no slot.  The payload is kept with its entry.  A synchronous   *)
(* read that meets the write of its slot returns device-specific data:       *)
(* `candidateFresh` is FALSE there, and the payload then means nothing.       *)
(* The fields of an invalid entry are read nowhere and are not kept.         *)
(***************************************************************************)
EXTENDS OooCoreConfig, Sequences, FiniteSets

CONSTANT Payloads   \* what a decoded lane writes into the payload memory

VARIABLES
    allocatePointer, commitPointer, occupancy,
    entries,
    stagedAllocation,   \* pointers allocated by the preceding edge
    stagedCompletion,   \* completions registered by the preceding edge
    candidatePointer,   \* slots whose payload was read for this cycle
    candidateFresh      \* FALSE where that read met the write of its own slot

robVars == <<allocatePointer, commitPointer, occupancy, entries, stagedAllocation,
             stagedCompletion, candidatePointer, candidateFresh>>

RobIndex == 0 .. RobEntries - 1
RobPointer == 0 .. 2 * RobEntries - 1
CommitLane == 1 .. CommitWidth

Index(pointer) == IF pointer < RobEntries THEN pointer ELSE pointer - RobEntries
Msb(pointer)   == pointer >= RobEntries
AdvanceRob(pointer, amount) ==
    IF pointer + amount < 2 * RobEntries
    THEN pointer + amount
    ELSE pointer + amount - 2 * RobEntries

InvalidEntry == [valid |-> FALSE]
(* An occupied slot has the fields complete, payloadReady, exception,          *)
(* serializing, mispredict, pointer and payload; a result on its way to the     *)
(* buffer robPointer, recoveryEpoch, pdst, exception, mispredict and live (a    *)
(* history: its uop has not been flushed).                                   *)

RobInit ==
    /\ allocatePointer = 0
    /\ commitPointer = 0
    /\ occupancy = 0
    /\ entries = [i \in RobIndex |-> InvalidEntry]
    /\ stagedAllocation = {}
    /\ stagedCompletion = {}
    /\ candidatePointer = [lane \in CommitLane |-> 0]
    /\ candidateFresh = [lane \in CommitLane |-> TRUE]

(* io.allocateReady and io.allocatedPointer of the i-th valid lane.          *)
RobReady(requested, flush) == ~flush /\ RobEntries - occupancy >= requested
AllocatedPointer(i) == AdvanceRob(allocatePointer, i - 1)

(***************************************************************************)
(* Retirement: the longest prefix of the candidates that is valid, complete  *)
(* and readable, ending at the first lane that stops the group.              *)
(***************************************************************************)
Candidate(lane) == entries[Index(candidatePointer[lane])]
Retirable(lane) ==
    /\ Candidate(lane).valid
    /\ Candidate(lane).complete
    /\ Candidate(lane).payloadReady
StopAfter(lane) ==
    \/ Candidate(lane).exception
    \/ Candidate(lane).serializing
    \/ Candidate(lane).mispredict
(* Mutant: a lane that ends the group lets younger lanes retire with it.      *)
CanCommitPastStop(lane) == \A l \in 1 .. lane : Retirable(l)
CanCommit(lane) ==
    /\ \A l \in 1 .. lane : Retirable(l)
    /\ \A l \in 1 .. lane - 1 : ~StopAfter(l)

CommittedCount == Cardinality({lane \in CommitLane : CanCommit(lane)})
Commit == [lane \in 1 .. CommittedCount |-> Candidate(lane)]
RecoveryValid ==
    \E lane \in CommitLane :
        CanCommit(lane) /\ (Candidate(lane).exception \/ Candidate(lane).mispredict)

(* Wakeups carry no check against the entry, only the epoch check made when   *)
(* the completion was registered; the flush masks the architectural ones.     *)
WakeupCandidates == {c.pdst : c \in stagedCompletion} \ {0}
Wakeups(flush) == IF flush THEN {} ELSE WakeupCandidates

(* Mutant: the wrap bit of the result is compared with the slot number.       *)
MatchesLowHalf(i, c) ==
    /\ Index(c.robPointer) = i
    /\ entries[i].valid
    /\ ~entries[i].complete
    /\ entries[i].pointer = Index(c.robPointer)
Matches(i, c) ==
    /\ Index(c.robPointer) = i
    /\ entries[i].valid
    /\ ~entries[i].complete
    /\ Msb(entries[i].pointer) = Msb(c.robPointer)

(* Mutant: the payload counts as readable on the edge that writes it.         *)
EntryReadyAtOnce(lane, pointer) ==
    [valid |-> TRUE, complete |-> lane.fault, payloadReady |-> TRUE,
     exception |-> lane.fault, serializing |-> lane.serializing,
     mispredict |-> FALSE, pointer |-> pointer, payload |-> lane.payload]
NewEntry(lane, pointer) ==
    [valid |-> TRUE, complete |-> lane.fault, payloadReady |-> FALSE,
     exception |-> lane.fault, serializing |-> lane.serializing,
     mispredict |-> FALSE, pointer |-> pointer, payload |-> lane.payload]

(* A resident entry after the registered completion and the payload write of  *)
(* the preceding edge have reached it.                                        *)
UpdatedEntry(i) ==
    LET e == entries[i]
        hits == {c \in stagedCompletion : Matches(i, c)}
        c == CHOOSE hit \in hits : TRUE
    IN  IF ~e.valid THEN e
        ELSE [valid |-> TRUE,
              complete |-> e.complete \/ hits # {},
              payloadReady |-> e.payloadReady \/ e.pointer \in stagedAllocation,
              exception |-> IF hits = {} THEN e.exception ELSE c.exception,
              serializing |-> e.serializing,
              mispredict |-> IF hits = {} THEN e.mispredict ELSE c.mispredict,
              pointer |-> e.pointer, payload |-> e.payload]

(* Results of an older recovery epoch stop here.                             *)
(* Mutant: they do not.                                                     *)
AnyEpoch(completions, currentEpoch) == completions
CurrentResults(completions, currentEpoch) ==
    {c \in completions : c.recoveryEpoch = currentEpoch}

(* The head of the next cycle, from which its payload is read ahead: a flush  *)
(* keeps the allocation pointer, so that late results cannot alias the first  *)
(* entry of the new window.                                                 *)
(* Mutant: a flush leaves the head behind.                                   *)
HeadIgnoringFlush(flush) == AdvanceRob(commitPointer, CommittedCount)
NextHead(flush) ==
    IF flush THEN allocatePointer ELSE AdvanceRob(commitPointer, CommittedCount)

(* `allocated` are the accepted lanes, `completions` the results presented in *)
(* this cycle.                                                               *)
RobStep(allocated, completions, currentEpoch, flush) ==
    LET slots == {Index(AllocatedPointer(i)) : i \in DOMAIN allocated}
        freed == {Index(AdvanceRob(commitPointer, l - 1)) : l \in 1 .. CommittedCount}
        readBase == NextHead(flush)
    IN  /\ entries' =
             [i \in RobIndex |->
                CASE flush \/ i \in freed -> InvalidEntry
                  [] ~flush /\ i \in slots \ freed ->
                       LET l == CHOOSE k \in DOMAIN allocated : Index(AllocatedPointer(k)) = i
                       IN  NewEntry(allocated[l], AllocatedPointer(l))
                  [] OTHER -> UpdatedEntry(i)]
        /\ commitPointer' = readBase
        /\ allocatePointer' = IF flush THEN allocatePointer
                              ELSE AdvanceRob(allocatePointer, Len(allocated))
        /\ occupancy' = IF flush THEN 0 ELSE occupancy + Len(allocated) - CommittedCount
        /\ stagedAllocation' = IF flush THEN {}
                               ELSE {AllocatedPointer(i) : i \in DOMAIN allocated}
        /\ stagedCompletion' = IF flush THEN {}
                               ELSE CurrentResults(completions, currentEpoch)
        /\ candidatePointer' = [lane \in CommitLane |-> AdvanceRob(readBase, lane - 1)]
        /\ candidateFresh' =
             [lane \in CommitLane |-> Index(AdvanceRob(readBase, lane - 1)) \notin slots]
=============================================================================
