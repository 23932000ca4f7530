--------------------------- MODULE OooLoadStoreQueue ---------------------------
(***************************************************************************)
(* backend/OooLoadStoreQueue.scala, one clock edge per step.                 *)
(*                                                                         *)
(* An address is a word and the set of its bytes that are accessed; which    *)
(* word, whether it is uncached and whether it faults is the translator's     *)
(* answer.  Data is left out: OooMemoryBackend tracks which store every load  *)
(* reads from.  Registers that hold at most one item (request buffer,         *)
(* accepted store, completion) are sets, empty when their valid bit is off,   *)
(* and the fields of an invalid slot are reset, as nothing reads them.        *)
(*                                                                         *)
(* `in` are the inputs of the cycle: flush, the allocated group, the AGU      *)
(* result, store data, commit lanes, translator and cache handshakes.  An     *)
(* offered transfer the queue does not take is the same as none.              *)
(***************************************************************************)
EXTENDS OooLsqAllocator, Sequences, FiniteSets

CONSTANT Words          \* word addresses, with 0 among them

ASSUME WordsAssumption == 0 \in Words

VARIABLES
    stores, loads,
    storeHead, loadBase,
    scheduled,          \* scheduledLoad, with its index loadHead
    drainAfterFlush,
    translation,        \* translationActive and its owner
    translationCancelPending,
    requestBuffer, accepted, aguException, completion,
    robHead, committedMemoryEpoch   \* registers of the backend the queue reads

queueVars == <<stores, loads, storeHead, loadBase, scheduled, drainAfterFlush,
               translation, translationCancelPending, requestBuffer, accepted,
               aguException, completion>>

PointerModulus == 2 * RobEntries
RobPointer == 0 .. PointerModulus - 1

(* Age by reorder-buffer pointer: the distance, top bit clear.                *)
IsOlder(a, b) ==
    LET distance == (b - a) % PointerModulus
    IN  distance # 0 /\ distance < RobEntries

EmptyStore ==
    [valid |-> FALSE, addressReady |-> FALSE, dataReady |-> FALSE, completed |-> FALSE,
     committed |-> FALSE, requestSent |-> FALSE, translationDone |-> FALSE,
     robPointer |-> 0, recoveryEpoch |-> 0, memoryEpoch |-> 0,
     word |-> 0, mask |-> {}, uncached |-> FALSE, isSc |-> FALSE, scSuccess |-> FALSE]
EmptyLoad ==
    [valid |-> FALSE, addressReady |-> FALSE, requestSent |-> FALSE, completed |-> FALSE,
     translationDone |-> FALSE, robPointer |-> 0, recoveryEpoch |-> 0, memoryEpoch |-> 0,
     word |-> 0, mask |-> {}, uncached |-> FALSE, isLl |-> FALSE]
NothingScheduled == [valid |-> FALSE, index |-> 0, load |-> EmptyLoad]
NoTranslation ==
    [active |-> FALSE, store |-> FALSE, index |-> 0, robPointer |-> 0, recoveryEpoch |-> 0]

QueueInit ==
    /\ stores = [i \in StoreIndex |-> EmptyStore]
    /\ loads = [i \in LoadIndex |-> EmptyLoad]
    /\ storeHead = 0 /\ loadBase = 0
    /\ scheduled = NothingScheduled
    /\ drainAfterFlush = FALSE
    /\ translation = NoTranslation /\ translationCancelPending = FALSE
    /\ requestBuffer = {} /\ accepted = {}
    /\ aguException = {} /\ completion = {}

HeadStore == stores[storeHead]
CommittedStorePresent ==
    \E i \in StoreIndex :
        /\ stores[i].valid
        /\ stores[i].committed \/ (stores[i].uncached /\ stores[i].requestSent)
OlderStorePending(pointer) ==
    \E i \in StoreIndex : stores[i].valid /\ IsOlder(stores[i].robPointer, pointer)

(* First index of a set in ring order from a base.                           *)
FirstFrom(base, size, set) ==
    CHOOSE i \in set : \A j \in set : (i - base) % size <= (j - base) % size

(***************************************************************************)
(* What the scheduled load has to wait for.                                  *)
(***************************************************************************)
Load == scheduled.load
LoadHead == loads[scheduled.index]
(* Mutant: loads pass barriers that have not retired.                         *)
LoadOfAnyEpoch ==
    /\ scheduled.valid /\ LoadHead.valid
    /\ LoadHead.robPointer = Load.robPointer
    /\ LoadHead.addressReady /\ ~LoadHead.requestSent /\ ~LoadHead.completed
LoadHeadReady ==
    /\ scheduled.valid /\ LoadHead.valid
    /\ LoadHead.robPointer = Load.robPointer
    /\ LoadHead.addressReady /\ ~LoadHead.requestSent /\ ~LoadHead.completed
    /\ Load.memoryEpoch = committedMemoryEpoch

OlderStores ==
    {i \in StoreIndex : stores[i].valid /\ IsOlder(stores[i].robPointer, Load.robPointer)}
Aliases(i) ==
    stores[i].translationDone /\ Load.translationDone /\ stores[i].word = Load.word
Overlaps(i) == Aliases(i) /\ stores[i].mask \cap Load.mask # {}
Covers(i) == Load.mask \subseteq stores[i].mask

UnknownOlderStore ==
    \E i \in OlderStores : ~stores[i].addressReady \/ ~stores[i].translationDone
OlderUncachedStore ==
    \E i \in OlderStores :
        stores[i].translationDone /\ stores[i].uncached /\ ~stores[i].completed
(* Mutant: a partial overlap does not hold the load back.                    *)
NoPartialOverlap == FALSE
PartialOverlapStore == \E i \in OlderStores : Overlaps(i) /\ ~Covers(i)
PendingDataStore == \E i \in OlderStores : Overlaps(i) /\ ~stores[i].dataReady
ForwardingStores ==
    {i \in OlderStores : Aliases(i) /\ stores[i].dataReady /\ Covers(i)}
OlderLoadOrderBlock ==
    \E i \in LoadIndex :
        /\ loads[i].valid /\ IsOlder(loads[i].robPointer, Load.robPointer)
        /\ ~loads[i].completed
        /\ ~loads[i].addressReady \/ ~loads[i].translationDone \/ loads[i].uncached

LoadOrderClear ==
    /\ ~UnknownOlderStore /\ ~OlderUncachedStore /\ ~OlderLoadOrderBlock
    /\ ~PartialOverlapStore /\ ~PendingDataStore
ForwardCandidate ==
    /\ LoadHeadReady /\ Load.translationDone /\ ~Load.uncached /\ ~Load.isLl
    /\ LoadOrderClear /\ Cardinality(ForwardingStores) = 1
CacheLoadCandidate ==
    /\ LoadHeadReady /\ LoadOrderClear /\ ForwardingStores = {} /\ Load.translationDone
    /\ Load.uncached => Load.robPointer = robHead

(***************************************************************************)
(* The oldest store.                                                        *)
(***************************************************************************)
(* Mutant: an uncached store does not wait for the reorder buffer head.       *)
SpeculativeUncachedStore ==
    /\ HeadStore.valid /\ HeadStore.addressReady /\ HeadStore.dataReady
    /\ HeadStore.translationDone
    /\ IF HeadStore.uncached THEN ~HeadStore.completed /\ ~HeadStore.requestSent
       ELSE HeadStore.completed /\ HeadStore.committed
    /\ HeadStore.memoryEpoch = committedMemoryEpoch
    /\ HeadStore.isSc => HeadStore.scSuccess
StoreRequest ==
    /\ HeadStore.valid /\ HeadStore.addressReady /\ HeadStore.dataReady
    /\ HeadStore.translationDone
    /\ IF HeadStore.uncached
       THEN /\ ~HeadStore.completed /\ ~HeadStore.requestSent
            /\ HeadStore.robPointer = robHead
       ELSE HeadStore.completed /\ HeadStore.committed
    /\ HeadStore.memoryEpoch = committedMemoryEpoch
    /\ HeadStore.isSc => HeadStore.scSuccess

StoreCompletionCandidate ==
    /\ HeadStore.valid /\ HeadStore.addressReady
    /\ HeadStore.translationDone /\ ~HeadStore.completed
    /\ HeadStore.dataReady \/ (HeadStore.isSc /\ ~HeadStore.scSuccess)
    /\ ~HeadStore.uncached \/ HeadStore.isSc

FailedScRelease ==
    /\ HeadStore.valid /\ HeadStore.addressReady /\ HeadStore.translationDone
    /\ HeadStore.completed /\ HeadStore.committed
    /\ HeadStore.isSc /\ ~HeadStore.scSuccess
    /\ accepted = {}
UncachedStoreRelease ==
    /\ HeadStore.valid /\ HeadStore.uncached /\ HeadStore.requestSent
    /\ HeadStore.completed /\ HeadStore.committed

(***************************************************************************)
(* Translation.  The translator owes one answer while a request is active or  *)
(* cancelled.                                                               *)
(***************************************************************************)
UntranslatedStores ==
    {i \in StoreIndex : /\ stores[i].valid /\ stores[i].addressReady
                        /\ ~stores[i].translationDone}
LoadNeedsTranslation == LoadHeadReady /\ ~Load.translationDone
(* The head store, then the load, then a store behind the head.              *)
SelectedStoreTranslation ==
    IF storeHead \in UntranslatedStores THEN {storeHead}
    ELSE IF LoadNeedsTranslation \/ UntranslatedStores = {} THEN {}
    ELSE {FirstFrom(storeHead, StoreQueueEntries, UntranslatedStores)}
TranslationRequestValid(flush) ==
    /\ ~flush /\ ~translation.active /\ ~translationCancelPending
    /\ SelectedStoreTranslation # {} \/ LoadNeedsTranslation
TranslationOwner ==
    IF SelectedStoreTranslation # {}
    THEN LET i == CHOOSE i \in SelectedStoreTranslation : TRUE
         IN  [active |-> TRUE, store |-> TRUE, index |-> i,
              robPointer |-> stores[i].robPointer, recoveryEpoch |-> stores[i].recoveryEpoch]
    ELSE [active |-> TRUE, store |-> FALSE, index |-> scheduled.index,
          robPointer |-> Load.robPointer, recoveryEpoch |-> Load.recoveryEpoch]

(***************************************************************************)
(* Completion arbitration: a cache response, the head store, a forwarded      *)
(* load, a translation that completes its owner, a buffered misalignment.     *)
(***************************************************************************)
ResponseLoad(in) ==
    {i \in LoadIndex : \E r \in in.response :
        /\ loads[i].valid /\ loads[i].requestSent /\ ~loads[i].completed
        /\ loads[i].robPointer = r.robPointer /\ loads[i].recoveryEpoch = r.recoveryEpoch}
ResponseStoreAccepted(in) ==
    \E r \in in.response :
        /\ HeadStore.valid /\ HeadStore.uncached
        /\ HeadStore.requestSent /\ ~HeadStore.completed
        /\ HeadStore.robPointer = r.robPointer /\ HeadStore.recoveryEpoch = r.recoveryEpoch

StoreCompletionFire(in) == StoreCompletionCandidate /\ in.response = {}
(* Mutant: a forwarded load does not give way to the head store.              *)
ForwardOverStore(in) == ForwardCandidate /\ in.response = {}
ForwardFire(in) == ForwardCandidate /\ in.response = {} /\ ~StoreCompletionCandidate

ScSucceeds(t) == ~t.cancelled /\ ~t.exception /\ ~t.uncached /\ t.reserved
OwnerStore == stores[translation.index]
TranslationProducesCompletion(t) ==
    /\ ~t.cancelled
    /\ \/ t.exception
       \/ /\ translation.store
          /\ OwnerStore.dataReady \/ (OwnerStore.isSc /\ ~ScSucceeds(t))
          /\ ~t.uncached \/ OwnerStore.isSc
BaseCompletionBusy(in) == in.response # {} \/ ForwardCandidate \/ StoreCompletionCandidate
TranslationResponseReady(in, t) ==
    \/ translationCancelPending
    \/ translation.active /\ (TranslationProducesCompletion(t) => ~BaseCompletionBusy(in))
(* The answer taken for the owner, and the completion it makes.              *)
Translated(in) == IF translation.active /\ ~in.flush THEN in.translation ELSE {}
TranslationCompletes(in) == \E t \in Translated(in) : TranslationProducesCompletion(t)

AguTargetAvailable(a) ==
    LET target == IF a.isWrite THEN stores[a.index] ELSE loads[a.index]
    IN  target.valid /\ target.robPointer = a.robPointer /\ ~target.addressReady
AguReady(a, flush) ==
    ~flush /\ AguTargetAvailable(a) /\ (a.misaligned => aguException = {})
StoreDataReady(d, flush) ==
    /\ ~flush /\ stores[d.index].valid
    /\ stores[d.index].robPointer = d.robPointer /\ ~stores[d.index].dataReady
AguExceptionReady(in) ==
    aguException # {} /\ ~BaseCompletionBusy(in) /\ ~TranslationCompletes(in)

Completion(e, exception) ==
    [robPointer |-> e.robPointer, recoveryEpoch |-> e.recoveryEpoch, exception |-> exception]
GeneratedCompletion(in) ==
    IF ResponseStoreAccepted(in) /\ ~HeadStore.committed
    THEN {Completion(HeadStore, r.error) : r \in in.response}
    ELSE IF ResponseLoad(in) # {}
    THEN {Completion(loads[i], r.error) : i \in ResponseLoad(in), r \in in.response}
    ELSE IF ForwardFire(in) THEN {Completion(Load, FALSE)}
    ELSE IF StoreCompletionFire(in) THEN {Completion(HeadStore, FALSE)}
    ELSE IF TranslationCompletes(in)
    THEN {Completion(translation, t.exception) : t \in in.translation}
    ELSE IF AguExceptionReady(in) THEN aguException
    ELSE {}

(* An ordinary store completes without the register when the register is free. *)
FastStoreCompletion(in) ==
    IF /\ ~in.flush /\ completion = {}
       /\ \/ StoreCompletionFire(in) /\ ~HeadStore.isSc
          \/ /\ translation.store /\ ~OwnerStore.isSc /\ TranslationCompletes(in)
             /\ \A t \in in.translation : ~t.exception /\ ~t.uncached
    THEN GeneratedCompletion(in)
    ELSE {}
CompletionOutput(in) ==
    IF FastStoreCompletion(in) # {} THEN FastStoreCompletion(in) ELSE completion

(***************************************************************************)
(* The request buffer in front of the cache.                                *)
(***************************************************************************)
RequestCapture(in) ==
    ~in.flush /\ requestBuffer = {} /\ (StoreRequest \/ CacheLoadCandidate)
RequestCandidate ==
    IF StoreRequest
    THEN [isWrite |-> TRUE, uncached |-> HeadStore.uncached, index |-> storeHead,
          robPointer |-> HeadStore.robPointer, recoveryEpoch |-> HeadStore.recoveryEpoch]
    ELSE [isWrite |-> FALSE, uncached |-> Load.uncached, index |-> scheduled.index,
          robPointer |-> Load.robPointer, recoveryEpoch |-> Load.recoveryEpoch]

DataRequest(flush) == IF flush THEN {} ELSE requestBuffer
(* What the cache takes at this edge.                                        *)
Taken(in) == IF in.dataReady THEN DataRequest(in.flush) ELSE {}
TakenCachedStores(in) == {r.index : r \in {q \in Taken(in) : q.isWrite /\ ~q.uncached}}

(* What a flush leaves in the buffer.                                        *)
KeptRequests == {r \in requestBuffer : r.isWrite /\ ~r.uncached}

RequestStep(in) ==
    /\ requestBuffer' =
         IF in.flush THEN KeptRequests
         ELSE IF RequestCapture(in) THEN {RequestCandidate}
         ELSE requestBuffer \ Taken(in)
    /\ accepted' = IF in.flush THEN accepted ELSE TakenCachedStores(in)
    /\ aguException' =
         IF in.flush THEN {}
         ELSE (IF AguExceptionReady(in) THEN {} ELSE aguException)
                 \cup {Completion(a, TRUE) : a \in {b \in in.agu : b.misaligned}}
    /\ completion' =
         IF in.flush \/ FastStoreCompletion(in) # {} THEN {} ELSE GeneratedCompletion(in)

(***************************************************************************)
(* Retirement.  The queue sees the commit lanes of a flush cycle too.         *)
(***************************************************************************)
CommitsLoad(c, i) == c.isLoad /\ c.index = i /\ loads[i].valid
                     /\ loads[i].robPointer = c.robPointer
CommitsStore(c, i) == c.isStore /\ c.index = i /\ stores[i].valid
                      /\ stores[i].robPointer = c.robPointer
CommittedLoads(in) == {i \in LoadIndex : \E c \in in.commit : CommitsLoad(c, i)}
CommittedStores(in) ==
    {i \in StoreIndex : \E c \in in.commit : CommitsStore(c, i) /\ ~c.exception}
ReleasedLoads(in) == IF in.flush THEN {} ELSE CommittedLoads(in)
(* One store slot at most is given back in a cycle.                          *)
StoreReleased(in) ==
    ~in.flush /\ (accepted # {} \/ FailedScRelease \/ UncachedStoreRelease)

(***************************************************************************)
(* The slots.  A lane of the group carries its slot and the pointer and       *)
(* epochs of its uop.                                                       *)
(***************************************************************************)
Lanes(in, store, i) ==
    {lane \in in.group : lane.isStore = store /\ lane.index = i}
Fresh(empty, lane) ==
    [empty EXCEPT !.valid = TRUE, !.robPointer = lane.robPointer,
                  !.recoveryEpoch = lane.recoveryEpoch, !.memoryEpoch = lane.memoryEpoch]

StoreFreed(i) ==
    i \in accepted \/ (i = storeHead /\ (FailedScRelease \/ UncachedStoreRelease))
StoreSent(in, i) ==
    \E r \in Taken(in) : r.isWrite /\ r.uncached /\ r.index = i

(* An address from the AGU; a misaligned one leaves the address unknown.      *)
StoreAddressed(s, in, i) ==
    IF \E a \in in.agu : a.isWrite /\ a.index = i
    THEN LET a == CHOOSE a \in in.agu : TRUE
         IN  [s EXCEPT !.isSc = a.special, !.mask = a.mask,
                       !.addressReady = ~a.misaligned, !.translationDone = FALSE]
    ELSE s
StoreTranslated(s, in, i) ==
    IF /\ \E t \in Translated(in) : ~t.cancelled
       /\ translation.store /\ translation.index = i
       /\ stores[i].valid /\ stores[i].robPointer = translation.robPointer
    THEN LET t == CHOOSE t \in Translated(in) : TRUE
         IN  [s EXCEPT !.word = t.word, !.uncached = t.uncached, !.translationDone = TRUE,
                       !.scSuccess = stores[i].isSc /\ ScSucceeds(t),
                       !.completed = @ \/ TranslationCompletes(in)]
    ELSE s
StoreAfterEdge(in, i) ==
    IF StoreFreed(i) THEN EmptyStore
    ELSE IF Lanes(in, TRUE, i) # {}
    THEN Fresh(EmptyStore, CHOOSE lane \in Lanes(in, TRUE, i) : TRUE)
    ELSE [StoreTranslated(StoreAddressed(stores[i], in, i), in, i) EXCEPT
            !.dataReady = @ \/ \E d \in in.data : d.index = i,
            !.committed = @ \/ i \in CommittedStores(in),
            !.completed = @ \/ (i = storeHead /\ (StoreCompletionFire(in)
                                                  \/ ResponseStoreAccepted(in))),
            !.requestSent = @ \/ StoreSent(in, i)]
(* A flush keeps committed stores and uncached writes memory has taken.       *)
(* Mutant: only the latter.                                                 *)
StoreAfterFlushForgetting(in, i) ==
    IF stores[i].uncached /\ stores[i].requestSent
    THEN [stores[i] EXCEPT !.committed = TRUE,
                           !.completed = @ \/ (i = storeHead /\ ResponseStoreAccepted(in))]
    ELSE EmptyStore
StoreAfterFlush(in, i) ==
    IF stores[i].uncached /\ stores[i].requestSent
    THEN [stores[i] EXCEPT !.committed = TRUE,
                           !.completed = @ \/ (i = storeHead /\ ResponseStoreAccepted(in))]
    ELSE IF stores[i].committed THEN stores[i] ELSE EmptyStore

LoadAddressed(s, in, i) ==
    IF \E a \in in.agu : ~a.isWrite /\ a.index = i
    THEN LET a == CHOOSE a \in in.agu : TRUE
         IN  [s EXCEPT !.isLl = a.special, !.mask = a.mask, !.addressReady = ~a.misaligned,
                       !.completed = a.misaligned, !.translationDone = FALSE]
    ELSE s
LoadTranslated(s, in, i) ==
    IF /\ \E t \in Translated(in) : ~t.cancelled
       /\ ~translation.store /\ translation.index = i
       /\ loads[i].valid /\ loads[i].robPointer = translation.robPointer
    THEN LET t == CHOOSE t \in Translated(in) : TRUE
         IN  [s EXCEPT !.word = t.word, !.uncached = t.uncached, !.translationDone = TRUE,
                       !.completed = @ \/ t.exception]
    ELSE s
LoadAfterEdge(in, i) ==
    IF i \in CommittedLoads(in) THEN EmptyLoad
    ELSE IF Lanes(in, FALSE, i) # {}
    THEN Fresh(EmptyLoad, CHOOSE lane \in Lanes(in, FALSE, i) : TRUE)
    ELSE [LoadTranslated(LoadAddressed(loads[i], in, i), in, i) EXCEPT
            !.requestSent = @ \/ \E r \in Taken(in) :
                 ~r.isWrite /\ r.index = i /\ r.robPointer = loads[i].robPointer,
            !.completed = @ \/ i \in ResponseLoad(in)
                            \/ (ForwardFire(in) /\ i = scheduled.index)]

(***************************************************************************)
(* The scheduled load is the oldest that is neither sent nor complete.  An    *)
(* address or a translation that arrives at the same edge is bypassed into     *)
(* the registered copy, which does not hold addressReady.                    *)
(***************************************************************************)
PendingLoads ==
    {i \in LoadIndex : loads[i].valid /\ ~loads[i].requestSent /\ ~loads[i].completed}
SelectedLoad == FirstFrom(loadBase, LoadQueueEntries, PendingLoads)
(* Mutant: the translation does not reach the registered copy.               *)
NotBypassed(in, i) == loads[i]
Bypassed(in, i) ==
    LET addressed ==
          IF \E a \in in.agu : ~a.isWrite /\ ~a.misaligned /\ a.index = i
          THEN LoadAddressed(loads[i], in, i) ELSE loads[i]
        t == CHOOSE t \in Translated(in) : TRUE
    IN  IF /\ \E x \in Translated(in) : ~x.cancelled
           /\ ~translation.store
           /\ scheduled.valid /\ scheduled.index = translation.index
           /\ Load.robPointer = translation.robPointer
           /\ loads[translation.index].valid
           /\ loads[translation.index].robPointer = translation.robPointer
        THEN [addressed EXCEPT !.word = t.word, !.uncached = t.uncached,
                               !.translationDone = TRUE]
        ELSE addressed
ScheduleStep(in) ==
    scheduled' =
        IF in.flush \/ PendingLoads = {} THEN NothingScheduled
        ELSE [valid |-> TRUE, index |-> SelectedLoad,
              load |-> [Bypassed(in, SelectedLoad) EXCEPT !.addressReady = FALSE]]

LoadLanes(in) == {lane \in in.group : ~lane.isStore}
OldestLane(lanes) ==
    CHOOSE lane \in lanes : \A other \in lanes : ~IsOlder(other.robPointer, lane.robPointer)
BaseStep(in) ==
    loadBase' =
        IF in.flush THEN 0
        ELSE IF (\A i \in LoadIndex : ~loads[i].valid) /\ LoadLanes(in) # {}
        THEN OldestLane(LoadLanes(in)).index
        ELSE (loadBase + Cardinality(CommittedLoads(in))) % LoadQueueEntries

TranslationStep(in) ==
    /\ translation' =
         IF in.flush THEN NoTranslation
         ELSE IF in.translationReady THEN TranslationOwner
         ELSE IF in.translation # {} THEN NoTranslation
         ELSE translation
    /\ translationCancelPending' =
         /\ in.translation = {}
         /\ translationCancelPending \/ (in.flush /\ translation.active)

HeadAfterEdge(in) ==
    IF TakenCachedStores(in) # {} \/ FailedScRelease \/ UncachedStoreRelease
    THEN (storeHead + 1) % StoreQueueEntries
    ELSE IF drainAfterFlush /\ ~CommittedStorePresent THEN 0 ELSE storeHead
(* Mutant: a flush resets the head under the stores it keeps.                 *)
HeadResetByFlush(in) ==
    /\ drainAfterFlush' = (CommittedStorePresent /\ (in.flush \/ drainAfterFlush))
    /\ storeHead' = IF ~in.flush THEN HeadAfterEdge(in) ELSE 0
DrainStep(in) ==
    /\ drainAfterFlush' = (CommittedStorePresent /\ (in.flush \/ drainAfterFlush))
    /\ storeHead' = IF ~in.flush THEN HeadAfterEdge(in)
                    ELSE IF CommittedStorePresent THEN storeHead ELSE 0

QueueStep(in) ==
    /\ stores' = [i \in StoreIndex |-> IF in.flush THEN StoreAfterFlush(in, i)
                                       ELSE StoreAfterEdge(in, i)]
    /\ loads' = [i \in LoadIndex |-> IF in.flush THEN EmptyLoad ELSE LoadAfterEdge(in, i)]
    /\ ScheduleStep(in)
    /\ BaseStep(in)
    /\ TranslationStep(in)
    /\ RequestStep(in)
    /\ DrainStep(in)
=============================================================================
