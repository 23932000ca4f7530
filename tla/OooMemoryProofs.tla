---------------------------- MODULE OooMemoryProofs ----------------------------
(***************************************************************************)
(* Proofs about the load/store queue with the reorder buffer, the translator   *)
(* and the cache around it, for every geometry and every mix of uops.          *)
(***************************************************************************)
EXTENDS OooMemoryProperties, CountingLemmas

(***************************************************************************)
(* Rings.  At(b, s, N) is s slots behind b, Gap(b, i, N) how far i is behind b. *)
(***************************************************************************)
At(b, s, N) == (b + s) % N
Gap(b, i, N) == (i - b) % N

LEMMA GapForm ==
  ASSUME NEW N \in Nat \ {0}, NEW b \in 0 .. N - 1, NEW i \in 0 .. N - 1
  PROVE  /\ Gap(b, i, N) = IF i >= b THEN i - b ELSE i - b + N
         /\ Gap(b, i, N) \in 0 .. N - 1
BY DEF Gap

LEMMA AtForm ==
  ASSUME NEW N \in Nat \ {0}, NEW b \in 0 .. N - 1, NEW s \in 0 .. N
  PROVE  /\ At(b, s, N) = IF b + s < N THEN b + s ELSE b + s - N
         /\ At(b, s, N) \in 0 .. N - 1
BY DEF At

LEMMA AtGap ==
  ASSUME NEW N \in Nat \ {0}, NEW b \in 0 .. N - 1, NEW i \in 0 .. N - 1
  PROVE  At(b, Gap(b, i, N), N) = i
<1>1. Gap(b, i, N) = (IF i >= b THEN i - b ELSE i - b + N) /\ Gap(b, i, N) \in 0 .. N - 1
  BY GapForm
<1>2. At(b, Gap(b, i, N), N)
        = IF b + Gap(b, i, N) < N THEN b + Gap(b, i, N) ELSE b + Gap(b, i, N) - N
  BY <1>1, AtForm
<1> QED
  BY <1>1, <1>2

LEMMA GapAt ==
  ASSUME NEW N \in Nat \ {0}, NEW b \in 0 .. N - 1, NEW s \in 0 .. N - 1
  PROVE  Gap(b, At(b, s, N), N) = s
<1>1. /\ At(b, s, N) = IF b + s < N THEN b + s ELSE b + s - N
      /\ At(b, s, N) \in 0 .. N - 1
  BY AtForm
<1>2. Gap(b, At(b, s, N), N) = IF At(b, s, N) >= b THEN At(b, s, N) - b ELSE At(b, s, N) - b + N
  BY <1>1, GapForm
<1> QED
  BY <1>1, <1>2

(* The base moves on by c: what it passes is then at the far end.              *)
LEMMA GapMoves ==
  ASSUME NEW N \in Nat \ {0}, NEW b \in 0 .. N - 1, NEW c \in 0 .. N, NEW i \in 0 .. N - 1
  PROVE  Gap(At(b, c, N), i, N)
           = IF Gap(b, i, N) >= c THEN Gap(b, i, N) - c ELSE Gap(b, i, N) - c + N
<1>1. /\ At(b, c, N) = IF b + c < N THEN b + c ELSE b + c - N
      /\ At(b, c, N) \in 0 .. N - 1
  BY AtForm
<1>2. Gap(b, i, N) = IF i >= b THEN i - b ELSE i - b + N
  BY GapForm
<1>3. Gap(At(b, c, N), i, N)
        = IF i >= At(b, c, N) THEN i - At(b, c, N) ELSE i - At(b, c, N) + N
  BY <1>1, GapForm
<1> QED
  BY <1>1, <1>2, <1>3

LEMMA AtMoves ==
  ASSUME NEW N \in Nat \ {0}, NEW b \in 0 .. N - 1, NEW c \in Nat, NEW s \in Nat
  PROVE  At(At(b, c, N), s, N) = At(b, c + s, N)
<1>1. PICK a \in Nat : a = b + c
  OBVIOUS
<1>2. (((a % N) + s) % N) = ((a + s) % N)
  BY AddToRemainder
<1>3. a + s = b + (c + s)
  BY <1>1
<1> QED
  BY <1>1, <1>2, <1>3 DEF At

LEMMA AtZero ==
  ASSUME NEW N \in Nat \ {0}, NEW b \in 0 .. N - 1
  PROVE  At(b, 0, N) = b
BY AtForm

(***************************************************************************)
(* The shape of the state.                                                   *)
(***************************************************************************)
Epochs == 0 .. RecoveryEpochs - 1
Barriers == 0 .. MemoryEpochs - 1
SomeMasks == Masks \cup {{}}

StoreEntries ==
    [valid : BOOLEAN, addressReady : BOOLEAN, dataReady : BOOLEAN, completed : BOOLEAN,
     committed : BOOLEAN, requestSent : BOOLEAN, translationDone : BOOLEAN,
     robPointer : RobPointer, recoveryEpoch : Epochs, memoryEpoch : Barriers,
     word : Words, mask : SomeMasks, uncached : BOOLEAN, isSc : BOOLEAN, scSuccess : BOOLEAN]
LoadEntries ==
    [valid : BOOLEAN, addressReady : BOOLEAN, requestSent : BOOLEAN, completed : BOOLEAN,
     translationDone : BOOLEAN, robPointer : RobPointer, recoveryEpoch : Epochs,
     memoryEpoch : Barriers, word : Words, mask : SomeMasks, uncached : BOOLEAN,
     isLl : BOOLEAN]
Scheduled == [valid : BOOLEAN, index : LoadIndex, load : LoadEntries]
Owners ==
    [active : BOOLEAN, store : BOOLEAN, index : Nat, robPointer : RobPointer,
     recoveryEpoch : Epochs]
Requests ==
    [isWrite : BOOLEAN, uncached : BOOLEAN, index : Nat, robPointer : RobPointer,
     recoveryEpoch : Epochs]
Completions == [robPointer : RobPointer, recoveryEpoch : Epochs, exception : BOOLEAN]
WindowUops ==
    [kind : Kinds, index : Nat, issued : BOOLEAN, dataSent : BOOLEAN,
     done : {"no", "good", "redirect"}, accesses : Nat, stale : BOOLEAN]

SlotsTypeOK ==
    /\ stores \in [StoreIndex -> StoreEntries]
    /\ loads \in [LoadIndex -> LoadEntries]
QueueTypeOK ==
    /\ storeHead \in StoreIndex /\ loadBase \in LoadIndex
    /\ loadTail \in LoadIndex /\ storeTail \in StoreIndex
    /\ scheduled \in Scheduled
    /\ drainAfterFlush \in BOOLEAN
    /\ translation \in Owners
    /\ translation.active =>
          translation.index \in IF translation.store THEN StoreIndex ELSE LoadIndex
    /\ translationCancelPending \in BOOLEAN
    /\ requestBuffer \subseteq Requests
    /\ \A r \in requestBuffer : r.index \in IF r.isWrite THEN StoreIndex ELSE LoadIndex
    /\ accepted \subseteq StoreIndex
    /\ aguException \subseteq Completions
    /\ completion \subseteq Completions
WindowTypeOK ==
    /\ window \in Seq(WindowUops) /\ Len(window) <= RobEntries
    /\ robHead \in RobPointer /\ committedMemoryEpoch \in Barriers
    /\ recoveryEpoch \in Epochs /\ redirectPending \in BOOLEAN
MemoryTypeOK == SlotsTypeOK /\ QueueTypeOK /\ WindowTypeOK

LEMMA Sizes ==
  /\ LoadQueueEntries \in Nat \ {0} /\ StoreQueueEntries \in Nat \ {0}
  /\ StoreQueueEntries > 1
  /\ RobEntries \in Nat \ {0} /\ PointerModulus \in Nat \ {0}
  /\ PointerModulus = 2 * RobEntries
  /\ CommitWidth \in Nat /\ RenameWidth \in Nat /\ RenameWidth <= RobEntries
  /\ RecoveryEpochs \in Nat \ {0} /\ MemoryEpochs \in Nat \ {0}
BY LsqAllocatorAssumption, CoreConfigAssumption DEF PointerModulus

LEMMA Empties ==
  EmptyStore \in StoreEntries /\ EmptyLoad \in LoadEntries
<1>1. 0 \in Words /\ 0 \in RobPointer /\ 0 \in Epochs /\ 0 \in Barriers /\ {} \in SomeMasks
  BY WordsAssumption, Sizes DEF RobPointer, Epochs, Barriers, SomeMasks
<1> QED
  BY <1>1 DEF EmptyStore, EmptyLoad, StoreEntries, LoadEntries

LEMMA TypesInit == MemoryInit => MemoryTypeOK
<1> SUFFICES ASSUME MemoryInit PROVE MemoryTypeOK
  OBVIOUS
<1>0. 0 \in StoreIndex /\ 0 \in LoadIndex /\ 0 \in RobPointer /\ 0 \in Epochs /\ 0 \in Barriers
  BY Sizes DEF StoreIndex, LoadIndex, RobPointer, Epochs, Barriers
<1>1. SlotsTypeOK
  BY Empties DEF MemoryInit, QueueInit, SlotsTypeOK
<1>2. QueueTypeOK
  <2>1. scheduled \in Scheduled
    BY <1>0, Empties DEF MemoryInit, QueueInit, NothingScheduled, Scheduled
  <2>2. translation \in Owners /\ ~translation.active
    BY <1>0 DEF MemoryInit, QueueInit, NoTranslation, Owners
  <2> QED
    BY <1>0, <2>1, <2>2 DEF MemoryInit, QueueInit, AllocatorInit, QueueTypeOK
<1>3. WindowTypeOK
  <2>1. window \in Seq(WindowUops) /\ Len(window) = 0
    BY DEF MemoryInit
  <2>2. /\ robHead = 0 /\ committedMemoryEpoch = 0 /\ recoveryEpoch = 0
        /\ redirectPending = FALSE
    BY DEF MemoryInit
  <2>3. Len(window) <= RobEntries
    BY <2>1, Sizes
  <2>4. redirectPending \in BOOLEAN
    BY <2>2
  <2> QED
    BY <1>0, <2>1, <2>2, <2>3, <2>4 DEF WindowTypeOK
<1> QED
  BY <1>1, <1>2, <1>3 DEF MemoryTypeOK

(***************************************************************************)
(* A step, with its inputs.                                                  *)
(***************************************************************************)
Offered(in, n, kinds) ==
    /\ in.flush \in Flushes /\ kinds \in Groups /\ n \in 0 .. CommitWidth
    /\ kinds # <<>> => Accepts(kinds, in.flush)
    /\ Retirable(n)
    /\ in.group = AllocatedLanes(kinds) /\ in.commit = CommitLanes(n)
    /\ in.agu \in AtMostOne(Addresses) /\ \A a \in in.agu : AguReady(a, in.flush)
    /\ in.data \in AtMostOne(StoreData) /\ \A d \in in.data : StoreDataReady(d, in.flush)
    /\ in.translationReady \in {FALSE, TranslationRequestValid(in.flush)}
    /\ in.translation \in AtMostOne(IF translation.active \/ translationCancelPending
                                    THEN Answers ELSE {})
    /\ \A t \in in.translation : TranslationResponseReady(in, t)
    /\ in.dataReady \in {FALSE, DataRequest(in.flush) # {}}
    /\ in.response \in AtMostOne(Responses)
    /\ in.barrier \in {FALSE, BarrierMayComplete}

(* Names the inputs of a step.                                               *)
LEMMA StepForm ==
  ASSUME MemoryNext
  PROVE  \E in, n, kinds : Offered(in, n, kinds) /\ Cycle(in, n, kinds)
<1>1. PICK flush \in Flushes, kinds \in Groups, n \in 0 .. CommitWidth :
        /\ kinds # <<>> => Accepts(kinds, flush) /\ Span + Len(kinds) <= Reach
        /\ Retirable(n)
        /\ \E agu \in AtMostOne(Addresses), data \in AtMostOne(StoreData),
              translationReady \in {FALSE, TranslationRequestValid(flush)},
              translation_ \in AtMostOne(IF translation.active \/ translationCancelPending
                                         THEN Answers ELSE {}),
              dataReady \in {FALSE, DataRequest(flush) # {}},
              response \in AtMostOne(Responses),
              barrier \in {FALSE, BarrierMayComplete} :
             LET in == [flush |-> flush, group |-> AllocatedLanes(kinds),
                        commit |-> CommitLanes(n), agu |-> agu, data |-> data,
                        translationReady |-> translationReady, translation |-> translation_,
                        dataReady |-> dataReady, response |-> response, barrier |-> barrier]
             IN  /\ Events(in, n, kinds) <= EventsPerCycle
                 /\ \A a \in agu : AguReady(a, flush)
                 /\ \A d \in data : StoreDataReady(d, flush)
                 /\ \A t \in translation_ : TranslationResponseReady(in, t)
                 /\ EpochFree(in)
                 /\ Cycle(in, n, kinds)
  BY DEF MemoryNext
<1>2. PICK agu \in AtMostOne(Addresses), data \in AtMostOne(StoreData),
           translationReady \in {FALSE, TranslationRequestValid(flush)},
           translation_ \in AtMostOne(IF translation.active \/ translationCancelPending
                                      THEN Answers ELSE {}),
           dataReady \in {FALSE, DataRequest(flush) # {}},
           response \in AtMostOne(Responses),
           barrier \in {FALSE, BarrierMayComplete} :
             LET in == [flush |-> flush, group |-> AllocatedLanes(kinds),
                        commit |-> CommitLanes(n), agu |-> agu, data |-> data,
                        translationReady |-> translationReady, translation |-> translation_,
                        dataReady |-> dataReady, response |-> response, barrier |-> barrier]
             IN  /\ Events(in, n, kinds) <= EventsPerCycle
                 /\ \A a \in agu : AguReady(a, flush)
                 /\ \A d \in data : StoreDataReady(d, flush)
                 /\ \A t \in translation_ : TranslationResponseReady(in, t)
                 /\ EpochFree(in)
                 /\ Cycle(in, n, kinds)
  BY <1>1
<1> DEFINE in == [flush |-> flush, group |-> AllocatedLanes(kinds),
                  commit |-> CommitLanes(n), agu |-> agu, data |-> data,
                  translationReady |-> translationReady, translation |-> translation_,
                  dataReady |-> dataReady, response |-> response, barrier |-> barrier]
<1>3. /\ in.flush = flush /\ in.group = AllocatedLanes(kinds) /\ in.commit = CommitLanes(n)
      /\ in.agu = agu /\ in.data = data /\ in.translationReady = translationReady
      /\ in.translation = translation_ /\ in.dataReady = dataReady
      /\ in.response = response /\ in.barrier = barrier
  OBVIOUS
<1>4. /\ \A a \in agu : AguReady(a, flush)
      /\ \A d \in data : StoreDataReady(d, flush)
      /\ \A t \in translation_ : TranslationResponseReady(in, t)
      /\ Cycle(in, n, kinds)
  BY <1>2
<1> HIDE DEF in
<1>5. Offered(in, n, kinds)
  BY <1>1, <1>2, <1>3, <1>4, Zenon DEF Offered
<1> QED
  BY <1>4, <1>5

(***************************************************************************)
(* What the inputs are.                                                      *)
(***************************************************************************)
LEMMA PointerType ==
  ASSUME MemoryTypeOK, NEW k \in Nat, k >= 1
  PROVE  Pointer(k) \in RobPointer
<1>1. robHead \in Nat /\ robHead + k - 1 \in Nat
  BY DEF MemoryTypeOK, WindowTypeOK, RobPointer
<1> QED
  BY <1>1, Sizes, Remainder DEF Pointer, RobPointer

(* An address of the uop at k.                                              *)
Addressing(a, k) ==
    /\ k \in DOMAIN window /\ IsMemory(window[k]) /\ ~window[k].issued
    /\ a.isWrite = IsStore(window[k]) /\ a.index = window[k].index
    /\ a.robPointer = Pointer(k) /\ a.recoveryEpoch = recoveryEpoch
    /\ a.mask \in Masks /\ a.misaligned \in BOOLEAN /\ a.special = Special(window[k])

LEMMA AguForm ==
  ASSUME NEW in, NEW n, NEW kinds, Offered(in, n, kinds), NEW a \in in.agu
  PROVE  /\ in.agu = {a} /\ (CHOOSE b \in in.agu : TRUE) = a
         /\ AguReady(a, in.flush)
         /\ \E k : Addressing(a, k)
<1>1. in.agu \in AtMostOne(Addresses) /\ AguReady(a, in.flush)
  BY DEF Offered
<1>2. in.agu = {a} /\ a \in Addresses
  BY <1>1 DEF AtMostOne
<1>3. PICK k \in {j \in DOMAIN window : /\ IsMemory(window[j]) /\ ~window[j].issued
                                        /\ Serializes(window[j]) => j = 1} :
        a \in {[isWrite |-> IsStore(window[k]), index |-> window[k].index,
                robPointer |-> Pointer(k), recoveryEpoch |-> recoveryEpoch,
                mask |-> mask, misaligned |-> misaligned, special |-> Special(window[k])] :
                  mask \in Masks, misaligned \in Misaligned}
  BY <1>2 DEF Addresses
<1>4. PICK mask \in Masks, misaligned \in Misaligned :
        a = [isWrite |-> IsStore(window[k]), index |-> window[k].index,
             robPointer |-> Pointer(k), recoveryEpoch |-> recoveryEpoch,
             mask |-> mask, misaligned |-> misaligned, special |-> Special(window[k])]
  BY <1>3
<1>5. Addressing(a, k)
  BY <1>3, <1>4, MemoryAssumption DEF Addressing
<1>6. (CHOOSE b \in in.agu : TRUE) = a
  BY <1>2
<1> QED
  BY <1>1, <1>2, <1>5, <1>6

LEMMA AnswerForm ==
  ASSUME NEW in, NEW n, NEW kinds, Offered(in, n, kinds), NEW t \in in.translation
  PROVE  /\ in.translation = {t}
         /\ translation.active \/ translationCancelPending
         /\ TranslationResponseReady(in, t)
         /\ t.cancelled \in BOOLEAN /\ t.exception \in BOOLEAN /\ t.uncached \in BOOLEAN
         /\ t.word \in Words
<1>1. /\ in.translation \in AtMostOne(IF translation.active \/ translationCancelPending
                                      THEN Answers ELSE {})
      /\ TranslationResponseReady(in, t)
  BY DEF Offered
<1>2. in.translation = {t} /\ t \in Answers /\ (translation.active \/ translationCancelPending)
  BY <1>1 DEF AtMostOne
<1> QED
  BY <1>1, <1>2, MemoryAssumption

(* The answer taken for the owner, if any, is the only one.                    *)
LEMMA TranslatedForm ==
  ASSUME NEW in, NEW n, NEW kinds, Offered(in, n, kinds), NEW t \in Translated(in)
  PROVE  /\ translation.active /\ ~in.flush /\ t \in in.translation
         /\ Translated(in) = {t} /\ (CHOOSE x \in Translated(in) : TRUE) = t
<1>1. translation.active /\ ~in.flush /\ t \in in.translation /\ Translated(in) = in.translation
  BY DEF Translated
<1>2. in.translation = {t}
  BY <1>1, AnswerForm
<1> QED
  BY <1>1, <1>2

LEMMA ResponseForm ==
  ASSUME NEW in, NEW n, NEW kinds, Offered(in, n, kinds), NEW r \in in.response
  PROVE  in.response = {r} /\ r.error \in BOOLEAN
<1>1. in.response \in AtMostOne(Responses)
  BY DEF Offered
<1>2. in.response = {r} /\ r \in Responses
  BY <1>1 DEF AtMostOne
<1> QED
  BY <1>2, MemoryAssumption DEF Responses

(* The group: lane i of the new uops that need a slot.                         *)
Laning(lane, kinds, i) ==
    /\ i \in DOMAIN kinds /\ kinds[i] \in LoadKinds \cup StoreKinds
    /\ lane.isStore = (kinds[i] \in StoreKinds) /\ lane.index = NewUop(kinds, i).index
    /\ lane.robPointer = Pointer(Len(window) + i) /\ lane.recoveryEpoch = recoveryEpoch
    /\ lane.memoryEpoch = EpochOf(kinds, i)

LEMMA LaneForm ==
  ASSUME NEW in, NEW n, NEW kinds, Offered(in, n, kinds)
  PROVE  /\ \A lane \in in.group : \E i : Laning(lane, kinds, i)
         /\ \A i \in DOMAIN kinds : kinds[i] \in LoadKinds \cup StoreKinds =>
               \E lane \in in.group : Laning(lane, kinds, i)
<1> DEFINE lane(i) == [isStore |-> kinds[i] \in StoreKinds, index |-> NewUop(kinds, i).index,
                       robPointer |-> Pointer(Len(window) + i),
                       recoveryEpoch |-> recoveryEpoch, memoryEpoch |-> EpochOf(kinds, i)]
           some == {j \in DOMAIN kinds : kinds[j] \in LoadKinds \cup StoreKinds}
<1>1. in.group = {lane(i) : i \in some}
  BY DEF Offered, AllocatedLanes
<1>2. ASSUME NEW i \in some PROVE Laning(lane(i), kinds, i)
  BY <1>2 DEF Laning
<1> HIDE DEF lane
<1>3. ASSUME NEW l \in in.group PROVE \E i : Laning(l, kinds, i)
  <2>1. PICK i \in some : l = lane(i)
    BY <1>1, <1>3
  <2> QED
    BY <1>2, <2>1
<1>4. ASSUME NEW i \in DOMAIN kinds, kinds[i] \in LoadKinds \cup StoreKinds
      PROVE  \E l \in in.group : Laning(l, kinds, i)
  <2>1. i \in some /\ lane(i) \in in.group
    BY <1>1, <1>4
  <2> QED
    BY <1>2, <2>1
<1> QED
  BY <1>3, <1>4

LEMMA GroupForm ==
  ASSUME NEW in, NEW n, NEW kinds, Offered(in, n, kinds)
  PROVE  /\ kinds \in Seq(Kinds) /\ Len(kinds) \in 0 .. RenameWidth
         /\ DOMAIN kinds = 1 .. Len(kinds)
<1>1. kinds \in Groups
  BY DEF Offered
<1>2. PICK m \in 0 .. RenameWidth : kinds \in [1 .. m -> Kinds]
  BY <1>1 DEF Groups
<1>3. m \in Nat
  BY <1>2, Sizes
<1>4. kinds \in Seq(Kinds) /\ Len(kinds) = m /\ DOMAIN kinds = 1 .. m
  BY <1>2, <1>3
<1> QED
  BY <1>2, <1>4

LEMMA LaneType ==
  ASSUME MemoryTypeOK, NEW in, NEW n, NEW kinds, Offered(in, n, kinds),
         NEW lane \in in.group
  PROVE  /\ lane.robPointer \in RobPointer /\ lane.recoveryEpoch \in Epochs
         /\ lane.memoryEpoch \in Barriers
<1>1. PICK i : Laning(lane, kinds, i)
  BY LaneForm
<1>2. i \in Nat /\ i >= 1 /\ Len(window) \in Nat /\ DOMAIN window = 1 .. Len(window)
  BY <1>1, GroupForm DEF Laning, MemoryTypeOK, WindowTypeOK
<1>3. Pointer(Len(window) + i) \in RobPointer
  BY <1>2, PointerType
<1>4. EpochOf(kinds, i) \in Barriers
  <2> DEFINE B == {k \in DOMAIN window : window[k].kind = "barrier"}
             C == {j \in 1 .. i - 1 : kinds[j] \in {"barrier"}}
  <2>1. Cardinality(B) \in Nat
    <3>1. IsFiniteSet(1 .. Len(window)) /\ B \in SUBSET (1 .. Len(window))
      BY <1>2, FS_Interval
    <3> QED
      BY <3>1, FS_Subset, FS_CardinalityType
  <2>2. Cardinality(C) \in Nat
    <3>1. IsFiniteSet(1 .. i - 1) /\ C \in SUBSET (1 .. i - 1)
      BY <1>2, FS_Interval
    <3> QED
      BY <3>1, FS_Subset, FS_CardinalityType
  <2>3. EpochOf(kinds, i) = (committedMemoryEpoch + Cardinality(C) + Cardinality(B)) % MemoryEpochs
    BY DEF EpochOf, CountOf
  <2>4. committedMemoryEpoch \in Nat
    BY DEF MemoryTypeOK, WindowTypeOK, Barriers
  <2> HIDE DEF B, C
  <2>5. PICK x \in Nat : x = committedMemoryEpoch + Cardinality(C) + Cardinality(B)
    BY <2>1, <2>2, <2>4
  <2> QED
    BY <2>3, <2>5, Remainder, Sizes DEF Barriers
<1> QED
  BY <1>1, <1>3, <1>4 DEF Laning, MemoryTypeOK, WindowTypeOK

(***************************************************************************)
(* The slots after an edge.                                                  *)
(***************************************************************************)
StoreWithAddress(s, a) ==
    [s EXCEPT !.isSc = a.special, !.mask = a.mask,
              !.addressReady = ~a.misaligned, !.translationDone = FALSE]
StoreWithAnswer(s, in, i, t) ==
    [s EXCEPT !.word = t.word, !.uncached = t.uncached, !.translationDone = TRUE,
              !.scSuccess = stores[i].isSc /\ ScSucceeds(t),
              !.completed = @ \/ TranslationCompletes(in)]
LoadWithAddress(s, a) ==
    [s EXCEPT !.isLl = a.special, !.mask = a.mask, !.addressReady = ~a.misaligned,
              !.completed = a.misaligned, !.translationDone = FALSE]
LoadWithAnswer(s, t) ==
    [s EXCEPT !.word = t.word, !.uncached = t.uncached, !.translationDone = TRUE,
              !.completed = @ \/ t.exception]

LEMMA StoreAddressedForm ==
  ASSUME SlotsTypeOK, NEW in, NEW n, NEW kinds, Offered(in, n, kinds), NEW i \in StoreIndex,
         NEW s, s = StoreAddressed(stores[i], in, i)
  PROVE  /\ s \in StoreEntries
         /\ \A a \in in.agu : a.isWrite /\ a.index = i =>
               s = StoreWithAddress(stores[i], a)
         /\ (\A a \in in.agu : ~(a.isWrite /\ a.index = i)) => s = stores[i]
<1>1. stores[i] \in StoreEntries
  BY DEF SlotsTypeOK
<1>2. CASE \A a \in in.agu : ~(a.isWrite /\ a.index = i)
  <2>1. s = stores[i]
    BY <1>2 DEF StoreAddressed, StoreWithAddress
  <2> QED
    BY <1>1, <1>2, <2>1
<1>3. ASSUME NEW a \in in.agu, a.isWrite, a.index = i
      PROVE  /\ s = StoreWithAddress(stores[i], a)
             /\ s \in StoreEntries /\ in.agu = {a}
  <2>1. in.agu = {a} /\ (CHOOSE b \in in.agu : TRUE) = a
    BY AguForm
  <2>2. PICK k : Addressing(a, k)
    BY AguForm
  <2>3. a.special \in BOOLEAN /\ a.mask \in SomeMasks
    BY <2>2 DEF Addressing, Special, SomeMasks
  <2>4. \E b \in in.agu : b.isWrite /\ b.index = i
    BY <1>3
  <2>5. s = StoreWithAddress(stores[i], a)
    BY <2>1, <2>4 DEF StoreAddressed, StoreWithAddress
  <2>6. s \in StoreEntries
    BY <1>1, <2>3, <2>5 DEF StoreEntries, StoreWithAddress
  <2> QED
    BY <2>1, <2>5, <2>6
<1>4. \A a \in in.agu : a.isWrite /\ a.index = i =>
        /\ s = StoreWithAddress(stores[i], a)
        /\ s \in StoreEntries
  BY <1>3
<1> QED
  BY <1>2, <1>4

(* The translator's answer for the store in slot i.                            *)
StoreAnswered(in, i, t) ==
    /\ t \in Translated(in) /\ ~t.cancelled
    /\ translation.store /\ translation.index = i
    /\ stores[i].valid /\ stores[i].robPointer = translation.robPointer

LEMMA StoreTranslatedForm ==
  ASSUME SlotsTypeOK, NEW in, NEW n, NEW kinds, Offered(in, n, kinds), NEW i \in StoreIndex,
         NEW s \in StoreEntries, NEW r, r = StoreTranslated(s, in, i)
  PROVE  /\ r \in StoreEntries
         /\ \A t : StoreAnswered(in, i, t) =>
               r = StoreWithAnswer(s, in, i, t)
         /\ (\A t : ~StoreAnswered(in, i, t)) => r = s
<1>1. CASE \A t : ~StoreAnswered(in, i, t)
  <2>1. r = s
    BY <1>1 DEF StoreTranslated, StoreAnswered, StoreWithAnswer
  <2> QED
    BY <1>1, <2>1
<1>2. ASSUME NEW t, StoreAnswered(in, i, t)
      PROVE  /\ r = StoreWithAnswer(s, in, i, t)
             /\ r \in StoreEntries
  <2>1. t \in Translated(in) /\ t \in in.translation /\ (CHOOSE x \in Translated(in) : TRUE) = t
    BY <1>2, TranslatedForm DEF StoreAnswered
  <2>2. t.word \in Words /\ t.uncached \in BOOLEAN
    BY <2>1, AnswerForm
  <2>3. \E x \in Translated(in) : ~x.cancelled
    BY <1>2 DEF StoreAnswered
  <2>4. r = StoreWithAnswer(s, in, i, t)
    BY <1>2, <2>1, <2>3 DEF StoreTranslated, StoreAnswered, StoreWithAnswer
  <2>5. (stores[i].isSc /\ ScSucceeds(t)) \in BOOLEAN
          /\ (s.completed \/ TranslationCompletes(in)) \in BOOLEAN
    OBVIOUS
  <2>6. r \in StoreEntries
    BY <2>2, <2>4, <2>5 DEF StoreEntries, StoreWithAnswer
  <2> QED
    BY <2>4, <2>6
<1> QED
  BY <1>1, <1>2

LEMMA LoadAddressedForm ==
  ASSUME SlotsTypeOK, NEW in, NEW n, NEW kinds, Offered(in, n, kinds), NEW i \in LoadIndex,
         NEW s, s = LoadAddressed(loads[i], in, i)
  PROVE  /\ s \in LoadEntries
         /\ \A a \in in.agu : ~a.isWrite /\ a.index = i =>
               s = LoadWithAddress(loads[i], a)
         /\ (\A a \in in.agu : ~(~a.isWrite /\ a.index = i)) => s = loads[i]
<1>1. loads[i] \in LoadEntries
  BY DEF SlotsTypeOK
<1>2. CASE \A a \in in.agu : ~(~a.isWrite /\ a.index = i)
  <2>1. s = loads[i]
    BY <1>2 DEF LoadAddressed, LoadWithAddress
  <2> QED
    BY <1>1, <1>2, <2>1
<1>3. ASSUME NEW a \in in.agu, ~a.isWrite, a.index = i
      PROVE  /\ s = LoadWithAddress(loads[i], a)
             /\ s \in LoadEntries /\ in.agu = {a}
  <2>1. in.agu = {a} /\ (CHOOSE b \in in.agu : TRUE) = a
    BY AguForm
  <2>2. PICK k : Addressing(a, k)
    BY AguForm
  <2>3. a.special \in BOOLEAN /\ a.misaligned \in BOOLEAN /\ a.mask \in SomeMasks
    BY <2>2 DEF Addressing, Special, SomeMasks
  <2>4. \E b \in in.agu : ~b.isWrite /\ b.index = i
    BY <1>3
  <2>5. s = LoadWithAddress(loads[i], a)
    BY <2>1, <2>4 DEF LoadAddressed, LoadWithAddress
  <2>6. s \in LoadEntries
    BY <1>1, <2>3, <2>5 DEF LoadEntries, LoadWithAddress
  <2> QED
    BY <2>1, <2>5, <2>6
<1>4. \A a \in in.agu : ~a.isWrite /\ a.index = i =>
        /\ s = LoadWithAddress(loads[i], a)
        /\ s \in LoadEntries
  BY <1>3
<1> QED
  BY <1>2, <1>4

(* The translator's answer for the load in slot i.                             *)
LoadAnswered(in, i, t) ==
    /\ t \in Translated(in) /\ ~t.cancelled
    /\ ~translation.store /\ translation.index = i
    /\ loads[i].valid /\ loads[i].robPointer = translation.robPointer

LEMMA LoadTranslatedForm ==
  ASSUME SlotsTypeOK, NEW in, NEW n, NEW kinds, Offered(in, n, kinds), NEW i \in LoadIndex,
         NEW s \in LoadEntries, NEW r, r = LoadTranslated(s, in, i)
  PROVE  /\ r \in LoadEntries
         /\ \A t : LoadAnswered(in, i, t) =>
               r = LoadWithAnswer(s, t)
         /\ (\A t : ~LoadAnswered(in, i, t)) => r = s
<1>1. CASE \A t : ~LoadAnswered(in, i, t)
  <2>1. r = s
    BY <1>1 DEF LoadTranslated, LoadAnswered, LoadWithAnswer
  <2> QED
    BY <1>1, <2>1
<1>2. ASSUME NEW t, LoadAnswered(in, i, t)
      PROVE  /\ r = LoadWithAnswer(s, t)
             /\ r \in LoadEntries
  <2>1. t \in Translated(in) /\ t \in in.translation /\ (CHOOSE x \in Translated(in) : TRUE) = t
    BY <1>2, TranslatedForm DEF LoadAnswered
  <2>2. t.word \in Words /\ t.uncached \in BOOLEAN
    BY <2>1, AnswerForm
  <2>3. \E x \in Translated(in) : ~x.cancelled
    BY <1>2 DEF LoadAnswered
  <2>4. r = LoadWithAnswer(s, t)
    BY <1>2, <2>1, <2>3 DEF LoadTranslated, LoadAnswered, LoadWithAnswer
  <2>5. (s.completed \/ t.exception) \in BOOLEAN
    OBVIOUS
  <2>6. r \in LoadEntries
    BY <2>2, <2>4, <2>5 DEF LoadEntries, LoadWithAnswer
  <2> QED
    BY <2>4, <2>6
<1> QED
  BY <1>1, <1>2

(***************************************************************************)
(* A slot is given back, taken by a lane of the group, or keeps its access     *)
(* and learns about it.                                                      *)
(***************************************************************************)
StoreAddressing(in, i) == \E a \in in.agu : a.isWrite /\ a.index = i
StoreAnswering(in, i) == \E t : StoreAnswered(in, i, t)
LoadAddressing(in, i) == \E a \in in.agu : ~a.isWrite /\ a.index = i
LoadAnswering(in, i) == \E t : LoadAnswered(in, i, t)

StoreKept(in, i) ==
    LET s == stores[i]
        r == stores'[i]
    IN  /\ r.valid = s.valid /\ r.robPointer = s.robPointer
        /\ r.recoveryEpoch = s.recoveryEpoch /\ r.memoryEpoch = s.memoryEpoch
        /\ r.dataReady <=> s.dataReady \/ \E d \in in.data : d.index = i
        /\ r.committed <=> s.committed \/ i \in CommittedStores(in)
        /\ r.requestSent <=> s.requestSent \/ StoreSent(in, i)
        /\ ~StoreAddressing(in, i) =>
              r.addressReady = s.addressReady /\ r.mask = s.mask /\ r.isSc = s.isSc
        /\ \A a \in in.agu : a.isWrite /\ a.index = i =>
              r.addressReady = ~a.misaligned /\ r.mask = a.mask /\ r.isSc = a.special
        /\ ~StoreAnswering(in, i) =>
              /\ r.word = s.word /\ r.uncached = s.uncached /\ r.scSuccess = s.scSuccess
              /\ r.translationDone <=> s.translationDone /\ ~StoreAddressing(in, i)
              /\ r.completed <=> \/ s.completed
                                 \/ i = storeHead /\ (StoreCompletionFire(in)
                                                      \/ ResponseStoreAccepted(in))
        /\ \A t : StoreAnswered(in, i, t) =>
              /\ r.word = t.word /\ r.uncached = t.uncached /\ r.translationDone
              /\ r.scSuccess <=> s.isSc /\ ScSucceeds(t)
              /\ r.completed <=> \/ s.completed \/ TranslationCompletes(in)
                                 \/ i = storeHead /\ (StoreCompletionFire(in)
                                                      \/ ResponseStoreAccepted(in))
StoreFresh(in, i) ==
    \E lane \in Lanes(in, TRUE, i) : stores'[i] = Fresh(EmptyStore, lane)

LEMMA FreshForm ==
  ASSUME MemoryTypeOK, NEW in, NEW n, NEW kinds, Offered(in, n, kinds),
         NEW lane \in in.group
  PROVE  /\ Fresh(EmptyStore, lane) \in StoreEntries
         /\ Fresh(EmptyLoad, lane) \in LoadEntries
<1>1. /\ lane.robPointer \in RobPointer /\ lane.recoveryEpoch \in Epochs
      /\ lane.memoryEpoch \in Barriers
  BY LaneType
<1>2. Fresh(EmptyStore, lane) \in StoreEntries
  BY <1>1, Empties DEF Fresh, StoreEntries
<1>3. Fresh(EmptyLoad, lane) \in LoadEntries
  BY <1>1, Empties DEF Fresh, LoadEntries
<1> QED
  BY <1>2, <1>3

LEMMA StoreEdge ==
  ASSUME MemoryTypeOK, NEW in, NEW n, NEW kinds, Offered(in, n, kinds), Cycle(in, n, kinds),
         ~in.flush, NEW i \in StoreIndex
  PROVE  /\ StoreFreed(i) => stores'[i] = EmptyStore
         /\ ~StoreFreed(i) /\ Lanes(in, TRUE, i) # {} => StoreFresh(in, i)
         /\ ~StoreFreed(i) /\ Lanes(in, TRUE, i) = {} => StoreKept(in, i)
         /\ stores'[i] \in StoreEntries
<1>1. stores'[i] = StoreAfterEdge(in, i)
  BY DEF Cycle, QueueStep
<1>2. CASE StoreFreed(i)
  BY <1>1, <1>2, Empties DEF StoreAfterEdge
<1>3. CASE ~StoreFreed(i) /\ Lanes(in, TRUE, i) # {}
  <2>1. PICK lane \in Lanes(in, TRUE, i) :
          lane = CHOOSE l \in Lanes(in, TRUE, i) : TRUE
    BY <1>3
  <2>2. stores'[i] = Fresh(EmptyStore, lane)
    BY <1>1, <1>3, <2>1 DEF StoreAfterEdge
  <2>3. lane \in in.group
    BY DEF Lanes
  <2>4. Fresh(EmptyStore, lane) \in StoreEntries
    BY <2>3, FreshForm
  <2> QED
    BY <1>3, <2>2, <2>4 DEF StoreFresh
<1>4. CASE ~StoreFreed(i) /\ Lanes(in, TRUE, i) = {}
  <2>0. SlotsTypeOK /\ stores[i] \in StoreEntries
    BY DEF MemoryTypeOK, SlotsTypeOK
  <2>1. PICK a : a = StoreAddressed(stores[i], in, i)
    OBVIOUS
  <2>2. PICK t : t = StoreTranslated(a, in, i)
    OBVIOUS
  <2>3. a \in StoreEntries
    BY <2>0, <2>1, StoreAddressedForm
  <2>4. t \in StoreEntries
    BY <2>0, <2>2, <2>3, StoreTranslatedForm
  <2>5. stores'[i] =
          [t EXCEPT !.dataReady = @ \/ \E d \in in.data : d.index = i,
                    !.committed = @ \/ i \in CommittedStores(in),
                    !.completed = @ \/ (i = storeHead /\ (StoreCompletionFire(in)
                                                          \/ ResponseStoreAccepted(in))),
                    !.requestSent = @ \/ StoreSent(in, i)]
    BY <1>1, <1>4, <2>1, <2>2 DEF StoreAfterEdge
  <2>6. /\ (t.dataReady \/ \E d \in in.data : d.index = i) \in BOOLEAN
        /\ (t.committed \/ i \in CommittedStores(in)) \in BOOLEAN
        /\ (t.completed \/ (i = storeHead /\ (StoreCompletionFire(in)
                                              \/ ResponseStoreAccepted(in)))) \in BOOLEAN
        /\ (t.requestSent \/ StoreSent(in, i)) \in BOOLEAN
    OBVIOUS
  <2>7. stores'[i] \in StoreEntries
    BY <2>4, <2>5, <2>6 DEF StoreEntries
  <2>8. /\ (\A x : ~StoreAnswered(in, i, x)) => t = a
        /\ \A x : StoreAnswered(in, i, x) =>
               t = StoreWithAnswer(a, in, i, x)
    BY <2>0, <2>2, <2>3, StoreTranslatedForm
  <2>9. /\ \A b \in in.agu : b.isWrite /\ b.index = i =>
              a = StoreWithAddress(stores[i], b)
        /\ (\A b \in in.agu : ~(b.isWrite /\ b.index = i)) => a = stores[i]
    BY <2>0, <2>1, StoreAddressedForm
  <2>10. StoreKept(in, i)
    <3> DEFINE u == stores'[i]
               done == i = storeHead /\ (StoreCompletionFire(in) \/ ResponseStoreAccepted(in))
    <3>1. /\ u.valid = t.valid /\ u.robPointer = t.robPointer
          /\ u.recoveryEpoch = t.recoveryEpoch /\ u.memoryEpoch = t.memoryEpoch
          /\ u.dataReady <=> t.dataReady \/ \E d \in in.data : d.index = i
          /\ u.committed <=> t.committed \/ i \in CommittedStores(in)
          /\ u.requestSent <=> t.requestSent \/ StoreSent(in, i)
          /\ u.completed <=> t.completed \/ done
          /\ u.addressReady = t.addressReady /\ u.mask = t.mask /\ u.isSc = t.isSc
          /\ u.word = t.word /\ u.uncached = t.uncached /\ u.scSuccess = t.scSuccess
          /\ u.translationDone = t.translationDone
      BY <2>4, <2>5 DEF StoreEntries
    <3>2. /\ t.valid = a.valid /\ t.robPointer = a.robPointer
          /\ t.recoveryEpoch = a.recoveryEpoch /\ t.memoryEpoch = a.memoryEpoch
          /\ t.dataReady = a.dataReady /\ t.committed = a.committed
          /\ t.requestSent = a.requestSent
          /\ t.addressReady = a.addressReady /\ t.mask = a.mask /\ t.isSc = a.isSc
          /\ \A x : StoreAnswered(in, i, x) =>
                /\ t.word = x.word /\ t.uncached = x.uncached /\ t.translationDone
                /\ t.scSuccess <=> stores[i].isSc /\ ScSucceeds(x)
                /\ t.completed <=> a.completed \/ TranslationCompletes(in)
      <4>1. CASE \A x : ~StoreAnswered(in, i, x)
        <5>1. t = a
          BY <2>8, <4>1
        <5> QED
          BY <4>1, <5>1
      <4>2. ASSUME NEW x, StoreAnswered(in, i, x)
            PROVE  /\ t.valid = a.valid /\ t.robPointer = a.robPointer
                   /\ t.recoveryEpoch = a.recoveryEpoch /\ t.memoryEpoch = a.memoryEpoch
                   /\ t.dataReady = a.dataReady /\ t.committed = a.committed
                   /\ t.requestSent = a.requestSent
                   /\ t.addressReady = a.addressReady /\ t.mask = a.mask /\ t.isSc = a.isSc
                   /\ t.word = x.word /\ t.uncached = x.uncached /\ t.translationDone
                   /\ t.scSuccess <=> stores[i].isSc /\ ScSucceeds(x)
                   /\ t.completed <=> a.completed \/ TranslationCompletes(in)
        <5>1. t = StoreWithAnswer(a, in, i, x)
          BY <2>8, <4>2
        <5> QED
          BY <2>3, <5>1 DEF StoreEntries, StoreWithAnswer
      <4> QED
        BY <4>1, <4>2
    <3>3. /\ a.valid = stores[i].valid /\ a.robPointer = stores[i].robPointer
          /\ a.recoveryEpoch = stores[i].recoveryEpoch
          /\ a.memoryEpoch = stores[i].memoryEpoch
          /\ a.dataReady = stores[i].dataReady /\ a.committed = stores[i].committed
          /\ a.requestSent = stores[i].requestSent /\ a.completed = stores[i].completed
          /\ a.word = stores[i].word /\ a.uncached = stores[i].uncached
          /\ a.scSuccess = stores[i].scSuccess
          /\ \A b \in in.agu : b.isWrite /\ b.index = i =>
                /\ a.addressReady = ~b.misaligned /\ a.mask = b.mask /\ a.isSc = b.special
                /\ ~a.translationDone
      <4>1. CASE \A b \in in.agu : ~(b.isWrite /\ b.index = i)
        <5>1. a = stores[i]
          BY <2>9, <4>1
        <5> QED
          BY <4>1, <5>1
      <4>2. ASSUME NEW b \in in.agu, b.isWrite, b.index = i
            PROVE  /\ a.valid = stores[i].valid /\ a.robPointer = stores[i].robPointer
                   /\ a.recoveryEpoch = stores[i].recoveryEpoch
                   /\ a.memoryEpoch = stores[i].memoryEpoch
                   /\ a.dataReady = stores[i].dataReady /\ a.committed = stores[i].committed
                   /\ a.requestSent = stores[i].requestSent /\ a.completed = stores[i].completed
                   /\ a.word = stores[i].word /\ a.uncached = stores[i].uncached
                   /\ a.scSuccess = stores[i].scSuccess
                   /\ a.addressReady = ~b.misaligned /\ a.mask = b.mask /\ a.isSc = b.special
                   /\ ~a.translationDone
        <5>1. a = StoreWithAddress(stores[i], b)
          BY <2>9, <4>2
        <5> QED
          BY <2>0, <5>1 DEF StoreEntries, StoreWithAddress
      <4> QED
        BY <4>1, <4>2
    <3>4. ~StoreAddressing(in, i) => a = stores[i]
      BY <2>9 DEF StoreAddressing
    <3>5. ~StoreAnswering(in, i) => t = a
      BY <2>8 DEF StoreAnswering
    <3>6. a.translationDone \in BOOLEAN /\ stores[i].translationDone \in BOOLEAN
      BY <2>0, <2>3 DEF StoreEntries
    <3>7. /\ u.valid = stores[i].valid /\ u.robPointer = stores[i].robPointer
          /\ u.recoveryEpoch = stores[i].recoveryEpoch
          /\ u.memoryEpoch = stores[i].memoryEpoch
          /\ u.dataReady <=> stores[i].dataReady \/ \E d \in in.data : d.index = i
          /\ u.committed <=> stores[i].committed \/ i \in CommittedStores(in)
          /\ u.requestSent <=> stores[i].requestSent \/ StoreSent(in, i)
      BY <3>1, <3>2, <3>3
    <3>8. ~StoreAddressing(in, i) =>
             /\ u.addressReady = stores[i].addressReady /\ u.mask = stores[i].mask
             /\ u.isSc = stores[i].isSc
      BY <3>1, <3>2, <3>4
    <3>9. \A b \in in.agu : b.isWrite /\ b.index = i =>
              u.addressReady = ~b.misaligned /\ u.mask = b.mask /\ u.isSc = b.special
      BY <3>1, <3>2, <3>3
    <3>10. ~StoreAnswering(in, i) =>
              /\ u.word = stores[i].word /\ u.uncached = stores[i].uncached
              /\ u.scSuccess = stores[i].scSuccess
              /\ u.translationDone <=> stores[i].translationDone /\ ~StoreAddressing(in, i)
              /\ u.completed <=> stores[i].completed \/ done
      <4>1. StoreAddressing(in, i) => ~a.translationDone
        BY <3>3 DEF StoreAddressing
      <4> QED
        BY <3>1, <3>3, <3>4, <3>5, <3>6, <4>1
    <3>11. \A x : StoreAnswered(in, i, x) =>
              /\ u.word = x.word /\ u.uncached = x.uncached /\ u.translationDone
              /\ u.scSuccess <=> stores[i].isSc /\ ScSucceeds(x)
              /\ u.completed <=> stores[i].completed \/ TranslationCompletes(in) \/ done
      BY <3>1, <3>2, <3>3
    <3> QED
      BY <3>7, <3>8, <3>9, <3>10, <3>11, Zenon DEF StoreKept
  <2> QED
    BY <1>4, <2>7, <2>10
<1> QED
  BY <1>2, <1>3, <1>4

LoadDone(in, i) == i \in ResponseLoad(in) \/ (ForwardFire(in) /\ i = scheduled.index)
LoadSent(in, i) ==
    \E r \in Taken(in) : ~r.isWrite /\ r.index = i /\ r.robPointer = loads[i].robPointer
LoadKept(in, i) ==
    LET s == loads[i]
        r == loads'[i]
    IN  /\ r.valid = s.valid /\ r.robPointer = s.robPointer
        /\ r.recoveryEpoch = s.recoveryEpoch /\ r.memoryEpoch = s.memoryEpoch
        /\ r.requestSent <=> s.requestSent \/ LoadSent(in, i)
        /\ ~LoadAddressing(in, i) =>
              r.addressReady = s.addressReady /\ r.mask = s.mask /\ r.isLl = s.isLl
        /\ \A a \in in.agu : ~a.isWrite /\ a.index = i =>
              r.addressReady = ~a.misaligned /\ r.mask = a.mask /\ r.isLl = a.special
        /\ ~LoadAnswering(in, i) =>
              /\ r.word = s.word /\ r.uncached = s.uncached
              /\ r.translationDone <=> s.translationDone /\ ~LoadAddressing(in, i)
              /\ ~LoadAddressing(in, i) => (r.completed <=> s.completed \/ LoadDone(in, i))
              /\ \A a \in in.agu : ~a.isWrite /\ a.index = i =>
                    (r.completed <=> a.misaligned \/ LoadDone(in, i))
        /\ \A t : LoadAnswered(in, i, t) =>
              /\ r.word = t.word /\ r.uncached = t.uncached /\ r.translationDone
              /\ ~LoadAddressing(in, i) =>
                    (r.completed <=> s.completed \/ t.exception \/ LoadDone(in, i))
LoadFresh(in, i) ==
    \E lane \in Lanes(in, FALSE, i) : loads'[i] = Fresh(EmptyLoad, lane)

LEMMA LoadEdge ==
  ASSUME MemoryTypeOK, NEW in, NEW n, NEW kinds, Offered(in, n, kinds), Cycle(in, n, kinds),
         ~in.flush, NEW i \in LoadIndex
  PROVE  /\ i \in CommittedLoads(in) => loads'[i] = EmptyLoad
         /\ i \notin CommittedLoads(in) /\ Lanes(in, FALSE, i) # {} => LoadFresh(in, i)
         /\ i \notin CommittedLoads(in) /\ Lanes(in, FALSE, i) = {} => LoadKept(in, i)
         /\ loads'[i] \in LoadEntries
<1>1. loads'[i] = LoadAfterEdge(in, i)
  BY DEF Cycle, QueueStep
<1>2. CASE i \in CommittedLoads(in)
  BY <1>1, <1>2, Empties DEF LoadAfterEdge
<1>3. CASE i \notin CommittedLoads(in) /\ Lanes(in, FALSE, i) # {}
  <2>1. PICK lane \in Lanes(in, FALSE, i) :
          lane = CHOOSE l \in Lanes(in, FALSE, i) : TRUE
    BY <1>3
  <2>2. loads'[i] = Fresh(EmptyLoad, lane)
    BY <1>1, <1>3, <2>1 DEF LoadAfterEdge
  <2>3. lane \in in.group
    BY DEF Lanes
  <2>4. Fresh(EmptyLoad, lane) \in LoadEntries
    BY <2>3, FreshForm
  <2> QED
    BY <1>3, <2>2, <2>4 DEF LoadFresh
<1>4. CASE i \notin CommittedLoads(in) /\ Lanes(in, FALSE, i) = {}
  <2>0. SlotsTypeOK /\ loads[i] \in LoadEntries
    BY DEF MemoryTypeOK, SlotsTypeOK
  <2>1. PICK a : a = LoadAddressed(loads[i], in, i)
    OBVIOUS
  <2>2. PICK t : t = LoadTranslated(a, in, i)
    OBVIOUS
  <2>3. a \in LoadEntries
    BY <2>0, <2>1, LoadAddressedForm
  <2>4. t \in LoadEntries
    BY <2>0, <2>2, <2>3, LoadTranslatedForm
  <2>5. loads'[i] = [t EXCEPT !.requestSent = @ \/ LoadSent(in, i),
                             !.completed = @ \/ LoadDone(in, i)]
    <3>1. loads'[i] = [t EXCEPT
              !.requestSent = @ \/ \E r \in Taken(in) :
                 ~r.isWrite /\ r.index = i /\ r.robPointer = loads[i].robPointer,
              !.completed = @ \/ i \in ResponseLoad(in)
                              \/ (ForwardFire(in) /\ i = scheduled.index)]
      BY <1>1, <1>4, <2>1, <2>2 DEF LoadAfterEdge
    <3> QED
      BY <3>1 DEF LoadSent, LoadDone
  <2>6. (t.requestSent \/ LoadSent(in, i)) \in BOOLEAN
          /\ (t.completed \/ LoadDone(in, i)) \in BOOLEAN
    OBVIOUS
  <2>7. loads'[i] \in LoadEntries
    BY <2>4, <2>5, <2>6 DEF LoadEntries
  <2>8. /\ (\A x : ~LoadAnswered(in, i, x)) => t = a
        /\ \A x : LoadAnswered(in, i, x) => t = LoadWithAnswer(a, x)
    BY <2>0, <2>2, <2>3, LoadTranslatedForm
  <2>9. /\ \A b \in in.agu : ~b.isWrite /\ b.index = i => a = LoadWithAddress(loads[i], b)
        /\ (\A b \in in.agu : ~(~b.isWrite /\ b.index = i)) => a = loads[i]
    BY <2>0, <2>1, LoadAddressedForm
  <2>10. LoadKept(in, i)
    <3> DEFINE u == loads'[i]
               done == LoadDone(in, i)
    <3>1. /\ u.valid = t.valid /\ u.robPointer = t.robPointer
          /\ u.recoveryEpoch = t.recoveryEpoch /\ u.memoryEpoch = t.memoryEpoch
          /\ u.requestSent <=> t.requestSent \/ LoadSent(in, i)
          /\ u.completed <=> t.completed \/ done
          /\ u.addressReady = t.addressReady /\ u.mask = t.mask /\ u.isLl = t.isLl
          /\ u.word = t.word /\ u.uncached = t.uncached
          /\ u.translationDone = t.translationDone
      BY <2>4, <2>5 DEF LoadEntries
    <3>2. /\ t.valid = a.valid /\ t.robPointer = a.robPointer
          /\ t.recoveryEpoch = a.recoveryEpoch /\ t.memoryEpoch = a.memoryEpoch
          /\ t.requestSent = a.requestSent
          /\ t.addressReady = a.addressReady /\ t.mask = a.mask /\ t.isLl = a.isLl
          /\ \A x : LoadAnswered(in, i, x) =>
                /\ t.word = x.word /\ t.uncached = x.uncached /\ t.translationDone
                /\ t.completed <=> a.completed \/ x.exception
      <4>1. CASE \A x : ~LoadAnswered(in, i, x)
        <5>1. t = a
          BY <2>8, <4>1
        <5> QED
          BY <4>1, <5>1
      <4>2. ASSUME NEW x, LoadAnswered(in, i, x)
            PROVE  /\ t.valid = a.valid /\ t.robPointer = a.robPointer
                   /\ t.recoveryEpoch = a.recoveryEpoch /\ t.memoryEpoch = a.memoryEpoch
                   /\ t.requestSent = a.requestSent
                   /\ t.addressReady = a.addressReady /\ t.mask = a.mask /\ t.isLl = a.isLl
                   /\ t.word = x.word /\ t.uncached = x.uncached /\ t.translationDone
                   /\ t.completed <=> a.completed \/ x.exception
        <5>1. t = LoadWithAnswer(a, x)
          BY <2>8, <4>2
        <5> QED
          BY <2>3, <5>1 DEF LoadEntries, LoadWithAnswer
      <4> QED
        BY <4>1, <4>2
    <3>3. /\ a.valid = loads[i].valid /\ a.robPointer = loads[i].robPointer
          /\ a.recoveryEpoch = loads[i].recoveryEpoch
          /\ a.memoryEpoch = loads[i].memoryEpoch
          /\ a.requestSent = loads[i].requestSent
          /\ a.word = loads[i].word /\ a.uncached = loads[i].uncached
          /\ \A b \in in.agu : ~b.isWrite /\ b.index = i =>
                /\ a.addressReady = ~b.misaligned /\ a.mask = b.mask /\ a.isLl = b.special
                /\ a.completed = b.misaligned /\ ~a.translationDone
      <4>1. CASE \A b \in in.agu : ~(~b.isWrite /\ b.index = i)
        <5>1. a = loads[i]
          BY <2>9, <4>1
        <5> QED
          BY <4>1, <5>1
      <4>2. ASSUME NEW b \in in.agu, ~b.isWrite, b.index = i
            PROVE  /\ a.valid = loads[i].valid /\ a.robPointer = loads[i].robPointer
                   /\ a.recoveryEpoch = loads[i].recoveryEpoch
                   /\ a.memoryEpoch = loads[i].memoryEpoch
                   /\ a.requestSent = loads[i].requestSent
                   /\ a.word = loads[i].word /\ a.uncached = loads[i].uncached
                   /\ a.addressReady = ~b.misaligned /\ a.mask = b.mask /\ a.isLl = b.special
                   /\ a.completed = b.misaligned /\ ~a.translationDone
        <5>1. a = LoadWithAddress(loads[i], b)
          BY <2>9, <4>2
        <5> QED
          BY <2>0, <5>1 DEF LoadEntries, LoadWithAddress
      <4> QED
        BY <4>1, <4>2
    <3>4. ~LoadAddressing(in, i) => a = loads[i]
      BY <2>9 DEF LoadAddressing
    <3>5. ~LoadAnswering(in, i) => t = a
      BY <2>8 DEF LoadAnswering
    <3>6. a.translationDone \in BOOLEAN /\ loads[i].translationDone \in BOOLEAN
      BY <2>0, <2>3 DEF LoadEntries
    <3>7. /\ u.valid = loads[i].valid /\ u.robPointer = loads[i].robPointer
          /\ u.recoveryEpoch = loads[i].recoveryEpoch
          /\ u.memoryEpoch = loads[i].memoryEpoch
          /\ u.requestSent <=> loads[i].requestSent \/ LoadSent(in, i)
      BY <3>1, <3>2, <3>3
    <3>8. ~LoadAddressing(in, i) =>
             /\ u.addressReady = loads[i].addressReady /\ u.mask = loads[i].mask
             /\ u.isLl = loads[i].isLl
      BY <3>1, <3>2, <3>4
    <3>9. \A b \in in.agu : ~b.isWrite /\ b.index = i =>
              u.addressReady = ~b.misaligned /\ u.mask = b.mask /\ u.isLl = b.special
      BY <3>1, <3>2, <3>3
    <3>10. ~LoadAnswering(in, i) =>
              /\ u.word = loads[i].word /\ u.uncached = loads[i].uncached
              /\ u.translationDone <=> loads[i].translationDone /\ ~LoadAddressing(in, i)
              /\ ~LoadAddressing(in, i) => (u.completed <=> loads[i].completed \/ done)
              /\ \A b \in in.agu : ~b.isWrite /\ b.index = i =>
                    (u.completed <=> b.misaligned \/ done)
      <4>1. LoadAddressing(in, i) => ~a.translationDone
        BY <3>3 DEF LoadAddressing
      <4> QED
        BY <3>1, <3>3, <3>4, <3>5, <3>6, <4>1
    <3>11. \A x : LoadAnswered(in, i, x) =>
              /\ u.word = x.word /\ u.uncached = x.uncached /\ u.translationDone
              /\ ~LoadAddressing(in, i) =>
                    (u.completed <=> loads[i].completed \/ x.exception \/ done)
      BY <3>1, <3>2, <3>4
    <3> QED
      BY <3>7, <3>8, <3>9, <3>10, <3>11, Zenon DEF LoadKept
  <2> QED
    BY <1>4, <2>7, <2>10
<1> QED
  BY <1>2, <1>3, <1>4

(* A flush keeps what retired and the uncached write memory has taken.           *)
UncachedSent(i) == stores[i].uncached /\ stores[i].requestSent
StoreFlushed(in, i) ==
    LET s == stores[i]
        r == stores'[i]
    IN  /\ UncachedSent(i) =>
              /\ r.valid = s.valid /\ r.committed /\ r.requestSent /\ r.uncached
              /\ r.translationDone = s.translationDone /\ r.addressReady = s.addressReady
        /\ ~UncachedSent(i) /\ s.committed => r = s
        /\ ~UncachedSent(i) /\ ~s.committed => r = EmptyStore

LEMMA FlushEdge ==
  ASSUME MemoryTypeOK, NEW in, NEW n, NEW kinds, Offered(in, n, kinds), Cycle(in, n, kinds),
         in.flush, NEW i \in StoreIndex
  PROVE  StoreFlushed(in, i) /\ stores'[i] \in StoreEntries
<1>1. stores'[i] = StoreAfterFlush(in, i) /\ stores[i] \in StoreEntries
  BY DEF Cycle, QueueStep, MemoryTypeOK, SlotsTypeOK
<1>2. CASE UncachedSent(i)
  <2>1. stores'[i] =
          [stores[i] EXCEPT !.committed = TRUE,
                            !.completed = @ \/ (i = storeHead /\ ResponseStoreAccepted(in))]
    BY <1>1, <1>2 DEF StoreAfterFlush, UncachedSent
  <2>2. (stores[i].completed \/ (i = storeHead /\ ResponseStoreAccepted(in))) \in BOOLEAN
    OBVIOUS
  <2>3. stores'[i] \in StoreEntries
    BY <1>1, <2>1, <2>2 DEF StoreEntries
  <2>4. /\ stores'[i].valid = stores[i].valid /\ stores'[i].committed
        /\ stores'[i].requestSent = stores[i].requestSent
        /\ stores'[i].uncached = stores[i].uncached
        /\ stores'[i].translationDone = stores[i].translationDone
        /\ stores'[i].addressReady = stores[i].addressReady
    BY <1>1, <2>1 DEF StoreEntries
  <2> QED
    BY <1>2, <2>3, <2>4 DEF StoreFlushed, UncachedSent
<1>3. CASE ~UncachedSent(i)
  BY <1>1, <1>3, Empties DEF StoreAfterFlush, StoreFlushed, UncachedSent
<1> QED
  BY <1>2, <1>3

(***************************************************************************)
(* Pointers and slots of the uops in flight.                                  *)
(***************************************************************************)
LEMMA PointerAge ==
  ASSUME MemoryTypeOK, NEW j \in 1 .. RobEntries, NEW k \in 1 .. RobEntries
  PROVE  /\ IsOlder(Pointer(j), Pointer(k)) <=> j < k
         /\ Pointer(j) = Pointer(k) => j = k
<1> DEFINE N == PointerModulus
<1>1. N \in Nat \ {0} /\ N = 2 * RobEntries /\ RobEntries \in Nat /\ robHead \in 0 .. N - 1
  BY Sizes DEF MemoryTypeOK, WindowTypeOK, RobPointer
<1>2. PICK a \in 0 .. N, b \in 0 .. N : a = j - 1 /\ b = k - 1
  BY <1>1
<1>3. Pointer(j) = At(robHead, a, N) /\ Pointer(k) = At(robHead, b, N)
  <2>1. robHead + j - 1 = robHead + a /\ robHead + k - 1 = robHead + b
    BY <1>1, <1>2
  <2> QED
    BY <2>1 DEF Pointer, At
<1> HIDE DEF N
<1>4. /\ At(robHead, a, N) = IF robHead + a < N THEN robHead + a ELSE robHead + a - N
      /\ At(robHead, a, N) \in 0 .. N - 1
      /\ At(robHead, b, N) = IF robHead + b < N THEN robHead + b ELSE robHead + b - N
      /\ At(robHead, b, N) \in 0 .. N - 1
  BY <1>1, AtForm
<1>5. PICK p \in 0 .. N - 1, q \in 0 .. N - 1 : p = Pointer(j) /\ q = Pointer(k)
  BY <1>3, <1>4
<1>6. Gap(p, q, N) = IF q >= p THEN q - p ELSE q - p + N
  BY <1>1, GapForm
<1>7. IsOlder(Pointer(j), Pointer(k)) <=> Gap(p, q, N) # 0 /\ Gap(p, q, N) < RobEntries
  BY <1>5 DEF IsOlder, Gap, N
<1>8. p = (IF robHead + a < N THEN robHead + a ELSE robHead + a - N)
        /\ q = IF robHead + b < N THEN robHead + b ELSE robHead + b - N
  BY <1>3, <1>4, <1>5
<1> HIDE DEF Gap
<1> QED
  BY <1>1, <1>2, <1>5, <1>6, <1>7, <1>8

(* The memory operations among the first uops, as positions counted from 0.      *)
LoadPositions == {k \in 0 .. Len(window) - 1 : IsLoad(window[k + 1])}
StorePositions == {k \in 0 .. Len(window) - 1 : IsStore(window[k + 1])}
LoadGroup(kinds) == {i \in 1 .. Len(kinds) : kinds[i] \in LoadKinds}
StoreGroup(kinds) == {i \in 1 .. Len(kinds) : kinds[i] \in StoreKinds}

LEMMA PositionsWithin ==
  ASSUME MemoryTypeOK
  PROVE  /\ Within(LoadPositions, 0, Len(window) - 1) /\ Positions(LoadPositions)
         /\ Within(StorePositions, 0, Len(window) - 1) /\ Positions(StorePositions)
<1>1. Len(window) \in Nat
  BY DEF MemoryTypeOK, WindowTypeOK
<1>2. Within(LoadPositions, 0, Len(window) - 1) /\ Within(StorePositions, 0, Len(window) - 1)
  BY <1>1 DEF Within, LoadPositions, StorePositions
<1> QED
  BY <1>2, IntervalPositions

(* The slot of lane i is as many behind the tail as it has lanes before it.      *)
LEMMA GroupSlots ==
  ASSUME NEW in, NEW n, NEW kinds, Offered(in, n, kinds)
  PROVE  /\ Within(LoadGroup(kinds), 1, Len(kinds)) /\ Positions(LoadGroup(kinds))
         /\ Within(StoreGroup(kinds), 1, Len(kinds)) /\ Positions(StoreGroup(kinds))
         /\ \A i \in LoadGroup(kinds) :
               /\ NewUop(kinds, i).index
                    = At(loadTail, Rank(LoadGroup(kinds), i), LoadQueueEntries)
               /\ kinds[i] \notin StoreKinds
         /\ \A i \in StoreGroup(kinds) :
               NewUop(kinds, i).index
                 = At(storeTail, Rank(StoreGroup(kinds), i), StoreQueueEntries)
         /\ LoadRequests(kinds) = Cardinality(LoadGroup(kinds))
         /\ StoreRequests(kinds) = Cardinality(StoreGroup(kinds))
<1>1. Len(kinds) \in Nat
  BY GroupForm, Sizes
<1>2. Within(LoadGroup(kinds), 1, Len(kinds)) /\ Within(StoreGroup(kinds), 1, Len(kinds))
  BY <1>1 DEF Within, LoadGroup, StoreGroup
<1>3. ASSUME NEW i \in 1 .. Len(kinds)
      PROVE  /\ CountOf(kinds, i - 1, LoadKinds) = Rank(LoadGroup(kinds), i)
             /\ CountOf(kinds, i - 1, StoreKinds) = Rank(StoreGroup(kinds), i)
  <2>1. \A j : j \in 1 .. i - 1 <=> j \in 1 .. Len(kinds) /\ j < i
    BY <1>1
  <2>2. {j \in 1 .. i - 1 : kinds[j] \in LoadKinds} = Below(LoadGroup(kinds), i)
    BY <2>1 DEF Below, LoadGroup
  <2>3. {j \in 1 .. i - 1 : kinds[j] \in StoreKinds} = Below(StoreGroup(kinds), i)
    BY <2>1 DEF Below, StoreGroup
  <2> QED
    BY <2>2, <2>3 DEF CountOf, Rank
<1>4. ASSUME NEW i \in LoadGroup(kinds)
      PROVE  /\ NewUop(kinds, i).index
                    = At(loadTail, Rank(LoadGroup(kinds), i), LoadQueueEntries)
             /\ kinds[i] \notin StoreKinds
  <2>1. kinds[i] \in LoadKinds /\ kinds[i] \notin StoreKinds /\ i \in 1 .. Len(kinds)
    BY DEF LoadGroup, LoadKinds, StoreKinds
  <2>2. NewUop(kinds, i).index = AllocatedLoadIndex(CountOf(kinds, i - 1, LoadKinds))
    BY <2>1 DEF NewUop
  <2> QED
    BY <1>3, <2>1, <2>2 DEF AllocatedLoadIndex, At
<1>5. ASSUME NEW i \in StoreGroup(kinds)
      PROVE  NewUop(kinds, i).index
               = At(storeTail, Rank(StoreGroup(kinds), i), StoreQueueEntries)
  <2>1. kinds[i] \in StoreKinds /\ kinds[i] \notin LoadKinds /\ i \in 1 .. Len(kinds)
    BY DEF StoreGroup, LoadKinds, StoreKinds
  <2>2. NewUop(kinds, i).index = AllocatedStoreIndex(CountOf(kinds, i - 1, StoreKinds))
    BY <2>1 DEF NewUop
  <2> QED
    BY <1>3, <2>1, <2>2 DEF AllocatedStoreIndex, At
<1>6. LoadRequests(kinds) = Cardinality(LoadGroup(kinds))
        /\ StoreRequests(kinds) = Cardinality(StoreGroup(kinds))
  BY DEF LoadRequests, StoreRequests, CountOf, LoadGroup, StoreGroup
<1> QED
  BY <1>2, <1>4, <1>5, <1>6, IntervalPositions

(* The group fits.                                                           *)
LEMMA GroupFits ==
  ASSUME MemoryTypeOK, NEW in, NEW n, NEW kinds, Offered(in, n, kinds)
  PROVE  /\ Len(window) + Len(kinds) <= RobEntries
         /\ in.flush => Len(kinds) = 0
         /\ kinds # <<>> =>
               /\ ~drainAfterFlush /\ ~in.flush
               /\ LoadQueueEntries - loadOccupancy >= Cardinality(LoadGroup(kinds))
               /\ StoreQueueEntries - storeOccupancy >= Cardinality(StoreGroup(kinds))
<1>1. CASE kinds = <<>>
  <2>1. Len(kinds) = 0 /\ Len(window) \in Nat /\ Len(window) <= RobEntries
    BY <1>1 DEF MemoryTypeOK, WindowTypeOK
  <2> QED
    BY <1>1, <2>1
<1>2. CASE kinds # <<>>
  <2>1. Accepts(kinds, in.flush)
    BY <1>2 DEF Offered
  <2> QED
    BY <1>2, <2>1, GroupSlots DEF Accepts, AllocatorReady
<1> QED
  BY <1>1, <1>2

(* The first load of the group is its oldest one, and takes the tail.            *)
LEMMA OldestLaneForm ==
  ASSUME MemoryTypeOK, NEW in, NEW n, NEW kinds, Offered(in, n, kinds), LoadLanes(in) # {}
  PROVE  OldestLane(LoadLanes(in)).index = loadTail
<1> DEFINE G == LoadGroup(kinds)
           W == Len(window)
<1>1. /\ DOMAIN kinds = 1 .. Len(kinds) /\ Len(kinds) \in Nat /\ W \in Nat
      /\ W + Len(kinds) <= RobEntries /\ RobEntries \in Nat
  BY GroupForm, GroupFits, Sizes DEF MemoryTypeOK, WindowTypeOK
<1>2. ASSUME NEW lane \in LoadLanes(in)
      PROVE  \E i \in G : Laning(lane, kinds, i)
  <2>1. lane \in in.group /\ ~lane.isStore
    BY DEF LoadLanes
  <2>2. PICK i : Laning(lane, kinds, i)
    BY <2>1, LaneForm
  <2>3. i \in G
    BY <1>1, <2>1, <2>2 DEF Laning, LoadGroup
  <2> QED
    BY <2>2, <2>3
<1>3. ASSUME NEW i \in G
      PROVE  \E lane \in LoadLanes(in) : Laning(lane, kinds, i)
  <2>1. i \in DOMAIN kinds /\ kinds[i] \in LoadKinds \cup StoreKinds /\ kinds[i] \notin StoreKinds
    BY <1>1, GroupSlots DEF LoadGroup
  <2>2. PICK lane \in in.group : Laning(lane, kinds, i)
    BY <2>1, LaneForm
  <2>3. lane \in LoadLanes(in)
    BY <2>1, <2>2 DEF Laning, LoadLanes
  <2> QED
    BY <2>2, <2>3
<1>4. G # {} /\ G \subseteq Nat
  BY <1>1, <1>2 DEF LoadGroup
<1>5. PICK f \in G : \A i \in G : f <= i
  BY <1>4, LeastOf
<1>6. ASSUME NEW a, NEW b, NEW i \in G, NEW j \in G,
             Laning(a, kinds, i), Laning(b, kinds, j)
      PROVE  IsOlder(a.robPointer, b.robPointer) <=> i < j
  <2>1. PICK x \in 1 .. RobEntries, y \in 1 .. RobEntries : x = W + i /\ y = W + j
    BY <1>1 DEF LoadGroup
  <2>2. a.robPointer = Pointer(x) /\ b.robPointer = Pointer(y)
    BY <1>6, <2>1 DEF Laning
  <2>3. i \in Nat /\ j \in Nat
    BY <1>4
  <2>4. IsOlder(Pointer(x), Pointer(y)) <=> x < y
    BY PointerAge
  <2> QED
    BY <1>1, <2>1, <2>2, <2>3, <2>4
<1>7. PICK first \in LoadLanes(in) : Laning(first, kinds, f)
  BY <1>3
<1>8. \A other \in LoadLanes(in) : ~IsOlder(other.robPointer, first.robPointer)
  <2> SUFFICES ASSUME NEW other \in LoadLanes(in)
               PROVE  ~IsOlder(other.robPointer, first.robPointer)
    OBVIOUS
  <2>1. PICK j \in G : Laning(other, kinds, j)
    BY <1>2
  <2>2. f <= j /\ f \in Nat /\ j \in Nat
    BY <1>4, <1>5
  <2> QED
    BY <1>6, <1>7, <2>1, <2>2
<1> DEFINE lane == OldestLane(LoadLanes(in))
<1>9. lane \in LoadLanes(in)
        /\ \A other \in LoadLanes(in) : ~IsOlder(other.robPointer, lane.robPointer)
  BY <1>8 DEF OldestLane
<1>10. PICK i \in G : Laning(lane, kinds, i)
  BY <1>2, <1>9
<1>11. i = f
  <2>1. ~(f < i)
    BY <1>6, <1>7, <1>9, <1>10
  <2> QED
    BY <1>4, <1>5, <2>1
<1>12. lane.index = At(loadTail, Rank(G, f), LoadQueueEntries)
  BY <1>10, <1>11, GroupSlots DEF Laning
<1>13. Rank(G, f) = 0
  <2>1. \A x \in G : ~(x < f)
    BY <1>4, <1>5
  <2>2. Below(G, f) = {}
    BY <2>1 DEF Below
  <2> QED
    BY <2>2, FS_EmptySet DEF Rank
<1>14. At(loadTail, 0, LoadQueueEntries) = loadTail
  BY AtZero, Sizes DEF MemoryTypeOK, QueueTypeOK, LoadIndex
<1> QED
  BY <1>12, <1>13, <1>14

(***************************************************************************)
(* Types.                                                                    *)
(***************************************************************************)
LEMMA HeadsType ==
  ASSUME MemoryTypeOK, NEW in, NEW n, NEW kinds, Offered(in, n, kinds), Cycle(in, n, kinds)
  PROVE  /\ storeHead' \in StoreIndex /\ loadBase' \in LoadIndex
         /\ loadTail' \in LoadIndex /\ storeTail' \in StoreIndex
         /\ drainAfterFlush' \in BOOLEAN
<1>1. /\ 0 \in StoreIndex /\ 0 \in LoadIndex /\ storeHead \in StoreIndex /\ loadBase \in LoadIndex
      /\ loadTail \in LoadIndex /\ storeTail \in StoreIndex
  BY Sizes DEF StoreIndex, LoadIndex, MemoryTypeOK, QueueTypeOK
<1>2. \A x \in Nat : (x % LoadQueueEntries) \in LoadIndex /\ (x % StoreQueueEntries) \in StoreIndex
  BY Remainder, Sizes DEF StoreIndex, LoadIndex
<1>3. storeHead + 1 \in Nat /\ loadBase \in Nat /\ loadTail \in Nat /\ storeTail \in Nat
  BY <1>1 DEF StoreIndex, LoadIndex
<1>4. HeadAfterEdge(in) \in StoreIndex
  <2>1. ((storeHead + 1) % StoreQueueEntries) \in StoreIndex
    BY <1>2, <1>3
  <2> QED
    BY <1>1, <2>1 DEF HeadAfterEdge
<1>5. storeHead' \in StoreIndex /\ drainAfterFlush' \in BOOLEAN
  BY <1>1, <1>4 DEF Cycle, QueueStep, DrainStep
<1>6. loadBase' \in LoadIndex
  <2>1. CommittedLoads(in) \in SUBSET LoadIndex /\ IsFiniteSet(LoadIndex)
    <3>1. 0 \in Int /\ LoadQueueEntries - 1 \in Int
      BY Sizes
    <3>2. IsFiniteSet(LoadIndex)
      BY <3>1, FS_Interval DEF LoadIndex
    <3> QED
      BY <3>2 DEF CommittedLoads
  <2>2. Cardinality(CommittedLoads(in)) \in Nat
    BY <2>1, FS_Subset, FS_CardinalityType
  <2>3. PICK x \in Nat : x = loadBase + Cardinality(CommittedLoads(in))
    BY <1>3, <2>2
  <2>4. ((loadBase + Cardinality(CommittedLoads(in))) % LoadQueueEntries) \in LoadIndex
    BY <1>2, <2>3
  <2>5. LoadLanes(in) # {} => OldestLane(LoadLanes(in)).index \in LoadIndex
    BY <1>1, OldestLaneForm
  <2> QED
    BY <1>1, <2>4, <2>5 DEF Cycle, QueueStep, BaseStep
<1>7. loadTail' \in LoadIndex /\ storeTail' \in StoreIndex
  <2>1. /\ LoadRequests(kinds) \in Nat /\ StoreRequests(kinds) \in Nat
    BY GroupSlots, SizeType
  <2>2. PICK x \in Nat, y \in Nat : x = loadTail + LoadRequests(kinds)
                                    /\ y = storeTail + StoreRequests(kinds)
    BY <1>3, <2>1
  <2>3. /\ ((loadTail + LoadRequests(kinds)) % LoadQueueEntries) \in LoadIndex
        /\ ((storeTail + StoreRequests(kinds)) % StoreQueueEntries) \in StoreIndex
    BY <1>2, <2>2
  <2>4. /\ loadTail' = 0 \/ loadTail' = (loadTail + LoadRequests(kinds)) % LoadQueueEntries
        /\ storeTail' = 0 \/ storeTail' = (storeTail + StoreRequests(kinds)) % StoreQueueEntries
    BY DEF Cycle, AllocatorStep, AllocatedLoadIndex, AllocatedStoreIndex
  <2> QED
    BY <1>1, <2>3, <2>4, Zenon
<1> QED
  BY <1>5, <1>6, <1>7

LEMMA FirstForm ==
  ASSUME NEW N \in Nat \ {0}, NEW b \in 0 .. N - 1, NEW S, S \subseteq 0 .. N - 1, S # {}
  PROVE  /\ FirstFrom(b, N, S) \in S
         /\ \A j \in S : Gap(b, FirstFrom(b, N, S), N) <= Gap(b, j, N)
<1> DEFINE D == {Gap(b, j, N) : j \in S}
<1>1. D \subseteq Nat /\ D # {}
  <2>1. \A j \in S : Gap(b, j, N) \in 0 .. N - 1
    BY GapForm
  <2>2. \A j \in S : Gap(b, j, N) \in Nat
    BY <2>1
  <2> QED
    BY <2>2, Zenon
<1>2. PICK x \in D : \A y \in D : x <= y
  BY <1>1, LeastOf
<1>3. PICK i \in S : \A j \in S : Gap(b, i, N) <= Gap(b, j, N)
  BY <1>2
<1>4. \A j \in S : (i - b) % N <= (j - b) % N
  BY <1>3 DEF Gap
<1>5. /\ FirstFrom(b, N, S) \in S
      /\ \A j \in S : (FirstFrom(b, N, S) - b) % N <= (j - b) % N
  BY <1>4 DEF FirstFrom
<1> QED
  BY <1>5 DEF Gap

(* The load that is registered next is the first pending one.                  *)
LEMMA SelectedForm ==
  ASSUME MemoryTypeOK, PendingLoads # {}
  PROVE  /\ SelectedLoad \in PendingLoads /\ SelectedLoad \in LoadIndex
         /\ \A j \in PendingLoads :
               Gap(loadBase, SelectedLoad, LoadQueueEntries) <= Gap(loadBase, j, LoadQueueEntries)
<1>1. /\ LoadQueueEntries \in Nat \ {0} /\ loadBase \in 0 .. LoadQueueEntries - 1
      /\ PendingLoads \subseteq 0 .. LoadQueueEntries - 1
  BY Sizes DEF MemoryTypeOK, QueueTypeOK, LoadIndex, PendingLoads
<1>2. /\ FirstFrom(loadBase, LoadQueueEntries, PendingLoads) \in PendingLoads
      /\ \A j \in PendingLoads :
            Gap(loadBase, FirstFrom(loadBase, LoadQueueEntries, PendingLoads), LoadQueueEntries)
              <= Gap(loadBase, j, LoadQueueEntries)
  BY <1>1, FirstForm
<1> QED
  BY <1>1, <1>2 DEF SelectedLoad, LoadIndex

(* The registered copy: what the queue knows, with what arrives at this edge.    *)
BypassAddress(in, i, a) == a \in in.agu /\ ~a.isWrite /\ ~a.misaligned /\ a.index = i
BypassAnswer(in, t) ==
    /\ t \in Translated(in) /\ ~t.cancelled
    /\ ~translation.store
    /\ scheduled.valid /\ scheduled.index = translation.index
    /\ Load.robPointer = translation.robPointer
    /\ loads[translation.index].valid
    /\ loads[translation.index].robPointer = translation.robPointer
Copied(in, i, b) ==
    LET s == loads[i] IN
    /\ b.valid = s.valid /\ b.robPointer = s.robPointer
    /\ b.recoveryEpoch = s.recoveryEpoch /\ b.memoryEpoch = s.memoryEpoch
    /\ (\A a : ~BypassAddress(in, i, a)) => b.mask = s.mask /\ b.isLl = s.isLl
    /\ \A a : BypassAddress(in, i, a) => b.mask = a.mask /\ b.isLl = a.special
    /\ (\A t : ~BypassAnswer(in, t)) =>
          /\ b.word = s.word /\ b.uncached = s.uncached
          /\ b.translationDone <=> s.translationDone /\ \A a : ~BypassAddress(in, i, a)
    /\ \A t : BypassAnswer(in, t) =>
          b.word = t.word /\ b.uncached = t.uncached /\ b.translationDone

LEMMA BypassedForm ==
  ASSUME MemoryTypeOK, NEW in, NEW n, NEW kinds, Offered(in, n, kinds),
         NEW i \in LoadIndex, NEW b, b = Bypassed(in, i)
  PROVE  b \in LoadEntries /\ Copied(in, i, b)
<1>0. SlotsTypeOK /\ loads[i] \in LoadEntries
  BY DEF MemoryTypeOK, SlotsTypeOK
<1>1. PICK a : a = IF \E x \in in.agu : ~x.isWrite /\ ~x.misaligned /\ x.index = i
                   THEN LoadAddressed(loads[i], in, i) ELSE loads[i]
  OBVIOUS
<1>2. PICK s : s = LoadAddressed(loads[i], in, i)
  OBVIOUS
<1>3. s \in LoadEntries
        /\ \A x \in in.agu : ~x.isWrite /\ x.index = i => s = LoadWithAddress(loads[i], x)
  BY <1>0, <1>2, LoadAddressedForm
<1>4. /\ (\A x : ~BypassAddress(in, i, x)) => a = loads[i]
      /\ \A x : BypassAddress(in, i, x) => a = LoadWithAddress(loads[i], x)
      /\ a \in LoadEntries
  BY <1>0, <1>1, <1>2, <1>3 DEF BypassAddress
<1>5. /\ a.valid = loads[i].valid /\ a.robPointer = loads[i].robPointer
      /\ a.recoveryEpoch = loads[i].recoveryEpoch /\ a.memoryEpoch = loads[i].memoryEpoch
      /\ a.word = loads[i].word /\ a.uncached = loads[i].uncached
      /\ \A x : BypassAddress(in, i, x) =>
            a.mask = x.mask /\ a.isLl = x.special /\ ~a.translationDone
  <2>1. CASE \A x : ~BypassAddress(in, i, x)
    <3>1. a = loads[i]
      BY <1>4, <2>1
    <3> QED
      BY <2>1, <3>1
  <2>2. ASSUME NEW x, BypassAddress(in, i, x)
        PROVE  /\ a.valid = loads[i].valid /\ a.robPointer = loads[i].robPointer
               /\ a.recoveryEpoch = loads[i].recoveryEpoch
               /\ a.memoryEpoch = loads[i].memoryEpoch
               /\ a.word = loads[i].word /\ a.uncached = loads[i].uncached
               /\ a.mask = x.mask /\ a.isLl = x.special /\ ~a.translationDone
    <3>1. a = LoadWithAddress(loads[i], x)
      BY <1>4, <2>2
    <3> QED
      BY <1>0, <3>1 DEF LoadEntries, LoadWithAddress
  <2> QED
    BY <2>1, <2>2
<1>6. CASE \A t : ~BypassAnswer(in, t)
  <2>1. b = a
    BY <1>1, <1>6 DEF Bypassed, BypassAnswer
  <2>2. a.translationDone \in BOOLEAN /\ loads[i].translationDone \in BOOLEAN
    BY <1>0, <1>4 DEF LoadEntries
  <2>3. a.translationDone <=> loads[i].translationDone /\ \A x : ~BypassAddress(in, i, x)
    BY <1>4, <1>5, <2>2
  <2>4. (\A x : ~BypassAddress(in, i, x)) => a.mask = loads[i].mask /\ a.isLl = loads[i].isLl
    BY <1>4
  <2> QED
    BY <1>4, <1>5, <1>6, <2>1, <2>3, <2>4 DEF Copied
<1>7. ASSUME NEW t, BypassAnswer(in, t)
      PROVE  b \in LoadEntries /\ Copied(in, i, b)
  <2>1. /\ t \in in.translation /\ (CHOOSE x \in Translated(in) : TRUE) = t
        /\ Translated(in) = {t}
    BY <1>7, TranslatedForm DEF BypassAnswer
  <2>2. t.word \in Words /\ t.uncached \in BOOLEAN
    BY <2>1, AnswerForm
  <2>3. b = [a EXCEPT !.word = t.word, !.uncached = t.uncached, !.translationDone = TRUE]
    BY <1>1, <1>7, <2>1 DEF Bypassed, BypassAnswer
  <2>4. b \in LoadEntries
    BY <1>4, <2>2, <2>3 DEF LoadEntries
  <2>5. /\ b.valid = a.valid /\ b.robPointer = a.robPointer
        /\ b.recoveryEpoch = a.recoveryEpoch /\ b.memoryEpoch = a.memoryEpoch
        /\ b.mask = a.mask /\ b.isLl = a.isLl
        /\ b.word = t.word /\ b.uncached = t.uncached /\ b.translationDone
    BY <1>4, <2>3 DEF LoadEntries
  <2>6. \A x : BypassAnswer(in, x) => x = t
    BY <2>1 DEF BypassAnswer
  <2>7. (\A x : ~BypassAddress(in, i, x)) => a.mask = loads[i].mask /\ a.isLl = loads[i].isLl
    BY <1>4
  <2> QED
    BY <1>5, <1>7, <2>4, <2>5, <2>6, <2>7 DEF Copied
<1> QED
  BY <1>6, <1>7

(* What is registered after an edge.                                         *)
LEMMA ScheduleForm ==
  ASSUME MemoryTypeOK, NEW in, NEW n, NEW kinds, Offered(in, n, kinds), Cycle(in, n, kinds)
  PROVE  /\ scheduled' \in Scheduled
         /\ in.flush \/ PendingLoads = {} => ~scheduled'.valid
         /\ ~in.flush /\ PendingLoads # {} =>
               scheduled'.index = SelectedLoad /\ Copied(in, SelectedLoad, scheduled'.load)
<1>1. CASE in.flush \/ PendingLoads = {}
  <2>1. scheduled' = NothingScheduled
    BY <1>1 DEF Cycle, QueueStep, ScheduleStep
  <2>2. 0 \in LoadIndex
    BY Sizes DEF LoadIndex
  <2> QED
    BY <1>1, <2>1, <2>2, Empties DEF NothingScheduled, Scheduled
<1>2. CASE ~in.flush /\ PendingLoads # {}
  <2>1. PICK b : b = Bypassed(in, SelectedLoad)
    OBVIOUS
  <2>2. SelectedLoad \in LoadIndex
    BY <1>2, SelectedForm
  <2>3. b \in LoadEntries /\ Copied(in, SelectedLoad, b)
    BY <2>1, <2>2, BypassedForm
  <2>4. scheduled' = [valid |-> TRUE, index |-> SelectedLoad,
                      load |-> [b EXCEPT !.addressReady = FALSE]]
    BY <1>2, <2>1 DEF Cycle, QueueStep, ScheduleStep
  <2>5. PICK c : c = [b EXCEPT !.addressReady = FALSE]
    OBVIOUS
  <2>6. c \in LoadEntries
    BY <2>3, <2>5 DEF LoadEntries
  <2>7. /\ c.valid = b.valid /\ c.robPointer = b.robPointer
        /\ c.recoveryEpoch = b.recoveryEpoch /\ c.memoryEpoch = b.memoryEpoch
        /\ c.mask = b.mask /\ c.isLl = b.isLl
        /\ c.word = b.word /\ c.uncached = b.uncached
        /\ c.translationDone = b.translationDone
    BY <2>3, <2>5 DEF LoadEntries
  <2>8. Copied(in, SelectedLoad, c)
    BY <2>3, <2>7 DEF Copied
  <2>9. scheduled' = [valid |-> TRUE, index |-> SelectedLoad, load |-> c]
    BY <2>4, <2>5
  <2>10. scheduled'.load = c /\ scheduled'.index = SelectedLoad
    BY <2>9
  <2>11. scheduled' \in Scheduled
    BY <2>2, <2>6, <2>9 DEF Scheduled
  <2> QED
    BY <1>2, <2>8, <2>10, <2>11, Zenon
<1> QED
  BY <1>1, <1>2

(* Who gets to ask the translator.                                            *)
StoreAsks(i, owner) ==
    /\ i \in UntranslatedStores
    /\ owner = [active |-> TRUE, store |-> TRUE, index |-> i,
                robPointer |-> stores[i].robPointer,
                recoveryEpoch |-> stores[i].recoveryEpoch]
LoadAsks(owner) ==
    /\ LoadNeedsTranslation
    /\ owner = [active |-> TRUE, store |-> FALSE, index |-> scheduled.index,
                robPointer |-> Load.robPointer, recoveryEpoch |-> Load.recoveryEpoch]

LEMMA OwnerForm ==
  ASSUME MemoryTypeOK, NEW in, NEW n, NEW kinds, Offered(in, n, kinds), in.translationReady
  PROVE  /\ ~in.flush /\ ~translation.active /\ ~translationCancelPending
         /\ in.translation = {}
         /\ (\E i \in StoreIndex : StoreAsks(i, TranslationOwner)) \/ LoadAsks(TranslationOwner)
<1>1. TranslationRequestValid(in.flush)
  BY DEF Offered
<1>2. /\ ~in.flush /\ ~translation.active /\ ~translationCancelPending
      /\ SelectedStoreTranslation # {} \/ LoadNeedsTranslation
  BY <1>1 DEF TranslationRequestValid
<1>3. in.translation = {}
  <2>1. ASSUME NEW t \in in.translation PROVE FALSE
    BY <1>2, AnswerForm
  <2> QED
    BY <2>1
<1>4. CASE SelectedStoreTranslation = {}
  <2>1. LoadNeedsTranslation
    BY <1>2, <1>4
  <2>2. TranslationOwner =
          [active |-> TRUE, store |-> FALSE, index |-> scheduled.index,
           robPointer |-> Load.robPointer, recoveryEpoch |-> Load.recoveryEpoch]
    BY <1>4, Zenon DEF TranslationOwner
  <2>3. LoadAsks(TranslationOwner)
    BY <2>1, <2>2, Zenon DEF LoadAsks
  <2> QED
    BY <1>2, <1>3, <2>3, Zenon
<1>5. CASE SelectedStoreTranslation # {}
  <2>1. /\ StoreQueueEntries \in Nat \ {0} /\ storeHead \in 0 .. StoreQueueEntries - 1
        /\ UntranslatedStores \subseteq 0 .. StoreQueueEntries - 1
    BY Sizes DEF MemoryTypeOK, QueueTypeOK, StoreIndex, UntranslatedStores
  <2>2. PICK i \in UntranslatedStores : SelectedStoreTranslation = {i}
    <3>1. CASE storeHead \in UntranslatedStores
      BY <3>1 DEF SelectedStoreTranslation
    <3>2. CASE storeHead \notin UntranslatedStores
      <4>1. /\ UntranslatedStores # {}
            /\ SelectedStoreTranslation =
                 {FirstFrom(storeHead, StoreQueueEntries, UntranslatedStores)}
        BY <1>5, <3>2 DEF SelectedStoreTranslation
      <4>2. FirstFrom(storeHead, StoreQueueEntries, UntranslatedStores) \in UntranslatedStores
        BY <2>1, <4>1, FirstForm
      <4> QED
        BY <4>1, <4>2
    <3> QED
      BY <3>1, <3>2
  <2>3. i = CHOOSE j \in SelectedStoreTranslation : TRUE
    BY <2>2
  <2>4. StoreAsks(i, TranslationOwner)
    BY <1>5, <2>2, <2>3, Zenon DEF TranslationOwner, StoreAsks
  <2>5. i \in StoreIndex
    BY DEF UntranslatedStores
  <2> QED
    BY <1>2, <1>3, <2>4, <2>5
<1> QED
  BY <1>2, <1>3, <1>4, <1>5

LEMMA TranslationType ==
  ASSUME MemoryTypeOK, NEW in, NEW n, NEW kinds, Offered(in, n, kinds), Cycle(in, n, kinds)
  PROVE  /\ translation' \in Owners
         /\ translation'.active =>
               translation'.index \in IF translation'.store THEN StoreIndex ELSE LoadIndex
         /\ translationCancelPending' \in BOOLEAN
<1>1. \/ translation' = NoTranslation
      \/ in.translationReady /\ translation' = TranslationOwner
      \/ translation' = translation
  BY DEF Cycle, QueueStep, TranslationStep
<1>2. translationCancelPending' \in BOOLEAN
  BY DEF Cycle, QueueStep, TranslationStep
<1>3. CASE translation' = NoTranslation
  <2>1. 0 \in RobPointer /\ 0 \in Epochs
    BY Sizes DEF RobPointer, Epochs
  <2>2. NoTranslation \in Owners /\ ~NoTranslation.active
    BY <2>1 DEF NoTranslation, Owners
  <2> QED
    BY <1>2, <1>3, <2>2
<1>4. CASE translation' = translation
  <2>1. /\ translation \in Owners
        /\ translation.active =>
              translation.index \in IF translation.store THEN StoreIndex ELSE LoadIndex
    BY DEF MemoryTypeOK, QueueTypeOK
  <2> QED
    BY <1>2, <1>4, <2>1
<1>5. CASE in.translationReady /\ translation' = TranslationOwner
  <2>1. PICK o : o = TranslationOwner
    OBVIOUS
  <2>2. (\E i \in StoreIndex : StoreAsks(i, o)) \/ LoadAsks(o)
    BY <1>5, <2>1, OwnerForm
  <2>3. \A i \in StoreIndex : i \in Nat
    BY Sizes DEF StoreIndex
  <2>4. \A i \in LoadIndex : i \in Nat
    BY Sizes DEF LoadIndex
  <2>5. ASSUME NEW i \in StoreIndex, StoreAsks(i, o)
        PROVE  o \in Owners /\ o.store /\ o.index \in StoreIndex
    <3>1. stores[i] \in StoreEntries
      BY DEF MemoryTypeOK, SlotsTypeOK
    <3> QED
      BY <2>3, <2>5, <3>1 DEF StoreAsks, Owners, StoreEntries
  <2>6. ASSUME LoadAsks(o)
        PROVE  o \in Owners /\ ~o.store /\ o.index \in LoadIndex
    <3>1. scheduled \in Scheduled
      BY DEF MemoryTypeOK, QueueTypeOK
    <3>2. scheduled.index \in LoadIndex /\ Load \in LoadEntries
      BY <3>1 DEF Scheduled, Load
    <3> QED
      BY <2>4, <2>6, <3>2 DEF LoadAsks, Owners, LoadEntries
  <2>7. translation' = o
    BY <1>5, <2>1
  <2> QED
    BY <1>2, <2>2, <2>5, <2>6, <2>7, Zenon
<1> QED
  BY <1>1, <1>3, <1>4, <1>5

(* Where a completion comes from.                                            *)
GeneratedBy(c, in) ==
    \/ /\ ResponseStoreAccepted(in) /\ ~HeadStore.committed
       /\ \E r \in in.response : c = Completion(HeadStore, r.error)
    \/ \E i \in ResponseLoad(in), r \in in.response : c = Completion(loads[i], r.error)
    \/ ForwardFire(in) /\ c = Completion(Load, FALSE)
    \/ StoreCompletionFire(in) /\ c = Completion(HeadStore, FALSE)
    \/ /\ TranslationCompletes(in)
       /\ \E t \in in.translation : c = Completion(translation, t.exception)
    \/ AguExceptionReady(in) /\ c \in aguException

LEMMA GeneratedForm ==
  ASSUME NEW in, NEW c \in GeneratedCompletion(in)
  PROVE  GeneratedBy(c, in)
<1>1. CASE ResponseStoreAccepted(in) /\ ~HeadStore.committed
  <2>1. c \in {Completion(HeadStore, r.error) : r \in in.response}
    BY <1>1 DEF GeneratedCompletion
  <2>2. \E r \in in.response : c = Completion(HeadStore, r.error)
    BY <2>1, Zenon
  <2> QED
    BY <1>1, <2>2, Zenon DEF GeneratedBy
<1>2. CASE ~(ResponseStoreAccepted(in) /\ ~HeadStore.committed) /\ ResponseLoad(in) # {}
  <2>1. c \in {Completion(loads[i], r.error) : i \in ResponseLoad(in), r \in in.response}
    BY <1>2 DEF GeneratedCompletion
  <2>2. \E i \in ResponseLoad(in), r \in in.response : c = Completion(loads[i], r.error)
    <3> HIDE DEF Completion
    <3> QED
      BY <2>1
  <2> QED
    BY <2>2, Zenon DEF GeneratedBy
<1>3. ASSUME ~(ResponseStoreAccepted(in) /\ ~HeadStore.committed), ResponseLoad(in) = {}
      PROVE  GeneratedBy(c, in)
  <2>1. CASE ForwardFire(in)
    <3>1. c \in {Completion(Load, FALSE)}
      <4>1. PICK x : x = {Completion(Load, FALSE)}
        OBVIOUS
      <4>2. GeneratedCompletion(in) = x
        BY <1>3, <2>1, <4>1 DEF GeneratedCompletion, Completion
      <4> QED
        BY <4>1, <4>2, Zenon
    <3>2. c = Completion(Load, FALSE)
      BY <3>1, Zenon
    <3> QED
      BY <2>1, <3>2, Zenon DEF GeneratedBy
  <2>2. CASE ~ForwardFire(in) /\ StoreCompletionFire(in)
    <3>1. c \in {Completion(HeadStore, FALSE)}
      <4>1. PICK x : x = {Completion(HeadStore, FALSE)}
        OBVIOUS
      <4>2. GeneratedCompletion(in) = x
        BY <1>3, <2>2, <4>1 DEF GeneratedCompletion, Completion
      <4> QED
        BY <4>1, <4>2, Zenon
    <3>2. c = Completion(HeadStore, FALSE)
      BY <3>1, Zenon
    <3> QED
      BY <2>2, <3>2, Zenon DEF GeneratedBy
  <2>3. CASE ~ForwardFire(in) /\ ~StoreCompletionFire(in) /\ TranslationCompletes(in)
    <3>1. c \in {Completion(translation, t.exception) : t \in in.translation}
      BY <1>3, <2>3 DEF GeneratedCompletion
    <3>2. \E t \in in.translation : c = Completion(translation, t.exception)
      BY <3>1, Zenon
    <3> QED
      BY <2>3, <3>2, Zenon DEF GeneratedBy
  <2>4. CASE ~ForwardFire(in) /\ ~StoreCompletionFire(in) /\ ~TranslationCompletes(in)
    <3>1. AguExceptionReady(in) /\ c \in aguException
      BY <1>3, <2>4 DEF GeneratedCompletion
    <3> QED
      BY <3>1, Zenon DEF GeneratedBy
  <2> QED
    BY <2>1, <2>2, <2>3, <2>4
<1> QED
  BY <1>1, <1>2, <1>3

LEMMA CompletionType ==
  ASSUME MemoryTypeOK, NEW in, NEW n, NEW kinds, Offered(in, n, kinds), Cycle(in, n, kinds)
  PROVE  /\ GeneratedCompletion(in) \subseteq Completions
         /\ completion' \subseteq Completions /\ aguException' \subseteq Completions
<1>1. GeneratedCompletion(in) \subseteq Completions
  <2> SUFFICES ASSUME NEW c \in GeneratedCompletion(in) PROVE c \in Completions
    OBVIOUS
  <2>1. GeneratedBy(c, in)
    BY GeneratedForm
  <2>2. \A r \in in.response : r.error \in BOOLEAN
    BY ResponseForm
  <2>3. \A t \in in.translation : t.exception \in BOOLEAN
    BY AnswerForm
  <2>4. HeadStore \in StoreEntries /\ \A i \in ResponseLoad(in) : loads[i] \in LoadEntries
    BY DEF MemoryTypeOK, SlotsTypeOK, QueueTypeOK, HeadStore, ResponseLoad
  <2>5. Load \in LoadEntries /\ translation \in Owners
    BY DEF MemoryTypeOK, QueueTypeOK, Scheduled, Load
  <2>6. \A e, x : (e \in StoreEntries \/ e \in LoadEntries \/ e \in Owners) /\ x \in BOOLEAN
                  => Completion(e, x) \in Completions
    BY DEF Completion, Completions, StoreEntries, LoadEntries, Owners
  <2>7. aguException \subseteq Completions
    BY DEF MemoryTypeOK, QueueTypeOK
  <2>8. FALSE \in BOOLEAN
    OBVIOUS
  <2> HIDE DEF Completion, Completions, StoreEntries, LoadEntries, Owners
  <2> QED
    BY <2>1, <2>2, <2>3, <2>4, <2>5, <2>6, <2>7, <2>8 DEF GeneratedBy
<1>2. completion' \subseteq Completions
  <2>1. completion' = {} \/ completion' = GeneratedCompletion(in)
    BY DEF Cycle, QueueStep, RequestStep
  <2> QED
    BY <1>1, <2>1
<1>3. aguException' \subseteq Completions
  <2>1. ASSUME NEW a \in in.agu PROVE Completion(a, TRUE) \in Completions
    <3>1. PICK k : Addressing(a, k)
      BY AguForm
    <3>2. k \in Nat /\ k >= 1 /\ recoveryEpoch \in Epochs
      BY <3>1 DEF Addressing, MemoryTypeOK, WindowTypeOK
    <3>3. a.robPointer \in RobPointer /\ a.recoveryEpoch \in Epochs
      BY <3>1, <3>2, PointerType DEF Addressing
    <3> QED
      BY <3>3 DEF Completion, Completions
  <2>2. aguException \subseteq Completions
    BY DEF MemoryTypeOK, QueueTypeOK
  <2>3. aguException' \subseteq
          aguException \cup {Completion(a, TRUE) : a \in {b \in in.agu : b.misaligned}}
    BY DEF Cycle, QueueStep, RequestStep
  <2> HIDE DEF Completion, Completions
  <2> QED
    BY <2>1, <2>2, <2>3
<1> QED
  BY <1>1, <1>2, <1>3

(* What is captured for the cache.                                           *)
StoreCaptured(r) ==
    /\ StoreRequest
    /\ r = [isWrite |-> TRUE, uncached |-> HeadStore.uncached, index |-> storeHead,
            robPointer |-> HeadStore.robPointer, recoveryEpoch |-> HeadStore.recoveryEpoch]
LoadCaptured(r) ==
    /\ ~StoreRequest /\ CacheLoadCandidate
    /\ r = [isWrite |-> FALSE, uncached |-> Load.uncached, index |-> scheduled.index,
            robPointer |-> Load.robPointer, recoveryEpoch |-> Load.recoveryEpoch]

LEMMA RequestForm ==
  ASSUME MemoryTypeOK, NEW in, NEW n, NEW kinds, Offered(in, n, kinds), Cycle(in, n, kinds)
  PROVE  /\ \A r \in requestBuffer' :
               \/ r \in requestBuffer /\ r \notin Taken(in) /\ (in.flush => r.isWrite /\ ~r.uncached)
               \/ /\ ~in.flush /\ requestBuffer = {} /\ requestBuffer' = {r}
                  /\ StoreCaptured(r) \/ LoadCaptured(r)
         /\ Taken(in) = {} \/ (~in.flush /\ Taken(in) = requestBuffer)
         /\ requestBuffer' \subseteq Requests
         /\ \A r \in requestBuffer' : r.index \in IF r.isWrite THEN StoreIndex ELSE LoadIndex
<1>1. Taken(in) = {} \/ (~in.flush /\ Taken(in) = requestBuffer)
  BY DEF Taken, DataRequest
<1>2. CASE in.flush
  <2>1. requestBuffer' = KeptRequests /\ Taken(in) = {}
    BY <1>1, <1>2 DEF Cycle, QueueStep, RequestStep
  <2> QED
    BY <1>1, <2>1 DEF KeptRequests, MemoryTypeOK, QueueTypeOK
<1>3. CASE ~in.flush /\ ~RequestCapture(in)
  <2>1. requestBuffer' = requestBuffer \ Taken(in)
    BY <1>3 DEF Cycle, QueueStep, RequestStep
  <2> QED
    BY <1>1, <1>3, <2>1 DEF MemoryTypeOK, QueueTypeOK
<1>4. CASE ~in.flush /\ RequestCapture(in)
  <2>1. PICK r : r = RequestCandidate
    OBVIOUS
  <2>2. requestBuffer' = {r}
    BY <1>4, <2>1 DEF Cycle, QueueStep, RequestStep
  <2>3. requestBuffer = {} /\ (StoreRequest \/ CacheLoadCandidate)
    BY <1>4 DEF RequestCapture
  <2>4. StoreCaptured(r) \/ LoadCaptured(r)
    BY <2>1, <2>3, Zenon DEF RequestCandidate, StoreCaptured, LoadCaptured
  <2>5. r \in Requests /\ r.index \in IF r.isWrite THEN StoreIndex ELSE LoadIndex
    <3>1. HeadStore \in StoreEntries /\ storeHead \in StoreIndex /\ storeHead \in Nat
      BY Sizes DEF MemoryTypeOK, SlotsTypeOK, QueueTypeOK, HeadStore, StoreIndex
    <3>2. Load \in LoadEntries /\ scheduled.index \in LoadIndex /\ scheduled.index \in Nat
      BY Sizes DEF MemoryTypeOK, QueueTypeOK, Scheduled, Load, LoadIndex
    <3>3. CASE StoreCaptured(r)
      BY <3>1, <3>3 DEF StoreCaptured, Requests, StoreEntries
    <3>4. CASE LoadCaptured(r)
      BY <3>2, <3>4 DEF LoadCaptured, Requests, LoadEntries
    <3> QED
      BY <2>4, <3>3, <3>4
  <2>6. \A q \in requestBuffer' : q = r
    BY <2>2
  <2> QED
    BY <1>1, <1>4, <2>2, <2>3, <2>4, <2>5, <2>6, Zenon
<1> QED
  BY <1>2, <1>3, <1>4

(* A uop after an edge.                                                      *)
UopKept(in, k, u) ==
    LET o == window[k] IN
    /\ u.kind = o.kind /\ u.index = o.index
    /\ u.issued <=> o.issued \/ \E a \in in.agu : a.robPointer = Pointer(k)
    /\ u.done = IF \E c \in Completed(in, k) : c.exception THEN "redirect"
                ELSE IF Completed(in, k) # {} \/ (k = 1 /\ in.barrier) THEN "good"
                ELSE o.done
    /\ u.accesses = IF o.accesses < 2
                         /\ \E r \in Taken(in) : r.uncached /\ r.robPointer = Pointer(k)
                    THEN o.accesses + 1 ELSE o.accesses

LEMMA UopAfterEdge ==
  ASSUME MemoryTypeOK, NEW in, NEW k \in DOMAIN window, NEW u, u = AfterEdge(in, k)
  PROVE  u \in WindowUops /\ UopKept(in, k, u)
<1> DEFINE o == window[k]
           done == IF \E c \in Completed(in, k) : c.exception THEN "redirect"
                   ELSE IF Completed(in, k) # {} \/ (k = 1 /\ in.barrier) THEN "good"
                   ELSE o.done
           issued == o.issued \/ \E a \in in.agu : a.robPointer = Pointer(k)
           sent == o.dataSent \/ \E d \in in.data : d.robPointer = Pointer(k)
           accesses == IF o.accesses < 2
                            /\ \E r \in Taken(in) : r.uncached /\ r.robPointer = Pointer(k)
                       THEN o.accesses + 1 ELSE o.accesses
           stale == o.stale \/ (IsLoad(o) /\ ReadsStale(in, k))
<1>1. o \in WindowUops
  BY DEF MemoryTypeOK, WindowTypeOK
<1>2. /\ done \in {"no", "good", "redirect"} /\ issued \in BOOLEAN /\ sent \in BOOLEAN
      /\ accesses \in Nat /\ stale \in BOOLEAN
  <2>1. done \in {"no", "good", "redirect"}
    BY <1>1 DEF WindowUops
  <2>2. accesses \in Nat
    BY <1>1 DEF WindowUops
  <2> QED
    BY <2>1, <2>2
<1>3. u = [o EXCEPT !.done = done, !.issued = issued, !.dataSent = sent,
                    !.accesses = accesses, !.stale = stale]
  BY DEF AfterEdge
<1>4. PICK d, i, s, a, t : d = done /\ i = issued /\ s = sent /\ a = accesses /\ t = stale
  OBVIOUS
<1> HIDE DEF done, issued, sent, accesses, stale
<1>5. u \in WindowUops
  BY <1>1, <1>2, <1>3 DEF WindowUops
<1>6. /\ u.kind = o.kind /\ u.index = o.index /\ u.done = done /\ u.issued = issued
      /\ u.accesses = accesses
  BY <1>1, <1>3 DEF WindowUops
<1> USE DEF done, issued, accesses
<1> QED
  BY <1>5, <1>6, Zenon DEF UopKept

(* The new uops.                                                             *)
LEMMA NewUopForm ==
  ASSUME MemoryTypeOK, NEW in, NEW n, NEW kinds, Offered(in, n, kinds),
         NEW i \in 1 .. Len(kinds)
  PROVE  LET u == NewUop(kinds, i) IN
         /\ u \in WindowUops /\ u.kind = kinds[i]
         /\ ~u.issued /\ u.accesses = 0 /\ ~u.stale
         /\ u.done = IF kinds[i] = "other" THEN "good"
                     ELSE IF kinds[i] = "wrong" THEN "redirect" ELSE "no"
<1>1. kinds[i] \in Kinds
  BY GroupForm
<1>2. NewUop(kinds, i).index \in Nat
  <2>1. loadTail \in Nat /\ storeTail \in Nat
    BY Sizes DEF MemoryTypeOK, QueueTypeOK, LoadIndex, StoreIndex
  <2>2. CASE i \in LoadGroup(kinds)
    <3>1. Rank(LoadGroup(kinds), i) \in Nat
      BY GroupSlots, RankType
    <3>2. PICK x \in Nat : x = loadTail + Rank(LoadGroup(kinds), i)
      BY <2>1, <3>1
    <3>3. (x % LoadQueueEntries) \in Nat
      BY Remainder, Sizes
    <3> QED
      BY <2>2, <3>2, <3>3, GroupSlots DEF At
  <2>3. CASE i \in StoreGroup(kinds)
    <3>1. Rank(StoreGroup(kinds), i) \in Nat
      BY GroupSlots, RankType
    <3>2. PICK x \in Nat : x = storeTail + Rank(StoreGroup(kinds), i)
      BY <2>1, <3>1
    <3>3. (x % StoreQueueEntries) \in Nat
      BY Remainder, Sizes
    <3> QED
      BY <2>3, <3>2, <3>3, GroupSlots DEF At
  <2>4. CASE i \notin LoadGroup(kinds) /\ i \notin StoreGroup(kinds)
    BY <2>4 DEF LoadGroup, StoreGroup, NewUop
  <2> QED
    BY <2>2, <2>3, <2>4
<1>3. PICK x \in Nat : x = NewUop(kinds, i).index
  BY <1>2
<1>4. PICK d \in {"no", "good", "redirect"} :
        d = IF kinds[i] = "other" THEN "good"
            ELSE IF kinds[i] = "wrong" THEN "redirect" ELSE "no"
  OBVIOUS
<1>5. NewUop(kinds, i) =
        [kind |-> kinds[i], index |-> x, issued |-> FALSE, dataSent |-> FALSE,
         done |-> d, accesses |-> 0, stale |-> FALSE]
  BY <1>3, <1>4 DEF NewUop
<1> QED
  BY <1>1, <1>4, <1>5 DEF WindowUops

(* A sequence without its first n elements, followed by another.               *)
LEMMA RestForm ==
  ASSUME NEW T, NEW s \in Seq(T), NEW n \in Nat, n <= Len(s),
         NEW r, r = SubSeq(s, n + 1, Len(s))
  PROVE  /\ r \in Seq(T) /\ Len(r) = Len(s) - n
         /\ \A k \in 1 .. Len(s) - n : r[k] = s[n + k]
OBVIOUS

LEMMA JoinForm ==
  ASSUME NEW T, NEW r \in Seq(T), NEW s \in Seq(T), NEW j, j = r \o s
  PROVE  /\ j \in Seq(T) /\ Len(j) = Len(r) + Len(s)
         /\ \A k \in 1 .. Len(r) : j[k] = r[k]
         /\ \A i \in 1 .. Len(s) : j[Len(r) + i] = s[i]
OBVIOUS

(* The n oldest leave, the group enters.                                      *)
LEMMA WindowForm ==
  ASSUME MemoryTypeOK, NEW in, NEW n, NEW kinds, Offered(in, n, kinds), Cycle(in, n, kinds),
         ~in.flush
  PROVE  /\ n \in Nat /\ n <= Len(window) /\ Len(window) \in Nat /\ Len(kinds) \in Nat
         /\ Len(window') = Len(window) - n + Len(kinds) /\ Len(window') <= RobEntries
         /\ \A k \in 1 .. Len(window) - n : window'[k] = AfterEdge(in, n + k)
         /\ \A i \in 1 .. Len(kinds) : window'[Len(window) - n + i] = NewUop(kinds, i)
         /\ window' \in Seq(WindowUops)
<1>1. /\ n \in Nat /\ n <= Len(window) /\ Len(window) \in Nat /\ Len(kinds) \in Nat
      /\ Len(window) + Len(kinds) <= RobEntries /\ DOMAIN kinds = 1 .. Len(kinds)
      /\ DOMAIN window = 1 .. Len(window) /\ RobEntries \in Nat
  <2>1. Len(kinds) \in Nat /\ DOMAIN kinds = 1 .. Len(kinds)
    BY GroupForm, Sizes
  <2>2. Len(window) \in Nat /\ DOMAIN window = 1 .. Len(window)
    BY DEF MemoryTypeOK, WindowTypeOK
  <2>3. n \in Nat /\ n <= Len(window)
    BY Sizes DEF Offered, Retirable
  <2> QED
    BY <2>1, <2>2, <2>3, GroupFits, Sizes
<1> DEFINE edge == [k \in DOMAIN window |-> AfterEdge(in, k)]
           new == [i \in DOMAIN kinds |-> NewUop(kinds, i)]
           rest == SubSeq(edge, n + 1, Len(window))
<1>2. window' = rest \o new
  BY DEF Cycle, WindowStep
<1>3. edge \in Seq(WindowUops) /\ Len(edge) = Len(window)
  <2>1. \A k \in DOMAIN window : AfterEdge(in, k) \in WindowUops
    BY UopAfterEdge
  <2> QED
    BY <1>1, <2>1
<1>4. new \in Seq(WindowUops) /\ Len(new) = Len(kinds)
  <2>1. \A i \in DOMAIN kinds : NewUop(kinds, i) \in WindowUops
    BY <1>1, NewUopForm
  <2> HIDE DEF NewUop
  <2> QED
    BY <1>1, <2>1
<1>5. /\ \A k \in 1 .. Len(window) : edge[k] = AfterEdge(in, k)
      /\ \A i \in 1 .. Len(kinds) : new[i] = NewUop(kinds, i)
  BY <1>1
<1> HIDE DEF edge, new
<1>6. /\ rest \in Seq(WindowUops) /\ Len(rest) = Len(window) - n
      /\ \A k \in 1 .. Len(window) - n : rest[k] = edge[n + k]
  <2>1. rest = SubSeq(edge, n + 1, Len(edge))
    BY <1>3 DEF rest
  <2>2. n <= Len(edge) /\ n \in Nat /\ edge \in Seq(WindowUops)
    BY <1>1, <1>3
  <2> HIDE DEF rest
  <2>3. /\ rest \in Seq(WindowUops) /\ Len(rest) = Len(edge) - n
        /\ \A k \in 1 .. Len(edge) - n : rest[k] = edge[n + k]
    BY <2>1, <2>2, RestForm, Zenon
  <2> QED
    BY <1>3, <2>3
<1> HIDE DEF rest
<1>7. /\ window' \in Seq(WindowUops) /\ Len(window') = Len(window) - n + Len(kinds)
      /\ \A k \in 1 .. Len(window) - n : window'[k] = rest[k]
      /\ \A i \in 1 .. Len(kinds) : window'[Len(window) - n + i] = new[i]
  <2>1. /\ window' \in Seq(WindowUops) /\ Len(window') = Len(rest) + Len(new)
        /\ \A k \in 1 .. Len(rest) : window'[k] = rest[k]
        /\ \A i \in 1 .. Len(new) : window'[Len(rest) + i] = new[i]
    <3>1. rest \in Seq(WindowUops) /\ new \in Seq(WindowUops) /\ window' = rest \o new
      BY <1>2, <1>4, <1>6
    <3> QED
      BY <3>1, JoinForm
  <2> QED
    BY <1>4, <1>6, <2>1
<1>8. \A k \in 1 .. Len(window) - n : window'[k] = AfterEdge(in, n + k)
  BY <1>1, <1>5, <1>6, <1>7
<1>9. \A i \in 1 .. Len(kinds) : window'[Len(window) - n + i] = NewUop(kinds, i)
  BY <1>5, <1>7
<1>10. Len(window') <= RobEntries
  BY <1>1, <1>7
<1> QED
  BY <1>1, <1>7, <1>8, <1>9, <1>10

LEMMA PointerMoves ==
  ASSUME MemoryTypeOK, NEW in, NEW n, NEW kinds, Offered(in, n, kinds), Cycle(in, n, kinds)
  PROVE  /\ robHead' \in RobPointer
         /\ ~in.flush => \A k \in Nat \ {0} : Pointer(k)' = Pointer(n + k)
<1>1. n \in Nat /\ Len(window) \in Nat
  BY Sizes DEF Offered, MemoryTypeOK, WindowTypeOK
<1>2. robHead' = Pointer(1 + IF in.flush THEN Len(window) ELSE n)
  BY DEF Cycle, WindowStep
<1>3. PICK m \in Nat : m = 1 + IF in.flush THEN Len(window) ELSE n
  BY <1>1
<1>4. robHead' \in RobPointer
  BY <1>1, <1>2, <1>3, PointerType
<1>5. ASSUME ~in.flush, NEW k \in Nat \ {0}
      PROVE  Pointer(k)' = Pointer(n + k)
  <2>1. PICK a \in Nat, j \in Nat : a = robHead + n /\ j = k - 1
    BY <1>1 DEF MemoryTypeOK, WindowTypeOK, RobPointer
  <2>2. robHead' = a % PointerModulus
    <3>1. robHead + (1 + n) - 1 = a
      BY <1>1, <2>1 DEF MemoryTypeOK, WindowTypeOK, RobPointer
    <3>2. robHead' = Pointer(1 + n)
      BY <1>2, <1>5
    <3> QED
      BY <3>1, <3>2 DEF Pointer
  <2>3. ((a % PointerModulus) + j) % PointerModulus = (a + j) % PointerModulus
    BY AddToRemainder, Sizes
  <2>4. robHead' + k - 1 = (a % PointerModulus) + j
    <3>1. (a % PointerModulus) \in Nat
      BY Remainder, Sizes
    <3> QED
      BY <2>1, <2>2, <3>1
  <2>5. robHead + (n + k) - 1 = a + j
    BY <1>1, <2>1 DEF MemoryTypeOK, WindowTypeOK, RobPointer
  <2>6. Pointer(k)' = (robHead' + k - 1) % PointerModulus
    BY DEF Pointer, PointerModulus
  <2> QED
    BY <2>3, <2>4, <2>5, <2>6 DEF Pointer
<1> QED
  BY <1>4, <1>5

LEMMA WindowType ==
  ASSUME MemoryTypeOK, NEW in, NEW n, NEW kinds, Offered(in, n, kinds), Cycle(in, n, kinds)
  PROVE  WindowTypeOK'
<1>1. window' \in Seq(WindowUops) /\ Len(window') <= RobEntries
  <2>1. CASE in.flush
    <3>1. window' = <<>>
      BY <2>1 DEF Cycle, WindowStep
    <3>2. <<>> \in Seq(WindowUops) /\ Len(<<>>) = 0
      OBVIOUS
    <3> QED
      BY <3>1, <3>2, Sizes
  <2>2. CASE ~in.flush
    BY <2>2, WindowForm
  <2> QED
    BY <2>1, <2>2
<1>2. robHead' \in RobPointer
  BY PointerMoves
<1>3. recoveryEpoch' \in Epochs
  <2>1. recoveryEpoch \in Epochs /\ recoveryEpoch + 1 \in Nat
    BY Sizes DEF MemoryTypeOK, WindowTypeOK, Epochs
  <2>2. ((recoveryEpoch + 1) % RecoveryEpochs) \in Epochs
    BY <2>1, Remainder, Sizes DEF Epochs
  <2> QED
    BY <2>1, <2>2 DEF Cycle, WindowStep
<1>4. committedMemoryEpoch' \in Barriers
  <2> DEFINE B == {k \in 1 .. n : ~in.flush /\ window[k].kind = "barrier"}
  <2>1. n \in Int /\ 1 \in Int
    BY Sizes DEF Offered
  <2>2. IsFiniteSet(1 .. n) /\ B \in SUBSET (1 .. n)
    BY <2>1, FS_Interval
  <2>3. Cardinality(B) \in Nat /\ committedMemoryEpoch \in Nat
    <3>1. IsFiniteSet(B)
      BY <2>2, FS_Subset
    <3>2. Cardinality(B) \in Nat
      BY <3>1, FS_CardinalityType
    <3>3. committedMemoryEpoch \in Nat
      BY Sizes DEF MemoryTypeOK, WindowTypeOK, Barriers
    <3> QED
      BY <3>2, <3>3
  <2>4. committedMemoryEpoch' = (committedMemoryEpoch + Cardinality(B)) % MemoryEpochs
    BY DEF Cycle, WindowStep
  <2> HIDE DEF B
  <2>5. PICK x \in Nat : x = committedMemoryEpoch + Cardinality(B)
    BY <2>3
  <2> QED
    BY <2>4, <2>5, Remainder, Sizes DEF Barriers
<1>5. redirectPending' \in BOOLEAN
  BY DEF Cycle, WindowStep
<1> QED
  BY <1>1, <1>2, <1>3, <1>4, <1>5 DEF WindowTypeOK, RobPointer, PointerModulus, WindowUops,
     Epochs, Barriers

LEMMA TypesStep ==
  ASSUME MemoryTypeOK, NEW in, NEW n, NEW kinds, Offered(in, n, kinds), Cycle(in, n, kinds)
  PROVE  MemoryTypeOK'
<1>1. stores' \in [StoreIndex -> StoreEntries]
  <2>1. \A i \in StoreIndex : stores'[i] \in StoreEntries
    BY StoreEdge, FlushEdge
  <2>2. stores' = [i \in StoreIndex |-> IF in.flush THEN StoreAfterFlush(in, i)
                                        ELSE StoreAfterEdge(in, i)]
    BY DEF Cycle, QueueStep
  <2>3. DOMAIN stores' = StoreIndex /\ stores' = [i \in StoreIndex |-> stores'[i]]
    BY <2>2
  <2> QED
    BY <2>1, <2>3
<1>2. loads' \in [LoadIndex -> LoadEntries]
  <2>1. loads' = [i \in LoadIndex |-> IF in.flush THEN EmptyLoad ELSE LoadAfterEdge(in, i)]
    BY DEF Cycle, QueueStep
  <2>2. DOMAIN loads' = LoadIndex /\ loads' = [i \in LoadIndex |-> loads'[i]]
    BY <2>1
  <2>3. \A i \in LoadIndex : loads'[i] \in LoadEntries
    <3>1. CASE in.flush
      BY <2>1, <3>1, Empties
    <3>2. CASE ~in.flush
      BY <3>2, LoadEdge
    <3> QED
      BY <3>1, <3>2
  <2> QED
    BY <2>2, <2>3
<1>3. SlotsTypeOK'
  BY <1>1, <1>2 DEF SlotsTypeOK, StoreIndex, LoadIndex, StoreEntries, LoadEntries, RobPointer,
     PointerModulus, Epochs, Barriers, SomeMasks
<1>4. /\ storeHead' \in StoreIndex /\ loadBase' \in LoadIndex
      /\ loadTail' \in LoadIndex /\ storeTail' \in StoreIndex /\ drainAfterFlush' \in BOOLEAN
  BY HeadsType
<1>5. scheduled' \in Scheduled
  BY ScheduleForm
<1>6. /\ translation' \in Owners /\ translationCancelPending' \in BOOLEAN
      /\ translation'.active =>
            translation'.index \in IF translation'.store THEN StoreIndex ELSE LoadIndex
  BY TranslationType
<1>7. requestBuffer' \subseteq Requests /\ completion' \subseteq Completions
        /\ aguException' \subseteq Completions
        /\ \A r \in requestBuffer' : r.index \in IF r.isWrite THEN StoreIndex ELSE LoadIndex
  BY RequestForm, CompletionType
<1>8. accepted' \subseteq StoreIndex
  <2>1. accepted' = accepted \/ (~in.flush /\ accepted' = TakenCachedStores(in))
    BY DEF Cycle, QueueStep, RequestStep
  <2>2. TakenCachedStores(in) \subseteq StoreIndex
    <3>1. \A r \in Taken(in) : r.isWrite => r.index \in StoreIndex
      BY RequestForm DEF MemoryTypeOK, QueueTypeOK
    <3> QED
      BY <3>1 DEF TakenCachedStores
  <2>3. accepted \subseteq StoreIndex
    BY DEF MemoryTypeOK, QueueTypeOK
  <2> QED
    BY <2>1, <2>2, <2>3, Zenon
<1>9. QueueTypeOK'
  BY <1>4, <1>5, <1>6, <1>7, <1>8 DEF QueueTypeOK, StoreIndex, LoadIndex, Scheduled, LoadEntries,
     Owners, Requests, Completions, RobPointer, PointerModulus, Epochs, Barriers, SomeMasks
<1> QED
  BY <1>3, <1>9, WindowType DEF MemoryTypeOK

(***************************************************************************)
(* Arcs of a ring: the slots of ranked positions, taken from the base.          *)
(***************************************************************************)
LEMMA ArcMoves ==
  ASSUME NEW N \in Nat \ {0}, NEW b \in 0 .. N - 1, NEW o \in 0 .. N, NEW r \in 0 .. o,
         NEW m \in Nat, o + m <= N
  PROVE  /\ \A i \in 0 .. N - 1 :
               Gap(At(b, r, N), i, N) < o + m - r <=> r <= Gap(b, i, N) /\ Gap(b, i, N) < o + m
         /\ At(At(b, o, N), m, N) = At(At(b, r, N), o + m - r, N)
<1>1. ASSUME NEW i \in 0 .. N - 1
      PROVE  Gap(At(b, r, N), i, N) < o + m - r <=> r <= Gap(b, i, N) /\ Gap(b, i, N) < o + m
  <2>1. PICK g \in 0 .. N - 1 : g = Gap(b, i, N)
    BY GapForm
  <2>2. Gap(At(b, r, N), i, N) = IF g >= r THEN g - r ELSE g - r + N
    BY <2>1, GapMoves
  <2>3. PICK h : h = Gap(At(b, r, N), i, N)
    OBVIOUS
  <2>4. CASE g >= r
    <3>1. h = g - r
      BY <2>2, <2>3, <2>4
    <3>2. g - r < o + m - r <=> r <= g /\ g < o + m
      BY <2>4
    <3> QED
      BY <2>1, <2>3, <3>1, <3>2
  <2>5. CASE g < r
    <3>1. h = g - r + N
      BY <2>2, <2>3, <2>5
    <3>2. ~(g - r + N < o + m - r) /\ ~(r <= g)
      BY <2>5
    <3> QED
      BY <2>1, <2>3, <3>1, <3>2
  <2> QED
    BY <2>4, <2>5
<1>2. PICK x \in Nat, y \in Nat : x = o + m - r /\ y = o + m
  OBVIOUS
<1>3. At(At(b, o, N), m, N) = At(b, y, N)
  BY <1>2, AtMoves
<1>4. At(At(b, r, N), x, N) = At(b, r + x, N)
  BY <1>2, AtMoves
<1>5. r + x = y
  BY <1>2
<1> QED
  BY <1>1, <1>2, <1>3, <1>4, <1>5

LEMMA ArcShrinks ==
  ASSUME NEW N \in Nat \ {0}, NEW b \in 0 .. N - 1, NEW o \in 0 .. N, NEW r \in 0 .. o,
         NEW i \in 0 .. N - 1
  PROVE  Gap(At(b, r, N), i, N) < o - r <=> r <= Gap(b, i, N) /\ Gap(b, i, N) < o
<1>1. PICK m \in Nat : m = 0
  OBVIOUS
<1>2. o + m <= N /\ o + m = o /\ o + m - r = o - r
  BY <1>1
<1>3. Gap(At(b, r, N), i, N) < o + m - r <=> r <= Gap(b, i, N) /\ Gap(b, i, N) < o + m
  BY <1>2, ArcMoves
<1> QED
  BY <1>2, <1>3

(* The slots of the members of S before c, from d slots behind the base.         *)
LEMMA HeldArc ==
  ASSUME NEW N \in Nat \ {0}, NEW b \in 0 .. N - 1, NEW d \in Nat,
         NEW S, Positions(S), d + Cardinality(S) <= N, NEW c \in Int
  PROVE  /\ \A k \in S : Gap(b, At(b, d + Rank(S, k), N), N) = d + Rank(S, k)
         /\ \A i \in 0 .. N - 1 :
               (\E k \in S : k < c /\ At(b, d + Rank(S, k), N) = i)
                  <=> d <= Gap(b, i, N) /\ Gap(b, i, N) < d + Rank(S, c)
         /\ \A j, k \in S : At(b, d + Rank(S, j), N) = At(b, d + Rank(S, k), N) => j = k
<1>1. ASSUME NEW k \in S
      PROVE  /\ Rank(S, k) \in Nat /\ Rank(S, k) < Cardinality(S) /\ k \in Int
             /\ Gap(b, At(b, d + Rank(S, k), N), N) = d + Rank(S, k)
             /\ At(b, d + Rank(S, k), N) \in 0 .. N - 1
  <2>1. Rank(S, k) \in Nat /\ Rank(S, k) < Cardinality(S) /\ Cardinality(S) \in Nat /\ k \in Int
    BY RankType, RankLess, SizeType DEF Positions
  <2>2. PICK s \in 0 .. N - 1 : s = d + Rank(S, k)
    BY <2>1
  <2>3. Gap(b, At(b, s, N), N) = s
    BY GapAt
  <2>4. At(b, s, N) \in 0 .. N - 1
    BY AtForm
  <2> QED
    BY <2>1, <2>2, <2>3, <2>4
<1>2. ASSUME NEW j \in S, NEW k \in S, At(b, d + Rank(S, j), N) = At(b, d + Rank(S, k), N)
      PROVE  j = k
  <2>1. d + Rank(S, j) = d + Rank(S, k)
    BY <1>1, <1>2
  <2>2. Rank(S, j) = Rank(S, k) /\ j \in Int /\ k \in Int
          /\ Rank(S, j) \in Nat /\ Rank(S, k) \in Nat
    BY <1>1, <2>1
  <2>3. j < k => Rank(S, j) < Rank(S, k)
    BY <2>2, RankStrict
  <2>4. k < j => Rank(S, k) < Rank(S, j)
    BY <2>2, RankStrict
  <2> QED
    BY <2>2, <2>3, <2>4
<1>3. ASSUME NEW i \in 0 .. N - 1, NEW k \in S, k < c, At(b, d + Rank(S, k), N) = i
      PROVE  d <= Gap(b, i, N) /\ Gap(b, i, N) < d + Rank(S, c)
  <2>1. Gap(b, i, N) = d + Rank(S, k) /\ Rank(S, k) \in Nat
    BY <1>1, <1>3
  <2>2. Rank(S, k) < Rank(S, c) /\ Rank(S, c) \in Nat
    BY <1>3, RankStrict, RankType
  <2> QED
    BY <2>1, <2>2
<1>4. ASSUME NEW i \in 0 .. N - 1, d <= Gap(b, i, N), Gap(b, i, N) < d + Rank(S, c)
      PROVE  \E k \in S : k < c /\ At(b, d + Rank(S, k), N) = i
  <2>1. PICK g \in 0 .. N - 1 : g = Gap(b, i, N)
    BY GapForm
  <2>2. Rank(S, c) \in Nat /\ Rank(S, c) <= Cardinality(S) /\ Cardinality(S) \in Nat
    BY RankType, SizeType
  <2>3. PICK s \in 0 .. Cardinality(S) - 1 : s = g - d
    BY <1>4, <2>1, <2>2
  <2>4. PICK k \in S : Rank(S, k) = s
    BY RankOnto
  <2>5. k \in Int
    BY DEF Positions
  <2>6. k < c
    <3>1. c <= k => Rank(S, c) <= Rank(S, k)
      BY <2>5, RankMonotone
    <3>2. s < Rank(S, c)
      BY <1>4, <2>1, <2>2, <2>3
    <3> QED
      BY <2>2, <2>3, <2>4, <2>5, <3>1, <3>2
  <2>7. d + Rank(S, k) = g
    BY <2>1, <2>3, <2>4
  <2>8. At(b, g, N) = i
    BY <2>1, AtGap
  <2> QED
    BY <2>6, <2>7, <2>8
<1> QED
  BY <1>1, <1>2, <1>3, <1>4

(* The slots a group takes behind the tail.                                   *)
LEMMA GroupArc ==
  ASSUME NEW N \in Nat \ {0}, NEW b \in 0 .. N - 1, NEW o \in 0 .. N,
         NEW G, Positions(G), o + Cardinality(G) <= N,
         NEW c \in Int, \A j \in G : j < c,
         NEW tail, tail = At(b, o, N)
  PROVE  /\ \A j \in G : /\ At(tail, Rank(G, j), N) = At(b, o + Rank(G, j), N)
                         /\ Gap(b, At(tail, Rank(G, j), N), N) = o + Rank(G, j)
         /\ \A i \in 0 .. N - 1 :
               (\E j \in G : At(tail, Rank(G, j), N) = i)
                  <=> o <= Gap(b, i, N) /\ Gap(b, i, N) < o + Cardinality(G)
         /\ \A j, k \in G : At(tail, Rank(G, j), N) = At(tail, Rank(G, k), N) => j = k
<1>1. ASSUME NEW j \in G
      PROVE  At(tail, Rank(G, j), N) = At(b, o + Rank(G, j), N)
  <2>1. Rank(G, j) \in Nat /\ o \in Nat
    BY RankType
  <2> QED
    BY <2>1, AtMoves
<1>2. Rank(G, c) = Cardinality(G)
  <2>1. Below(G, c) = G
    BY DEF Below
  <2> QED
    BY <2>1 DEF Rank
<1>3. o \in Nat
  OBVIOUS
<1>4. /\ \A j \in G : Gap(b, At(b, o + Rank(G, j), N), N) = o + Rank(G, j)
      /\ \A i \in 0 .. N - 1 :
            (\E j \in G : j < c /\ At(b, o + Rank(G, j), N) = i)
              <=> o <= Gap(b, i, N) /\ Gap(b, i, N) < o + Rank(G, c)
      /\ \A j, k \in G : At(b, o + Rank(G, j), N) = At(b, o + Rank(G, k), N) => j = k
  BY <1>3, HeldArc
<1> QED
  BY <1>1, <1>2, <1>4

LEMMA ArcSize ==
  ASSUME NEW N \in Nat \ {0}, NEW b \in 0 .. N - 1, NEW r \in 0 .. N
  PROVE  /\ IsFiniteSet({i \in 0 .. N - 1 : Gap(b, i, N) < r})
         /\ Cardinality({i \in 0 .. N - 1 : Gap(b, i, N) < r}) = r
<1> DEFINE S == 0 .. r - 1
           f == [s \in S |-> At(b, s, N)]
           A == {i \in 0 .. N - 1 : Gap(b, i, N) < r}
<1>1. IsFiniteSet(S) /\ Cardinality(S) = r
  <2>1. IsFiniteSet(0 .. r - 1) /\ Cardinality(0 .. r - 1) = r - 0
    BY IntervalSize
  <2> QED
    BY <2>1
<1>2. \A s \in S : s \in 0 .. N - 1 /\ f[s] = At(b, s, N) /\ f[s] \in 0 .. N - 1
                     /\ Gap(b, f[s], N) = s
  <2> SUFFICES ASSUME NEW s \in S
               PROVE  s \in 0 .. N - 1 /\ f[s] = At(b, s, N) /\ f[s] \in 0 .. N - 1
                        /\ Gap(b, f[s], N) = s
    OBVIOUS
  <2>1. s \in 0 .. N - 1
    OBVIOUS
  <2>2. f[s] = At(b, s, N)
    OBVIOUS
  <2>3. At(b, s, N) \in 0 .. N - 1 /\ Gap(b, At(b, s, N), N) = s
    BY <2>1, AtForm, GapAt
  <2> QED
    BY <2>1, <2>2, <2>3
<1>3. \A i \in A : \E s \in S : f[s] = i
  <2> SUFFICES ASSUME NEW i \in A PROVE \E s \in S : f[s] = i
    OBVIOUS
  <2>1. i \in 0 .. N - 1 /\ Gap(b, i, N) < r
    OBVIOUS
  <2>2. PICK s \in S : s = Gap(b, i, N)
    BY <2>1, GapForm
  <2>3. f[s] = At(b, s, N)
    BY <1>2
  <2> QED
    BY <2>1, <2>2, <2>3, AtGap
<1>4. A = {f[s] : s \in S}
  <2>1. \A s \in S : f[s] \in A
    <3> SUFFICES ASSUME NEW s \in S PROVE f[s] \in A
      OBVIOUS
    <3>1. f[s] \in 0 .. N - 1 /\ Gap(b, f[s], N) = s /\ s < r
      BY <1>2
    <3> HIDE DEF f
    <3> QED
      BY <3>1
  <2> HIDE DEF A, f
  <2> QED
    BY <1>3, <2>1
<1>5. DOMAIN f = S /\ \A x, y \in S : f[x] = f[y] => x = y
  <2>1. DOMAIN f = S
    OBVIOUS
  <2> HIDE DEF f
  <2> QED
    BY <1>2, <2>1
<1> HIDE DEF f, S
<1>6. S \subseteq DOMAIN f /\ IsFiniteSet(S)
  BY <1>1, <1>5
<1>7. /\ IsFiniteSet({f[x] : x \in S})
      /\ Cardinality({f[x] : x \in S}) = Cardinality(S)
  BY <1>5, <1>6, ImageSize
<1> QED
  BY <1>1, <1>4, <1>7

(***************************************************************************)
(* The uops in flight counted from 0.                                         *)
(***************************************************************************)
Uop(k) == window[k + 1]
Age(k) == Pointer(k + 1)

WindowMoved(in, n, kinds, left, m) ==
    /\ n \in Nat /\ left \in Nat /\ m \in Nat
    /\ Len(window) = n + left /\ Len(window') = left + m
    /\ \A k \in 0 .. left - 1 :
          /\ n + k \in 0 .. Len(window) - 1
          /\ UopKept(in, n + k + 1, Uop(k)')
          /\ Uop(k)'.kind = Uop(n + k).kind /\ Uop(k)'.index = Uop(n + k).index
          /\ Age(k)' = Age(n + k)
    /\ \A i \in 1 .. m :
          /\ left + i - 1 \in 0 .. left + m - 1
          /\ Uop(left + i - 1)' = NewUop(kinds, i)
          /\ Age(left + i - 1)' = Pointer(Len(window) + i)
    /\ LoadPositions' = Moved(LoadPositions, LoadGroup(kinds), n, left, m)
    /\ StorePositions' = Moved(StorePositions, StoreGroup(kinds), n, left, m)

LEMMA WindowMoves ==
  ASSUME MemoryTypeOK, NEW in, NEW n, NEW kinds, Offered(in, n, kinds), Cycle(in, n, kinds),
         ~in.flush, NEW left, left = Len(window) - n, NEW m, m = Len(kinds)
  PROVE  WindowMoved(in, n, kinds, left, m)
<1>1. /\ n \in Nat /\ left \in Nat /\ m \in Nat
      /\ Len(window) = n + left /\ Len(window') = left + m
  BY WindowForm
<1>2. /\ \A k \in 1 .. left : window'[k] = AfterEdge(in, n + k)
      /\ \A i \in 1 .. m : window'[left + i] = NewUop(kinds, i)
  BY WindowForm
<1>3. ASSUME NEW k \in 0 .. left - 1
      PROVE  /\ n + k \in 0 .. Len(window) - 1
             /\ UopKept(in, n + k + 1, Uop(k)')
             /\ Uop(k)'.kind = Uop(n + k).kind /\ Uop(k)'.index = Uop(n + k).index
             /\ Age(k)' = Age(n + k)
  <2>1. PICK j \in 1 .. left : j = k + 1
    BY <1>1
  <2>2. n + j = n + k + 1 /\ n + j \in 1 .. Len(window) /\ n + k \in 0 .. Len(window) - 1
    BY <1>1, <2>1
  <2>3. PICK x \in DOMAIN window : x = n + k + 1
    BY <2>2 DEF MemoryTypeOK, WindowTypeOK
  <2>4. window'[j] = AfterEdge(in, x)
    BY <1>2, <2>2, <2>3
  <2>5. PICK u : u = window'[j]
    OBVIOUS
  <2>6. UopKept(in, x, u)
    BY <2>4, <2>5, UopAfterEdge
  <2>7. u.kind = window[x].kind /\ u.index = window[x].index
    BY <2>6 DEF UopKept
  <2>8. Uop(k)' = u
    BY <2>1, <2>5 DEF Uop
  <2>9. window[x] = Uop(n + k)
    BY <2>3 DEF Uop
  <2>10. Age(k)' = Age(n + k)
    <3>1. j \in Nat \ {0}
      BY <1>1
    <3>2. Pointer(j)' = Pointer(n + j)
      BY <3>1, PointerMoves
    <3>3. Age(k)' = Pointer(j)'
      BY <2>1 DEF Age, Pointer
    <3>4. Age(n + k) = Pointer(n + j)
      BY <2>2 DEF Age
    <3> QED
      BY <3>2, <3>3, <3>4
  <2>11. UopKept(in, n + k + 1, u)
    BY <2>3, <2>6
  <2> QED
    BY <2>2, <2>7, <2>8, <2>9, <2>10, <2>11
<1>4. ASSUME NEW i \in 1 .. m
      PROVE  /\ left + i - 1 \in 0 .. left + m - 1
             /\ Uop(left + i - 1)' = NewUop(kinds, i)
             /\ Age(left + i - 1)' = Pointer(Len(window) + i)
  <2>1. PICK j \in Nat \ {0} : j = left + i
    BY <1>1
  <2>2. left + i - 1 \in 0 .. left + m - 1 /\ (left + i - 1) + 1 = j /\ n + j = Len(window) + i
    BY <1>1, <2>1
  <2>3. Uop(left + i - 1)' = window'[j]
    BY <2>2 DEF Uop
  <2>4. Age(left + i - 1)' = Pointer(j)'
    BY <2>2 DEF Age, Pointer
  <2>5. Pointer(j)' = Pointer(n + j)
    BY PointerMoves
  <2> QED
    BY <1>2, <2>1, <2>2, <2>3, <2>4, <2>5
<1>5. LoadPositions' = Moved(LoadPositions, LoadGroup(kinds), n, left, m)
  <2>1. LoadPositions' = {k \in 0 .. left + m - 1 : IsLoad(Uop(k)')}
    BY <1>1 DEF LoadPositions, Uop, IsLoad
  <2>2. ASSUME NEW k \in 0 .. left + m - 1
        PROVE  IsLoad(Uop(k)') <=> \/ k < left /\ n + k \in LoadPositions
                                   \/ k >= left /\ k - left + 1 \in LoadGroup(kinds)
    <3>1. CASE k < left
      <4>1. k \in 0 .. left - 1
        BY <1>1, <3>1
      <4>2. n + k \in 0 .. Len(window) - 1 /\ Uop(k)'.kind = Uop(n + k).kind
        BY <1>3, <4>1
      <4>3. n + k \in LoadPositions <=> IsLoad(Uop(n + k))
        BY <4>2 DEF LoadPositions, Uop
      <4>4. ~(k >= left)
        BY <1>1, <3>1
      <4> QED
        BY <3>1, <4>2, <4>3, <4>4 DEF IsLoad
    <3>2. CASE k >= left
      <4>1. PICK i \in 1 .. m : i = k - left + 1
        BY <1>1, <3>2
      <4>2. left + i - 1 = k /\ ~(k < left)
        BY <1>1, <3>2, <4>1
      <4>3. Uop(k)' = NewUop(kinds, i)
        BY <1>4, <4>2
      <4>4. NewUop(kinds, i).kind = kinds[i]
        BY NewUopForm
      <4>5. i \in LoadGroup(kinds) <=> kinds[i] \in LoadKinds
        BY DEF LoadGroup
      <4> QED
        BY <3>2, <4>1, <4>2, <4>3, <4>4, <4>5 DEF IsLoad, LoadKinds
    <3> QED
      BY <1>1, <3>1, <3>2
  <2> QED
    BY <2>1, <2>2 DEF Moved
<1>6. StorePositions' = Moved(StorePositions, StoreGroup(kinds), n, left, m)
  <2>1. StorePositions' = {k \in 0 .. left + m - 1 : IsStore(Uop(k)')}
    BY <1>1 DEF StorePositions, Uop, IsStore
  <2>2. ASSUME NEW k \in 0 .. left + m - 1
        PROVE  IsStore(Uop(k)') <=> \/ k < left /\ n + k \in StorePositions
                                    \/ k >= left /\ k - left + 1 \in StoreGroup(kinds)
    <3>1. CASE k < left
      <4>1. k \in 0 .. left - 1
        BY <1>1, <3>1
      <4>2. n + k \in 0 .. Len(window) - 1 /\ Uop(k)'.kind = Uop(n + k).kind
        BY <1>3, <4>1
      <4>3. n + k \in StorePositions <=> IsStore(Uop(n + k))
        BY <4>2 DEF StorePositions, Uop
      <4>4. ~(k >= left)
        BY <1>1, <3>1
      <4> QED
        BY <3>1, <4>2, <4>3, <4>4 DEF IsStore
    <3>2. CASE k >= left
      <4>1. PICK i \in 1 .. m : i = k - left + 1
        BY <1>1, <3>2
      <4>2. left + i - 1 = k /\ ~(k < left)
        BY <1>1, <3>2, <4>1
      <4>3. Uop(k)' = NewUop(kinds, i)
        BY <1>4, <4>2
      <4>4. NewUop(kinds, i).kind = kinds[i]
        BY NewUopForm
      <4>5. i \in StoreGroup(kinds) <=> kinds[i] \in StoreKinds
        BY DEF StoreGroup
      <4> QED
        BY <3>2, <4>1, <4>2, <4>3, <4>4, <4>5 DEF IsStore, StoreKinds
    <3> QED
      BY <1>1, <3>1, <3>2
  <2> QED
    BY <2>1, <2>2 DEF Moved
<1> QED
  BY <1>1, <1>3, <1>4, <1>5, <1>6 DEF WindowMoved

(***************************************************************************)
(* The load queue: its occupied slots are the loads in flight, in program       *)
(* order from its base.                                                      *)
(***************************************************************************)
HeldLoad(k) ==
    LET u == Uop(k) IN
    /\ u.index = At(loadBase, Rank(LoadPositions, k), LoadQueueEntries)
    /\ loads[u.index].robPointer = Age(k) /\ loads[u.index].recoveryEpoch = recoveryEpoch
LoadRingInv ==
    /\ loadOccupancy = Cardinality(LoadPositions) /\ loadOccupancy <= LoadQueueEntries
    /\ loadTail = At(loadBase, loadOccupancy, LoadQueueEntries)
    /\ \A i \in LoadIndex :
          loads[i].valid <=> Gap(loadBase, i, LoadQueueEntries) < loadOccupancy
    /\ \A k \in LoadPositions : HeldLoad(k)

LEMMA HeldFromBase ==
  ASSUME NEW N \in Nat \ {0}, NEW b \in 0 .. N - 1,
         NEW S, Positions(S), Cardinality(S) <= N, NEW c \in Int
  PROVE  /\ \A k \in S : /\ Gap(b, At(b, Rank(S, k), N), N) = Rank(S, k)
                         /\ At(b, Rank(S, k), N) \in 0 .. N - 1
         /\ \A i \in 0 .. N - 1 :
               (\E k \in S : k < c /\ At(b, Rank(S, k), N) = i) <=> Gap(b, i, N) < Rank(S, c)
         /\ \A j, k \in S : At(b, Rank(S, j), N) = At(b, Rank(S, k), N) => j = k
<1>1. PICK d \in Nat : d = 0
  OBVIOUS
<1>2. \A k : d + Rank(S, k) = Rank(S, k)
  <2>1. \A k : Rank(S, k) \in Nat
    BY RankType
  <2> QED
    BY <1>1, <2>1
<1>3. d + Cardinality(S) <= N
  BY <1>1, SizeType
<1>4. /\ \A k \in S : Gap(b, At(b, d + Rank(S, k), N), N) = d + Rank(S, k)
      /\ \A i \in 0 .. N - 1 :
            (\E k \in S : k < c /\ At(b, d + Rank(S, k), N) = i)
               <=> d <= Gap(b, i, N) /\ Gap(b, i, N) < d + Rank(S, c)
      /\ \A j, k \in S : At(b, d + Rank(S, j), N) = At(b, d + Rank(S, k), N) => j = k
  BY <1>3, HeldArc
<1>5. \A i \in 0 .. N - 1 : d <= Gap(b, i, N)
  BY <1>1, GapForm
<1>6. \A k \in S : At(b, Rank(S, k), N) \in 0 .. N - 1
  <2> SUFFICES ASSUME NEW k \in S PROVE At(b, Rank(S, k), N) \in 0 .. N - 1
    OBVIOUS
  <2>1. Rank(S, k) \in 0 .. N
    BY RankType, SizeType
  <2> QED
    BY <2>1, AtForm
<1> QED
  BY <1>2, <1>4, <1>5, <1>6

(* The numbers of a load ring.                                                *)
LEMMA LoadNumbers ==
  ASSUME MemoryTypeOK, LoadRingInv
  PROVE  /\ LoadQueueEntries \in Nat \ {0} /\ loadBase \in 0 .. LoadQueueEntries - 1
         /\ loadOccupancy \in 0 .. LoadQueueEntries /\ loadOccupancy \in Nat
         /\ Positions(LoadPositions) /\ Cardinality(LoadPositions) = loadOccupancy
         /\ LoadIndex = 0 .. LoadQueueEntries - 1
<1>1. Positions(LoadPositions) /\ Cardinality(LoadPositions) \in Nat
  BY PositionsWithin, SizeType
<1>2. loadOccupancy = Cardinality(LoadPositions) /\ loadOccupancy <= LoadQueueEntries
  BY DEF LoadRingInv
<1>3. LoadQueueEntries \in Nat \ {0} /\ loadBase \in LoadIndex
  BY Sizes DEF MemoryTypeOK, QueueTypeOK
<1> QED
  BY <1>1, <1>2, <1>3 DEF LoadIndex

(* The loads that retire are the first ones of the ring.                       *)
LEMMA CommittedArc ==
  ASSUME MemoryTypeOK, LoadRingInv, NEW in, NEW n, NEW kinds, Offered(in, n, kinds),
         NEW r, r = Rank(LoadPositions, n)
  PROVE  /\ r \in 0 .. loadOccupancy
         /\ \A i \in LoadIndex :
               i \in CommittedLoads(in) <=> Gap(loadBase, i, LoadQueueEntries) < r
         /\ Cardinality(CommittedLoads(in)) = r
<1> DEFINE N == LoadQueueEntries
           S == LoadPositions
<1>1. /\ N \in Nat \ {0} /\ loadBase \in 0 .. N - 1 /\ loadOccupancy \in Nat
      /\ Positions(S) /\ Cardinality(S) = loadOccupancy /\ Cardinality(S) <= N
      /\ LoadIndex = 0 .. N - 1 /\ n \in Int /\ n <= Len(window)
  BY LoadNumbers, Sizes DEF Offered, Retirable
<1>2. r \in 0 .. loadOccupancy
  BY <1>1, RankType
<1>3. ASSUME NEW i \in LoadIndex
      PROVE  i \in CommittedLoads(in) <=> \E k \in S : k < n /\ At(loadBase, Rank(S, k), N) = i
  <2>1. ASSUME i \in CommittedLoads(in)
        PROVE  \E k \in S : k < n /\ At(loadBase, Rank(S, k), N) = i
    <3>1. PICK c \in in.commit : CommitsLoad(c, i)
      BY <2>1 DEF CommittedLoads
    <3>2. PICK x \in 1 .. n : c.isLoad = IsLoad(window[x]) /\ c.index = window[x].index
      BY <3>1 DEF Offered, CommitLanes
    <3>3. PICK k \in 0 .. Len(window) - 1 : k + 1 = x /\ k < n
      <4>1. x - 1 \in 0 .. Len(window) - 1 /\ (x - 1) + 1 = x /\ x - 1 < n
        BY <1>1 DEF MemoryTypeOK, WindowTypeOK
      <4> QED
        BY <4>1
    <3>4. k \in S /\ Uop(k).index = i
      BY <3>1, <3>2, <3>3 DEF LoadPositions, Uop, CommitsLoad
    <3>5. HeldLoad(k)
      BY <3>4 DEF LoadRingInv
    <3> QED
      BY <3>3, <3>4, <3>5 DEF HeldLoad
  <2>2. ASSUME NEW k \in S, k < n, At(loadBase, Rank(S, k), N) = i
        PROVE  i \in CommittedLoads(in)
    <3>1. k \in 0 .. Len(window) - 1 /\ IsLoad(Uop(k))
      BY DEF LoadPositions, Uop
    <3>2. PICK x \in 1 .. n : x = k + 1
      BY <1>1, <2>2, <3>1
    <3>3. HeldLoad(k)
      BY DEF LoadRingInv
    <3>4. Uop(k).index = i /\ loads[i].robPointer = Pointer(x)
      BY <2>2, <3>2, <3>3 DEF HeldLoad, Age
    <3>5. loads[i].valid
      <4>1. Gap(loadBase, i, N) = Rank(S, k)
        BY <1>1, <2>2, HeldFromBase
      <4>2. Rank(S, k) < loadOccupancy
        BY <1>1, RankLess
      <4> QED
        BY <4>1, <4>2 DEF LoadRingInv
    <3>6. PICK c : c = [isLoad |-> IsLoad(window[x]), isStore |-> IsStore(window[x]),
                        index |-> window[x].index, robPointer |-> Pointer(x),
                        exception |-> window[x].done = "redirect"]
      OBVIOUS
    <3>7. c \in in.commit
      BY <3>6 DEF Offered, CommitLanes
    <3>8. CommitsLoad(c, i)
      BY <3>1, <3>2, <3>4, <3>5, <3>6 DEF CommitsLoad, Uop
    <3> QED
      BY <3>7, <3>8 DEF CommittedLoads
  <2> QED
    BY <2>1, <2>2
<1>4. ASSUME NEW i \in LoadIndex
      PROVE  i \in CommittedLoads(in) <=> Gap(loadBase, i, N) < r
  <2>1. (\E k \in S : k < n /\ At(loadBase, Rank(S, k), N) = i)
          <=> Gap(loadBase, i, N) < Rank(S, n)
    BY <1>1, HeldFromBase
  <2> QED
    BY <1>3, <2>1
<1>5. CommittedLoads(in) = {i \in 0 .. N - 1 : Gap(loadBase, i, N) < r}
  BY <1>1, <1>4 DEF CommittedLoads
<1>6. r \in 0 .. N
  BY <1>1, <1>2
<1>7. Cardinality({i \in 0 .. N - 1 : Gap(loadBase, i, N) < r}) = r
  BY <1>1, <1>6, ArcSize
<1> QED
  BY <1>2, <1>4, <1>5, <1>7

(* The loads of the group take the slots behind the last one.                  *)
LEMMA FreshLoads ==
  ASSUME MemoryTypeOK, LoadRingInv, NEW in, NEW n, NEW kinds, Offered(in, n, kinds),
         NEW m, m = Cardinality(LoadGroup(kinds))
  PROVE  /\ m \in Nat /\ loadOccupancy + m <= LoadQueueEntries
         /\ \A i \in LoadIndex :
               Lanes(in, FALSE, i) # {}
                 <=> /\ loadOccupancy <= Gap(loadBase, i, LoadQueueEntries)
                     /\ Gap(loadBase, i, LoadQueueEntries) < loadOccupancy + m
         /\ \A j \in LoadGroup(kinds) :
               /\ NewUop(kinds, j).index
                    = At(loadBase, loadOccupancy + Rank(LoadGroup(kinds), j), LoadQueueEntries)
               /\ NewUop(kinds, j).index \in LoadIndex
               /\ Lanes(in, FALSE, NewUop(kinds, j).index) # {}
               /\ \A lane \in Lanes(in, FALSE, NewUop(kinds, j).index) : Laning(lane, kinds, j)
<1> DEFINE N == LoadQueueEntries
           G == LoadGroup(kinds)
<1>1. /\ N \in Nat \ {0} /\ loadBase \in 0 .. N - 1 /\ loadOccupancy \in 0 .. N
      /\ LoadIndex = 0 .. N - 1 /\ Positions(G) /\ m \in Nat
      /\ loadTail = At(loadBase, loadOccupancy, N)
  BY LoadNumbers, GroupSlots, SizeType DEF LoadRingInv
<1>2. loadOccupancy + m <= N
  <2>1. CASE kinds = <<>>
    <3>1. G = {}
      BY <2>1 DEF LoadGroup
    <3> QED
      BY <1>1, <3>1, FS_EmptySet
  <2>2. CASE kinds # <<>>
    <3>1. N - loadOccupancy >= m
      BY <2>2, GroupFits
    <3> QED
      BY <1>1, <3>1
  <2> QED
    BY <2>1, <2>2
<1>3. PICK c \in Int : \A j \in G : j < c
  <2>1. Len(kinds) \in Nat
    BY GroupForm, Sizes
  <2>2. PICK c \in Int : c = Len(kinds) + 1
    BY <2>1
  <2>3. \A j \in G : j \in 1 .. Len(kinds)
    BY DEF LoadGroup
  <2>4. \A j \in G : j < c
    BY <2>1, <2>2, <2>3
  <2> QED
    BY <2>4
<1>4. /\ \A j \in G : At(loadTail, Rank(G, j), N) = At(loadBase, loadOccupancy + Rank(G, j), N)
      /\ \A i \in 0 .. N - 1 :
            (\E j \in G : At(loadTail, Rank(G, j), N) = i)
              <=> /\ loadOccupancy <= Gap(loadBase, i, N)
                  /\ Gap(loadBase, i, N) < loadOccupancy + m
      /\ \A j, k \in G : At(loadTail, Rank(G, j), N) = At(loadTail, Rank(G, k), N) => j = k
  BY <1>1, <1>2, <1>3, GroupArc
<1>5. ASSUME NEW i \in LoadIndex, NEW lane \in Lanes(in, FALSE, i)
      PROVE  \E j \in G : Laning(lane, kinds, j) /\ NewUop(kinds, j).index = i
  <2>1. lane \in in.group /\ lane.isStore = FALSE /\ lane.index = i
    BY DEF Lanes
  <2>2. PICK j : Laning(lane, kinds, j)
    BY <2>1, LaneForm
  <2>3. j \in G /\ NewUop(kinds, j).index = i
    BY <2>1, <2>2, GroupForm DEF Laning, LoadGroup
  <2> QED
    BY <2>2, <2>3
<1>6. ASSUME NEW j \in G
      PROVE  \E lane : Laning(lane, kinds, j) /\ lane \in Lanes(in, FALSE, NewUop(kinds, j).index)
  <2>1. j \in DOMAIN kinds /\ kinds[j] \in LoadKinds \cup StoreKinds /\ kinds[j] \notin StoreKinds
    BY GroupForm, GroupSlots DEF LoadGroup
  <2>2. PICK lane \in in.group : Laning(lane, kinds, j)
    BY <2>1, LaneForm
  <2>3. lane.isStore = FALSE /\ lane.index = NewUop(kinds, j).index
    <3>1. /\ lane.isStore = (kinds[j] \in StoreKinds)
          /\ lane.index = NewUop(kinds, j).index
      BY <2>2, Zenon DEF Laning
    <3>2. (kinds[j] \in StoreKinds) = FALSE
      BY <2>1
    <3> QED
      BY <3>1, <3>2, Zenon
  <2> QED
    BY <2>2, <2>3 DEF Lanes
<1>7. \A j \in G : NewUop(kinds, j).index = At(loadTail, Rank(G, j), N)
  BY GroupSlots
<1>8. \A j \in G : NewUop(kinds, j).index \in LoadIndex
  <2> SUFFICES ASSUME NEW j \in G PROVE NewUop(kinds, j).index \in LoadIndex
    OBVIOUS
  <2>1. PICK s \in 0 .. N : s = loadOccupancy + Rank(G, j)
    <3>1. Rank(G, j) \in Nat /\ Rank(G, j) <= m
      BY <1>1, RankType
    <3> QED
      BY <1>1, <1>2, <3>1
  <2>2. At(loadBase, s, N) \in 0 .. N - 1
    BY <1>1, AtForm
  <2> QED
    BY <1>1, <1>4, <1>7, <2>1, <2>2
<1>9. ASSUME NEW i \in LoadIndex
      PROVE  Lanes(in, FALSE, i) # {} <=> \E j \in G : At(loadTail, Rank(G, j), N) = i
  BY <1>5, <1>6, <1>7
<1>10. ASSUME NEW j \in G, NEW lane \in Lanes(in, FALSE, NewUop(kinds, j).index)
       PROVE  Laning(lane, kinds, j)
  <2>1. PICK k \in G : Laning(lane, kinds, k) /\ NewUop(kinds, k).index = NewUop(kinds, j).index
    BY <1>5, <1>8
  <2>2. k = j
    BY <1>4, <1>7, <2>1
  <2> QED
    BY <2>1, <2>2
<1> QED
  BY <1>1, <1>2, <1>4, <1>6, <1>7, <1>8, <1>9, <1>10

LEMMA LoadBaseMoves ==
  ASSUME MemoryTypeOK, LoadRingInv, NEW in, NEW n, NEW kinds, Offered(in, n, kinds),
         Cycle(in, n, kinds), ~in.flush,
         NEW r, r = Rank(LoadPositions, n), NEW m, m = Cardinality(LoadGroup(kinds))
  PROVE  /\ loadBase' = At(loadBase, r, LoadQueueEntries)
         /\ loadOccupancy' = loadOccupancy + m - r
         /\ loadTail' = At(loadTail, m, LoadQueueEntries)
<1>1. /\ r \in 0 .. loadOccupancy /\ r \in Nat /\ Cardinality(CommittedLoads(in)) = r
      /\ loadOccupancy \in Nat /\ LoadIndex = 0 .. LoadQueueEntries - 1
      /\ LoadQueueEntries \in Nat \ {0} /\ loadBase \in 0 .. LoadQueueEntries - 1
  BY CommittedArc, LoadNumbers
<1>2. ReleasedLoads(in) = CommittedLoads(in)
  BY DEF ReleasedLoads
<1>3. LoadRequests(kinds) = m
  BY GroupSlots
<1>4. /\ loadOccupancy' = loadOccupancy + m - r
      /\ loadTail' = At(loadTail, m, LoadQueueEntries)
  <2>1. AllocatorStep(LoadRequests(kinds), StoreRequests(kinds),
                      Cardinality(ReleasedLoads(in)), ReleasedStores(in), in.flush)
    BY DEF Cycle
  <2>2. /\ loadOccupancy' = loadOccupancy + LoadRequests(kinds) - Cardinality(ReleasedLoads(in))
        /\ loadTail' = AllocatedLoadIndex(LoadRequests(kinds))
    BY <2>1 DEF AllocatorStep
  <2> QED
    BY <1>1, <1>2, <1>3, <2>2 DEF AllocatedLoadIndex, At
<1>5. loadBase' = At(loadBase, r, LoadQueueEntries)
  <2>1. CASE (\A i \in LoadIndex : ~loads[i].valid) /\ LoadLanes(in) # {}
    <3>1. loadBase' = loadTail
      <4>1. loadBase' = OldestLane(LoadLanes(in)).index
        BY <2>1 DEF Cycle, QueueStep, BaseStep
      <4> QED
        BY <2>1, <4>1, OldestLaneForm
    <3>2. loadOccupancy = 0
      <4>1. Gap(loadBase, loadBase, LoadQueueEntries) = 0
        BY <1>1, GapForm
      <4>2. ~(0 < loadOccupancy)
        BY <1>1, <2>1, <4>1 DEF LoadRingInv
      <4> QED
        BY <1>1, <4>2
    <3>3. r = 0
      BY <1>1, <3>2
    <3>4. loadTail = At(loadBase, 0, LoadQueueEntries)
      BY <3>2 DEF LoadRingInv
    <3> QED
      BY <3>1, <3>3, <3>4
  <2>2. CASE ~((\A i \in LoadIndex : ~loads[i].valid) /\ LoadLanes(in) # {})
    <3>1. loadBase' = (loadBase + Cardinality(CommittedLoads(in))) % LoadQueueEntries
      BY <2>2 DEF Cycle, QueueStep, BaseStep
    <3> QED
      BY <1>1, <3>1 DEF At
  <2> QED
    BY <2>1, <2>2
<1> QED
  BY <1>4, <1>5

LEMMA LoadRingStep ==
  ASSUME MemoryTypeOK, LoadRingInv, NEW in, NEW n, NEW kinds, Offered(in, n, kinds),
         Cycle(in, n, kinds)
  PROVE  LoadRingInv'
<1> DEFINE N == LoadQueueEntries
           S == LoadPositions
           G == LoadGroup(kinds)
           T == LoadPositions'
<1>1. CASE in.flush
  <2>1. /\ loadOccupancy' = 0 /\ loadTail' = 0 /\ loadBase' = 0 /\ window' = <<>>
        /\ \A i \in LoadIndex : ~loads'[i].valid
    BY <1>1 DEF Cycle, QueueStep, BaseStep, AllocatorStep, WindowStep, EmptyLoad
  <2>2. LoadPositions' = {}
    <3>1. Len(window') = 0
      BY <2>1
    <3> QED
      BY <3>1 DEF LoadPositions
  <2>3. Cardinality(LoadPositions') = 0
    BY <2>2, FS_EmptySet
  <2>4. N \in Nat \ {0} /\ 0 \in 0 .. N - 1 /\ LoadIndex = 0 .. N - 1
    BY Sizes DEF LoadIndex
  <2>5. At(0, 0, N) = 0 /\ \A i \in LoadIndex : ~(Gap(0, i, N) < 0)
    BY <2>4, AtZero, GapForm
  <2> QED
    <3>1. /\ loadOccupancy' = Cardinality(LoadPositions') /\ loadOccupancy' <= N
          /\ loadTail' = At(loadBase', loadOccupancy', N)
      BY <2>1, <2>3, <2>4, <2>5
    <3>2. \A i \in LoadIndex : loads'[i].valid <=> Gap(loadBase', i, N) < loadOccupancy'
      BY <2>1, <2>5
    <3>3. \A k \in LoadPositions' : HeldLoad(k)'
      BY <2>2
    <3> QED
      BY <3>1, <3>2, <3>3 DEF LoadRingInv, LoadIndex
<1>2. CASE ~in.flush
  <2> DEFINE left == Len(window) - n
             o == loadOccupancy
             c == Rank(S, n)
             q == Cardinality(G)
             m == Len(kinds)
  <2>1. PICK l, r, g : l = left /\ r = c /\ g = q
    OBVIOUS
  <2>2. /\ n \in Nat /\ l \in Nat /\ m \in Nat /\ Len(window) = n + l /\ Len(window') = l + m
        /\ \A k \in 0 .. l - 1 :
              /\ n + k \in 0 .. Len(window) - 1
              /\ Uop(k)'.kind = Uop(n + k).kind /\ Uop(k)'.index = Uop(n + k).index
              /\ Age(k)' = Age(n + k)
        /\ \A i \in 1 .. m :
              /\ l + i - 1 \in 0 .. l + m - 1
              /\ Uop(l + i - 1)' = NewUop(kinds, i)
              /\ Age(l + i - 1)' = Pointer(Len(window) + i)
        /\ T = Moved(S, G, n, l, m)
    <3>1. l = Len(window) - n /\ m = Len(kinds)
      BY <2>1
    <3> HIDE DEF left, m, o, c, q, S, G, T, N
    <3>2. WindowMoved(in, n, kinds, l, m)
      BY <1>2, <3>1, WindowMoves
    <3> QED
      BY <3>2 DEF WindowMoved, S, G, T
  <2>3. /\ N \in Nat \ {0} /\ loadBase \in 0 .. N - 1 /\ o \in 0 .. N /\ o \in Nat
        /\ Positions(S) /\ Cardinality(S) = o /\ LoadIndex = 0 .. N - 1
    BY LoadNumbers
  <2>4. r \in 0 .. o /\ r \in Nat /\ r = Rank(S, n)
          /\ \A i \in LoadIndex : i \in CommittedLoads(in) <=> Gap(loadBase, i, N) < r
    BY <2>1, <2>3, CommittedArc
  <2>5. /\ g \in Nat /\ o + g <= N
        /\ \A i \in LoadIndex :
              Lanes(in, FALSE, i) # {} <=> o <= Gap(loadBase, i, N) /\ Gap(loadBase, i, N) < o + g
        /\ \A j \in G : /\ NewUop(kinds, j).index = At(loadBase, o + Rank(G, j), N)
                        /\ NewUop(kinds, j).index \in LoadIndex
                        /\ Lanes(in, FALSE, NewUop(kinds, j).index) # {}
                        /\ \A lane \in Lanes(in, FALSE, NewUop(kinds, j).index) :
                              Laning(lane, kinds, j)
    BY <2>1, FreshLoads
  <2>6. /\ loadBase' = At(loadBase, r, N) /\ loadOccupancy' = o + g - r
        /\ loadTail' = At(loadTail, g, N)
    BY <1>2, <2>1, LoadBaseMoves
  <2> HIDE DEF N, S, G, T, left, o, c, q, m
  <2>7. /\ \A k \in 0 .. l : Rank(S, n + k) = r + Rank(T, k)
        /\ \A i \in 1 .. m + 1 : r + Rank(T, l + i - 1) = o + Rank(G, i)
        /\ r + Cardinality(T) = o + g
    <3>1. Within(S, 0, n + l - 1) /\ Within(G, 1, m)
      <4>1. Within(S, 0, Len(window) - 1) /\ Within(G, 1, m)
        BY PositionsWithin, GroupSlots DEF S, G, m
      <4> QED
        BY <2>2, <4>1
    <3>2. /\ \A k \in 0 .. l : Rank(S, n + k) = Rank(S, n) + Rank(T, k)
          /\ \A i \in 1 .. m + 1 : Rank(S, n) + Rank(T, l + i - 1) = Cardinality(S) + Rank(G, i)
          /\ Rank(S, n) + Cardinality(T) = Cardinality(S) + Cardinality(G)
      BY <2>2, <3>1, RankMoves
    <3> QED
      BY <2>1, <2>3, <2>4, <3>2 DEF q
  <2>8. Positions(T) /\ Cardinality(T) \in Nat
    <3>1. T \subseteq 0 .. l + m - 1
      BY <2>2 DEF Moved
    <3>2. Within(T, 0, l + m - 1)
      BY <2>2, <3>1 DEF Within
    <3> QED
      BY <3>2, IntervalPositions, SizeType
  <2>9. loadOccupancy' = Cardinality(T) /\ loadOccupancy' <= N
    BY <2>3, <2>4, <2>5, <2>6, <2>7, <2>8
  <2>10. loadTail' = At(loadBase', loadOccupancy', N)
    <3>1. At(At(loadBase, o, N), g, N) = At(At(loadBase, r, N), o + g - r, N)
      BY <2>3, <2>4, <2>5, ArcMoves
    <3>2. loadTail = At(loadBase, o, N)
      BY DEF LoadRingInv, N, o
    <3> QED
      BY <2>6, <3>1, <3>2
  <2>11. ASSUME NEW i \in LoadIndex
         PROVE  loads'[i].valid <=> Gap(loadBase', i, N) < loadOccupancy'
    <3>1. Gap(At(loadBase, r, N), i, N) < o + g - r
            <=> r <= Gap(loadBase, i, N) /\ Gap(loadBase, i, N) < o + g
      BY <2>3, <2>4, <2>5, ArcMoves
    <3>2. PICK p \in 0 .. N - 1 : p = Gap(loadBase, i, N)
      BY <2>3, GapForm
    <3>3. loads[i].valid <=> p < o
      BY <3>2 DEF LoadRingInv, N, o
    <3>4. CASE i \in CommittedLoads(in)
      <4>1. ~loads'[i].valid
        <5>1. loads'[i] = EmptyLoad
          BY <1>2, <3>4, LoadEdge
        <5> QED
          BY <5>1 DEF EmptyLoad
      <4>2. ~(r <= p)
        BY <2>4, <3>2, <3>4
      <4> QED
        BY <2>6, <3>1, <3>2, <4>1, <4>2
    <3>5. CASE i \notin CommittedLoads(in) /\ Lanes(in, FALSE, i) # {}
      <4>1. LoadFresh(in, i)
        BY <1>2, <3>5, LoadEdge
      <4>2. loads'[i].valid
        BY <4>1 DEF LoadFresh, Fresh, EmptyLoad
      <4>3. o <= p /\ p < o + g
        BY <2>5, <3>2, <3>5
      <4>4. r <= p
        BY <2>3, <2>4, <4>3
      <4> QED
        BY <2>6, <3>1, <3>2, <4>2, <4>3, <4>4
    <3>6. CASE i \notin CommittedLoads(in) /\ Lanes(in, FALSE, i) = {}
      <4>1. LoadKept(in, i)
        BY <1>2, <3>6, LoadEdge
      <4>2. loads'[i].valid = loads[i].valid
        BY <4>1 DEF LoadKept
      <4>3. ~(p < r) /\ ~(o <= p /\ p < o + g)
        BY <2>4, <2>5, <3>2, <3>6
      <4> QED
        BY <2>3, <2>4, <2>5, <2>6, <3>1, <3>2, <3>3, <4>2, <4>3
    <3> QED
      BY <3>4, <3>5, <3>6
  <2>12. recoveryEpoch' = recoveryEpoch
    BY <1>2 DEF Cycle, WindowStep
  <2>13. ASSUME NEW k \in T
         PROVE  HeldLoad(k)'
    <3>0. k \in 0 .. l + m - 1 /\ k \in Nat
      BY <2>2 DEF Moved
    <3>1. CASE k < l
      <4>1. k \in 0 .. l - 1 /\ k \in 0 .. l /\ n + k \in S
        BY <2>2, <3>0, <3>1 DEF Moved
      <4>2. PICK j \in S : j = n + k
        BY <4>1
      <4>3. HeldLoad(j)
        BY <4>2 DEF LoadRingInv, S
      <4>4. PICK i \in LoadIndex : i = Uop(j).index /\ i = At(loadBase, Rank(S, j), N)
        <5>1. /\ Gap(loadBase, At(loadBase, Rank(S, j), N), N) = Rank(S, j)
              /\ At(loadBase, Rank(S, j), N) \in 0 .. N - 1
          BY <2>3, HeldFromBase
        <5> QED
          BY <2>3, <4>3, <5>1 DEF HeldLoad, S, N
      <4>5. /\ loads[i].robPointer = Age(j) /\ loads[i].recoveryEpoch = recoveryEpoch
        BY <4>3, <4>4 DEF HeldLoad
      <4>6. Gap(loadBase, i, N) = Rank(S, j) /\ Rank(S, j) < o
        BY <2>3, <4>4, HeldFromBase, RankLess
      <4>7. Rank(S, j) = r + Rank(T, k) /\ Rank(T, k) \in Nat
        BY <2>7, <2>8, <4>1, <4>2, RankType
      <4>8. i \notin CommittedLoads(in) /\ Lanes(in, FALSE, i) = {}
        <5>1. PICK p \in Nat : p = Gap(loadBase, i, N) /\ p = r + Rank(T, k) /\ p < o
          BY <2>3, <2>4, <4>6, <4>7
        <5>2. ~(p < r) /\ ~(o <= p)
          BY <2>3, <2>4, <4>7, <5>1
        <5> QED
          BY <2>4, <2>5, <5>1, <5>2
      <4>9. LoadKept(in, i)
        BY <1>2, <4>8, LoadEdge
      <4>10. loads'[i].robPointer = Age(j) /\ loads'[i].recoveryEpoch = recoveryEpoch
        BY <4>5, <4>9 DEF LoadKept
      <4>11. Uop(k)'.index = i /\ Age(k)' = Age(j)
        BY <2>2, <4>1, <4>2, <4>4
      <4>12. i = At(loadBase', Rank(T, k), N)
        <5>1. At(At(loadBase, r, N), Rank(T, k), N) = At(loadBase, r + Rank(T, k), N)
          BY <2>3, <2>4, <4>7, AtMoves
        <5> QED
          BY <2>6, <4>4, <4>7, <5>1
      <4> QED
        BY <2>12, <4>10, <4>11, <4>12 DEF HeldLoad, T, N
    <3>2. CASE k >= l
      <4>1. PICK j \in G : j = k - l + 1 /\ j \in 1 .. m /\ j \in 1 .. m + 1 /\ j \in Int
        BY <2>2, <3>0, <3>2 DEF Moved
      <4>2. l + j - 1 = k
        BY <2>2, <3>0, <4>1
      <4>3. Uop(k)' = NewUop(kinds, j) /\ Age(k)' = Pointer(Len(window) + j)
        BY <2>2, <4>1, <4>2
      <4>4. PICK i \in LoadIndex : i = NewUop(kinds, j).index
        BY <2>5
      <4>5. r + Rank(T, k) = o + Rank(G, j) /\ Rank(T, k) \in Nat
        BY <2>7, <2>8, <4>1, <4>2, RankType
      <4>6. i = At(loadBase', Rank(T, k), N)
        <5>1. At(At(loadBase, r, N), Rank(T, k), N) = At(loadBase, r + Rank(T, k), N)
          BY <2>3, <2>4, <4>5, AtMoves
        <5>2. i = At(loadBase, o + Rank(G, j), N)
          BY <2>5, <4>4
        <5> QED
          BY <2>6, <4>5, <5>1, <5>2
      <4>7. Lanes(in, FALSE, i) # {} /\ \A lane \in Lanes(in, FALSE, i) : Laning(lane, kinds, j)
        BY <2>5, <4>4
      <4>8. i \notin CommittedLoads(in)
        <5>1. o <= Gap(loadBase, i, N)
          BY <2>5, <4>7
        <5>2. Gap(loadBase, i, N) \in Nat
          BY <2>3, GapForm
        <5> QED
          BY <2>3, <2>4, <5>1, <5>2
      <4>9. LoadFresh(in, i)
        BY <1>2, <4>7, <4>8, LoadEdge
      <4>10. PICK lane \in Lanes(in, FALSE, i) : loads'[i] = Fresh(EmptyLoad, lane)
        BY <4>9 DEF LoadFresh
      <4>11. loads'[i].robPointer = lane.robPointer /\ loads'[i].recoveryEpoch = lane.recoveryEpoch
        BY <4>10 DEF Fresh, EmptyLoad
      <4>12. lane.robPointer = Pointer(Len(window) + j) /\ lane.recoveryEpoch = recoveryEpoch
        BY <4>7 DEF Laning
      <4> QED
        BY <2>12, <4>3, <4>4, <4>6, <4>11, <4>12 DEF HeldLoad, T, N
    <3> QED
      BY <2>2, <3>0, <3>1, <3>2
  <2> QED
    BY <2>9, <2>10, <2>11, <2>13 DEF LoadRingInv, T, N, LoadIndex
<1> QED
  BY <1>1, <1>2

(***************************************************************************)
(* The store queue: from the first slot not yet given back, c slots of retired  *)
(* stores, d slots of stores that left the reorder buffer, and then those of     *)
(* the stores in flight, in program order.  Between the retirement of a store    *)
(* with an exception and the flush it asks for, c and d differ.                 *)
(***************************************************************************)
StoreFirst ==
    IF accepted = {} THEN storeHead ELSE At(storeHead, StoreQueueEntries - 1, StoreQueueEntries)
StoresInFlight == Cardinality(StorePositions)
StoreGap(i) == Gap(StoreFirst, i, StoreQueueEntries)
HeldStore(k, d) ==
    LET u == Uop(k) IN
    /\ u.index = At(StoreFirst, d + Rank(StorePositions, k), StoreQueueEntries)
    /\ stores[u.index].robPointer = Age(k) /\ stores[u.index].recoveryEpoch = recoveryEpoch
StoreRing(c, d) ==
    /\ c \in Nat /\ d \in Nat /\ c <= d /\ d + StoresInFlight <= StoreQueueEntries
    /\ ~redirectPending => c = d
    /\ \A i \in StoreIndex : /\ stores[i].valid <=> StoreGap(i) < d + StoresInFlight
                             /\ stores[i].committed <=> StoreGap(i) < c
    /\ \A k \in StorePositions : HeldStore(k, d)
    /\ drainAfterFlush =>
          storeOccupancy = 0 /\ storeTail = 0 /\ window = <<>> /\ ~redirectPending
    /\ ~drainAfterFlush =>
          /\ storeOccupancy = d + StoresInFlight
          /\ storeTail = At(StoreFirst, d + StoresInFlight, StoreQueueEntries)
StoreRingInv == \E c, d : StoreRing(c, d)

(* What the cache has accepted is the committed slot before the head.           *)
AcceptedInv ==
    /\ \A i \in accepted :
          /\ i = At(storeHead, StoreQueueEntries - 1, StoreQueueEntries)
          /\ stores[i].valid /\ stores[i].committed /\ stores[i].translationDone
    /\ accepted # {} => requestBuffer = {} /\ ~HeadStore.requestSent
(* Only the head has been sent, uncached; what is translated has an address.     *)
SentInv ==
    \A i \in StoreIndex :
        /\ stores[i].requestSent => /\ i = storeHead /\ stores[i].uncached
                                    /\ stores[i].valid /\ stores[i].translationDone
        /\ stores[i].translationDone => stores[i].addressReady
(* A write waiting for the cache is the head store's.                          *)
BufferInv ==
    /\ \A q, r \in requestBuffer : q = r
    /\ \A r \in requestBuffer : r.isWrite =>
          /\ r.index = storeHead /\ r.uncached = HeadStore.uncached
          /\ HeadStore.valid /\ HeadStore.translationDone
          /\ HeadStore.isSc => HeadStore.scSuccess
          /\ IF r.uncached THEN ~HeadStore.requestSent ELSE HeadStore.committed
(* The store a translation is under way for still waits for it.                 *)
OwnerStoreInv ==
    translation.active /\ translation.store =>
        /\ OwnerStore.valid /\ OwnerStore.addressReady /\ ~OwnerStore.translationDone
        /\ OwnerStore.robPointer = translation.robPointer
StoreInv == StoreRingInv /\ AcceptedInv /\ SentInv /\ BufferInv /\ OwnerStoreInv

LEMMA StoreNumbers ==
  ASSUME MemoryTypeOK, NEW c, NEW d, StoreRing(c, d)
  PROVE  /\ StoreQueueEntries \in Nat \ {0} /\ StoreQueueEntries > 1
         /\ StoreIndex = 0 .. StoreQueueEntries - 1
         /\ storeHead \in 0 .. StoreQueueEntries - 1
         /\ StoreFirst \in 0 .. StoreQueueEntries - 1
         /\ Positions(StorePositions) /\ StoresInFlight \in Nat
         /\ c \in Nat /\ d \in Nat /\ c <= d /\ d + StoresInFlight <= StoreQueueEntries
         /\ \A i \in StoreIndex : StoreGap(i) \in 0 .. StoreQueueEntries - 1
<1>1. /\ StoreQueueEntries \in Nat \ {0} /\ StoreQueueEntries > 1
      /\ StoreIndex = 0 .. StoreQueueEntries - 1
      /\ storeHead \in 0 .. StoreQueueEntries - 1
  BY Sizes DEF StoreIndex, MemoryTypeOK, QueueTypeOK
<1>2. StoreFirst \in 0 .. StoreQueueEntries - 1
  <2>1. PICK s \in 0 .. StoreQueueEntries : s = StoreQueueEntries - 1
    BY <1>1
  <2>2. At(storeHead, s, StoreQueueEntries) \in 0 .. StoreQueueEntries - 1
    BY <1>1, AtForm
  <2> QED
    BY <1>1, <2>1, <2>2 DEF StoreFirst
<1>3. Positions(StorePositions) /\ StoresInFlight \in Nat
  BY PositionsWithin, SizeType DEF StoresInFlight
<1>4. \A i \in StoreIndex : StoreGap(i) \in 0 .. StoreQueueEntries - 1
  BY <1>1, <1>2, GapForm DEF StoreGap
<1> QED
  BY <1>1, <1>2, <1>3, <1>4 DEF StoreRing

(* A step back and a step on.                                                 *)
LEMMA BackAndForth ==
  ASSUME NEW N \in Nat \ {0}, NEW b \in 0 .. N - 1
  PROVE  /\ At(At(b, N - 1, N), 1, N) = b
         /\ At(At(b, 1, N), N - 1, N) = b
         /\ N > 1 => At(b, 1, N) # b /\ At(b, N - 1, N) # b
<1>1. PICK s \in 0 .. N : s = N - 1
  OBVIOUS
<1>2. /\ At(b, s, N) = IF b + s < N THEN b + s ELSE b + s - N
      /\ At(b, s, N) \in 0 .. N - 1
  BY AtForm
<1>3. /\ At(b, 1, N) = IF b + 1 < N THEN b + 1 ELSE b + 1 - N
      /\ At(b, 1, N) \in 0 .. N - 1
  BY AtForm
<1>4. PICK x \in 0 .. N - 1, y \in 0 .. N - 1 : x = At(b, s, N) /\ y = At(b, 1, N)
  BY <1>2, <1>3
<1>5. At(x, 1, N) = IF x + 1 < N THEN x + 1 ELSE x + 1 - N
  BY AtForm
<1>6. At(y, s, N) = IF y + s < N THEN y + s ELSE y + s - N
  BY AtForm
<1>7. At(x, 1, N) = b
  BY <1>1, <1>2, <1>4, <1>5
<1>8. At(y, s, N) = b
  BY <1>1, <1>3, <1>4, <1>6
<1>9. N > 1 => y # b /\ x # b
  BY <1>1, <1>2, <1>3, <1>4
<1> QED
  BY <1>1, <1>4, <1>7, <1>8, <1>9

(***************************************************************************)
(* What becomes of the head without a flush.                                 *)
(***************************************************************************)
AcceptedLeaves(in) ==
    /\ accepted = {At(storeHead, StoreQueueEntries - 1, StoreQueueEntries)}
    /\ \A i \in StoreIndex : StoreFreed(i) <=> i \in accepted
    /\ storeHead' = storeHead /\ accepted' = {} /\ requestBuffer = {}
HeadLeaves(in) ==
    /\ accepted = {} /\ \A i \in StoreIndex : StoreFreed(i) <=> i = storeHead
    /\ FailedScRelease \/ UncachedStoreRelease
    /\ storeHead' = At(storeHead, 1, StoreQueueEntries) /\ accepted' = {}
HeadTaken(in) ==
    /\ accepted = {} /\ \A i \in StoreIndex : ~StoreFreed(i)
    /\ \E r \in requestBuffer : r.isWrite /\ ~r.uncached /\ r \in Taken(in)
    /\ Taken(in) = requestBuffer
    /\ storeHead' = At(storeHead, 1, StoreQueueEntries) /\ accepted' = {storeHead}
HeadStays(in) ==
    /\ accepted = {} /\ \A i \in StoreIndex : ~StoreFreed(i)
    /\ drainAfterFlush => CommittedStorePresent
    /\ storeHead' = storeHead /\ accepted' = {}
HeadRestarts(in) ==
    /\ accepted = {} /\ \A i \in StoreIndex : ~StoreFreed(i)
    /\ drainAfterFlush /\ ~CommittedStorePresent
    /\ storeHead' = 0 /\ accepted' = {}

LEMMA HeadForm ==
  ASSUME MemoryTypeOK, StoreInv, NEW in, NEW n, NEW kinds, Offered(in, n, kinds),
         Cycle(in, n, kinds), ~in.flush
  PROVE  /\ \/ AcceptedLeaves(in) \/ HeadLeaves(in) \/ HeadTaken(in)
            \/ HeadStays(in) \/ HeadRestarts(in)
         /\ StoreReleased(in) <=> \E i \in StoreIndex : StoreFreed(i)
         /\ \A i \in StoreIndex :
               StoreFreed(i) => /\ stores[i].valid /\ stores[i].committed
                                /\ stores[i].translationDone
         /\ ~HeadTaken(in) => TakenCachedStores(in) = {}
         /\ HeadTaken(in) => HeadStore.valid /\ HeadStore.committed
<1>0. HeadTaken(in) => HeadStore.valid /\ HeadStore.committed
  BY DEF HeadTaken, StoreInv, BufferInv
<1>1. /\ storeHead' = HeadAfterEdge(in) /\ accepted' = TakenCachedStores(in)
      /\ storeHead \in StoreIndex /\ StoreIndex = 0 .. StoreQueueEntries - 1
      /\ StoreQueueEntries \in Nat \ {0}
  BY Sizes DEF Cycle, QueueStep, DrainStep, RequestStep, MemoryTypeOK, QueueTypeOK, StoreIndex
<1>2. Taken(in) = {} \/ Taken(in) = requestBuffer
  BY RequestForm
<1>3. \A r \in Taken(in) : r \in requestBuffer
  BY <1>2
<1>4. \A r \in requestBuffer : r.isWrite /\ ~r.uncached =>
         /\ r.index = storeHead /\ ~HeadStore.uncached /\ HeadStore.valid
         /\ HeadStore.isSc => HeadStore.scSuccess
  BY DEF StoreInv, BufferInv
<1>5. TakenCachedStores(in) # {} =>
         /\ TakenCachedStores(in) = {storeHead} /\ Taken(in) = requestBuffer
         /\ \E r \in requestBuffer : r.isWrite /\ ~r.uncached /\ r \in Taken(in)
         /\ ~FailedScRelease /\ ~UncachedStoreRelease
  <2> SUFFICES ASSUME TakenCachedStores(in) # {}
               PROVE  /\ TakenCachedStores(in) = {storeHead} /\ Taken(in) = requestBuffer
                      /\ \E r \in requestBuffer : r.isWrite /\ ~r.uncached /\ r \in Taken(in)
                      /\ ~FailedScRelease /\ ~UncachedStoreRelease
    OBVIOUS
  <2>1. PICK r \in Taken(in) : r.isWrite /\ ~r.uncached
    BY DEF TakenCachedStores
  <2>2. r \in requestBuffer /\ Taken(in) = requestBuffer
    BY <1>2, <2>1
  <2>3. ~HeadStore.uncached /\ (HeadStore.isSc => HeadStore.scSuccess)
    BY <1>4, <2>1, <2>2
  <2>4. ~FailedScRelease /\ ~UncachedStoreRelease
    BY <2>3 DEF FailedScRelease, UncachedStoreRelease
  <2>5. \A q \in Taken(in) : q.isWrite /\ ~q.uncached => q.index = storeHead
    BY <1>3, <1>4
  <2>6. TakenCachedStores(in) = {storeHead}
    BY <2>1, <2>5 DEF TakenCachedStores
  <2> QED
    BY <2>1, <2>2, <2>4, <2>6
<1>6. CASE accepted # {}
  <2>1. /\ requestBuffer = {} /\ ~HeadStore.requestSent
        /\ \A i \in accepted : /\ i = At(storeHead, StoreQueueEntries - 1, StoreQueueEntries)
                               /\ stores[i].valid /\ stores[i].committed
                               /\ stores[i].translationDone
    BY <1>6 DEF StoreInv, AcceptedInv
  <2>2. accepted = {At(storeHead, StoreQueueEntries - 1, StoreQueueEntries)}
    BY <1>6, <2>1
  <2>3. ~FailedScRelease /\ ~UncachedStoreRelease
    BY <1>6, <2>1 DEF FailedScRelease, UncachedStoreRelease
  <2>4. TakenCachedStores(in) = {}
    BY <1>3, <2>1 DEF TakenCachedStores
  <2>5. accepted \subseteq StoreIndex
    BY DEF MemoryTypeOK, QueueTypeOK
  <2>6. CommittedStorePresent
    BY <1>6, <2>1, <2>5 DEF CommittedStorePresent
  <2>7. storeHead' = storeHead
    BY <1>1, <2>3, <2>4, <2>6 DEF HeadAfterEdge
  <2>8. \A i \in StoreIndex : StoreFreed(i) <=> i \in accepted
    BY <2>3 DEF StoreFreed
  <2>9. StoreReleased(in) /\ \E i \in StoreIndex : StoreFreed(i)
    BY <1>6, <2>5, <2>8 DEF StoreReleased
  <2>10. AcceptedLeaves(in)
    BY <1>1, <2>1, <2>2, <2>4, <2>7, <2>8 DEF AcceptedLeaves
  <2> QED
    BY <1>0, <2>1, <2>4, <2>8, <2>9, <2>10
<1>7. CASE accepted = {} /\ (FailedScRelease \/ UncachedStoreRelease)
  <2>1. \A i \in StoreIndex : StoreFreed(i) <=> i = storeHead
    BY <1>7 DEF StoreFreed
  <2>2. TakenCachedStores(in) = {}
    BY <1>5, <1>7
  <2>3. storeHead' = At(storeHead, 1, StoreQueueEntries)
    BY <1>1, <1>7 DEF HeadAfterEdge, At
  <2>4. HeadStore.valid /\ HeadStore.committed /\ HeadStore.translationDone
    <3>1. HeadStore.requestSent => HeadStore.translationDone
      BY <1>1 DEF StoreInv, SentInv, HeadStore
    <3> QED
      BY <1>7, <3>1 DEF FailedScRelease, UncachedStoreRelease
  <2>5. \A i \in StoreIndex :
           StoreFreed(i) => /\ stores[i].valid /\ stores[i].committed
                            /\ stores[i].translationDone
    BY <2>1, <2>4 DEF HeadStore
  <2>6. StoreReleased(in) /\ \E i \in StoreIndex : StoreFreed(i)
    BY <1>1, <1>7, <2>1 DEF StoreReleased
  <2>7. HeadLeaves(in)
    BY <1>1, <1>7, <2>1, <2>2, <2>3 DEF HeadLeaves
  <2> QED
    BY <1>0, <2>2, <2>5, <2>6, <2>7
<1>8. CASE accepted = {} /\ ~FailedScRelease /\ ~UncachedStoreRelease
  <2>1. \A i \in StoreIndex : ~StoreFreed(i)
    BY <1>8 DEF StoreFreed
  <2>2. ~StoreReleased(in)
    BY <1>8 DEF StoreReleased
  <2>3. CASE TakenCachedStores(in) # {}
    <3>1. storeHead' = At(storeHead, 1, StoreQueueEntries)
      BY <1>1, <2>3 DEF HeadAfterEdge, At
    <3>2. HeadTaken(in)
      BY <1>1, <1>5, <1>8, <2>1, <2>3, <3>1 DEF HeadTaken
    <3> QED
      BY <1>0, <2>1, <2>2, <3>2
  <2>4. CASE TakenCachedStores(in) = {} /\ drainAfterFlush /\ ~CommittedStorePresent
    <3>1. storeHead' = 0
      BY <1>1, <1>8, <2>4 DEF HeadAfterEdge
    <3>2. HeadRestarts(in)
      BY <1>1, <1>8, <2>1, <2>4, <3>1 DEF HeadRestarts
    <3> QED
      BY <1>0, <2>1, <2>2, <2>4, <3>2
  <2>5. CASE TakenCachedStores(in) = {} /\ ~(drainAfterFlush /\ ~CommittedStorePresent)
    <3>1. storeHead' = storeHead
      BY <1>1, <1>8, <2>5 DEF HeadAfterEdge
    <3>2. HeadStays(in)
      BY <1>1, <1>8, <2>1, <2>5, <3>1 DEF HeadStays
    <3> QED
      BY <1>0, <2>1, <2>2, <2>5, <3>2
  <2> QED
    BY <2>3, <2>4, <2>5
<1> QED
  BY <1>0, <1>6, <1>7, <1>8

(* The first f slots are given back, f at most 1.                              *)
LEMMA FirstMoves ==
  ASSUME MemoryTypeOK, StoreInv, NEW c, NEW d, StoreRing(c, d),
         NEW in, NEW n, NEW kinds, Offered(in, n, kinds), Cycle(in, n, kinds), ~in.flush
  PROVE  \E f \in {0, 1} :
            /\ f <= c /\ (StoreReleased(in) <=> f = 1)
            /\ \A i \in StoreIndex : StoreFreed(i) <=> StoreGap(i) < f
            /\ \/ /\ StoreFirst' = At(StoreFirst, f, StoreQueueEntries)
                  /\ drainAfterFlush => CommittedStorePresent
               \/ /\ HeadRestarts(in) /\ StoreFirst' = 0
                  /\ f = 0 /\ c = 0 /\ d = 0 /\ StoresInFlight = 0
<1> DEFINE N == StoreQueueEntries
<1>1. /\ N \in Nat \ {0} /\ N > 1 /\ StoreIndex = 0 .. N - 1 /\ storeHead \in 0 .. N - 1
      /\ StoreFirst \in 0 .. N - 1 /\ StoresInFlight \in Nat /\ c \in Nat /\ d \in Nat /\ c <= d
      /\ \A i \in StoreIndex : StoreGap(i) \in 0 .. N - 1
  BY StoreNumbers
<1>2. \A i \in StoreIndex : /\ stores[i].valid <=> StoreGap(i) < d + StoresInFlight
                            /\ stores[i].committed <=> StoreGap(i) < c
  BY DEF StoreRing
<1>3. \A i \in StoreIndex : StoreGap(i) < 1 <=> i = StoreFirst
  <2> SUFFICES ASSUME NEW i \in StoreIndex PROVE StoreGap(i) < 1 <=> i = StoreFirst
    OBVIOUS
  <2>1. StoreGap(i) = IF i >= StoreFirst THEN i - StoreFirst ELSE i - StoreFirst + N
    BY <1>1, GapForm DEF StoreGap
  <2> QED
    BY <1>1, <2>1
<1>4. /\ \/ AcceptedLeaves(in) \/ HeadLeaves(in) \/ HeadTaken(in)
         \/ HeadStays(in) \/ HeadRestarts(in)
      /\ StoreReleased(in) <=> \E i \in StoreIndex : StoreFreed(i)
      /\ \A i \in StoreIndex : StoreFreed(i) => stores[i].committed /\ stores[i].valid
      /\ HeadTaken(in) => HeadStore.valid /\ HeadStore.committed
  BY HeadForm
<1>5. At(At(storeHead, N - 1, N), 1, N) = storeHead /\ At(At(storeHead, 1, N), N - 1, N) = storeHead
  BY <1>1, BackAndForth
<1>6. At(StoreFirst, 0, N) = StoreFirst
  BY <1>1, AtZero
<1>7. StoreFirst' = IF accepted' = {} THEN storeHead' ELSE At(storeHead', N - 1, N)
  BY DEF StoreFirst, At
<1>8. ASSUME \A i \in StoreIndex : StoreFreed(i) <=> i = StoreFirst,
             StoreFirst' = At(StoreFirst, 1, N)
      PROVE  \E f \in {0, 1} :
                /\ f <= c /\ (StoreReleased(in) <=> f = 1)
                /\ \A i \in StoreIndex : StoreFreed(i) <=> StoreGap(i) < f
                /\ StoreFirst' = At(StoreFirst, f, N)
                /\ CommittedStorePresent
  <2>1. StoreReleased(in) /\ stores[StoreFirst].committed
    BY <1>1, <1>4, <1>8
  <2>2. StoreGap(StoreFirst) < c
    BY <1>1, <1>2, <2>1
  <2>3. 1 <= c
    BY <1>1, <2>2
  <2>4. CommittedStorePresent
    BY <1>1, <1>4, <1>8 DEF CommittedStorePresent
  <2> QED
    BY <1>3, <1>8, <2>1, <2>3, <2>4
<1>9. ASSUME \A i \in StoreIndex : ~StoreFreed(i)
      PROVE  /\ 0 <= c /\ ~StoreReleased(in)
             /\ \A i \in StoreIndex : StoreFreed(i) <=> StoreGap(i) < 0
  BY <1>1, <1>4, <1>9
<1>10. CASE AcceptedLeaves(in)
  <2>1. StoreFirst = At(storeHead, N - 1, N) /\ StoreFirst' = storeHead
    BY <1>7, <1>10 DEF AcceptedLeaves, StoreFirst
  <2>2. \A i \in StoreIndex : StoreFreed(i) <=> i = StoreFirst
    BY <1>10, <2>1 DEF AcceptedLeaves
  <2> QED
    BY <1>5, <1>8, <2>1, <2>2
<1>11. CASE HeadLeaves(in)
  <2>1. StoreFirst = storeHead /\ StoreFirst' = At(storeHead, 1, N)
    BY <1>7, <1>11 DEF HeadLeaves, StoreFirst
  <2>2. \A i \in StoreIndex : StoreFreed(i) <=> i = StoreFirst
    BY <1>11, <2>1 DEF HeadLeaves
  <2> QED
    BY <1>8, <2>1, <2>2
<1>12. CASE HeadTaken(in)
  <2>1. StoreFirst = storeHead /\ StoreFirst' = At(At(storeHead, 1, N), N - 1, N)
    <3>1. accepted = {} /\ accepted' # {} /\ storeHead' = At(storeHead, 1, N)
      BY <1>12 DEF HeadTaken
    <3> QED
      BY <1>7, <3>1 DEF StoreFirst
  <2>2. \A i \in StoreIndex : ~StoreFreed(i)
    BY <1>12 DEF HeadTaken
  <2>3. CommittedStorePresent
    BY <1>1, <1>4, <1>12 DEF CommittedStorePresent, HeadStore
  <2> QED
    BY <1>5, <1>6, <1>9, <2>1, <2>2, <2>3
<1>13. CASE HeadStays(in)
  <2>1. /\ StoreFirst = storeHead /\ StoreFirst' = storeHead
        /\ \A i \in StoreIndex : ~StoreFreed(i)
        /\ drainAfterFlush => CommittedStorePresent
    BY <1>7, <1>13 DEF HeadStays, StoreFirst
  <2> QED
    BY <1>6, <1>9, <2>1
<1>14. CASE HeadRestarts(in)
  <2>1. StoreFirst' = 0 /\ drainAfterFlush /\ ~CommittedStorePresent
        /\ \A i \in StoreIndex : ~StoreFreed(i)
    BY <1>7, <1>14 DEF HeadRestarts
  <2>2. window = <<>> /\ ~redirectPending /\ c = d
    BY <2>1 DEF StoreRing
  <2>3. StoresInFlight = 0
    <3>1. Len(window) = 0
      BY <2>2
    <3>2. StorePositions = {}
      BY <3>1 DEF StorePositions
    <3> QED
      BY <3>2, FS_EmptySet DEF StoresInFlight
  <2>4. c = 0
    <3> SUFFICES ASSUME c # 0 PROVE FALSE
      OBVIOUS
    <3>1. StoreGap(StoreFirst) < 1
      BY <1>1, <1>3
    <3>2. StoreGap(StoreFirst) < c /\ StoreGap(StoreFirst) < d + StoresInFlight
      BY <1>1, <2>2, <2>3, <3>1
    <3>3. stores[StoreFirst].valid /\ stores[StoreFirst].committed
      BY <1>1, <1>2, <3>2
    <3> QED
      BY <1>1, <2>1, <3>3 DEF CommittedStorePresent
  <2> QED
    BY <1>9, <1>14, <2>1, <2>2, <2>3, <2>4
<1> QED
  BY <1>4, <1>10, <1>11, <1>12, <1>13, <1>14

(* The stores that retire are the first ones in flight; x of them, the last      *)
(* one at most, has an exception and is not committed.                         *)
RetiredWithException(n) == n > 0 /\ IsStore(window[n]) /\ window[n].done = "redirect"

LEMMA CommittedStoresArc ==
  ASSUME MemoryTypeOK, NEW c, NEW d, StoreRing(c, d), NEW in, NEW n, NEW kinds,
         Offered(in, n, kinds), NEW r, r = Rank(StorePositions, n),
         NEW x, x = IF RetiredWithException(n) THEN 1 ELSE 0
  PROVE  /\ r \in Nat /\ r <= StoresInFlight /\ x \in {0, 1} /\ x <= r
         /\ \A i \in StoreIndex :
               i \in CommittedStores(in) <=> d <= StoreGap(i) /\ StoreGap(i) < d + r - x
<1> DEFINE N == StoreQueueEntries
           S == StorePositions
           m == n - x
<1>1. /\ N \in Nat \ {0} /\ StoreFirst \in 0 .. N - 1 /\ StoreIndex = 0 .. N - 1
      /\ Positions(S) /\ Cardinality(S) \in Nat /\ d \in Nat /\ d + Cardinality(S) <= N
      /\ n \in Nat /\ n <= Len(window) /\ Len(window) \in Nat
      /\ StoresInFlight = Cardinality(S)
  BY StoreNumbers, Sizes DEF Offered, Retirable, StoresInFlight, MemoryTypeOK, WindowTypeOK
<1>2. r \in Nat /\ r <= Cardinality(S)
  BY <1>1, RankType
<1>3. x \in {0, 1} /\ (x = 1 <=> RetiredWithException(n)) /\ m \in Nat /\ m <= n
  BY <1>1 DEF RetiredWithException
<1>4. Rank(S, m) = r - x
  <2>1. CASE x = 0
    BY <1>1, <1>2, <2>1
  <2>2. CASE x = 1
    <3>1. n > 0 /\ IsStore(window[n])
      BY <1>3, <2>2 DEF RetiredWithException
    <3>2. PICK k \in 0 .. Len(window) - 1 : k = n - 1 /\ k = m /\ k + 1 = n /\ k < n
      BY <1>1, <2>2, <3>1
    <3>3. k \in S
      BY <3>1, <3>2 DEF StorePositions
    <3>4. Below(S, n) = Below(S, k) \cup {k}
      <4>1. \A y \in S : y < n <=> y < k \/ y = k
        BY <1>1, <3>2 DEF Positions
      <4> QED
        BY <3>2, <3>3, <4>1 DEF Below
    <3>5. k \notin Below(S, k) /\ IsFiniteSet(Below(S, k))
      <4>1. ~(k < k)
        BY <3>2
      <4> QED
        BY <1>1, <4>1, BelowPositions DEF Below, Positions
    <3>6. Cardinality(Below(S, k) \cup {k}) = Cardinality(Below(S, k)) + 1
      BY <3>5, FS_AddElement
    <3>7. Rank(S, n) = Rank(S, k) + 1 /\ Rank(S, k) \in Nat
      BY <1>1, <3>4, <3>6, RankType DEF Rank
    <3> QED
      BY <2>2, <3>2, <3>7
  <2> QED
    BY <1>3, <2>1, <2>2
<1>5. x <= r
  <2>1. Rank(S, m) \in Nat
    BY <1>1, RankType
  <2> QED
    BY <1>2, <1>3, <1>4, <2>1
<1>6. ASSUME NEW i \in StoreIndex
      PROVE  i \in CommittedStores(in) <=> \E k \in S : k < m /\ At(StoreFirst, d + Rank(S, k), N) = i
  <2>1. ASSUME i \in CommittedStores(in)
        PROVE  \E k \in S : k < m /\ At(StoreFirst, d + Rank(S, k), N) = i
    <3>1. PICK l \in in.commit : CommitsStore(l, i) /\ ~l.exception
      BY <2>1 DEF CommittedStores
    <3>2. PICK y \in 1 .. n : /\ l.isStore = IsStore(window[y]) /\ l.index = window[y].index
                              /\ l.exception = (window[y].done = "redirect")
      BY <3>1 DEF Offered, CommitLanes
    <3>3. y # n \/ x = 0
      <4>1. IsStore(window[y]) /\ ~(window[y].done = "redirect")
        BY <3>1, <3>2 DEF CommitsStore
      <4> QED
        BY <1>3, <4>1 DEF RetiredWithException
    <3>4. PICK k \in 0 .. Len(window) - 1 : k + 1 = y /\ k < m
      <4>1. y - 1 \in 0 .. Len(window) - 1 /\ (y - 1) + 1 = y /\ y - 1 < m
        BY <1>1, <1>3, <3>3
      <4> QED
        BY <4>1
    <3>5. k \in S /\ Uop(k).index = i
      BY <3>1, <3>2, <3>4 DEF StorePositions, Uop, CommitsStore
    <3>6. HeldStore(k, d)
      BY <3>5 DEF StoreRing
    <3> QED
      BY <3>4, <3>5, <3>6 DEF HeldStore
  <2>2. ASSUME NEW k \in S, k < m, At(StoreFirst, d + Rank(S, k), N) = i
        PROVE  i \in CommittedStores(in)
    <3>1. k \in 0 .. Len(window) - 1 /\ IsStore(Uop(k))
      BY DEF StorePositions, Uop
    <3>2. PICK y \in 1 .. n : y = k + 1 /\ (y = n => x = 0)
      BY <1>1, <1>3, <2>2, <3>1
    <3>3. HeldStore(k, d)
      BY DEF StoreRing
    <3>4. Uop(k).index = i /\ stores[i].robPointer = Pointer(y)
      BY <2>2, <3>2, <3>3 DEF HeldStore, Age
    <3>5. stores[i].valid
      <4>1. StoreGap(i) = d + Rank(S, k)
        BY <1>1, <2>2, HeldArc DEF StoreGap
      <4>2. Rank(S, k) < Cardinality(S) /\ Rank(S, k) \in Nat
        BY <1>1, RankLess, RankType
      <4>3. StoreGap(i) < d + StoresInFlight
        BY <1>1, <4>1, <4>2
      <4> QED
        BY <4>3 DEF StoreRing
    <3>6. window[y].done # "redirect"
      <4>1. CASE y = n
        BY <1>3, <3>1, <3>2, <4>1 DEF RetiredWithException, Uop
      <4>2. CASE y # n
        <5>1. y \in 1 .. n - 1
          BY <1>1, <4>2
        <5> QED
          BY <5>1 DEF Offered, Retirable, Redirects
      <4> QED
        BY <4>1, <4>2
    <3>7. PICK l : l = [isLoad |-> IsLoad(window[y]), isStore |-> IsStore(window[y]),
                        index |-> window[y].index, robPointer |-> Pointer(y),
                        exception |-> window[y].done = "redirect"]
      OBVIOUS
    <3>8. l \in in.commit
      BY <3>7 DEF Offered, CommitLanes
    <3>9. CommitsStore(l, i) /\ ~l.exception
      BY <3>1, <3>2, <3>4, <3>5, <3>6, <3>7 DEF CommitsStore, Uop
    <3> QED
      BY <3>8, <3>9 DEF CommittedStores
  <2> QED
    BY <2>1, <2>2
<1>7. ASSUME NEW i \in StoreIndex
      PROVE  i \in CommittedStores(in) <=> d <= StoreGap(i) /\ StoreGap(i) < d + r - x
  <2>1. (\E k \in S : k < m /\ At(StoreFirst, d + Rank(S, k), N) = i)
          <=> d <= Gap(StoreFirst, i, N) /\ Gap(StoreFirst, i, N) < d + Rank(S, m)
    <3>1. m \in Int
      BY <1>3
    <3> HIDE DEF m
    <3> QED
      BY <1>1, <3>1, HeldArc
  <2>2. d + Rank(S, m) = d + r - x
    BY <1>1, <1>2, <1>3, <1>4
  <2> QED
    BY <1>6, <2>1, <2>2 DEF StoreGap
<1> QED
  BY <1>1, <1>2, <1>3, <1>5, <1>7

(* The stores of the group take the slots behind the last one.                 *)
StoresHandedOut(in, kinds, o, m) ==
    /\ m \in Nat /\ o \in Nat /\ o + m <= StoreQueueEntries
    /\ drainAfterFlush => m = 0
    /\ \A i \in StoreIndex :
          Lanes(in, TRUE, i) # {} <=> o <= StoreGap(i) /\ StoreGap(i) < o + m
    /\ \A j \in StoreGroup(kinds) :
          /\ NewUop(kinds, j).index
               = At(StoreFirst, o + Rank(StoreGroup(kinds), j), StoreQueueEntries)
          /\ NewUop(kinds, j).index \in StoreIndex
          /\ Lanes(in, TRUE, NewUop(kinds, j).index) # {}
          /\ \A lane \in Lanes(in, TRUE, NewUop(kinds, j).index) : Laning(lane, kinds, j)

LEMMA FreshStores ==
  ASSUME MemoryTypeOK, NEW c, NEW d, StoreRing(c, d),
         NEW in, NEW n, NEW kinds, Offered(in, n, kinds),
         NEW m, m = Cardinality(StoreGroup(kinds)), NEW o, o = d + StoresInFlight
  PROVE  StoresHandedOut(in, kinds, o, m)
<1> DEFINE N == StoreQueueEntries
           G == StoreGroup(kinds)
<1>1. /\ N \in Nat \ {0} /\ StoreFirst \in 0 .. N - 1 /\ o \in 0 .. N /\ o \in Nat
      /\ StoreIndex = 0 .. N - 1 /\ Positions(G) /\ m \in Nat
  BY StoreNumbers, GroupSlots, SizeType
<1>2. CASE kinds = <<>>
  <2>1. G = {} /\ m = 0
    <3>1. G = {}
      BY <1>2 DEF StoreGroup
    <3> QED
      BY <3>1, FS_EmptySet
  <2>2. in.group = {}
    <3> SUFFICES ASSUME NEW lane \in in.group PROVE FALSE
      OBVIOUS
    <3>1. PICK i : Laning(lane, kinds, i)
      BY LaneForm
    <3> QED
      BY <1>2, <3>1 DEF Laning
  <2>3. \A i \in StoreIndex : Lanes(in, TRUE, i) = {}
    BY <2>2 DEF Lanes
  <2>4. \A i \in StoreIndex : StoreGap(i) \in Nat
    BY StoreNumbers
  <2>5. \A i \in StoreIndex : ~(o <= StoreGap(i) /\ StoreGap(i) < o + m)
    BY <1>1, <2>1, <2>4
  <2>6. o + m <= N
    BY <1>1, <2>1
  <2> QED
    BY <1>1, <2>1, <2>3, <2>5, <2>6 DEF StoresHandedOut
<1>3. CASE kinds # <<>>
  <2>1. ~drainAfterFlush /\ N - storeOccupancy >= m
    BY <1>3, GroupFits
  <2>2. storeOccupancy = o /\ storeTail = At(StoreFirst, o, N)
    BY <2>1 DEF StoreRing
  <2>3. o + m <= N
    BY <1>1, <2>1, <2>2
  <2>4. PICK e \in Int : \A j \in G : j < e
    <3>1. Len(kinds) \in Nat
      BY GroupForm, Sizes
    <3>2. PICK e \in Int : e = Len(kinds) + 1
      BY <3>1
    <3>3. \A j \in G : j \in 1 .. Len(kinds)
      BY DEF StoreGroup
    <3>4. \A j \in G : j < e
      BY <3>1, <3>2, <3>3
    <3> QED
      BY <3>4
  <2>5. /\ \A j \in G : At(storeTail, Rank(G, j), N) = At(StoreFirst, o + Rank(G, j), N)
        /\ \A i \in 0 .. N - 1 :
              (\E j \in G : At(storeTail, Rank(G, j), N) = i)
                <=> o <= Gap(StoreFirst, i, N) /\ Gap(StoreFirst, i, N) < o + m
        /\ \A j, k \in G : At(storeTail, Rank(G, j), N) = At(storeTail, Rank(G, k), N) => j = k
    BY <1>1, <2>2, <2>3, <2>4, GroupArc
  <2>6. ASSUME NEW i \in StoreIndex, NEW lane \in Lanes(in, TRUE, i)
        PROVE  \E j \in G : Laning(lane, kinds, j) /\ NewUop(kinds, j).index = i
    <3>1. lane \in in.group /\ lane.isStore = TRUE /\ lane.index = i
      BY DEF Lanes
    <3>2. PICK j : Laning(lane, kinds, j)
      BY <3>1, LaneForm
    <3>3. j \in DOMAIN kinds /\ kinds[j] \in StoreKinds /\ lane.index = NewUop(kinds, j).index
      BY <3>1, <3>2, Zenon DEF Laning
    <3>4. j \in G /\ NewUop(kinds, j).index = i
      BY <3>1, <3>3, GroupForm DEF StoreGroup
    <3> QED
      BY <3>2, <3>4
  <2>7. ASSUME NEW j \in G
        PROVE  \E lane : Laning(lane, kinds, j) /\ lane \in Lanes(in, TRUE, NewUop(kinds, j).index)
    <3>1. j \in DOMAIN kinds /\ kinds[j] \in LoadKinds \cup StoreKinds /\ kinds[j] \in StoreKinds
      BY GroupForm DEF StoreGroup
    <3>2. PICK lane \in in.group : Laning(lane, kinds, j)
      BY <3>1, LaneForm
    <3>3. lane.isStore = TRUE /\ lane.index = NewUop(kinds, j).index
      <4>1. /\ lane.isStore = (kinds[j] \in StoreKinds)
            /\ lane.index = NewUop(kinds, j).index
        BY <3>2, Zenon DEF Laning
      <4>2. (kinds[j] \in StoreKinds) = TRUE
        BY <3>1
      <4> QED
        BY <4>1, <4>2, Zenon
    <3> QED
      BY <3>2, <3>3 DEF Lanes
  <2>8. \A j \in G : NewUop(kinds, j).index = At(storeTail, Rank(G, j), N)
    BY GroupSlots
  <2>9. \A j \in G : NewUop(kinds, j).index \in StoreIndex
    <3> SUFFICES ASSUME NEW j \in G PROVE NewUop(kinds, j).index \in StoreIndex
      OBVIOUS
    <3>1. PICK s \in 0 .. N : s = o + Rank(G, j)
      <4>1. Rank(G, j) \in Nat /\ Rank(G, j) <= m
        BY <1>1, RankType
      <4> QED
        BY <1>1, <2>3, <4>1
    <3>2. At(StoreFirst, s, N) \in 0 .. N - 1
      BY <1>1, AtForm
    <3> QED
      BY <1>1, <2>5, <2>8, <3>1, <3>2
  <2>10. ASSUME NEW i \in StoreIndex
         PROVE  Lanes(in, TRUE, i) # {} <=> \E j \in G : At(storeTail, Rank(G, j), N) = i
    BY <2>6, <2>7, <2>8
  <2>11. ASSUME NEW j \in G, NEW lane \in Lanes(in, TRUE, NewUop(kinds, j).index)
         PROVE  Laning(lane, kinds, j)
    <3>1. PICK k \in G : Laning(lane, kinds, k) /\ NewUop(kinds, k).index = NewUop(kinds, j).index
      BY <2>6, <2>9
    <3>2. k = j
      BY <2>5, <2>8, <3>1
    <3> QED
      BY <3>1, <3>2
  <2>12. \A i \in StoreIndex :
            Lanes(in, TRUE, i) # {} <=> o <= StoreGap(i) /\ StoreGap(i) < o + m
    BY <1>1, <2>5, <2>10 DEF StoreGap
  <2> QED
    BY <1>1, <2>1, <2>3, <2>5, <2>7, <2>8, <2>9, <2>11, <2>12 DEF StoresHandedOut
<1> QED
  BY <1>2, <1>3

LEMMA NoFlushPending ==
  ASSUME NEW in, NEW n, NEW kinds, Offered(in, n, kinds), ~in.flush
  PROVE  ~redirectPending
BY DEF Offered, Flushes

(* The tail and the count without a flush, f slots given back and g handed out.  *)
LEMMA StoreCountMoves ==
  ASSUME MemoryTypeOK, NEW c, NEW d, StoreRing(c, d),
         NEW in, NEW n, NEW kinds, Offered(in, n, kinds), Cycle(in, n, kinds), ~in.flush,
         NEW g, g = Cardinality(StoreGroup(kinds)),
         NEW f \in {0, 1}, StoreReleased(in) <=> f = 1
  PROVE  /\ ~drainAfterFlush =>
               /\ ~drainAfterFlush'
               /\ storeOccupancy' = d + StoresInFlight + g - f
               /\ storeTail' = At(At(StoreFirst, d + StoresInFlight, StoreQueueEntries), g,
                                  StoreQueueEntries)
         /\ drainAfterFlush =>
               /\ storeOccupancy' = 0 /\ storeTail' = 0 /\ window' = <<>> /\ ~redirectPending'
               /\ drainAfterFlush' <=> CommittedStorePresent
<1>1. /\ StoreRequests(kinds) = g /\ (drainAfterFlush => g = 0) /\ g \in Nat
      /\ (drainAfterFlush => kinds = <<>>)
  <2>1. drainAfterFlush => kinds = <<>>
    BY GroupFits
  <2>2. PICK o : o = d + StoresInFlight
    OBVIOUS
  <2>3. StoresHandedOut(in, kinds, o, g)
    BY <2>2, FreshStores
  <2>4. g \in Nat /\ (drainAfterFlush => g = 0)
    BY <2>3 DEF StoresHandedOut
  <2> QED
    BY <2>1, <2>4, GroupSlots
<1>2. AllocatorStep(LoadRequests(kinds), StoreRequests(kinds),
                    Cardinality(ReleasedLoads(in)), ReleasedStores(in), in.flush)
  BY DEF Cycle
<1>3. /\ storeOccupancy' = storeOccupancy + g - ReleasedStores(in)
      /\ storeTail' = AllocatedStoreIndex(g)
  BY <1>1, <1>2 DEF AllocatorStep
<1>4. drainAfterFlush' = (CommittedStorePresent /\ drainAfterFlush)
  BY DEF Cycle, QueueStep, DrainStep
<1>5. /\ StoreFirst \in 0 .. StoreQueueEntries - 1 /\ StoreQueueEntries \in Nat \ {0}
      /\ d \in Nat /\ StoresInFlight \in Nat
  BY StoreNumbers
<1>6. CASE ~drainAfterFlush
  <2>1. ReleasedStores(in) = f
    BY <1>6 DEF ReleasedStores
  <2>2. /\ storeOccupancy = d + StoresInFlight
        /\ storeTail = At(StoreFirst, d + StoresInFlight, StoreQueueEntries)
    BY <1>6 DEF StoreRing
  <2>3. storeTail' = At(At(StoreFirst, d + StoresInFlight, StoreQueueEntries), g,
                        StoreQueueEntries)
    BY <1>3, <2>2 DEF AllocatedStoreIndex, At
  <2> QED
    BY <1>3, <1>4, <1>6, <2>1, <2>2, <2>3
<1>7. CASE drainAfterFlush
  <2>1. storeOccupancy = 0 /\ storeTail = 0 /\ window = <<>> /\ kinds = <<>> /\ g = 0
    BY <1>1, <1>7 DEF StoreRing
  <2>2. ReleasedStores(in) = 0
    BY <1>7 DEF ReleasedStores
  <2>3. storeOccupancy' = 0
    BY <1>3, <2>1, <2>2
  <2>4. storeTail' = 0
    <3>1. storeTail' = (0 + 0) % StoreQueueEntries
      BY <1>3, <2>1 DEF AllocatedStoreIndex
    <3> QED
      BY <1>5, <3>1, RemainderOfSmall
  <2>5. n = 0 /\ Len(window) = 0 /\ Len(kinds) = 0
    <3>1. Len(window) = 0 /\ Len(kinds) = 0
      BY <2>1
    <3>2. n \in 0 .. CommitWidth /\ n <= Len(window)
      BY DEF Offered, Retirable
    <3> QED
      BY <3>1, <3>2, Sizes
  <2>6. window' = <<>>
    <3>1. Len(window') = 0
      BY <2>5, WindowForm
    <3>2. window' \in Seq(WindowUops)
      BY WindowType DEF WindowTypeOK
    <3> QED
      BY <3>1, <3>2
  <2>7. ~redirectPending'
    <3>1. redirectPending' = (~in.flush /\ n > 0 /\ Redirects(window[n])) /\ ~(n > 0)
      BY <2>5 DEF Cycle, WindowStep
    <3> QED
      BY <3>1
  <2> QED
    BY <1>4, <1>7, <2>3, <2>4, <2>6, <2>7
<1> QED
  BY <1>6, <1>7

(* The slots without a flush: f are given back, those of r retired stores less x  *)
(* with an exception become committed, g are handed out.                       *)
LEMMA StoreSlotsMove ==
  ASSUME MemoryTypeOK, NEW c, NEW d, StoreRing(c, d), ~redirectPending,
         NEW in, NEW n, NEW kinds, Offered(in, n, kinds), Cycle(in, n, kinds), ~in.flush,
         NEW f \in {0, 1}, f <= c, \A i \in StoreIndex : StoreFreed(i) <=> StoreGap(i) < f,
         NEW r, r = Rank(StorePositions, n),
         NEW x, x = IF RetiredWithException(n) THEN 1 ELSE 0,
         NEW g, g = Cardinality(StoreGroup(kinds)), NEW o, o = d + StoresInFlight
  PROVE  /\ c + r - x \in Nat /\ f <= c + r - x /\ c + r - x <= o
         /\ \A i \in StoreIndex :
               /\ stores'[i].valid <=> f <= StoreGap(i) /\ StoreGap(i) < o + g
               /\ stores'[i].committed <=> f <= StoreGap(i) /\ StoreGap(i) < c + r - x
<1>1. /\ c \in Nat /\ d \in Nat /\ c = d /\ StoresInFlight \in Nat /\ o \in Nat
      /\ \A i \in StoreIndex : StoreGap(i) \in Nat
      /\ \A i \in StoreIndex : /\ stores[i].valid <=> StoreGap(i) < o
                               /\ stores[i].committed <=> StoreGap(i) < c
  <2>1. /\ c \in Nat /\ d \in Nat /\ c = d
        /\ \A i \in StoreIndex : /\ stores[i].valid <=> StoreGap(i) < o
                                 /\ stores[i].committed <=> StoreGap(i) < c
    BY DEF StoreRing
  <2>2. StoresInFlight \in Nat /\ \A i \in StoreIndex : StoreGap(i) \in Nat
    BY StoreNumbers
  <2> QED
    BY <2>1, <2>2
<1>2. /\ r \in Nat /\ r <= StoresInFlight /\ x \in {0, 1} /\ x <= r
      /\ \A i \in StoreIndex :
            i \in CommittedStores(in) <=> d <= StoreGap(i) /\ StoreGap(i) < d + r - x
  BY CommittedStoresArc
<1>3. /\ g \in Nat
      /\ \A i \in StoreIndex :
            Lanes(in, TRUE, i) # {} <=> o <= StoreGap(i) /\ StoreGap(i) < o + g
  <2>1. StoresHandedOut(in, kinds, o, g)
    BY FreshStores
  <2> QED
    BY <2>1 DEF StoresHandedOut
<1>4. c + r - x \in Nat /\ f <= c + r - x /\ c + r - x <= o
  BY <1>1, <1>2
<1>5. ASSUME NEW i \in StoreIndex
      PROVE  /\ stores'[i].valid <=> f <= StoreGap(i) /\ StoreGap(i) < o + g
             /\ stores'[i].committed <=> f <= StoreGap(i) /\ StoreGap(i) < c + r - x
  <2>1. PICK p \in Nat : p = StoreGap(i)
    BY <1>1
  <2>2. CASE StoreFreed(i)
    <3>1. stores'[i] = EmptyStore
      BY <2>2, StoreEdge
    <3>2. ~stores'[i].valid /\ ~stores'[i].committed
      BY <3>1 DEF EmptyStore
    <3>3. ~(f <= p)
      BY <2>1, <2>2
    <3> QED
      BY <2>1, <3>2, <3>3
  <2>3. CASE ~StoreFreed(i) /\ Lanes(in, TRUE, i) # {}
    <3>1. StoreFresh(in, i)
      BY <2>3, StoreEdge
    <3>2. stores'[i].valid /\ ~stores'[i].committed
      BY <3>1 DEF StoreFresh, Fresh, EmptyStore
    <3>3. f <= p /\ o <= p /\ p < o + g /\ ~(p < c + r - x)
      <4>1. o <= p /\ p < o + g /\ ~(p < f)
        BY <1>3, <2>1, <2>3
      <4>2. f <= p
        BY <4>1
      <4>3. ~(p < c + r - x)
        BY <1>1, <1>4, <4>1
      <4> QED
        BY <4>1, <4>2, <4>3
    <3> QED
      BY <2>1, <3>2, <3>3
  <2>4. CASE ~StoreFreed(i) /\ Lanes(in, TRUE, i) = {}
    <3>1. StoreKept(in, i)
      BY <2>4, StoreEdge
    <3>2. /\ stores'[i].valid = stores[i].valid
          /\ stores'[i].committed <=> stores[i].committed \/ i \in CommittedStores(in)
      BY <3>1 DEF StoreKept
    <3>3. f <= p /\ ~(o <= p /\ p < o + g)
      <4>1. ~(p < f) /\ ~(o <= p /\ p < o + g)
        BY <1>3, <2>1, <2>4
      <4> QED
        BY <4>1
    <3>4. stores[i].valid <=> p < o
      BY <1>1, <2>1
    <3>5. stores[i].valid <=> p < o + g
      BY <1>1, <1>3, <2>1, <3>3, <3>4
    <3>6. (stores[i].committed <=> p < c) /\ (i \in CommittedStores(in) <=> d <= p /\ p < d + r - x)
      BY <1>1, <1>2, <2>1
    <3>7. (p < c \/ (d <= p /\ p < d + r - x)) <=> p < c + r - x
      BY <1>1, <1>2, <2>1
    <3> QED
      BY <2>1, <3>2, <3>3, <3>5, <3>6, <3>7
  <2> QED
    BY <2>2, <2>3, <2>4
<1> QED
  BY <1>4, <1>5

(* The stores left in flight keep their slots, the new ones have theirs.         *)
LEMMA HeldStoresMove ==
  ASSUME MemoryTypeOK, NEW c, NEW d, StoreRing(c, d), ~redirectPending,
         NEW in, NEW n, NEW kinds, Offered(in, n, kinds), Cycle(in, n, kinds), ~in.flush,
         NEW f \in {0, 1}, f <= c, \A i \in StoreIndex : StoreFreed(i) <=> StoreGap(i) < f,
         StoreFirst' = At(StoreFirst, f, StoreQueueEntries),
         NEW r, r = Rank(StorePositions, n), NEW e, e = d + r - f
  PROVE  /\ e \in Nat /\ StoresInFlight' \in Nat
         /\ r + StoresInFlight' = StoresInFlight + Cardinality(StoreGroup(kinds))
         /\ \A k \in StorePositions' : HeldStore(k, e)'
<1> DEFINE N == StoreQueueEntries
           S == StorePositions
           G == StoreGroup(kinds)
           T == StorePositions'
           left == Len(window) - n
           m == Len(kinds)
<1>1. PICK l, o, g : l = left /\ o = d + StoresInFlight /\ g = Cardinality(G)
  OBVIOUS
<1>2. /\ n \in Nat /\ l \in Nat /\ m \in Nat /\ Len(window) = n + l
      /\ \A k \in 0 .. l - 1 :
            /\ n + k \in 0 .. Len(window) - 1
            /\ Uop(k)'.index = Uop(n + k).index /\ Age(k)' = Age(n + k)
      /\ \A i \in 1 .. m :
            /\ l + i - 1 \in 0 .. l + m - 1
            /\ Uop(l + i - 1)' = NewUop(kinds, i)
            /\ Age(l + i - 1)' = Pointer(Len(window) + i)
      /\ T = Moved(S, G, n, l, m)
  <2>1. l = Len(window) - n /\ m = Len(kinds)
    BY <1>1
  <2> HIDE DEF left, m, S, G, T, N
  <2>2. WindowMoved(in, n, kinds, l, m)
    BY <2>1, WindowMoves
  <2> QED
    BY <2>2 DEF WindowMoved, S, G, T
<1>3. /\ N \in Nat \ {0} /\ StoreFirst \in 0 .. N - 1 /\ StoreIndex = 0 .. N - 1
      /\ Positions(S) /\ Cardinality(S) \in Nat /\ StoresInFlight = Cardinality(S)
      /\ d \in Nat /\ c \in Nat /\ c = d /\ o \in Nat /\ o = d + Cardinality(S) /\ o <= N
  <2>1. /\ N \in Nat \ {0} /\ StoreFirst \in 0 .. N - 1 /\ StoreIndex = 0 .. N - 1
        /\ Positions(S) /\ StoresInFlight \in Nat /\ d \in Nat /\ c \in Nat
        /\ d + StoresInFlight <= N
    BY StoreNumbers
  <2>2. c = d
    BY DEF StoreRing
  <2> QED
    BY <1>1, <2>1, <2>2 DEF StoresInFlight
<1>4. r \in Nat /\ r <= Cardinality(S)
  BY <1>3, RankType
<1>5. /\ g \in Nat /\ o + g <= N
      /\ \A i \in StoreIndex :
            Lanes(in, TRUE, i) # {} <=> o <= StoreGap(i) /\ StoreGap(i) < o + g
      /\ \A j \in G : /\ NewUop(kinds, j).index = At(StoreFirst, o + Rank(G, j), N)
                      /\ NewUop(kinds, j).index \in StoreIndex
                      /\ Lanes(in, TRUE, NewUop(kinds, j).index) # {}
                      /\ \A lane \in Lanes(in, TRUE, NewUop(kinds, j).index) :
                            Laning(lane, kinds, j)
  <2>1. StoresHandedOut(in, kinds, o, g)
    BY <1>1, FreshStores
  <2> QED
    BY <2>1 DEF StoresHandedOut
<1>6. recoveryEpoch' = recoveryEpoch
  BY DEF Cycle, WindowStep
<1> HIDE DEF N, S, G, T, left, m
<1>7. /\ \A k \in 0 .. l : Rank(S, n + k) = r + Rank(T, k)
      /\ \A i \in 1 .. m + 1 : r + Rank(T, l + i - 1) = Cardinality(S) + Rank(G, i)
      /\ r + Cardinality(T) = Cardinality(S) + Cardinality(G)
  <2>1. Within(S, 0, n + l - 1) /\ Within(G, 1, m)
    <3>1. Within(S, 0, Len(window) - 1) /\ Within(G, 1, m)
      BY PositionsWithin, GroupSlots DEF S, G, m
    <3> QED
      BY <1>2, <3>1
  <2>2. r = Rank(S, n)
    BY DEF S
  <2> QED
    BY <1>2, <2>1, <2>2, RankMoves
<1>8. Positions(T)
  <2>1. T \subseteq 0 .. l + m - 1
    BY <1>2 DEF Moved
  <2>2. Within(T, 0, l + m - 1)
    BY <1>2, <2>1 DEF Within
  <2> QED
    BY <2>2, IntervalPositions
<1>9. e \in Nat
  BY <1>3, <1>4
<1>10. ASSUME NEW s \in Nat
       PROVE  At(StoreFirst', s, N) = At(StoreFirst, f + s, N)
  <2>1. f \in Nat
    OBVIOUS
  <2>2. At(At(StoreFirst, f, N), s, N) = At(StoreFirst, f + s, N)
    BY <1>3, <2>1, AtMoves
  <2> QED
    BY <2>2 DEF N
<1>11. ASSUME NEW k \in T
       PROVE  HeldStore(k, e)'
  <2>0. k \in 0 .. l + m - 1 /\ k \in Nat
    BY <1>2 DEF Moved
  <2>1. PICK t \in Nat : t = Rank(T, k)
    BY <1>8, RankType
  <2>2. ASSUME NEW i \in StoreIndex, Uop(k)'.index = i, i = At(StoreFirst, f + (e + t), N),
               stores'[i].robPointer = Age(k)', stores'[i].recoveryEpoch = recoveryEpoch
        PROVE  HeldStore(k, e)'
    <3>1. i = At(StoreFirst', e + t, N)
      <4>1. PICK s \in Nat : s = e + t
        BY <1>9, <2>1
      <4> QED
        BY <1>10, <2>2, <4>1
    <3>2. i = At(StoreFirst', e + Rank(StorePositions', k), StoreQueueEntries)
      BY <2>1, <3>1 DEF T, N
    <3> QED
      BY <1>6, <2>2, <3>2 DEF HeldStore, At
  <2>3. CASE k < l
    <3>1. k \in 0 .. l - 1 /\ k \in 0 .. l /\ n + k \in S
      BY <1>2, <2>0, <2>3 DEF Moved
    <3>2. PICK j \in S : j = n + k
      BY <3>1
    <3>3. HeldStore(j, d)
      BY <3>2 DEF StoreRing, S
    <3>4. Rank(S, j) = r + t /\ Rank(S, j) \in Nat /\ Rank(S, j) < Cardinality(S)
      BY <1>3, <1>7, <2>1, <3>1, <3>2, RankType, RankLess
    <3>5. PICK s \in 0 .. N - 1 : s = d + Rank(S, j)
      BY <1>3, <3>4
    <3>6. PICK i \in StoreIndex : i = Uop(j).index /\ i = At(StoreFirst, s, N)
      <4>1. At(StoreFirst, s, N) \in 0 .. N - 1
        <5>1. s \in 0 .. N
          BY <1>3
        <5> QED
          BY <1>3, <5>1, AtForm
      <4> QED
        BY <1>3, <3>3, <3>5, <4>1 DEF HeldStore, S, N
    <3>7. /\ stores[i].robPointer = Age(j) /\ stores[i].recoveryEpoch = recoveryEpoch
      BY <3>3, <3>6 DEF HeldStore
    <3>8. StoreGap(i) = s
      BY <1>3, <3>6, GapAt DEF StoreGap, N
    <3>9. s < o /\ f <= s
      BY <1>3, <3>4, <3>5
    <3>10. ~StoreFreed(i) /\ Lanes(in, TRUE, i) = {}
      <4>1. ~(s < f) /\ ~(o <= s)
        BY <1>3, <3>9
      <4> QED
        BY <1>5, <3>8, <4>1
    <3>11. StoreKept(in, i)
      BY <3>10, StoreEdge
    <3>12. stores'[i].robPointer = Age(j) /\ stores'[i].recoveryEpoch = recoveryEpoch
      BY <3>7, <3>11 DEF StoreKept
    <3>13. Uop(k)'.index = i /\ Age(k)' = Age(j)
      BY <1>2, <3>1, <3>2, <3>6
    <3>14. f + (e + t) = s
      <4>1. PICK q \in Nat : q = Rank(S, j) /\ q = r + t /\ s = d + q
        BY <3>4, <3>5
      <4>2. f + (e + t) = d + (r + t)
        BY <1>3, <1>4
      <4> QED
        BY <4>1, <4>2
    <3> QED
      BY <2>2, <3>6, <3>12, <3>13, <3>14
  <2>4. CASE k >= l
    <3>1. PICK j \in G : j = k - l + 1 /\ j \in 1 .. m /\ j \in 1 .. m + 1 /\ j \in Int
      BY <1>2, <2>0, <2>4 DEF Moved
    <3>2. l + j - 1 = k
      BY <1>2, <2>0, <3>1
    <3>3. Uop(k)' = NewUop(kinds, j) /\ Age(k)' = Pointer(Len(window) + j)
      BY <1>2, <3>1, <3>2
    <3>4. PICK i \in StoreIndex : i = NewUop(kinds, j).index /\ i = At(StoreFirst, o + Rank(G, j), N)
      BY <1>5
    <3>5. Rank(G, j) \in Nat
      <4>1. Positions(G)
        BY GroupSlots DEF G
      <4> QED
        BY <4>1, RankType
    <3>6. r + t = Cardinality(S) + Rank(G, j)
      BY <1>7, <2>1, <3>1, <3>2
    <3>7. f + (e + t) = o + Rank(G, j)
      <4>1. PICK q \in Nat, w \in Nat : q = Rank(G, j) /\ w = Cardinality(S) /\ r + t = w + q
        BY <1>3, <3>5, <3>6
      <4>2. o = d + w
        BY <1>3, <4>1
      <4>3. f + (e + t) = d + (r + t)
        BY <1>3, <1>4
      <4> QED
        BY <1>3, <4>1, <4>2, <4>3
    <3>8. Lanes(in, TRUE, i) # {} /\ \A lane \in Lanes(in, TRUE, i) : Laning(lane, kinds, j)
      BY <1>5, <3>4
    <3>9. ~StoreFreed(i)
      <4>1. o <= StoreGap(i) /\ StoreGap(i) \in Nat
        <5>1. o <= StoreGap(i)
          BY <1>5, <3>8
        <5>2. StoreGap(i) \in 0 .. StoreQueueEntries - 1
          BY StoreNumbers
        <5> QED
          BY <5>1, <5>2
      <4>2. ~(StoreGap(i) < f)
        BY <1>3, <4>1
      <4> QED
        BY <4>2
    <3>10. StoreFresh(in, i)
      BY <3>8, <3>9, StoreEdge
    <3>11. PICK lane \in Lanes(in, TRUE, i) : stores'[i] = Fresh(EmptyStore, lane)
      BY <3>10 DEF StoreFresh
    <3>12. stores'[i].robPointer = lane.robPointer /\ stores'[i].recoveryEpoch = lane.recoveryEpoch
      BY <3>11 DEF Fresh, EmptyStore
    <3>13. lane.robPointer = Pointer(Len(window) + j) /\ lane.recoveryEpoch = recoveryEpoch
      BY <3>8 DEF Laning
    <3> QED
      BY <2>2, <3>3, <3>4, <3>7, <3>12, <3>13
  <2> QED
    BY <1>2, <2>0, <2>3, <2>4
<1>12. StoresInFlight' = Cardinality(T) /\ Cardinality(T) \in Nat
  BY <1>8, SizeType DEF StoresInFlight, T
<1> QED
  BY <1>3, <1>7, <1>9, <1>11, <1>12 DEF G, T

LEMMA StoreRingStays ==
  ASSUME MemoryTypeOK, StoreInv, NEW in, NEW n, NEW kinds, Offered(in, n, kinds),
         Cycle(in, n, kinds), ~in.flush
  PROVE  StoreRingInv'
<1> DEFINE N == StoreQueueEntries
           G == StoreGroup(kinds)
<1>1. PICK c, d : StoreRing(c, d)
  BY DEF StoreInv, StoreRingInv
<1>2. /\ N \in Nat \ {0} /\ N > 1 /\ StoreIndex = 0 .. N - 1 /\ StoreFirst \in 0 .. N - 1
      /\ StoresInFlight \in Nat /\ c \in Nat /\ d \in Nat /\ d + StoresInFlight <= N
      /\ \A i \in StoreIndex : StoreGap(i) \in 0 .. N - 1
  BY <1>1, StoreNumbers
<1>3. ~redirectPending /\ c = d
  BY <1>1, NoFlushPending DEF StoreRing
<1>4. PICK f \in {0, 1} :
         /\ f <= c /\ (StoreReleased(in) <=> f = 1)
         /\ \A i \in StoreIndex : StoreFreed(i) <=> StoreGap(i) < f
         /\ \/ /\ StoreFirst' = At(StoreFirst, f, N)
               /\ drainAfterFlush => CommittedStorePresent
            \/ /\ HeadRestarts(in) /\ StoreFirst' = 0
               /\ f = 0 /\ c = 0 /\ d = 0 /\ StoresInFlight = 0
  BY <1>1, FirstMoves
<1>5. PICK r, x, g, o : /\ r = Rank(StorePositions, n)
                        /\ x = IF RetiredWithException(n) THEN 1 ELSE 0
                        /\ g = Cardinality(G) /\ o = d + StoresInFlight
  OBVIOUS
<1>6. /\ c + r - x \in Nat /\ f <= c + r - x /\ c + r - x <= o
      /\ \A i \in StoreIndex :
            /\ stores'[i].valid <=> f <= StoreGap(i) /\ StoreGap(i) < o + g
            /\ stores'[i].committed <=> f <= StoreGap(i) /\ StoreGap(i) < c + r - x
  BY <1>1, <1>3, <1>4, <1>5, StoreSlotsMove
<1>7. /\ ~drainAfterFlush =>
            /\ ~drainAfterFlush'
            /\ storeOccupancy' = d + StoresInFlight + g - f
            /\ storeTail' = At(At(StoreFirst, d + StoresInFlight, N), g, N)
      /\ drainAfterFlush =>
            /\ storeOccupancy' = 0 /\ storeTail' = 0 /\ window' = <<>> /\ ~redirectPending'
            /\ drainAfterFlush' <=> CommittedStorePresent
  BY <1>1, <1>4, <1>5, StoreCountMoves
<1>8. r \in Nat /\ r <= StoresInFlight /\ x \in {0, 1} /\ x <= r
  BY <1>1, <1>5, CommittedStoresArc
<1>9. g \in Nat /\ o \in Nat /\ o + g <= N /\ (drainAfterFlush => g = 0)
  <2>1. StoresHandedOut(in, kinds, o, g)
    BY <1>1, <1>5, FreshStores
  <2> QED
    BY <2>1 DEF StoresHandedOut
<1>10. redirectPending' \/ x = 0
  <2>1. redirectPending' = (~in.flush /\ n > 0 /\ Redirects(window[n]))
    BY DEF Cycle, WindowStep
  <2>2. RetiredWithException(n) => n > 0 /\ Redirects(window[n])
    BY DEF RetiredWithException, Redirects
  <2>3. RetiredWithException(n) => redirectPending'
    BY <2>1, <2>2
  <2> QED
    BY <1>5, <2>3
<1>11. CASE StoreFirst' = At(StoreFirst, f, N) /\ (drainAfterFlush => CommittedStorePresent)
  <2>1. PICK c1, d1 : c1 = (c + r - x) - f /\ d1 = d + r - f
    OBVIOUS
  <2>2. /\ d1 \in Nat /\ StoresInFlight' \in Nat /\ r + StoresInFlight' = StoresInFlight + g
        /\ \A k \in StorePositions' : HeldStore(k, d1)'
    BY <1>1, <1>3, <1>4, <1>5, <1>11, <2>1, HeldStoresMove
  <2> HIDE DEF N, G
  <2>4. PICK w \in Nat, v \in Nat : w = StoresInFlight /\ v = StoresInFlight'
    BY <1>2, <2>2
  <2>5. /\ c1 \in Nat /\ c1 <= d1 /\ d1 + v = o + g - f /\ d1 + v <= N
        /\ redirectPending' \/ c1 = d1
    <3>1. o = d + w /\ r + v = w + g
      BY <1>5, <2>2, <2>4
    <3>2. PICK z \in Nat : z = f
      OBVIOUS
    <3>3. d1 + v = o + g - f
      BY <1>2, <1>8, <1>9, <2>1, <3>1, <3>2
    <3>4. c1 \in Nat /\ c1 <= d1
      BY <1>2, <1>3, <1>6, <1>8, <2>1, <3>2
    <3>5. x = 0 => c1 = d1
      BY <1>2, <1>3, <1>8, <2>1, <3>2
    <3>6. d1 + v <= N
      BY <1>2, <1>9, <3>2, <3>3
    <3> QED
      BY <1>10, <3>3, <3>4, <3>5, <3>6
  <2>6. ASSUME NEW i \in StoreIndex
        PROVE  /\ stores'[i].valid <=> StoreGap(i)' < d1 + v
               /\ stores'[i].committed <=> StoreGap(i)' < c1
    <3>1. PICK y \in 0 .. N : y = c + r - x
      BY <1>2, <1>5, <1>6
    <3>2. o \in 0 .. N /\ f \in 0 .. o /\ f \in 0 .. y
      BY <1>2, <1>4, <1>6, <1>9, <3>1
    <3>3. Gap(At(StoreFirst, f, N), i, N) < o + g - f
            <=> f <= Gap(StoreFirst, i, N) /\ Gap(StoreFirst, i, N) < o + g
      BY <1>2, <1>9, <3>2, ArcMoves
    <3>4. Gap(At(StoreFirst, f, N), i, N) < y - f
            <=> f <= Gap(StoreFirst, i, N) /\ Gap(StoreFirst, i, N) < y
      <4>1. N \in Nat \ {0} /\ StoreFirst \in 0 .. N - 1 /\ i \in 0 .. N - 1
        BY <1>2
      <4> QED
        BY <3>1, <3>2, <4>1, ArcShrinks
    <3>5. y - f = c1
      BY <2>1, <3>1, Zenon
    <3>6. StoreGap(i)' = Gap(At(StoreFirst, f, N), i, N) /\ StoreGap(i) = Gap(StoreFirst, i, N)
      BY <1>11 DEF StoreGap, Gap, N
    <3>7. /\ stores'[i].valid <=> f <= Gap(StoreFirst, i, N) /\ Gap(StoreFirst, i, N) < o + g
          /\ stores'[i].committed <=> f <= Gap(StoreFirst, i, N) /\ Gap(StoreFirst, i, N) < y
      BY <1>6, <3>1, <3>6
    <3>8. d1 + v = o + g - f
      BY <2>5
    <3> HIDE DEF StoreGap
    <3> QED
      BY <3>3, <3>4, <3>5, <3>6, <3>7, <3>8
  <2>7. CASE ~drainAfterFlush
    <3>1. PICK t \in Nat : t = o + g - f
      BY <1>2, <2>2, <2>5
    <3>2. At(At(StoreFirst, o, N), g, N) = At(At(StoreFirst, f, N), o + g - f, N)
      <4>1. o \in 0 .. N /\ f \in 0 .. o
        BY <1>2, <1>4, <1>6, <1>9
      <4> QED
        BY <1>2, <1>9, <4>1, ArcMoves
    <3>3. storeOccupancy' = d1 + v /\ storeTail' = At(StoreFirst', d1 + v, N) /\ ~drainAfterFlush'
      BY <1>5, <1>7, <1>11, <2>5, <2>7, <3>2
    <3>4. d1 + v = d1 + StoresInFlight' /\ v = StoresInFlight'
      BY <2>4
    <3>5. \A i \in StoreIndex :
             /\ stores'[i].valid <=> StoreGap(i)' < d1 + StoresInFlight'
             /\ stores'[i].committed <=> StoreGap(i)' < c1
      BY <2>6, <3>4
    <3>6. StoreRing(c1, d1)'
      BY <2>2, <2>5, <3>3, <3>4, <3>5 DEF StoreRing, StoreIndex, At, N
    <3> QED
      BY <3>6 DEF StoreRingInv
  <2>8. CASE drainAfterFlush
    <3>1. /\ drainAfterFlush'
          /\ storeOccupancy' = 0 /\ storeTail' = 0 /\ window' = <<>> /\ ~redirectPending'
      BY <1>7, <1>11, <2>8
    <3>4. d1 + v = d1 + StoresInFlight' /\ v = StoresInFlight'
      BY <2>4
    <3>5. \A i \in StoreIndex :
             /\ stores'[i].valid <=> StoreGap(i)' < d1 + StoresInFlight'
             /\ stores'[i].committed <=> StoreGap(i)' < c1
      BY <2>6, <3>4
    <3>6. StoreRing(c1, d1)'
      BY <2>2, <2>5, <3>1, <3>4, <3>5 DEF StoreRing, StoreIndex, At, N
    <3> QED
      BY <3>6 DEF StoreRingInv
  <2> QED
    BY <2>7, <2>8
<1>12. CASE /\ HeadRestarts(in) /\ StoreFirst' = 0
            /\ f = 0 /\ c = 0 /\ d = 0 /\ StoresInFlight = 0
  <2>1. drainAfterFlush /\ ~CommittedStorePresent
    BY <1>12 DEF HeadRestarts
  <2>2. /\ ~drainAfterFlush'
        /\ storeOccupancy' = 0 /\ storeTail' = 0 /\ window' = <<>> /\ ~redirectPending'
    BY <1>7, <2>1
  <2>3. StorePositions' = {} /\ StoresInFlight' = 0
    <3>1. Len(window') = 0
      BY <2>2
    <3>2. StorePositions' = {}
      BY <3>1 DEF StorePositions
    <3> QED
      BY <3>2, FS_EmptySet DEF StoresInFlight
  <2>4. o + g = 0 /\ c + r - x = 0
    BY <1>5, <1>6, <1>9, <1>12, <2>1
  <2>5. ASSUME NEW i \in StoreIndex
        PROVE  /\ stores'[i].valid <=> StoreGap(i)' < 0
               /\ stores'[i].committed <=> StoreGap(i)' < 0
    <3>1. ~stores'[i].valid /\ ~stores'[i].committed
      BY <1>2, <1>6, <2>4
    <3>2. StoreGap(i)' = Gap(0, i, N)
      BY <1>12 DEF StoreGap, Gap
    <3>3. Gap(0, i, N) \in 0 .. N - 1
      <4>1. 0 \in 0 .. N - 1
        BY <1>2
      <4> QED
        BY <1>2, <4>1, GapForm
    <3> QED
      BY <3>1, <3>2, <3>3
  <2>6. At(0, 0, N) = 0
    <3>1. 0 \in 0 .. N - 1
      BY <1>2
    <3> QED
      BY <1>2, <3>1, AtZero
  <2>7. StoreRing(0, 0)'
    <3>1. 0 + StoresInFlight' = 0
      BY <2>3
    <3> QED
      BY <1>2, <1>12, <2>2, <2>3, <2>5, <2>6, <3>1 DEF StoreRing, StoreIndex, At
  <2> QED
    BY <2>7 DEF StoreRingInv
<1> QED
  BY <1>4, <1>11, <1>12

LEMMA StoreRingFlush ==
  ASSUME MemoryTypeOK, StoreInv, NEW in, NEW n, NEW kinds, Offered(in, n, kinds),
         Cycle(in, n, kinds), in.flush
  PROVE  StoreRingInv'
<1> DEFINE N == StoreQueueEntries
<1>1. PICK c, d : StoreRing(c, d)
  BY DEF StoreInv, StoreRingInv
<1>2. /\ N \in Nat \ {0} /\ N > 1 /\ StoreIndex = 0 .. N - 1 /\ storeHead \in 0 .. N - 1
      /\ StoreFirst \in 0 .. N - 1 /\ StoresInFlight \in Nat /\ c \in Nat /\ d \in Nat /\ c <= d
      /\ d + StoresInFlight <= N
      /\ \A i \in StoreIndex : StoreGap(i) \in 0 .. N - 1
  BY <1>1, StoreNumbers
<1>3. \A i \in StoreIndex : /\ stores[i].valid <=> StoreGap(i) < d + StoresInFlight
                            /\ stores[i].committed <=> StoreGap(i) < c
  BY <1>1 DEF StoreRing
<1>4. /\ window' = <<>> /\ ~redirectPending' /\ storeOccupancy' = 0 /\ storeTail' = 0
      /\ drainAfterFlush' <=> CommittedStorePresent
      /\ storeHead' = IF CommittedStorePresent THEN storeHead ELSE 0
      /\ accepted' = accepted
  <2>1. redirectPending' = (~in.flush /\ n > 0 /\ Redirects(window[n]))
    BY DEF Cycle, WindowStep
  <2> QED
    BY <2>1 DEF Cycle, WindowStep, AllocatorStep, QueueStep, DrainStep, RequestStep
<1>5. StorePositions' = {} /\ StoresInFlight' = 0
  <2>1. Len(window') = 0
    BY <1>4
  <2>2. StorePositions' = {}
    BY <2>1 DEF StorePositions
  <2> QED
    BY <2>2, FS_EmptySet DEF StoresInFlight
<1>6. \A i \in StoreIndex : StoreFlushed(in, i) /\ stores[i] \in StoreEntries
  BY FlushEdge DEF MemoryTypeOK, SlotsTypeOK
<1>7. \A i \in StoreIndex :
         UncachedSent(i) => i = storeHead /\ stores[i].valid /\ accepted = {}
  BY DEF StoreInv, SentInv, AcceptedInv, UncachedSent, HeadStore
<1>8. \A i \in accepted : i \in StoreIndex /\ stores[i].valid /\ stores[i].committed
  BY DEF StoreInv, AcceptedInv, MemoryTypeOK, QueueTypeOK
<1>9. \A i \in StoreIndex :
         (stores[i].committed \/ UncachedSent(i)) => stores[i].valid /\ CommittedStorePresent
  <2> SUFFICES ASSUME NEW i \in StoreIndex, stores[i].committed \/ UncachedSent(i)
               PROVE  stores[i].valid /\ CommittedStorePresent
    OBVIOUS
  <2>1. stores[i].valid
    BY <1>2, <1>3, <1>7
  <2> QED
    BY <2>1 DEF CommittedStorePresent, UncachedSent
<1>10. \A i \in StoreIndex : /\ stores'[i].valid <=> stores[i].committed \/ UncachedSent(i)
                             /\ stores'[i].committed <=> stores[i].committed \/ UncachedSent(i)
  <2> SUFFICES ASSUME NEW i \in StoreIndex
               PROVE  /\ stores'[i].valid <=> stores[i].committed \/ UncachedSent(i)
                      /\ stores'[i].committed <=> stores[i].committed \/ UncachedSent(i)
    OBVIOUS
  <2>1. StoreFlushed(in, i) /\ (stores[i].committed \/ UncachedSent(i) => stores[i].valid)
    BY <1>6, <1>9
  <2>2. CASE UncachedSent(i)
    BY <2>1, <2>2 DEF StoreFlushed
  <2>3. CASE ~UncachedSent(i) /\ stores[i].committed
    BY <2>1, <2>3 DEF StoreFlushed
  <2>4. CASE ~UncachedSent(i) /\ ~stores[i].committed
    <3>1. stores'[i] = EmptyStore
      BY <2>1, <2>4 DEF StoreFlushed
    <3> QED
      BY <2>4, <3>1 DEF EmptyStore
  <2> QED
    BY <2>2, <2>3, <2>4
<1>11. CASE CommittedStorePresent
  <2>1. StoreFirst' = StoreFirst
    BY <1>4, <1>11 DEF StoreFirst, At
  <2>2. \E c1 \in Nat : /\ c1 <= N
                        /\ \A i \in StoreIndex :
                              stores[i].committed \/ UncachedSent(i) <=> StoreGap(i) < c1
    <3>1. CASE \E i \in StoreIndex : UncachedSent(i) /\ ~stores[i].committed
      <4>1. UncachedSent(storeHead) /\ ~stores[storeHead].committed /\ StoreFirst = storeHead
        BY <1>7, <3>1 DEF StoreFirst
      <4>2. \A i \in StoreIndex : StoreGap(i) < 1 <=> i = storeHead
        <5> SUFFICES ASSUME NEW i \in StoreIndex PROVE StoreGap(i) < 1 <=> i = storeHead
          OBVIOUS
        <5>1. StoreGap(i) = IF i >= StoreFirst THEN i - StoreFirst ELSE i - StoreFirst + N
          BY <1>2, GapForm DEF StoreGap
        <5> QED
          BY <1>2, <4>1, <5>1
      <4>3. c = 0
        BY <1>2, <1>3, <4>1, <4>2
      <4>4. \A i \in StoreIndex : ~stores[i].committed
        BY <1>2, <1>3, <4>3
      <4>5. \A i \in StoreIndex :
               stores[i].committed \/ UncachedSent(i) <=> StoreGap(i) < 1
        BY <1>7, <4>1, <4>2, <4>4
      <4> QED
        BY <1>2, <4>5
    <3>2. CASE \A i \in StoreIndex : UncachedSent(i) => stores[i].committed
      <4>1. c <= N
        BY <1>2
      <4>2. \A i \in StoreIndex :
               stores[i].committed \/ UncachedSent(i) <=> StoreGap(i) < c
        BY <1>3, <3>2
      <4> QED
        BY <1>2, <4>1, <4>2
    <3> QED
      BY <3>1, <3>2
  <2>3. PICK c1 \in Nat :
           /\ c1 <= N
           /\ \A i \in StoreIndex : stores[i].committed \/ UncachedSent(i) <=> StoreGap(i) < c1
    BY <2>2
  <2>4. \A i \in StoreIndex : StoreGap(i)' = StoreGap(i)
    BY <2>1 DEF StoreGap, Gap
  <2> HIDE DEF N
  <2>5. c1 + StoresInFlight' = c1
    BY <1>5
  <2>6. \A i \in StoreIndex : /\ stores'[i].valid <=> StoreGap(i)' < c1 + StoresInFlight'
                              /\ stores'[i].committed <=> StoreGap(i)' < c1
    BY <1>10, <2>3, <2>4, <2>5
  <2>7. StoreRing(c1, c1)'
    BY <1>4, <1>5, <1>11, <2>3, <2>5, <2>6 DEF StoreRing, StoreIndex, N
  <2> QED
    BY <2>7 DEF StoreRingInv
<1>12. CASE ~CommittedStorePresent
  <2>1. accepted = {}
    <3> SUFFICES ASSUME NEW i \in accepted PROVE FALSE
      OBVIOUS
    <3>1. i \in StoreIndex /\ stores[i].valid /\ stores[i].committed
      BY <1>8
    <3> QED
      BY <1>12, <3>1 DEF CommittedStorePresent
  <2>2. StoreFirst' = 0
    BY <1>4, <1>12, <2>1 DEF StoreFirst
  <2>3. ASSUME NEW i \in StoreIndex
        PROVE  /\ stores'[i].valid <=> StoreGap(i)' < 0
               /\ stores'[i].committed <=> StoreGap(i)' < 0
    <3>1. ~stores'[i].valid /\ ~stores'[i].committed
      BY <1>9, <1>10, <1>12
    <3>2. StoreGap(i)' = Gap(0, i, N)
      BY <2>2 DEF StoreGap, Gap
    <3>3. Gap(0, i, N) \in 0 .. N - 1
      <4>1. 0 \in 0 .. N - 1
        BY <1>2
      <4> QED
        BY <1>2, <4>1, GapForm
    <3> QED
      BY <3>1, <3>2, <3>3
  <2>4. At(0, 0, N) = 0
    <3>1. 0 \in 0 .. N - 1
      BY <1>2
    <3> QED
      BY <1>2, <3>1, AtZero
  <2>5. StoreRing(0, 0)'
    <3>1. 0 + StoresInFlight' = 0
      BY <1>5
    <3> QED
      BY <1>2, <1>4, <1>5, <1>12, <2>2, <2>3, <2>4, <3>1 DEF StoreRing, StoreIndex, At
  <2> QED
    BY <2>5 DEF StoreRingInv
<1> QED
  BY <1>11, <1>12

LEMMA StoreRingStep ==
  ASSUME MemoryTypeOK, StoreInv, NEW in, NEW n, NEW kinds, Offered(in, n, kinds),
         Cycle(in, n, kinds)
  PROVE  StoreRingInv'
BY StoreRingStays, StoreRingFlush

(***************************************************************************)
(* A store that keeps its slot keeps what is known of it.                      *)
(***************************************************************************)
GoesOn(in, i) ==
    LET s == stores[i]
        r == stores'[i]
    IN  /\ StoreKept(in, i)
        /\ r.valid /\ r.robPointer = s.robPointer
        /\ s.committed => r.committed
        /\ r.requestSent <=> s.requestSent \/ StoreSent(in, i)
        /\ s.addressReady => r.addressReady /\ r.isSc = s.isSc /\ r.mask = s.mask
        /\ s.translationDone =>
              /\ r.translationDone /\ r.word = s.word /\ r.uncached = s.uncached
              /\ r.scSuccess = s.scSuccess
              /\ r.completed <=> \/ s.completed
                                 \/ i = storeHead /\ (StoreCompletionFire(in)
                                                      \/ ResponseStoreAccepted(in))

LEMMA AddressedOnce ==
  ASSUME NEW in, NEW n, NEW kinds, Offered(in, n, kinds), NEW i \in StoreIndex,
         StoreAddressing(in, i)
  PROVE  stores[i].valid /\ ~stores[i].addressReady
<1>1. PICK a \in in.agu : a.isWrite /\ a.index = i
  BY DEF StoreAddressing
<1>2. AguReady(a, in.flush)
  BY DEF Offered
<1> QED
  BY <1>1, <1>2 DEF AguReady, AguTargetAvailable

LEMMA AnsweredOnce ==
  ASSUME StoreInv, NEW in, NEW n, NEW kinds, Offered(in, n, kinds), NEW i \in StoreIndex,
         StoreAnswering(in, i)
  PROVE  /\ stores[i].valid /\ stores[i].addressReady /\ ~stores[i].translationDone
         /\ translation.active /\ translation.store /\ translation.index = i
<1>1. PICK t : StoreAnswered(in, i, t)
  BY DEF StoreAnswering
<1>2. translation.active
  BY <1>1, TranslatedForm DEF StoreAnswered
<1> QED
  BY <1>1, <1>2 DEF StoreAnswered, StoreInv, OwnerStoreInv, OwnerStore

LEMMA StoreGoesOn ==
  ASSUME MemoryTypeOK, StoreInv, NEW in, NEW n, NEW kinds, Offered(in, n, kinds),
         Cycle(in, n, kinds), ~in.flush, NEW i \in StoreIndex, stores[i].valid, ~StoreFreed(i)
  PROVE  GoesOn(in, i)
<1>1. PICK c, d : StoreRing(c, d)
  BY DEF StoreInv, StoreRingInv
<1>2. PICK o : o = d + StoresInFlight
  OBVIOUS
<1>3. StoreGap(i) < o /\ StoreGap(i) \in Nat /\ o \in Nat
  <2>1. d \in Nat /\ StoresInFlight \in Nat /\ StoreGap(i) \in Nat
    BY <1>1, StoreNumbers
  <2>2. StoreGap(i) < d + StoresInFlight
    BY <1>1 DEF StoreRing
  <2> QED
    BY <1>2, <2>1, <2>2
<1>4. Lanes(in, TRUE, i) = {}
  <2>1. StoresHandedOut(in, kinds, o, Cardinality(StoreGroup(kinds)))
    BY <1>1, <1>2, FreshStores
  <2>2. ~(o <= StoreGap(i))
    BY <1>3
  <2> QED
    BY <2>1, <2>2 DEF StoresHandedOut
<1>5. StoreKept(in, i)
  BY <1>4, StoreEdge
<1>6. stores[i].addressReady => ~StoreAddressing(in, i)
  BY AddressedOnce
<1>7. stores[i].translationDone => stores[i].addressReady /\ ~StoreAnswering(in, i)
  BY AnsweredOnce DEF StoreInv, SentInv
<1> QED
  BY <1>5, <1>6, <1>7 DEF StoreKept, GoesOn

(* A slot that knows anything after the edge was occupied before it.             *)
LEMMA KnownStore ==
  ASSUME MemoryTypeOK, NEW in, NEW n, NEW kinds, Offered(in, n, kinds),
         Cycle(in, n, kinds), ~in.flush, NEW i \in StoreIndex,
         \/ stores'[i].addressReady \/ stores'[i].translationDone
         \/ stores'[i].requestSent \/ stores'[i].completed
  PROVE  ~StoreFreed(i) /\ StoreKept(in, i)
<1>1. ~StoreFreed(i)
  <2> SUFFICES ASSUME StoreFreed(i) PROVE FALSE
    OBVIOUS
  <2>1. stores'[i] = EmptyStore
    BY StoreEdge
  <2> QED
    BY <2>1 DEF EmptyStore
<1>2. Lanes(in, TRUE, i) = {}
  <2> SUFFICES ASSUME Lanes(in, TRUE, i) # {} PROVE FALSE
    OBVIOUS
  <2>1. StoreFresh(in, i)
    BY <1>1, StoreEdge
  <2>2. PICK lane : stores'[i] = Fresh(EmptyStore, lane)
    BY <2>1 DEF StoreFresh
  <2> QED
    BY <2>2 DEF Fresh, EmptyStore
<1> QED
  BY <1>1, <1>2, StoreEdge

(* The head stays where it is while the cache has not taken a write of it.       *)
LEMMA HeadHolds ==
  ASSUME MemoryTypeOK, StoreInv, NEW in, NEW n, NEW kinds, Offered(in, n, kinds),
         Cycle(in, n, kinds), ~in.flush,
         HeadStore.valid, HeadStore.isSc => HeadStore.scSuccess,
         ~(HeadStore.uncached /\ HeadStore.requestSent) \/ ~HeadStore.completed
           \/ ~HeadStore.committed,
         TakenCachedStores(in) = {}
  PROVE  storeHead' = storeHead /\ ~StoreFreed(storeHead) /\ GoesOn(in, storeHead)
<1>1. \/ AcceptedLeaves(in) \/ HeadLeaves(in) \/ HeadTaken(in)
      \/ HeadStays(in) \/ HeadRestarts(in)
  BY HeadForm
<1>2. StoreQueueEntries \in Nat \ {0} /\ StoreQueueEntries > 1 /\ storeHead \in StoreIndex
      /\ StoreIndex = 0 .. StoreQueueEntries - 1
  BY Sizes DEF MemoryTypeOK, QueueTypeOK, StoreIndex
<1>3. ~HeadLeaves(in)
  BY DEF HeadLeaves, FailedScRelease, UncachedStoreRelease
<1>4. ~HeadTaken(in)
  BY DEF HeadTaken, TakenCachedStores
<1>5. ~HeadRestarts(in)
  <2> SUFFICES ASSUME HeadRestarts(in) PROVE FALSE
    OBVIOUS
  <2>1. drainAfterFlush /\ ~CommittedStorePresent
    BY DEF HeadRestarts
  <2>2. PICK c, d : StoreRing(c, d)
    BY DEF StoreInv, StoreRingInv
  <2>3. window = <<>> /\ ~redirectPending /\ c = d
    BY <2>1, <2>2 DEF StoreRing
  <2>4. StoresInFlight = 0
    <3>1. Len(window) = 0
      BY <2>3
    <3>2. StorePositions = {}
      BY <3>1 DEF StorePositions
    <3> QED
      BY <3>2, FS_EmptySet DEF StoresInFlight
  <2>5. c \in Nat /\ d + StoresInFlight = c
    BY <2>2, <2>3, <2>4 DEF StoreRing
  <2>6. stores[storeHead].committed
    BY <1>2, <2>2, <2>5 DEF StoreRing, HeadStore
  <2> QED
    BY <1>2, <2>1, <2>6 DEF CommittedStorePresent, HeadStore
<1>6. CASE AcceptedLeaves(in)
  <2>1. At(storeHead, StoreQueueEntries - 1, StoreQueueEntries) # storeHead
    BY <1>2, BackAndForth
  <2>2. storeHead' = storeHead /\ ~StoreFreed(storeHead)
    BY <1>2, <1>6, <2>1 DEF AcceptedLeaves
  <2> QED
    BY <1>2, <2>2, StoreGoesOn DEF HeadStore
<1>7. CASE HeadStays(in)
  <2>1. storeHead' = storeHead /\ ~StoreFreed(storeHead)
    BY <1>2, <1>7 DEF HeadStays
  <2> QED
    BY <1>2, <2>1, StoreGoesOn DEF HeadStore
<1> QED
  BY <1>1, <1>3, <1>4, <1>5, <1>6, <1>7

LEMMA AcceptedStep ==
  ASSUME MemoryTypeOK, StoreInv, NEW in, NEW n, NEW kinds, Offered(in, n, kinds),
         Cycle(in, n, kinds)
  PROVE  AcceptedInv'
<1> DEFINE N == StoreQueueEntries
<1>1. N \in Nat \ {0} /\ N > 1 /\ storeHead \in 0 .. N - 1 /\ StoreIndex = 0 .. N - 1
  BY Sizes DEF MemoryTypeOK, QueueTypeOK, StoreIndex
<1>2. /\ \A i \in accepted :
            /\ i = At(storeHead, N - 1, N) /\ i \in StoreIndex
            /\ stores[i].valid /\ stores[i].committed /\ stores[i].translationDone
      /\ accepted # {} => requestBuffer = {} /\ ~HeadStore.requestSent
  BY DEF StoreInv, AcceptedInv, MemoryTypeOK, QueueTypeOK
<1>3. \A i \in StoreIndex : stores[i].requestSent => i = storeHead
  BY DEF StoreInv, SentInv
<1>4. /\ At(At(storeHead, 1, N), N - 1, N) = storeHead
      /\ At(storeHead, 1, N) # storeHead /\ At(storeHead, N - 1, N) # storeHead
      /\ At(storeHead, 1, N) \in StoreIndex
  <2>1. 1 \in 0 .. N
    BY <1>1
  <2> QED
    BY <1>1, <2>1, BackAndForth, AtForm
<1>5. CASE in.flush
  <2>1. /\ accepted' = accepted /\ requestBuffer' = KeptRequests
        /\ storeHead' = IF CommittedStorePresent THEN storeHead ELSE 0
    BY <1>5 DEF Cycle, QueueStep, DrainStep, RequestStep
  <2>2. accepted = {} => AcceptedInv'
    BY <2>1 DEF AcceptedInv
  <2>3. CASE accepted # {}
    <3>1. CommittedStorePresent
      BY <1>2, <2>3 DEF CommittedStorePresent
    <3>2. storeHead' = storeHead
      BY <2>1, <3>1
    <3>3. requestBuffer' = {}
      BY <1>2, <2>1, <2>3 DEF KeptRequests
    <3>4. ASSUME NEW i \in accepted
          PROVE  stores'[i].valid /\ stores'[i].committed /\ stores'[i].translationDone
      <4>1. i \in StoreIndex /\ ~UncachedSent(i) /\ stores[i].committed
        BY <1>2, <1>3, <1>4 DEF UncachedSent
      <4>2. StoreFlushed(in, i)
        BY <1>5, <4>1, FlushEdge
      <4>3. stores'[i] = stores[i]
        BY <4>1, <4>2 DEF StoreFlushed
      <4> QED
        BY <1>2, <4>3
    <3>5. ~stores'[storeHead].requestSent
      <4>1. ~UncachedSent(storeHead) /\ ~stores[storeHead].requestSent
        BY <1>2, <2>3 DEF UncachedSent, HeadStore
      <4>2. StoreFlushed(in, storeHead)
        BY <1>1, <1>5, FlushEdge
      <4>3. stores'[storeHead] = stores[storeHead] \/ stores'[storeHead] = EmptyStore
        BY <4>1, <4>2 DEF StoreFlushed
      <4> QED
        BY <4>1, <4>3 DEF EmptyStore
    <3> QED
      BY <1>2, <2>1, <3>2, <3>3, <3>4, <3>5 DEF AcceptedInv, HeadStore, At
  <2> QED
    BY <2>2, <2>3
<1>6. CASE ~in.flush
  <2>1. /\ accepted' = TakenCachedStores(in)
        /\ requestBuffer' = IF RequestCapture(in) THEN {RequestCandidate}
                            ELSE requestBuffer \ Taken(in)
    BY <1>6 DEF Cycle, QueueStep, RequestStep
  <2>2. CASE HeadTaken(in)
    <3>1. /\ accepted = {} /\ ~StoreFreed(storeHead) /\ requestBuffer # {}
          /\ Taken(in) = requestBuffer
          /\ storeHead' = At(storeHead, 1, N) /\ accepted' = {storeHead}
      BY <1>1, <2>2 DEF HeadTaken
    <3>2. requestBuffer' = {}
      BY <2>1, <3>1 DEF RequestCapture
    <3>3. HeadStore.valid /\ HeadStore.committed /\ HeadStore.translationDone
          /\ \A r \in Taken(in) : ~(r.isWrite /\ r.uncached)
      <4>1. PICK q \in requestBuffer : q.isWrite /\ ~q.uncached
        BY <2>2 DEF HeadTaken
      <4>2. \A r \in requestBuffer : r = q
        BY DEF StoreInv, BufferInv
      <4> QED
        BY <3>1, <4>1, <4>2 DEF StoreInv, BufferInv
    <3>4. GoesOn(in, storeHead)
      BY <1>1, <1>6, <3>1, <3>3, StoreGoesOn DEF HeadStore
    <3>5. /\ stores'[storeHead].valid /\ stores'[storeHead].committed
          /\ stores'[storeHead].translationDone
      BY <3>3, <3>4 DEF GoesOn, HeadStore
    <3>6. ~stores'[At(storeHead, 1, N)].requestSent
      <4> SUFFICES ASSUME stores'[At(storeHead, 1, N)].requestSent PROVE FALSE
        OBVIOUS
      <4>1. StoreKept(in, At(storeHead, 1, N))
        BY <1>4, <1>6, KnownStore
      <4>2. ~StoreSent(in, At(storeHead, 1, N))
        BY <3>3 DEF StoreSent
      <4>3. stores[At(storeHead, 1, N)].requestSent
        BY <4>1, <4>2 DEF StoreKept
      <4> QED
        BY <1>3, <1>4, <4>3
    <3> QED
      BY <1>4, <3>1, <3>2, <3>5, <3>6 DEF AcceptedInv, HeadStore, At
  <2>3. CASE ~HeadTaken(in)
    <3>1. accepted' = {}
      BY <1>6, <2>1, <2>3, HeadForm
    <3> QED
      BY <3>1 DEF AcceptedInv
  <2> QED
    BY <2>2, <2>3
<1> QED
  BY <1>5, <1>6

LEMMA SentStep ==
  ASSUME MemoryTypeOK, StoreInv, NEW in, NEW n, NEW kinds, Offered(in, n, kinds),
         Cycle(in, n, kinds)
  PROVE  SentInv'
<1>1. storeHead \in StoreIndex
  BY DEF MemoryTypeOK, QueueTypeOK
<1>2. \A i \in StoreIndex :
         /\ stores[i].requestSent => /\ i = storeHead /\ stores[i].uncached
                                     /\ stores[i].valid /\ stores[i].translationDone
         /\ stores[i].translationDone => stores[i].addressReady
  BY DEF StoreInv, SentInv
<1>3. CASE in.flush
  <2> SUFFICES ASSUME NEW i \in StoreIndex
               PROVE  /\ stores'[i].requestSent => /\ i = storeHead' /\ stores'[i].uncached
                                                   /\ stores'[i].valid
                                                   /\ stores'[i].translationDone
                      /\ stores'[i].translationDone => stores'[i].addressReady
    BY DEF SentInv, StoreIndex
  <2>1. StoreFlushed(in, i)
    BY <1>3, FlushEdge
  <2>2. storeHead' = IF CommittedStorePresent THEN storeHead ELSE 0
    BY <1>3 DEF Cycle, QueueStep, DrainStep
  <2>3. CASE UncachedSent(i)
    <3>1. CommittedStorePresent /\ i = storeHead
      BY <1>2, <2>3 DEF UncachedSent, CommittedStorePresent
    <3> QED
      BY <1>2, <2>1, <2>2, <2>3, <3>1 DEF StoreFlushed, UncachedSent
  <2>4. CASE ~UncachedSent(i)
    <3>1. stores'[i] = stores[i] \/ stores'[i] = EmptyStore
      BY <2>1, <2>4 DEF StoreFlushed
    <3>2. ~stores[i].requestSent
      BY <1>2, <2>4 DEF UncachedSent
    <3> QED
      BY <1>2, <3>1, <3>2 DEF EmptyStore
  <2> QED
    BY <2>3, <2>4
<1>4. CASE ~in.flush
  <2>1. ASSUME NEW i \in StoreIndex, stores'[i].translationDone
        PROVE  stores'[i].addressReady
    <3>1. StoreKept(in, i)
      BY <1>4, <2>1, KnownStore
    <3>2. stores[i].addressReady /\ ~StoreAddressing(in, i)
      <4>1. CASE StoreAnswering(in, i)
        <5>1. stores[i].addressReady
          BY <4>1, AnsweredOnce
        <5> QED
          BY <5>1, AddressedOnce
      <4>2. CASE ~StoreAnswering(in, i)
        <5>1. stores[i].translationDone /\ ~StoreAddressing(in, i)
          BY <2>1, <3>1, <4>2 DEF StoreKept
        <5> QED
          BY <1>2, <5>1
      <4> QED
        BY <4>1, <4>2
    <3> QED
      BY <3>1, <3>2 DEF StoreKept
  <2>2. ASSUME NEW i \in StoreIndex, stores'[i].requestSent
        PROVE  /\ i = storeHead' /\ stores'[i].uncached
               /\ stores'[i].valid /\ stores'[i].translationDone
    <3>1. StoreKept(in, i) /\ ~StoreFreed(i)
      BY <1>4, <2>2, KnownStore
    <3>2. /\ i = storeHead /\ stores[i].uncached /\ stores[i].valid
          /\ stores[i].translationDone /\ TakenCachedStores(in) = {}
          /\ HeadStore.isSc /\ ~HeadStore.requestSent => HeadStore.scSuccess
      <4>1. CASE stores[i].requestSent
        <5>1. i = storeHead /\ stores[i].uncached /\ stores[i].valid /\ stores[i].translationDone
          BY <1>2, <4>1
        <5>2. \A r \in Taken(in) : r.isWrite => r.uncached
          BY <5>1, RequestForm DEF StoreInv, BufferInv, HeadStore
        <5>3. TakenCachedStores(in) = {}
          BY <5>2 DEF TakenCachedStores
        <5>4. HeadStore.requestSent
          BY <4>1, <5>1 DEF HeadStore
        <5> QED
          BY <5>1, <5>3, <5>4
      <4>2. CASE ~stores[i].requestSent
        <5>1. PICK r \in Taken(in) : r.isWrite /\ r.uncached /\ r.index = i
          BY <2>2, <3>1, <4>2 DEF StoreKept, StoreSent
        <5>2. r \in requestBuffer /\ \A q \in Taken(in) : q \in requestBuffer
          BY <5>1, RequestForm
        <5>3. \A q \in Taken(in) : q = r
          BY <5>2 DEF StoreInv, BufferInv
        <5>4. /\ i = storeHead /\ HeadStore.uncached /\ HeadStore.valid
              /\ HeadStore.translationDone
              /\ HeadStore.isSc => HeadStore.scSuccess
          BY <5>1, <5>2 DEF StoreInv, BufferInv
        <5>5. TakenCachedStores(in) = {}
          BY <5>1, <5>3 DEF TakenCachedStores
        <5> QED
          BY <5>4, <5>5 DEF HeadStore
      <4> QED
        BY <4>1, <4>2
    <3>3. GoesOn(in, i)
      BY <1>4, <3>1, <3>2, StoreGoesOn
    <3>4. storeHead' = storeHead
      <4>1. CommittedStorePresent \/ (HeadStore.isSc => HeadStore.scSuccess)
        BY <1>1, <3>2 DEF CommittedStorePresent, HeadStore
      <4>2. ~FailedScRelease /\ ~UncachedStoreRelease
        BY <3>1, <3>2, HeadForm DEF StoreFreed
      <4>3. storeHead' = IF drainAfterFlush /\ ~CommittedStorePresent THEN 0 ELSE storeHead
        BY <1>4, <3>2, <4>2 DEF Cycle, QueueStep, DrainStep, HeadAfterEdge
      <4>4. CASE CommittedStorePresent
        BY <4>3, <4>4
      <4>5. CASE ~CommittedStorePresent
        <5>1. HeadStore.valid /\ HeadStore.isSc => HeadStore.scSuccess
          BY <3>2, <4>1, <4>5 DEF HeadStore
        <5>2. ~(HeadStore.uncached /\ HeadStore.requestSent)
          BY <1>1, <3>2, <4>5 DEF CommittedStorePresent, HeadStore
        <5> QED
          BY <1>4, <3>2, <4>1, <4>5, <5>1, <5>2, HeadHolds DEF HeadStore
      <4> QED
        BY <4>4, <4>5
    <3> QED
      BY <3>2, <3>3, <3>4 DEF GoesOn
  <2> QED
    BY <2>1, <2>2 DEF SentInv, StoreIndex
<1> QED
  BY <1>3, <1>4

LEMMA BufferStep ==
  ASSUME MemoryTypeOK, StoreInv, NEW in, NEW n, NEW kinds, Offered(in, n, kinds),
         Cycle(in, n, kinds)
  PROVE  BufferInv'
<1>1. storeHead \in StoreIndex
  BY DEF MemoryTypeOK, QueueTypeOK
<1>2. /\ \A q, r \in requestBuffer : q = r
      /\ \A r \in requestBuffer : r.isWrite =>
            /\ r.index = storeHead /\ r.uncached = HeadStore.uncached
            /\ HeadStore.valid /\ HeadStore.translationDone
            /\ HeadStore.isSc => HeadStore.scSuccess
            /\ IF r.uncached THEN ~HeadStore.requestSent ELSE HeadStore.committed
  BY DEF StoreInv, BufferInv
<1>3. /\ \A r \in requestBuffer' :
            \/ r \in requestBuffer /\ r \notin Taken(in) /\ (in.flush => r.isWrite /\ ~r.uncached)
            \/ /\ ~in.flush /\ requestBuffer = {} /\ requestBuffer' = {r}
               /\ StoreCaptured(r) \/ LoadCaptured(r)
      /\ Taken(in) = {} \/ (~in.flush /\ Taken(in) = requestBuffer)
  BY RequestForm
<1>4. \A q, r \in requestBuffer' : q = r
  BY <1>2, <1>3
<1>5. ASSUME NEW r \in requestBuffer', r.isWrite, in.flush
      PROVE  /\ r.index = storeHead' /\ r.uncached = HeadStore'.uncached
             /\ HeadStore'.valid /\ HeadStore'.translationDone
             /\ HeadStore'.isSc => HeadStore'.scSuccess
             /\ IF r.uncached THEN ~HeadStore'.requestSent ELSE HeadStore'.committed
  <2>1. r \in requestBuffer /\ ~r.uncached
    BY <1>3, <1>5
  <2>2. HeadStore.valid /\ HeadStore.committed /\ ~HeadStore.uncached
    BY <1>2, <1>5, <2>1
  <2>3. CommittedStorePresent
    BY <1>1, <2>2 DEF CommittedStorePresent, HeadStore
  <2>4. storeHead' = storeHead
    BY <1>5, <2>3 DEF Cycle, QueueStep, DrainStep
  <2>5. StoreFlushed(in, storeHead)
    BY <1>1, <1>5, FlushEdge
  <2>6. stores'[storeHead] = stores[storeHead]
    BY <2>2, <2>5 DEF StoreFlushed, UncachedSent, HeadStore
  <2>7. HeadStore' = HeadStore
    BY <2>4, <2>6 DEF HeadStore
  <2> QED
    BY <1>2, <1>5, <2>1, <2>4, <2>7
<1>6. ASSUME NEW r \in requestBuffer', r.isWrite, ~in.flush
      PROVE  /\ r.index = storeHead' /\ r.uncached = HeadStore'.uncached
             /\ HeadStore'.valid /\ HeadStore'.translationDone
             /\ HeadStore'.isSc => HeadStore'.scSuccess
             /\ IF r.uncached THEN ~HeadStore'.requestSent ELSE HeadStore'.committed
  <2>1. Taken(in) = {}
    BY <1>3, <1>6
  <2>2. /\ r.index = storeHead /\ r.uncached = HeadStore.uncached
        /\ HeadStore.valid /\ HeadStore.translationDone
        /\ HeadStore.isSc => HeadStore.scSuccess
        /\ IF r.uncached THEN ~HeadStore.requestSent ELSE HeadStore.committed
    <3>1. CASE r \in requestBuffer
      BY <1>2, <1>6, <3>1
    <3>2. CASE r \notin requestBuffer
      <4>1. StoreCaptured(r)
        BY <1>3, <1>6, <3>2 DEF LoadCaptured
      <4>2. /\ StoreRequest
            /\ r.index = storeHead /\ r.uncached = HeadStore.uncached
        BY <4>1 DEF StoreCaptured
      <4> QED
        BY <4>2 DEF StoreRequest
    <3> QED
      BY <3>1, <3>2
  <2>3. TakenCachedStores(in) = {} /\ ~StoreSent(in, storeHead)
    BY <2>1 DEF TakenCachedStores, StoreSent
  <2>4. ~(HeadStore.uncached /\ HeadStore.requestSent)
    BY <2>2
  <2>5. storeHead' = storeHead /\ GoesOn(in, storeHead)
    BY <1>6, <2>2, <2>3, <2>4, HeadHolds
  <2>6. HeadStore' = stores'[storeHead]
    BY <2>5 DEF HeadStore
  <2>7. stores[storeHead].addressReady
    BY <1>1, <2>2 DEF StoreInv, SentInv, HeadStore
  <2>8. /\ HeadStore'.valid /\ HeadStore'.translationDone
        /\ HeadStore'.uncached = HeadStore.uncached
        /\ HeadStore'.isSc = HeadStore.isSc /\ HeadStore'.scSuccess = HeadStore.scSuccess
        /\ HeadStore.committed => HeadStore'.committed
        /\ HeadStore'.requestSent <=> HeadStore.requestSent
    BY <2>2, <2>3, <2>5, <2>6, <2>7 DEF GoesOn, HeadStore
  <2> QED
    BY <2>2, <2>5, <2>8
<1> QED
  BY <1>4, <1>5, <1>6 DEF BufferInv

LEMMA OwnerStoreStep ==
  ASSUME MemoryTypeOK, StoreInv, NEW in, NEW n, NEW kinds, Offered(in, n, kinds),
         Cycle(in, n, kinds)
  PROVE  OwnerStoreInv'
<1> SUFFICES ASSUME (translation.active /\ translation.store)'
             PROVE  /\ OwnerStore'.valid /\ OwnerStore'.addressReady
                    /\ ~OwnerStore'.translationDone
                    /\ OwnerStore'.robPointer = translation'.robPointer
  BY DEF OwnerStoreInv
<1>1. translation' = IF in.flush THEN NoTranslation
                     ELSE IF in.translationReady THEN TranslationOwner
                     ELSE IF in.translation # {} THEN NoTranslation
                     ELSE translation
  BY DEF Cycle, QueueStep, TranslationStep
<1>2. ~in.flush
  BY <1>1 DEF NoTranslation
<1>3. /\ \/ in.translationReady
         \/ translation' = translation
      /\ in.translation = {}
  BY <1>1, <1>2, OwnerForm DEF NoTranslation
<1>4. PICK i : i = translation'.index
  OBVIOUS
<1>5. /\ i \in StoreIndex /\ stores[i].valid /\ stores[i].addressReady
      /\ ~stores[i].translationDone /\ stores[i].robPointer = translation'.robPointer
  <2>1. CASE in.translationReady
    <3>1. translation' = TranslationOwner
      BY <1>1, <1>2, <2>1
    <3>2. ~LoadAsks(TranslationOwner)
      BY <3>1 DEF LoadAsks
    <3>3. PICK j \in StoreIndex : StoreAsks(j, TranslationOwner)
      BY <2>1, <3>2, OwnerForm
    <3>4. i = j /\ translation'.robPointer = stores[j].robPointer /\ j \in UntranslatedStores
      BY <1>4, <3>1, <3>3 DEF StoreAsks
    <3> QED
      BY <3>4 DEF UntranslatedStores
  <2>2. CASE ~in.translationReady
    <3>1. translation' = translation
      BY <1>3, <2>2
    <3>2. translation.active /\ translation.store /\ i = translation.index
      BY <1>4, <3>1
    <3>3. i \in StoreIndex
      BY <3>2 DEF MemoryTypeOK, QueueTypeOK
    <3> QED
      BY <3>1, <3>2, <3>3 DEF StoreInv, OwnerStoreInv, OwnerStore
  <2> QED
    BY <2>1, <2>2
<1>6. ~StoreFreed(i)
  BY <1>2, <1>5, HeadForm
<1>7. GoesOn(in, i)
  BY <1>2, <1>5, <1>6, StoreGoesOn
<1>8. ~StoreAnswering(in, i)
  BY <1>3 DEF StoreAnswering, StoreAnswered, Translated
<1>9. ~stores'[i].translationDone
  BY <1>5, <1>7, <1>8 DEF GoesOn, StoreKept
<1>10. OwnerStore' = stores'[i]
  BY <1>4 DEF OwnerStore
<1> QED
  BY <1>5, <1>7, <1>9, <1>10 DEF GoesOn

LEMMA StoreStep ==
  ASSUME MemoryTypeOK, StoreInv, NEW in, NEW n, NEW kinds, Offered(in, n, kinds),
         Cycle(in, n, kinds)
  PROVE  StoreInv'
BY StoreRingStep, AcceptedStep, SentStep, BufferStep, OwnerStoreStep DEF StoreInv

(***************************************************************************)
(* Both rings, from the initial state on.                                    *)
(***************************************************************************)
MemoryInv == MemoryTypeOK /\ LoadRingInv /\ StoreInv

LEMMA MemoryInvInit == MemoryInit => MemoryInv
<1> SUFFICES ASSUME MemoryInit PROVE MemoryInv
  OBVIOUS
<1>1. MemoryTypeOK
  BY TypesInit
<1>2. /\ stores = [i \in StoreIndex |-> EmptyStore] /\ loads = [i \in LoadIndex |-> EmptyLoad]
      /\ storeHead = 0 /\ loadBase = 0 /\ requestBuffer = {} /\ accepted = {}
      /\ ~drainAfterFlush /\ ~translation.active /\ ~redirectPending
      /\ loadTail = 0 /\ storeTail = 0 /\ loadOccupancy = 0 /\ storeOccupancy = 0
  BY DEF MemoryInit, QueueInit, AllocatorInit, NoTranslation
<1>3. LoadPositions = {} /\ StorePositions = {} /\ Cardinality({}) = 0
  <2>1. Len(window) = 0
    BY DEF MemoryInit
  <2> QED
    BY <2>1, FS_EmptySet DEF LoadPositions, StorePositions
<1>4. /\ At(0, 0, LoadQueueEntries) = 0 /\ At(0, 0, StoreQueueEntries) = 0
      /\ \A i \in LoadIndex : Gap(0, i, LoadQueueEntries) \in Nat
      /\ \A i \in StoreIndex : Gap(0, i, StoreQueueEntries) \in Nat
  <2>1. /\ LoadQueueEntries \in Nat \ {0} /\ StoreQueueEntries \in Nat \ {0}
        /\ 0 \in 0 .. LoadQueueEntries - 1 /\ 0 \in 0 .. StoreQueueEntries - 1
    BY Sizes
  <2>2. At(0, 0, LoadQueueEntries) = 0 /\ At(0, 0, StoreQueueEntries) = 0
    BY <2>1, AtZero
  <2>3. \A i \in LoadIndex : Gap(0, i, LoadQueueEntries) \in Nat
    BY <2>1, GapForm DEF LoadIndex
  <2>4. \A i \in StoreIndex : Gap(0, i, StoreQueueEntries) \in Nat
    BY <2>1, GapForm DEF StoreIndex
  <2> QED
    BY <2>2, <2>3, <2>4
<1>5. /\ \A i \in StoreIndex : /\ ~stores[i].valid /\ ~stores[i].committed
                               /\ ~stores[i].requestSent /\ ~stores[i].translationDone
      /\ \A i \in LoadIndex : ~loads[i].valid
  BY <1>2 DEF EmptyStore, EmptyLoad
<1>6. LoadRingInv
  <2>1. \A i \in LoadIndex : ~(Gap(loadBase, i, LoadQueueEntries) < loadOccupancy)
    BY <1>2, <1>4
  <2> QED
    BY <1>2, <1>3, <1>4, <1>5, <2>1, Sizes DEF LoadRingInv
<1>7. StoreRingInv
  <2>1. StoreFirst = 0 /\ StoresInFlight = 0
    BY <1>2, <1>3 DEF StoreFirst, StoresInFlight
  <2>2. 0 + StoresInFlight = 0
    BY <2>1
  <2>3. \A i \in StoreIndex : ~(StoreGap(i) < 0)
    BY <1>4, <2>1 DEF StoreGap
  <2>4. StoreRing(0, 0)
    BY <1>2, <1>3, <1>4, <1>5, <2>1, <2>2, <2>3, Sizes DEF StoreRing
  <2> QED
    BY <2>4 DEF StoreRingInv
<1>8. AcceptedInv /\ BufferInv /\ OwnerStoreInv
  BY <1>2 DEF AcceptedInv, BufferInv, OwnerStoreInv
<1>9. SentInv
  BY <1>5 DEF SentInv
<1> QED
  BY <1>1, <1>6, <1>7, <1>8, <1>9 DEF MemoryInv, StoreInv

LEMMA MemoryInvStep ==
  ASSUME MemoryInv, NEW in, NEW n, NEW kinds, Offered(in, n, kinds), Cycle(in, n, kinds)
  PROVE  MemoryInv'
BY TypesStep, LoadRingStep, StoreStep DEF MemoryInv

LEMMA MemoryInvStutters ==
  ASSUME MemoryInv, UNCHANGED memoryVars
  PROVE  MemoryInv'
<1>1. /\ stores' = stores /\ loads' = loads /\ storeHead' = storeHead
      /\ loadBase' = loadBase /\ scheduled' = scheduled
      /\ drainAfterFlush' = drainAfterFlush /\ translation' = translation
      /\ translationCancelPending' = translationCancelPending
      /\ requestBuffer' = requestBuffer /\ accepted' = accepted
      /\ aguException' = aguException /\ completion' = completion
      /\ loadTail' = loadTail /\ storeTail' = storeTail
      /\ loadOccupancy' = loadOccupancy /\ storeOccupancy' = storeOccupancy
      /\ robHead' = robHead /\ committedMemoryEpoch' = committedMemoryEpoch
      /\ window' = window /\ recoveryEpoch' = recoveryEpoch
      /\ redirectPending' = redirectPending
  BY DEF memoryVars, queueVars, allocatorVars, environmentVars
<1>2. MemoryTypeOK'
  BY <1>1 DEF MemoryInv, MemoryTypeOK, SlotsTypeOK, QueueTypeOK, WindowTypeOK, StoreIndex,
     LoadIndex, Epochs, Barriers, RobPointer, PointerModulus
<1>3. LoadPositions' = LoadPositions /\ StorePositions' = StorePositions
  BY <1>1 DEF LoadPositions, StorePositions
<1>4. /\ \A k : Rank(LoadPositions, k)' = Rank(LoadPositions, k)
      /\ \A k : Rank(StorePositions, k)' = Rank(StorePositions, k)
      /\ \A k : Uop(k)' = Uop(k) /\ Age(k)' = Age(k)
  BY <1>1, <1>3 DEF Rank, Uop, Age, Pointer, PointerModulus
<1>5. LoadRingInv'
  <2>1. \A k : HeldLoad(k)' <=> HeldLoad(k)
    BY <1>1, <1>4 DEF HeldLoad, At
  <2> QED
    BY <1>1, <1>3, <2>1 DEF MemoryInv, LoadRingInv, At, Gap, LoadIndex
<1>6. StoreFirst' = StoreFirst /\ StoresInFlight' = StoresInFlight
      /\ \A i : StoreGap(i)' = StoreGap(i)
  BY <1>1, <1>3 DEF StoreFirst, StoresInFlight, StoreGap, At, Gap
<1>7. \A k, d : HeldStore(k, d)' <=> HeldStore(k, d)
  BY <1>1, <1>4, <1>6 DEF HeldStore, At
<1>8. \A c, d : StoreRing(c, d)' <=> StoreRing(c, d)
  BY <1>1, <1>3, <1>6, <1>7 DEF StoreRing, At, StoreIndex
<1>9. StoreRingInv'
  BY <1>8 DEF MemoryInv, StoreInv, StoreRingInv
<1>10. /\ AcceptedInv' /\ SentInv' /\ BufferInv' /\ OwnerStoreInv'
  BY <1>1 DEF MemoryInv, StoreInv, AcceptedInv, SentInv, BufferInv, OwnerStoreInv, HeadStore,
     OwnerStore, At, StoreIndex
<1> QED
  BY <1>2, <1>5, <1>9, <1>10 DEF MemoryInv, StoreInv

LEMMA MemoryInvAlways == MemorySpec => []MemoryInv
<1>1. MemoryInv /\ [MemoryNext]_memoryVars => MemoryInv'
  BY StepForm, MemoryInvStep, MemoryInvStutters
<1> QED
  BY <1>1, MemoryInvInit, PTL DEF MemorySpec

(***************************************************************************)
(* In every reachable state the registers of the queue, of the allocator and of *)
(* the reorder buffer hold what their widths allow: no index, pointer, epoch or *)
(* tail leaves its range.                                                    *)
(***************************************************************************)
THEOREM MemoryTypes == MemorySpec => []MemoryTypeOK
<1>1. MemoryInv => MemoryTypeOK
  BY DEF MemoryInv
<1> QED
  BY <1>1, MemoryInvAlways, PTL

LEMMA AllocatorAgrees ==
  ASSUME MemoryInv
  PROVE  AllocatorMatchesQueues
<1>1. ASSUME ~drainAfterFlush
      PROVE  /\ storeOccupancy = Cardinality(ValidStores)
             /\ \A n \in 0 .. StoreQueueEntries - storeOccupancy - 1 :
                   AllocatedStoreIndex(n) \notin ValidStores
  <2> DEFINE N == StoreQueueEntries
  <2>1. PICK c, d : StoreRing(c, d)
    BY DEF MemoryInv, StoreInv, StoreRingInv
  <2>2. /\ N \in Nat \ {0} /\ StoreIndex = 0 .. N - 1
        /\ StoreFirst \in 0 .. N - 1 /\ StoresInFlight \in Nat /\ d \in Nat
        /\ d + StoresInFlight <= N
    BY <2>1, StoreNumbers DEF MemoryInv
  <2>3. PICK o \in 0 .. N : o = d + StoresInFlight
    BY <2>2
  <2>4. /\ storeOccupancy = o /\ storeTail = At(StoreFirst, o, N)
        /\ \A i \in StoreIndex : stores[i].valid <=> Gap(StoreFirst, i, N) < o
    BY <1>1, <2>1, <2>3 DEF StoreRing, StoreGap
  <2>5. ValidStores = {i \in 0 .. N - 1 : Gap(StoreFirst, i, N) < o}
    BY <2>2, <2>4 DEF ValidStores
  <2>6. Cardinality({i \in 0 .. N - 1 : Gap(StoreFirst, i, N) < o}) = o
    BY <2>2, ArcSize
  <2>7. ASSUME NEW n \in 0 .. N - storeOccupancy - 1
        PROVE  AllocatedStoreIndex(n) \notin ValidStores
    <3>1. PICK s \in 0 .. N - 1 : s = o + n
      BY <2>2, <2>4
    <3>2. n \in Nat /\ o \in Nat /\ ~(s < o)
      BY <2>2, <2>4, <3>1
    <3>3. At(At(StoreFirst, o, N), n, N) = At(StoreFirst, o + n, N)
      BY <2>2, <3>2, AtMoves
    <3>4. AllocatedStoreIndex(n) = At(StoreFirst, s, N)
      BY <2>4, <3>1, <3>3 DEF AllocatedStoreIndex, At
    <3>5. Gap(StoreFirst, At(StoreFirst, s, N), N) = s
      BY <2>2, GapAt
    <3> QED
      BY <2>5, <3>2, <3>4, <3>5
  <2> QED
    BY <2>4, <2>5, <2>6, <2>7
<1>2. /\ loadOccupancy = Cardinality(ValidLoads)
      /\ \A n \in 0 .. LoadQueueEntries - loadOccupancy - 1 :
            AllocatedLoadIndex(n) \notin ValidLoads
  <2> DEFINE N == LoadQueueEntries
  <2>1. /\ N \in Nat \ {0} /\ LoadIndex = 0 .. N - 1 /\ loadBase \in 0 .. N - 1
        /\ loadOccupancy \in 0 .. N
    BY LoadNumbers DEF MemoryInv
  <2>2. /\ loadTail = At(loadBase, loadOccupancy, N)
        /\ \A i \in LoadIndex : loads[i].valid <=> Gap(loadBase, i, N) < loadOccupancy
    BY DEF MemoryInv, LoadRingInv
  <2>3. ValidLoads = {i \in 0 .. N - 1 : Gap(loadBase, i, N) < loadOccupancy}
    BY <2>1, <2>2 DEF ValidLoads
  <2>4. Cardinality({i \in 0 .. N - 1 : Gap(loadBase, i, N) < loadOccupancy}) = loadOccupancy
    BY <2>1, ArcSize
  <2>5. ASSUME NEW n \in 0 .. N - loadOccupancy - 1
        PROVE  AllocatedLoadIndex(n) \notin ValidLoads
    <3>1. PICK s \in 0 .. N - 1 : s = loadOccupancy + n
      BY <2>1
    <3>2. n \in Nat /\ loadOccupancy \in Nat /\ ~(s < loadOccupancy)
      BY <2>1, <3>1
    <3>3. At(At(loadBase, loadOccupancy, N), n, N) = At(loadBase, loadOccupancy + n, N)
      BY <2>1, <3>2, AtMoves
    <3>4. AllocatedLoadIndex(n) = At(loadBase, s, N)
      BY <2>2, <3>1, <3>3 DEF AllocatedLoadIndex, At
    <3>5. Gap(loadBase, At(loadBase, s, N), N) = s
      BY <2>1, GapAt
    <3> QED
      BY <2>3, <3>2, <3>4, <3>5
  <2> QED
    BY <2>3, <2>4, <2>5
<1> QED
  BY <1>1, <1>2 DEF AllocatorMatchesQueues

(***************************************************************************)
(* The allocator counts slots and hands them out in ring order, whatever order   *)
(* the queues give them back in, across flushes that keep committed stores: no   *)
(* slot it can hand out is ever occupied, and none is forgotten.               *)
(***************************************************************************)
THEOREM AllocatorNeverReusesASlot == MemorySpec => []AllocatorMatchesQueues
<1>1. MemoryInv => AllocatorMatchesQueues
  BY AllocatorAgrees
<1> QED
  BY <1>1, MemoryInvAlways, PTL

(***************************************************************************)
(* Positions in the window and the slots that belong to them.                 *)
(***************************************************************************)
LEMMA Ages ==
  ASSUME MemoryTypeOK, NEW j \in 0 .. RobEntries - 1, NEW k \in 0 .. RobEntries - 1
  PROVE  /\ IsOlder(Age(j), Age(k)) <=> j < k
         /\ Age(j) = Age(k) => j = k
<1>1. PICK x \in 1 .. RobEntries, y \in 1 .. RobEntries : x = j + 1 /\ y = k + 1
  BY Sizes
<1>2. Age(j) = Pointer(x) /\ Age(k) = Pointer(y)
  BY <1>1 DEF Age
<1>3. /\ IsOlder(Pointer(x), Pointer(y)) <=> x < y
      /\ Pointer(x) = Pointer(y) => x = y
  BY PointerAge
<1> QED
  BY <1>1, <1>2, <1>3

(* A memory operation in flight, counted from 0.                               *)
InWindow(k) == k \in 0 .. Len(window) - 1
LEMMA InWindowForm ==
  ASSUME MemoryTypeOK, NEW k
  PROVE  InWindow(k) => /\ k \in 0 .. RobEntries - 1 /\ k \in Nat /\ k + 1 \in DOMAIN window
                        /\ Uop(k) = window[k + 1] /\ Uop(k) \in WindowUops
<1>1. /\ Len(window) \in Nat /\ Len(window) <= RobEntries /\ DOMAIN window = 1 .. Len(window)
      /\ window \in Seq(WindowUops) /\ RobEntries \in Nat
  BY Sizes DEF MemoryTypeOK, WindowTypeOK
<1>2. ASSUME InWindow(k)
      PROVE  /\ k \in 0 .. RobEntries - 1 /\ k \in Nat /\ k + 1 \in DOMAIN window
             /\ k + 1 \in 1 .. Len(window)
  BY <1>1, <1>2 DEF InWindow
<1> QED
  BY <1>1, <1>2 DEF Uop

MemoryPositions == LoadPositions \cup StorePositions

LEMMA PositionForm ==
  ASSUME NEW k
  PROVE  /\ k \in LoadPositions => InWindow(k) /\ IsLoad(Uop(k)) /\ ~IsStore(Uop(k))
         /\ k \in StorePositions => InWindow(k) /\ IsStore(Uop(k)) /\ ~IsLoad(Uop(k))
         /\ InWindow(k) /\ IsLoad(Uop(k)) => k \in LoadPositions
         /\ InWindow(k) /\ IsStore(Uop(k)) => k \in StorePositions
         /\ k \in MemoryPositions <=> InWindow(k) /\ IsMemory(Uop(k))
BY DEF LoadPositions, StorePositions, MemoryPositions, InWindow, Uop, IsLoad, IsStore, IsMemory

LoadOf(k) == loads[Uop(k).index]
StoreOf(k) == stores[Uop(k).index]

LEMMA HeldLoads ==
  ASSUME MemoryInv
  PROVE  /\ \A k \in LoadPositions :
               /\ Uop(k).index \in LoadIndex /\ LoadOf(k).valid
               /\ LoadOf(k).robPointer = Age(k) /\ LoadOf(k).recoveryEpoch = recoveryEpoch
         /\ \A i \in LoadIndex : loads[i].valid => \E k \in LoadPositions : Uop(k).index = i
         /\ \A j, k \in LoadPositions :
               /\ Uop(j).index = Uop(k).index => j = k
               /\ j < k => Gap(loadBase, Uop(j).index, LoadQueueEntries)
                             < Gap(loadBase, Uop(k).index, LoadQueueEntries)
<1> DEFINE N == LoadQueueEntries
           S == LoadPositions
<1>1. /\ N \in Nat \ {0} /\ loadBase \in 0 .. N - 1 /\ LoadIndex = 0 .. N - 1
      /\ Positions(S) /\ Cardinality(S) = loadOccupancy /\ Cardinality(S) <= N
  BY LoadNumbers, SizeType DEF MemoryInv
<1>2. /\ \A i \in LoadIndex : loads[i].valid <=> Gap(loadBase, i, N) < loadOccupancy
      /\ \A k \in S : HeldLoad(k)
  BY DEF MemoryInv, LoadRingInv
<1>3. Len(window) \in Int
  BY DEF MemoryInv, MemoryTypeOK, WindowTypeOK
<1>4. /\ \A k \in S : /\ Gap(loadBase, At(loadBase, Rank(S, k), N), N) = Rank(S, k)
                      /\ At(loadBase, Rank(S, k), N) \in 0 .. N - 1
      /\ \A i \in 0 .. N - 1 :
            (\E k \in S : k < Len(window) /\ At(loadBase, Rank(S, k), N) = i)
               <=> Gap(loadBase, i, N) < Rank(S, Len(window))
      /\ \A j, k \in S : At(loadBase, Rank(S, j), N) = At(loadBase, Rank(S, k), N) => j = k
  BY <1>1, <1>3, HeldFromBase
<1>5. Rank(S, Len(window)) = loadOccupancy
  <2>1. Below(S, Len(window)) = S
    BY <1>3 DEF Below, LoadPositions
  <2> QED
    BY <1>1, <2>1 DEF Rank
<1>6. ASSUME NEW k \in S
      PROVE  /\ Uop(k).index = At(loadBase, Rank(S, k), N) /\ Uop(k).index \in LoadIndex
             /\ LoadOf(k).valid /\ LoadOf(k).robPointer = Age(k)
             /\ LoadOf(k).recoveryEpoch = recoveryEpoch
             /\ Gap(loadBase, Uop(k).index, N) = Rank(S, k)
  <2>1. /\ Uop(k).index = At(loadBase, Rank(S, k), N) /\ LoadOf(k).robPointer = Age(k)
        /\ LoadOf(k).recoveryEpoch = recoveryEpoch
    BY <1>2 DEF HeldLoad, LoadOf
  <2>2. Rank(S, k) < loadOccupancy
    BY <1>1, RankLess
  <2> QED
    BY <1>1, <1>2, <1>4, <2>1, <2>2 DEF LoadOf
<1>7. ASSUME NEW i \in LoadIndex, loads[i].valid PROVE \E k \in S : Uop(k).index = i
  <2>1. Gap(loadBase, i, N) < Rank(S, Len(window))
    BY <1>2, <1>5, <1>7
  <2>2. PICK k \in S : At(loadBase, Rank(S, k), N) = i
    BY <1>1, <1>4, <2>1
  <2> QED
    BY <1>6, <2>2
<1>8. ASSUME NEW j \in S, NEW k \in S
      PROVE  /\ Uop(j).index = Uop(k).index => j = k
             /\ j < k => Gap(loadBase, Uop(j).index, N) < Gap(loadBase, Uop(k).index, N)
  <2>1. Uop(j).index = Uop(k).index => j = k
    BY <1>4, <1>6
  <2>2. ASSUME j < k PROVE Rank(S, j) < Rank(S, k)
    <3>1. k \in Int
      BY <1>1 DEF Positions
    <3> QED
      BY <1>1, <2>2, <3>1, RankStrict
  <2> QED
    BY <1>6, <2>1, <2>2
<1> QED
  BY <1>6, <1>7, <1>8

LEMMA HeldStores ==
  ASSUME MemoryInv
  PROVE  /\ \A k \in StorePositions :
               /\ Uop(k).index \in StoreIndex /\ StoreOf(k).valid /\ ~StoreOf(k).committed
               /\ StoreOf(k).robPointer = Age(k) /\ StoreOf(k).recoveryEpoch = recoveryEpoch
         /\ ~redirectPending => \A i \in StoreIndex :
               stores[i].valid /\ ~stores[i].committed =>
                  \E k \in StorePositions : Uop(k).index = i
         /\ \A j, k \in StorePositions : Uop(j).index = Uop(k).index => j = k
<1> DEFINE N == StoreQueueEntries
           S == StorePositions
<1>1. PICK c, d : StoreRing(c, d)
  BY DEF MemoryInv, StoreInv, StoreRingInv
<1>2. /\ N \in Nat \ {0} /\ StoreFirst \in 0 .. N - 1 /\ StoreIndex = 0 .. N - 1
      /\ Positions(S) /\ Cardinality(S) = StoresInFlight /\ StoresInFlight \in Nat
      /\ c \in Nat /\ d \in Nat /\ c <= d /\ d + Cardinality(S) <= N
  BY <1>1, StoreNumbers DEF MemoryInv, StoresInFlight
<1>3. /\ ~redirectPending => c = d
      /\ \A i \in StoreIndex : /\ stores[i].valid <=> StoreGap(i) < d + StoresInFlight
                               /\ stores[i].committed <=> StoreGap(i) < c
      /\ \A k \in S : HeldStore(k, d)
  BY <1>1 DEF StoreRing
<1>4. Len(window) \in Int
  BY DEF MemoryInv, MemoryTypeOK, WindowTypeOK
<1>5. /\ \A k \in S : Gap(StoreFirst, At(StoreFirst, d + Rank(S, k), N), N) = d + Rank(S, k)
      /\ \A i \in 0 .. N - 1 :
            (\E k \in S : k < Len(window) /\ At(StoreFirst, d + Rank(S, k), N) = i)
               <=> d <= Gap(StoreFirst, i, N) /\ Gap(StoreFirst, i, N) < d + Rank(S, Len(window))
      /\ \A j, k \in S : At(StoreFirst, d + Rank(S, j), N) = At(StoreFirst, d + Rank(S, k), N) => j = k
  BY <1>2, <1>4, HeldArc
<1>6. Rank(S, Len(window)) = StoresInFlight
  <2>1. Below(S, Len(window)) = S
    BY <1>4 DEF Below, StorePositions
  <2> QED
    BY <1>2, <2>1 DEF Rank
<1>7. ASSUME NEW k \in S
      PROVE  /\ Uop(k).index = At(StoreFirst, d + Rank(S, k), N) /\ Uop(k).index \in StoreIndex
             /\ StoreOf(k).valid /\ ~StoreOf(k).committed
             /\ StoreOf(k).robPointer = Age(k) /\ StoreOf(k).recoveryEpoch = recoveryEpoch
  <2>1. /\ Uop(k).index = At(StoreFirst, d + Rank(S, k), N) /\ StoreOf(k).robPointer = Age(k)
        /\ StoreOf(k).recoveryEpoch = recoveryEpoch
    BY <1>3 DEF HeldStore, StoreOf
  <2>2. Rank(S, k) < StoresInFlight /\ Rank(S, k) \in Nat
    BY <1>2, RankLess, RankType
  <2>3. PICK x \in 0 .. N : x = d + Rank(S, k) /\ c <= x /\ x < d + StoresInFlight
    BY <1>2, <2>2
  <2>4. Uop(k).index \in StoreIndex
    <3>1. Uop(k).index = At(StoreFirst, x, N)
      BY <2>1, <2>3
    <3>2. At(StoreFirst, x, N) \in 0 .. N - 1
      BY <1>2, <2>3, AtForm
    <3> QED
      BY <1>2, <3>1, <3>2
  <2>5. StoreGap(Uop(k).index) = x
    BY <1>5, <2>1, <2>3 DEF StoreGap
  <2>6. ~(StoreGap(Uop(k).index) < c)
    BY <1>2, <2>3, <2>5
  <2> QED
    BY <1>3, <2>1, <2>3, <2>4, <2>5, <2>6 DEF StoreOf
<1>8. ASSUME ~redirectPending, NEW i \in StoreIndex, stores[i].valid, ~stores[i].committed
      PROVE  \E k \in S : Uop(k).index = i
  <2>1. c = d /\ ~(StoreGap(i) < c) /\ StoreGap(i) < d + StoresInFlight
    BY <1>3, <1>8
  <2>2. StoreGap(i) \in Nat
    BY <1>1, StoreNumbers DEF MemoryInv
  <2>3. d <= StoreGap(i)
    BY <1>2, <2>1, <2>2
  <2>4. d <= Gap(StoreFirst, i, N) /\ Gap(StoreFirst, i, N) < d + Rank(S, Len(window))
    BY <1>6, <2>1, <2>3 DEF StoreGap
  <2>5. PICK k \in S : At(StoreFirst, d + Rank(S, k), N) = i
    BY <1>2, <1>5, <2>4
  <2> QED
    BY <1>7, <2>5
<1>9. \A j, k \in S : Uop(j).index = Uop(k).index => j = k
  BY <1>5, <1>7
<1> QED
  BY <1>7, <1>8, <1>9

(***************************************************************************)
(* An edge without a flush: who stays in the window, who enters it.            *)
(***************************************************************************)
LEMMA LoadStays ==
  ASSUME MemoryInv, NEW in, NEW n, NEW kinds, Offered(in, n, kinds), Cycle(in, n, kinds),
         ~in.flush, NEW i \in LoadIndex, loads[i].valid, i \notin CommittedLoads(in)
  PROVE  LoadKept(in, i)
<1>1. PICK m : m = Cardinality(LoadGroup(kinds))
  OBVIOUS
<1>2. Lanes(in, FALSE, i) # {} => loadOccupancy <= Gap(loadBase, i, LoadQueueEntries)
  BY <1>1, FreshLoads DEF MemoryInv
<1>3. /\ Gap(loadBase, i, LoadQueueEntries) < loadOccupancy
      /\ Gap(loadBase, i, LoadQueueEntries) \in Nat /\ loadOccupancy \in Nat
  <2>1. /\ LoadQueueEntries \in Nat \ {0} /\ loadBase \in 0 .. LoadQueueEntries - 1
        /\ LoadIndex = 0 .. LoadQueueEntries - 1 /\ loadOccupancy \in Nat
    BY LoadNumbers DEF MemoryInv
  <2>2. Gap(loadBase, i, LoadQueueEntries) \in 0 .. LoadQueueEntries - 1
    BY <2>1, GapForm
  <2>3. Gap(loadBase, i, LoadQueueEntries) < loadOccupancy
    BY DEF MemoryInv, LoadRingInv
  <2> QED
    BY <2>1, <2>2, <2>3
<1>4. ~(loadOccupancy <= Gap(loadBase, i, LoadQueueEntries))
  BY <1>3
<1>5. Lanes(in, FALSE, i) = {}
  BY <1>2, <1>4, Zenon
<1> QED
  BY <1>5, LoadEdge DEF MemoryInv

LEMMA StoreStays ==
  ASSUME MemoryInv, NEW in, NEW n, NEW kinds, Offered(in, n, kinds), Cycle(in, n, kinds),
         ~in.flush, NEW i \in StoreIndex, stores[i].valid, ~stores[i].committed
  PROVE  GoesOn(in, i)
<1>1. ~StoreFreed(i)
  BY HeadForm DEF MemoryInv
<1> QED
  BY <1>1, StoreGoesOn DEF MemoryInv

LEMMA LoadLeaves ==
  ASSUME MemoryInv, NEW in, NEW n, NEW kinds, Offered(in, n, kinds), NEW q \in LoadPositions
  PROVE  Uop(q).index \in CommittedLoads(in) <=> q < n
<1> DEFINE S == LoadPositions
           N == LoadQueueEntries
<1>1. PICK r : r = Rank(S, n)
  OBVIOUS
<1>2. \A i \in LoadIndex : i \in CommittedLoads(in) <=> Gap(loadBase, i, N) < r
  BY <1>1, CommittedArc DEF MemoryInv
<1>3. /\ N \in Nat \ {0} /\ loadBase \in 0 .. N - 1 /\ Positions(S) /\ Cardinality(S) <= N
      /\ n \in Int /\ q \in Int
  BY LoadNumbers, Sizes DEF MemoryInv, Offered, LoadPositions, MemoryTypeOK, WindowTypeOK
<1>4. Uop(q).index = At(loadBase, Rank(S, q), N) /\ Uop(q).index \in LoadIndex
  BY HeldLoads DEF MemoryInv, LoadRingInv, HeldLoad
<1>5. Gap(loadBase, Uop(q).index, N) = Rank(S, q)
  BY <1>3, <1>4, HeldFromBase
<1>6. q < n => Rank(S, q) < Rank(S, n)
  BY <1>3, RankStrict
<1>7. n <= q => Rank(S, n) <= Rank(S, q)
  BY <1>3, RankMonotone
<1>8. Rank(S, n) \in Nat /\ Rank(S, q) \in Nat
  BY <1>3, RankType
<1>9. Uop(q).index \in CommittedLoads(in) <=> Rank(S, q) < Rank(S, n)
  BY <1>1, <1>2, <1>4, <1>5
<1> QED
  BY <1>3, <1>6, <1>7, <1>8, <1>9

Follows(in, n, q, k) ==
    /\ q = n + k /\ InWindow(q) /\ InWindow(k)'
    /\ Uop(k)'.kind = Uop(q).kind /\ Uop(k)'.index = Uop(q).index /\ Age(k)' = Age(q)
    /\ UopKept(in, q + 1, Uop(k)')
    /\ q \in LoadPositions => LoadKept(in, Uop(q).index)
    /\ q \in StorePositions => GoesOn(in, Uop(q).index)
Enters(in, n, k) ==
    /\ InWindow(k)' /\ ~Uop(k)'.issued /\ Uop(k)'.accesses = 0
    /\ IsMemory(Uop(k)') => Uop(k)'.done = "no"
    /\ IsLoad(Uop(k)') => LoadFresh(in, Uop(k)'.index) /\ ~loads[Uop(k)'.index].valid
    /\ IsStore(Uop(k)') => StoreFresh(in, Uop(k)'.index) /\ ~stores[Uop(k)'.index].valid
    /\ Len(window) <= n + k
    /\ \A q : InWindow(q) => /\ IsOlder(Age(q), Age(k)') /\ ~IsOlder(Age(k)', Age(q))
                             /\ Age(q) # Age(k)'

LEMMA GroupLoad ==
  ASSUME MemoryInv, NEW in, NEW n, NEW kinds, Offered(in, n, kinds), Cycle(in, n, kinds),
         ~in.flush, NEW j \in LoadGroup(kinds)
  PROVE  /\ LoadFresh(in, NewUop(kinds, j).index)
         /\ ~loads[NewUop(kinds, j).index].valid
<1>1. PICK m, i, r : m = Cardinality(LoadGroup(kinds)) /\ i = NewUop(kinds, j).index
                     /\ r = Rank(LoadPositions, n)
  OBVIOUS
<1>2. /\ i \in LoadIndex /\ Lanes(in, FALSE, i) # {}
      /\ loadOccupancy <= Gap(loadBase, i, LoadQueueEntries)
  BY <1>1, FreshLoads DEF MemoryInv
<1>3. /\ r \in 0 .. loadOccupancy
      /\ i \in CommittedLoads(in) <=> Gap(loadBase, i, LoadQueueEntries) < r
  BY <1>1, <1>2, CommittedArc DEF MemoryInv
<1>4. Gap(loadBase, i, LoadQueueEntries) \in Nat /\ loadOccupancy \in Nat
  <2>1. /\ LoadQueueEntries \in Nat \ {0} /\ loadBase \in 0 .. LoadQueueEntries - 1
        /\ LoadIndex = 0 .. LoadQueueEntries - 1 /\ loadOccupancy \in Nat
    BY LoadNumbers DEF MemoryInv
  <2> QED
    BY <1>2, <2>1, GapForm
<1>5. i \notin CommittedLoads(in)
  BY <1>2, <1>3, <1>4
<1>6. ~loads[i].valid
  <2>1. loads[i].valid <=> Gap(loadBase, i, LoadQueueEntries) < loadOccupancy
    BY <1>2 DEF MemoryInv, LoadRingInv
  <2> QED
    BY <1>2, <1>4, <2>1
<1> QED
  BY <1>1, <1>2, <1>5, <1>6, LoadEdge DEF MemoryInv

LEMMA GroupStore ==
  ASSUME MemoryInv, NEW in, NEW n, NEW kinds, Offered(in, n, kinds), Cycle(in, n, kinds),
         ~in.flush, NEW j \in StoreGroup(kinds)
  PROVE  /\ StoreFresh(in, NewUop(kinds, j).index)
         /\ ~stores[NewUop(kinds, j).index].valid
<1>1. PICK c, d : StoreRing(c, d)
  BY DEF MemoryInv, StoreInv, StoreRingInv
<1>2. PICK m, i, o : m = Cardinality(StoreGroup(kinds)) /\ i = NewUop(kinds, j).index
                     /\ o = d + StoresInFlight
  OBVIOUS
<1>3. StoresHandedOut(in, kinds, o, m)
  BY <1>1, <1>2, FreshStores DEF MemoryInv
<1>4. i \in StoreIndex /\ Lanes(in, TRUE, i) # {} /\ o <= StoreGap(i)
  BY <1>2, <1>3 DEF StoresHandedOut
<1>5. StoreGap(i) \in Nat /\ o \in Nat
  BY <1>1, <1>3, <1>4, StoreNumbers DEF MemoryInv, StoresHandedOut
<1>6. stores[i].valid <=> StoreGap(i) < o
  BY <1>1, <1>2, <1>4 DEF StoreRing
<1>7. ~StoreFreed(i) /\ ~stores[i].valid
  BY <1>4, <1>5, <1>6, HeadForm DEF MemoryInv
<1> QED
  BY <1>2, <1>4, <1>7, StoreEdge DEF MemoryInv

LEMMA WindowEdge ==
  ASSUME MemoryInv, NEW in, NEW n, NEW kinds, Offered(in, n, kinds), Cycle(in, n, kinds),
         ~in.flush
  PROVE  /\ \A k : InWindow(k)' => Enters(in, n, k) \/ \E q : Follows(in, n, q, k)
         /\ \A q : InWindow(q) /\ n <= q => \E k : Follows(in, n, q, k)
<1>1. PICK left, m : left = Len(window) - n /\ m = Len(kinds)
  OBVIOUS
<1>2. WindowMoved(in, n, kinds, left, m)
  BY <1>1, WindowMoves DEF MemoryInv
<1>3. /\ n \in Nat /\ left \in Nat /\ m \in Nat
      /\ Len(window) = n + left /\ Len(window') = left + m
  BY <1>2 DEF WindowMoved
<1>4. ASSUME NEW k \in 0 .. left - 1, NEW q, q = n + k
      PROVE  Follows(in, n, q, k)
  <2>1. /\ InWindow(q) /\ Uop(k)'.kind = Uop(q).kind /\ Uop(k)'.index = Uop(q).index
        /\ Age(k)' = Age(q) /\ UopKept(in, q + 1, Uop(k)')
    BY <1>2, <1>4 DEF WindowMoved, InWindow
  <2>2. InWindow(k)'
    BY <1>3 DEF InWindow
  <2>3. ~(q < n)
    BY <1>3, <1>4
  <2>4. ASSUME q \in LoadPositions PROVE LoadKept(in, Uop(q).index)
    BY <2>3, <2>4, LoadLeaves, HeldLoads, LoadStays DEF LoadOf
  <2>5. ASSUME q \in StorePositions PROVE GoesOn(in, Uop(q).index)
    BY <2>5, HeldStores, StoreStays DEF StoreOf
  <2> QED
    BY <1>4, <2>1, <2>2, <2>4, <2>5 DEF Follows
<1>5. ASSUME NEW i \in 1 .. m, NEW k, k = left + i - 1
      PROVE  Enters(in, n, k)
  <2>1. Uop(k)' = NewUop(kinds, i) /\ InWindow(k)'
    BY <1>2, <1>3, <1>5 DEF WindowMoved, InWindow
  <2>2. /\ ~NewUop(kinds, i).issued /\ NewUop(kinds, i).accesses = 0
        /\ NewUop(kinds, i).kind = kinds[i]
        /\ NewUop(kinds, i).done = IF kinds[i] = "other" THEN "good"
                                   ELSE IF kinds[i] = "wrong" THEN "redirect" ELSE "no"
    BY <1>1, NewUopForm DEF MemoryInv
  <2>3. IsMemory(NewUop(kinds, i)) => NewUop(kinds, i).done = "no"
    BY <2>2 DEF IsMemory, IsLoad, IsStore
  <2>4. IsLoad(NewUop(kinds, i)) => /\ LoadFresh(in, NewUop(kinds, i).index)
                                    /\ ~loads[NewUop(kinds, i).index].valid
    <3>1. IsLoad(NewUop(kinds, i)) => i \in LoadGroup(kinds)
      BY <1>1, <2>2 DEF IsLoad, LoadGroup, LoadKinds
    <3> QED
      BY <3>1, GroupLoad
  <2>5. IsStore(NewUop(kinds, i)) => /\ StoreFresh(in, NewUop(kinds, i).index)
                                     /\ ~stores[NewUop(kinds, i).index].valid
    <3>1. IsStore(NewUop(kinds, i)) => i \in StoreGroup(kinds)
      BY <1>1, <2>2 DEF IsStore, StoreGroup, StoreKinds
    <3> QED
      BY <3>1, GroupStore
  <2>6. ASSUME NEW q, InWindow(q)
        PROVE  /\ IsOlder(Age(q), Age(k)') /\ ~IsOlder(Age(k)', Age(q)) /\ Age(q) # Age(k)'
    <3>1. /\ Len(window) + m <= RobEntries /\ Len(window) \in Nat /\ RobEntries \in Nat
      BY <1>1, GroupFits, Sizes DEF MemoryInv, MemoryTypeOK, WindowTypeOK
    <3>2. PICK x, y : x = q + 1 /\ y = Len(window) + i
      OBVIOUS
    <3>3. x \in 1 .. RobEntries /\ y \in 1 .. RobEntries /\ x < y /\ ~(y < x) /\ x # y
      BY <1>3, <1>5, <2>6, <3>1, <3>2 DEF InWindow
    <3>4. Age(q) = Pointer(x) /\ Age(k)' = Pointer(y)
      <4>1. Age(q) = Pointer(x)
        BY <3>2 DEF Age
      <4>2. Age(k)' = Pointer(y)
        BY <1>2, <1>5, <3>2 DEF WindowMoved
      <4> QED
        BY <4>1, <4>2
    <3>5. /\ IsOlder(Pointer(x), Pointer(y)) <=> x < y
          /\ IsOlder(Pointer(y), Pointer(x)) <=> y < x
          /\ Pointer(x) = Pointer(y) => x = y
      BY <3>3, PointerAge DEF MemoryInv
    <3> QED
      BY <3>3, <3>4, <3>5
  <2>7. Len(window) <= n + k
    BY <1>3, <1>5
  <2> QED
    BY <2>1, <2>2, <2>3, <2>4, <2>5, <2>6, <2>7 DEF Enters
<1>6. ASSUME NEW k, InWindow(k)'
      PROVE  Enters(in, n, k) \/ \E q : Follows(in, n, q, k)
  <2>1. k \in 0 .. left + m - 1
    BY <1>3, <1>6 DEF InWindow
  <2>2. CASE k < left
    <3>1. k \in 0 .. left - 1
      BY <1>3, <2>1, <2>2
    <3> QED
      BY <1>4, <3>1
  <2>3. CASE ~(k < left)
    <3>1. PICK i \in 1 .. m : k = left + i - 1
      BY <1>3, <2>1, <2>3
    <3> QED
      BY <1>5, <3>1
  <2> QED
    BY <2>2, <2>3
<1>7. ASSUME NEW q, InWindow(q), n <= q
      PROVE  \E k : Follows(in, n, q, k)
  <2>1. PICK k \in 0 .. left - 1 : q = n + k
    BY <1>3, <1>7 DEF InWindow
  <2> QED
    BY <1>4, <2>1
<1> QED
  BY <1>6, <1>7

(***************************************************************************)
(* What an access in flight has got, and what the queue owes it.               *)
(***************************************************************************)
AddressReady(k) ==
    IF k \in LoadPositions THEN LoadOf(k).addressReady ELSE StoreOf(k).addressReady
Complete(k) == IF k \in LoadPositions THEN LoadOf(k).completed ELSE StoreOf(k).completed
(* Complete for the queue: a misaligned access stays without an address.         *)
Finished(k) == Complete(k) \/ (Uop(k).issued /\ ~AddressReady(k))
OwedTo(k) == \E c \in Owed : c.robPointer = Age(k)

(* In which order a slot learns about its access.                              *)
LoadSlotInv ==
    \A i \in LoadIndex :
        LET s == loads[i]
        IN  /\ s.translationDone => s.addressReady
            /\ s.requestSent => s.translationDone
            /\ s.addressReady /\ ~s.translationDone => ~s.completed
            /\ s.addressReady => s.mask \in Masks
StoreSlotInv ==
    \A i \in StoreIndex :
        LET s == stores[i]
        IN  /\ s.completed => s.translationDone
            /\ s.committed => s.completed \/ s.requestSent
            /\ s.requestSent => ~s.isSc
            /\ s.translationDone /\ s.uncached => ~s.scSuccess
IssueInv ==
    \A k \in MemoryPositions :
        /\ ~Uop(k).issued => ~AddressReady(k) /\ ~Complete(k)
        /\ k \in LoadPositions /\ Finished(k) => Complete(k)
(* What is complete for the queue is so for the reorder buffer, or owed to it.   *)
DoneInv ==
    \A k \in MemoryPositions :
        /\ Finished(k) <=> Uop(k).done # "no" \/ OwedTo(k)
        /\ Uop(k).done # "no" => ~OwedTo(k)
        /\ Uop(k).done = "good" => Complete(k)
OwedInv ==
    /\ \A c \in Owed :
          /\ c.recoveryEpoch = recoveryEpoch
          /\ \E k \in MemoryPositions : Age(k) = c.robPointer /\ (~c.exception => Complete(k))
    /\ \A c \in aguException : c.exception
    /\ \A c, e \in completion : c = e
    /\ \A c, e \in aguException : c = e
    /\ \A c \in completion, e \in aguException : c.robPointer # e.robPointer

(* The registered copy of the scheduled load, as long as the load is there.      *)
Copies == scheduled.valid /\ LoadHead.valid /\ LoadHead.robPointer = Load.robPointer
CopyInv ==
    Copies =>
        /\ Load.recoveryEpoch = LoadHead.recoveryEpoch
        /\ LoadHead.addressReady /\ ~LoadHead.completed =>
              /\ Load.translationDone = LoadHead.translationDone
              /\ Load.word = LoadHead.word /\ Load.uncached = LoadHead.uncached
              /\ Load.mask = LoadHead.mask
(* No load before the scheduled one is pending.                               *)
ScheduleInv ==
    Copies => \A j, k \in LoadPositions :
                 j < k /\ Uop(k).index = scheduled.index =>
                     LoadOf(j).requestSent \/ LoadOf(j).completed
(* The load a translation is under way for is the scheduled one and waits.       *)
OwnerInv ==
    /\ translation.active => ~translationCancelPending
    /\ translation.active /\ translation.store =>
          OwnerStore.recoveryEpoch = translation.recoveryEpoch
    /\ translation.active /\ ~translation.store =>
          LET s == loads[translation.index]
          IN  /\ s.valid /\ s.addressReady /\ ~s.translationDone
              /\ s.robPointer = translation.robPointer
              /\ s.recoveryEpoch = translation.recoveryEpoch
              /\ scheduled.valid /\ scheduled.index = translation.index
              /\ Load.robPointer = translation.robPointer
(* A load waiting for the cache waits for nothing else, and no older store can    *)
(* forward to it.                                                            *)
Blocks(s, r) ==
    s.valid /\ IsOlder(s.robPointer, r.robPointer) =>
        /\ s.translationDone
        /\ ~(s.word = loads[r.index].word /\ loads[r.index].mask \subseteq s.mask)
BufferLoadInv ==
    \A r \in requestBuffer : ~r.isWrite =>
        LET s == loads[r.index]
        IN  /\ s.valid /\ s.robPointer = r.robPointer /\ s.translationDone
            /\ ~s.requestSent /\ ~s.completed
            /\ \A i \in StoreIndex : Blocks(stores[i], r)

CompletionInv ==
    /\ MemoryInv
    /\ LoadSlotInv /\ StoreSlotInv
    /\ IssueInv /\ DoneInv /\ OwedInv
    /\ CopyInv /\ ScheduleInv /\ OwnerInv /\ BufferLoadInv

(***************************************************************************)
(* What reaches an access at an edge: its address, or its completion.          *)
(***************************************************************************)
Located(in, q) == \E a \in in.agu : a.robPointer = Age(q) /\ ~a.misaligned
Misaligns(in, q) == \E a \in in.agu : a.robPointer = Age(q) /\ a.misaligned
Ends(in, q) ==
    LET i == Uop(q).index IN
    IF q \in LoadPositions
    THEN LoadDone(in, i) \/ \E t : LoadAnswered(in, i, t) /\ t.exception
    ELSE \/ i = storeHead /\ (StoreCompletionFire(in) \/ ResponseStoreAccepted(in))
         \/ StoreAnswering(in, i) /\ TranslationCompletes(in)

LEMMA AguAt ==
  ASSUME MemoryInv, NEW in, NEW n, NEW kinds, Offered(in, n, kinds), NEW a \in in.agu
  PROVE  /\ in.agu = {a} /\ AguReady(a, in.flush)
         /\ a.misaligned \in BOOLEAN /\ a.mask \in Masks
         /\ \E q \in MemoryPositions :
               /\ a.robPointer = Age(q) /\ a.index = Uop(q).index /\ ~Uop(q).issued
               /\ a.isWrite <=> q \in StorePositions
               /\ \A j \in MemoryPositions :
                     /\ a.robPointer = Age(j) => j = q
                     /\ j \in LoadPositions /\ ~a.isWrite /\ a.index = Uop(j).index => j = q
                     /\ j \in StorePositions /\ a.isWrite /\ a.index = Uop(j).index => j = q
<1>1. /\ in.agu = {a} /\ AguReady(a, in.flush)
      /\ \E k : Addressing(a, k)
  BY AguForm
<1>2. PICK x : Addressing(a, x)
  BY <1>1
<1>3. /\ window \in Seq(WindowUops) /\ Len(window) \in Nat /\ DOMAIN window = 1 .. Len(window)
      /\ Len(window) <= RobEntries
  BY DEF MemoryInv, MemoryTypeOK, WindowTypeOK
<1>4. PICK q \in 0 .. Len(window) - 1 : x = q + 1
  <2>1. x \in 1 .. Len(window)
    BY <1>2, <1>3 DEF Addressing
  <2> QED
    BY <1>3, <2>1
<1>5. /\ InWindow(q) /\ IsMemory(Uop(q)) /\ ~Uop(q).issued /\ a.index = Uop(q).index
      /\ a.robPointer = Age(q) /\ a.isWrite = IsStore(Uop(q))
      /\ a.mask \in Masks /\ a.misaligned \in BOOLEAN
  BY <1>2, <1>4 DEF Addressing, InWindow, Uop, Age
<1>6. q \in MemoryPositions /\ (a.isWrite <=> q \in StorePositions)
  BY <1>5, PositionForm
<1>7. ASSUME NEW j \in MemoryPositions
      PROVE  /\ a.robPointer = Age(j) => j = q
             /\ j \in LoadPositions /\ ~a.isWrite /\ a.index = Uop(j).index => j = q
             /\ j \in StorePositions /\ a.isWrite /\ a.index = Uop(j).index => j = q
  <2>1. /\ j \in 0 .. RobEntries - 1 /\ q \in 0 .. RobEntries - 1
    BY <1>5, PositionForm, InWindowForm DEF MemoryInv
  <2>2. a.robPointer = Age(j) => j = q
    BY <1>5, <2>1, Ages DEF MemoryInv
  <2>3. j \in LoadPositions /\ ~a.isWrite /\ a.index = Uop(j).index => j = q
    <3>1. \A i, k \in LoadPositions : Uop(i).index = Uop(k).index => i = k
      BY HeldLoads
    <3>2. ~a.isWrite => q \in LoadPositions
      BY <1>6 DEF MemoryPositions
    <3> QED
      BY <1>5, <3>1, <3>2
  <2>4. j \in StorePositions /\ a.isWrite /\ a.index = Uop(j).index => j = q
    <3>1. \A i, k \in StorePositions : Uop(i).index = Uop(k).index => i = k
      BY HeldStores
    <3> QED
      BY <1>5, <1>6, <3>1
  <2> QED
    BY <2>2, <2>3, <2>4
<1> QED
  BY <1>1, <1>5, <1>6, <1>7

LEMMA AguToLoad ==
  ASSUME MemoryInv, NEW in, NEW n, NEW kinds, Offered(in, n, kinds), NEW q \in LoadPositions
  PROVE  /\ Located(in, q) \/ Misaligns(in, q) <=> LoadAddressing(in, Uop(q).index)
         /\ LoadAddressing(in, Uop(q).index) => /\ ~Uop(q).issued /\ ~LoadOf(q).addressReady
                                                /\ Located(in, q) <=> ~Misaligns(in, q)
         /\ \A a \in in.agu : ~a.isWrite /\ a.index = Uop(q).index =>
               (Misaligns(in, q) <=> a.misaligned) /\ a.misaligned \in BOOLEAN
<1>1. q \in MemoryPositions /\ q \notin StorePositions
  BY PositionForm DEF MemoryPositions
<1>2. ASSUME NEW a \in in.agu
      PROVE  /\ in.agu = {a} /\ a.misaligned \in BOOLEAN
             /\ a.robPointer = Age(q) <=> ~a.isWrite /\ a.index = Uop(q).index
             /\ a.robPointer = Age(q) => ~Uop(q).issued /\ ~LoadOf(q).addressReady
  <2>1. /\ in.agu = {a} /\ AguReady(a, in.flush) /\ a.misaligned \in BOOLEAN
    BY AguAt
  <2>2. PICK j \in MemoryPositions :
           /\ a.robPointer = Age(j) /\ a.index = Uop(j).index /\ ~Uop(j).issued
           /\ a.isWrite <=> j \in StorePositions
           /\ \A k \in MemoryPositions :
                 /\ a.robPointer = Age(k) => k = j
                 /\ k \in LoadPositions /\ ~a.isWrite /\ a.index = Uop(k).index => k = j
    BY AguAt
  <2>3. a.robPointer = Age(q) <=> ~a.isWrite /\ a.index = Uop(q).index
    BY <1>1, <2>2
  <2>4. a.robPointer = Age(q) => ~Uop(q).issued
    BY <1>1, <2>2
  <2>5. ~a.isWrite /\ a.index = Uop(q).index => ~LoadOf(q).addressReady
    BY <2>1 DEF AguReady, AguTargetAvailable, LoadOf
  <2> QED
    BY <2>1, <2>3, <2>4, <2>5
<1> QED
  BY <1>2 DEF Located, Misaligns, LoadAddressing

LEMMA AguToStore ==
  ASSUME MemoryInv, NEW in, NEW n, NEW kinds, Offered(in, n, kinds), NEW q \in StorePositions
  PROVE  /\ Located(in, q) \/ Misaligns(in, q) <=> StoreAddressing(in, Uop(q).index)
         /\ StoreAddressing(in, Uop(q).index) => /\ ~Uop(q).issued /\ ~StoreOf(q).addressReady
                                                 /\ Located(in, q) <=> ~Misaligns(in, q)
         /\ \A a \in in.agu : a.isWrite /\ a.index = Uop(q).index =>
               (Misaligns(in, q) <=> a.misaligned) /\ a.misaligned \in BOOLEAN
<1>1. q \in MemoryPositions
  BY DEF MemoryPositions
<1>2. ASSUME NEW a \in in.agu
      PROVE  /\ in.agu = {a} /\ a.misaligned \in BOOLEAN
             /\ a.robPointer = Age(q) <=> a.isWrite /\ a.index = Uop(q).index
             /\ a.robPointer = Age(q) => ~Uop(q).issued /\ ~StoreOf(q).addressReady
  <2>1. /\ in.agu = {a} /\ AguReady(a, in.flush) /\ a.misaligned \in BOOLEAN
    BY AguAt
  <2>2. PICK j \in MemoryPositions :
           /\ a.robPointer = Age(j) /\ a.index = Uop(j).index /\ ~Uop(j).issued
           /\ a.isWrite <=> j \in StorePositions
           /\ \A k \in MemoryPositions :
                 /\ a.robPointer = Age(k) => k = j
                 /\ k \in StorePositions /\ a.isWrite /\ a.index = Uop(k).index => k = j
    BY AguAt
  <2>3. a.robPointer = Age(q) <=> a.isWrite /\ a.index = Uop(q).index
    BY <1>1, <2>2
  <2>4. a.robPointer = Age(q) => ~Uop(q).issued
    BY <1>1, <2>2
  <2>5. a.isWrite /\ a.index = Uop(q).index => ~StoreOf(q).addressReady
    BY <2>1 DEF AguReady, AguTargetAvailable, StoreOf
  <2> QED
    BY <2>1, <2>3, <2>4, <2>5
<1> QED
  BY <1>2 DEF Located, Misaligns, StoreAddressing

(* Without a flush the head store that has not retired is in the window.         *)
LEMMA HeadIsAt ==
  ASSUME MemoryInv, NEW in, NEW n, NEW kinds, Offered(in, n, kinds), ~in.flush,
         HeadStore.valid, ~HeadStore.committed
  PROVE  \E k \in StorePositions : Uop(k).index = storeHead /\ StoreOf(k) = HeadStore
<1>1. storeHead \in StoreIndex
  BY DEF MemoryInv, MemoryTypeOK, QueueTypeOK
<1>2. ~redirectPending
  BY NoFlushPending
<1>3. PICK k \in StorePositions : Uop(k).index = storeHead
  BY <1>1, <1>2, HeldStores DEF HeadStore
<1> QED
  BY <1>3 DEF StoreOf, HeadStore

(* An answer that completes its owner has the completion to itself.             *)
LEMMA AnswerAlone ==
  ASSUME CompletionInv, NEW in, NEW n, NEW kinds, Offered(in, n, kinds),
         TranslationCompletes(in)
  PROVE  /\ translation.active /\ ~in.flush
         /\ \E t \in in.translation :
               /\ in.translation = {t} /\ Translated(in) = {t}
               /\ TranslationProducesCompletion(t) /\ ~t.cancelled
               /\ t.exception \in BOOLEAN
         /\ in.response = {} /\ ~ForwardCandidate /\ ~StoreCompletionCandidate
<1>1. PICK t \in Translated(in) : TranslationProducesCompletion(t)
  BY DEF TranslationCompletes
<1>2. translation.active /\ ~in.flush /\ t \in in.translation /\ Translated(in) = {t}
  BY <1>1, TranslatedForm
<1>3. in.translation = {t} /\ TranslationResponseReady(in, t) /\ t.exception \in BOOLEAN
  BY <1>2, AnswerForm
<1>4. ~BaseCompletionBusy(in)
  BY <1>1, <1>2, <1>3 DEF TranslationResponseReady, CompletionInv, OwnerInv
<1>5. ~t.cancelled
  BY <1>1 DEF TranslationProducesCompletion
<1> QED
  BY <1>1, <1>2, <1>3, <1>4, <1>5 DEF BaseCompletionBusy

(* The owner of a translation is in the window, untranslated.                  *)
LEMMA OwnerAt ==
  ASSUME CompletionInv, NEW in, NEW n, NEW kinds, Offered(in, n, kinds), ~in.flush,
         translation.active
  PROVE  \E q \in MemoryPositions :
            /\ q \in StorePositions <=> translation.store
            /\ Uop(q).index = translation.index /\ Age(q) = translation.robPointer
            /\ translation.recoveryEpoch = recoveryEpoch
            /\ AddressReady(q) /\ ~Complete(q)
<1>1. CASE translation.store
  <2>1. PICK i : i = translation.index
    OBVIOUS
  <2>2. /\ i \in StoreIndex /\ stores[i].valid /\ stores[i].addressReady
        /\ ~stores[i].translationDone /\ stores[i].robPointer = translation.robPointer
        /\ stores[i].recoveryEpoch = translation.recoveryEpoch
    BY <1>1, <2>1 DEF CompletionInv, MemoryInv, MemoryTypeOK, QueueTypeOK, StoreInv,
       OwnerStoreInv, OwnerStore, OwnerInv
  <2>3. ~stores[i].completed
    BY <2>2 DEF CompletionInv, StoreSlotInv
  <2>4. ~stores[i].requestSent
    BY <2>2 DEF CompletionInv, MemoryInv, StoreInv, SentInv
  <2>5. ~stores[i].committed
    BY <2>2, <2>3, <2>4 DEF CompletionInv, StoreSlotInv
  <2>6. ~redirectPending
    BY NoFlushPending
  <2>7. PICK q \in StorePositions : Uop(q).index = i
    BY <2>2, <2>5, <2>6, HeldStores DEF CompletionInv
  <2>8. StoreOf(q) = stores[i] /\ q \notin LoadPositions
    BY <2>7, PositionForm DEF StoreOf
  <2>9. Age(q) = translation.robPointer /\ translation.recoveryEpoch = recoveryEpoch
    BY <2>2, <2>8, HeldStores DEF CompletionInv
  <2> QED
    BY <1>1, <2>1, <2>2, <2>3, <2>7, <2>8, <2>9 DEF MemoryPositions, AddressReady, Complete
<1>2. CASE ~translation.store
  <2>1. PICK i : i = translation.index
    OBVIOUS
  <2>2. i \in LoadIndex
    BY <1>2, <2>1 DEF CompletionInv, MemoryInv, MemoryTypeOK, QueueTypeOK
  <2>3. /\ loads[i].valid /\ loads[i].addressReady /\ ~loads[i].translationDone
        /\ loads[i].robPointer = translation.robPointer
        /\ loads[i].recoveryEpoch = translation.recoveryEpoch
    BY <1>2, <2>1 DEF CompletionInv, OwnerInv
  <2>4. ~loads[i].completed
    BY <2>2, <2>3 DEF CompletionInv, LoadSlotInv
  <2>5. PICK q \in LoadPositions : Uop(q).index = i
    BY <2>2, <2>3, HeldLoads DEF CompletionInv
  <2>6. LoadOf(q) = loads[i] /\ q \notin StorePositions
    BY <2>5, PositionForm DEF LoadOf
  <2>7. Age(q) = translation.robPointer /\ translation.recoveryEpoch = recoveryEpoch
    BY <2>3, <2>6, HeldLoads DEF CompletionInv
  <2> QED
    BY <1>2, <2>1, <2>3, <2>4, <2>5, <2>6, <2>7 DEF MemoryPositions, AddressReady, Complete
<1> QED
  BY <1>1, <1>2

LEMMA EndsForm ==
  ASSUME CompletionInv, NEW in, NEW n, NEW kinds, Offered(in, n, kinds), ~in.flush,
         NEW q \in MemoryPositions, Ends(in, q)
  PROVE  AddressReady(q) /\ ~Complete(q)
<1> DEFINE i == Uop(q).index
<1>1. ASSUME q \in LoadPositions, LoadDone(in, i)
      PROVE  LoadOf(q).addressReady /\ ~LoadOf(q).completed
  <2>1. i \in LoadIndex /\ LoadOf(q) = loads[i]
    BY <1>1, HeldLoads DEF CompletionInv, LoadOf
  <2>2. CASE i \in ResponseLoad(in)
    <3>1. loads[i].requestSent /\ ~loads[i].completed
      BY <2>2 DEF ResponseLoad
    <3> QED
      BY <2>1, <3>1 DEF CompletionInv, LoadSlotInv
  <2>3. CASE ForwardFire(in) /\ i = scheduled.index
    BY <2>1, <2>3 DEF ForwardFire, ForwardCandidate, LoadHeadReady, LoadHead
  <2> QED
    BY <1>1, <2>2, <2>3 DEF LoadDone
<1>2. ASSUME q \in LoadPositions, NEW t, LoadAnswered(in, i, t)
      PROVE  LoadOf(q).addressReady /\ ~LoadOf(q).completed
  <2>1. translation.active /\ ~translation.store /\ translation.index = i
    BY <1>2, TranslatedForm DEF LoadAnswered
  <2>2. PICK j \in MemoryPositions :
           /\ j \in StorePositions <=> translation.store
           /\ Uop(j).index = translation.index /\ AddressReady(j) /\ ~Complete(j)
    BY <2>1, OwnerAt
  <2>3. j \in LoadPositions
    BY <2>1, <2>2 DEF MemoryPositions
  <2>4. j = q
    BY <1>2, <2>1, <2>2, <2>3, HeldLoads DEF CompletionInv
  <2> QED
    BY <1>2, <2>2, <2>4 DEF AddressReady, Complete
<1>3. ASSUME q \in StorePositions, i = storeHead, StoreCompletionFire(in) \/ ResponseStoreAccepted(in)
      PROVE  StoreOf(q).addressReady /\ ~StoreOf(q).completed
  <2>1. storeHead \in StoreIndex /\ StoreOf(q) = HeadStore
    BY <1>3 DEF CompletionInv, MemoryInv, MemoryTypeOK, QueueTypeOK, StoreOf, HeadStore
  <2>2. CASE StoreCompletionFire(in)
    BY <2>1, <2>2 DEF StoreCompletionFire, StoreCompletionCandidate
  <2>3. CASE ResponseStoreAccepted(in)
    <3>1. HeadStore.requestSent /\ ~HeadStore.completed
      BY <2>3 DEF ResponseStoreAccepted
    <3>2. HeadStore.addressReady
      BY <2>1, <3>1 DEF CompletionInv, MemoryInv, StoreInv, SentInv, HeadStore
    <3> QED
      BY <2>1, <3>1, <3>2
  <2> QED
    BY <1>3, <2>2, <2>3
<1>4. ASSUME q \in StorePositions, StoreAnswering(in, i)
      PROVE  StoreOf(q).addressReady /\ ~StoreOf(q).completed
  <2>1. i \in StoreIndex /\ StoreOf(q) = stores[i]
    BY <1>4, HeldStores DEF CompletionInv, StoreOf
  <2>2. stores[i].addressReady /\ ~stores[i].translationDone
    BY <1>4, <2>1, AnsweredOnce DEF CompletionInv, MemoryInv
  <2> QED
    BY <2>1, <2>2 DEF CompletionInv, StoreSlotInv
<1>5. q \in StorePositions => q \notin LoadPositions
  BY PositionForm
<1>6. CASE q \in LoadPositions
  BY <1>1, <1>2, <1>6 DEF Ends, AddressReady, Complete
<1>7. CASE q \in StorePositions
  BY <1>3, <1>4, <1>5, <1>7 DEF Ends, AddressReady, Complete
<1> QED
  BY <1>6, <1>7 DEF MemoryPositions

(* The completion of a cycle, case by case.                                    *)
LEMMA GeneratedCases ==
  ASSUME NEW in, NEW c
  PROVE  /\ \A r : ResponseStoreAccepted(in) /\ ~HeadStore.committed /\ in.response = {r}
                   /\ c = Completion(HeadStore, r.error) => GeneratedCompletion(in) = {c}
         /\ \A i, r : ~(ResponseStoreAccepted(in) /\ ~HeadStore.committed)
                      /\ ResponseLoad(in) = {i} /\ in.response = {r}
                      /\ c = Completion(loads[i], r.error) => GeneratedCompletion(in) = {c}
         /\ in.response = {} /\ ForwardFire(in) /\ c = Completion(Load, FALSE)
               => GeneratedCompletion(in) = {c}
         /\ StoreCompletionFire(in) /\ c = Completion(HeadStore, FALSE)
               => GeneratedCompletion(in) = {c}
         /\ \A t : in.response = {} /\ ~ForwardCandidate /\ ~StoreCompletionCandidate
                   /\ TranslationCompletes(in) /\ in.translation = {t}
                   /\ c = Completion(translation, t.exception) => GeneratedCompletion(in) = {c}
<1>1. in.response = {} => ResponseLoad(in) = {} /\ ~ResponseStoreAccepted(in)
  BY DEF ResponseLoad, ResponseStoreAccepted
<1>2. ASSUME NEW r, ResponseStoreAccepted(in), ~HeadStore.committed, in.response = {r},
             c = Completion(HeadStore, r.error)
      PROVE  GeneratedCompletion(in) = {c}
  <2>1. {Completion(HeadStore, x.error) : x \in in.response} = {c}
    <3> HIDE DEF Completion
    <3> QED
      BY <1>2
  <2> QED
    BY <1>2, <2>1 DEF GeneratedCompletion
<1>3. ASSUME NEW i, NEW r, ~(ResponseStoreAccepted(in) /\ ~HeadStore.committed),
             ResponseLoad(in) = {i}, in.response = {r}, c = Completion(loads[i], r.error)
      PROVE  GeneratedCompletion(in) = {c}
  <2>1. {Completion(loads[j], x.error) : j \in ResponseLoad(in), x \in in.response} = {c}
    <3> HIDE DEF Completion
    <3> QED
      BY <1>3
  <2> QED
    BY <1>3, <2>1 DEF GeneratedCompletion
<1>4. ASSUME in.response = {}, ForwardFire(in), c = Completion(Load, FALSE)
      PROVE  GeneratedCompletion(in) = {c}
  <2>1. ResponseLoad(in) = {} /\ ~ResponseStoreAccepted(in)
    BY <1>1, <1>4
  <2>3. PICK x : x = {Completion(Load, FALSE)}
    OBVIOUS
  <2>4. GeneratedCompletion(in) = x
    BY <1>4, <2>1, <2>3 DEF GeneratedCompletion, Completion
  <2> QED
    BY <1>4, <2>3, <2>4, Zenon
<1>5. ASSUME StoreCompletionFire(in), c = Completion(HeadStore, FALSE)
      PROVE  GeneratedCompletion(in) = {c}
  <2>1. ResponseLoad(in) = {} /\ ~ResponseStoreAccepted(in) /\ ~ForwardFire(in)
    BY <1>1, <1>5 DEF StoreCompletionFire, ForwardFire
  <2>3. PICK x : x = {Completion(HeadStore, FALSE)}
    OBVIOUS
  <2>4. GeneratedCompletion(in) = x
    BY <1>5, <2>1, <2>3 DEF GeneratedCompletion, Completion
  <2> QED
    BY <1>5, <2>3, <2>4, Zenon
<1>6. ASSUME NEW t, in.response = {}, ~ForwardCandidate, ~StoreCompletionCandidate,
             TranslationCompletes(in), in.translation = {t},
             c = Completion(translation, t.exception)
      PROVE  GeneratedCompletion(in) = {c}
  <2>1. {Completion(translation, x.exception) : x \in in.translation} = {c}
    <3> HIDE DEF Completion
    <3> QED
      BY <1>6
  <2>2. ResponseLoad(in) = {} /\ ~ResponseStoreAccepted(in)
    BY <1>1, <1>6
  <2>3. ~ForwardFire(in) /\ ~StoreCompletionFire(in)
    BY <1>6 DEF StoreCompletionFire, ForwardFire
  <2>4. PICK x : x = {Completion(translation, y.exception) : y \in in.translation}
    OBVIOUS
  <2>5. GeneratedCompletion(in) = x
    BY <1>6, <2>2, <2>3, <2>4 DEF GeneratedCompletion, Completion
  <2> QED
    BY <2>1, <2>4, <2>5, Zenon
<1> QED
  BY <1>2, <1>3, <1>4, <1>5, <1>6

Generates(in, q) ==
    /\ ~AguExceptionReady(in)
    /\ \E c : /\ GeneratedCompletion(in) = {c}
              /\ c.robPointer = Age(q) /\ c.recoveryEpoch = recoveryEpoch

(* An access that ends at an edge has the completion of that cycle.             *)
LEMMA EndsGenerates ==
  ASSUME CompletionInv, NEW in, NEW n, NEW kinds, Offered(in, n, kinds), ~in.flush,
         NEW q \in MemoryPositions, Ends(in, q)
  PROVE  Generates(in, q)
<1> DEFINE i == Uop(q).index
<1>0. q \in 0 .. RobEntries - 1 /\ MemoryTypeOK
  BY PositionForm, InWindowForm DEF CompletionInv, MemoryInv
<1>1. ASSUME q \in LoadPositions, i \in ResponseLoad(in)
      PROVE  Generates(in, q)
  <2>1. /\ i \in LoadIndex /\ loads[i].robPointer = Age(q)
        /\ loads[i].recoveryEpoch = recoveryEpoch
    BY <1>1, HeldLoads DEF CompletionInv, LoadOf
  <2>2. PICK r \in in.response : loads[i].robPointer = r.robPointer
    BY <1>1 DEF ResponseLoad
  <2>3. in.response = {r}
    BY <2>2, ResponseForm
  <2>4. ~(ResponseStoreAccepted(in) /\ ~HeadStore.committed)
    <3> SUFFICES ASSUME ResponseStoreAccepted(in), ~HeadStore.committed PROVE FALSE
      OBVIOUS
    <3>1. HeadStore.valid /\ HeadStore.robPointer = r.robPointer
      BY <2>3 DEF ResponseStoreAccepted
    <3>2. PICK k \in StorePositions : StoreOf(k) = HeadStore
      BY <3>1, HeadIsAt DEF CompletionInv
    <3>3. Age(k) = Age(q)
      BY <2>1, <2>2, <3>1, <3>2, HeldStores DEF CompletionInv
    <3>4. k \in 0 .. RobEntries - 1
      BY <1>0, <3>2, PositionForm, InWindowForm
    <3>5. k = q
      BY <1>0, <3>3, <3>4, Ages
    <3> QED
      BY <1>1, <3>2, <3>5, PositionForm
  <2>5. ResponseLoad(in) = {i}
    <3> SUFFICES ASSUME NEW j \in ResponseLoad(in) PROVE j = i
      BY <1>1
    <3>1. j \in LoadIndex /\ loads[j].valid /\ loads[j].robPointer = r.robPointer
      BY <2>3 DEF ResponseLoad
    <3>2. PICK k \in LoadPositions : Uop(k).index = j
      BY <3>1, HeldLoads DEF CompletionInv
    <3>3. Age(k) = Age(q)
      BY <2>1, <2>2, <3>1, <3>2, HeldLoads DEF CompletionInv, LoadOf
    <3>4. k \in 0 .. RobEntries - 1
      BY <1>0, <3>2, PositionForm, InWindowForm
    <3>5. k = q
      BY <1>0, <3>3, <3>4, Ages
    <3> QED
      BY <3>2, <3>5
  <2>6. PICK c : c = Completion(loads[i], r.error)
    OBVIOUS
  <2>7. GeneratedCompletion(in) = {c}
    <3>1. PICK x : x = i
      OBVIOUS
    <3>2. ResponseLoad(in) = {x} /\ c = Completion(loads[x], r.error)
      BY <2>5, <2>6, <3>1
    <3>3. \A j, y : ~(ResponseStoreAccepted(in) /\ ~HeadStore.committed)
                   /\ ResponseLoad(in) = {j} /\ in.response = {y}
                   /\ c = Completion(loads[j], y.error) => GeneratedCompletion(in) = {c}
      BY GeneratedCases
    <3> HIDE DEF i
    <3> QED
      BY <2>3, <2>4, <3>2, <3>3
  <2>8. c.robPointer = Age(q) /\ c.recoveryEpoch = recoveryEpoch
    BY <2>1, <2>6 DEF Completion
  <2>9. ~AguExceptionReady(in)
    BY <2>3 DEF AguExceptionReady, BaseCompletionBusy
  <2> QED
    BY <2>7, <2>8, <2>9 DEF Generates
<1>2. ASSUME q \in LoadPositions, ForwardFire(in), i = scheduled.index
      PROVE  Generates(in, q)
  <2>1. /\ LoadHead.robPointer = Age(q) /\ LoadHead.recoveryEpoch = recoveryEpoch
    BY <1>2, HeldLoads DEF CompletionInv, LoadOf, LoadHead
  <2>2. in.response = {} /\ ForwardCandidate /\ Copies
    BY <1>2 DEF ForwardFire, ForwardCandidate, LoadHeadReady, Copies
  <2>3. Load.robPointer = Age(q) /\ Load.recoveryEpoch = recoveryEpoch
    BY <2>1, <2>2 DEF Copies, CompletionInv, CopyInv
  <2>4. PICK c : c = Completion(Load, FALSE)
    OBVIOUS
  <2>5. GeneratedCompletion(in) = {c}
    BY <1>2, <2>2, <2>4, GeneratedCases
  <2>6. c.robPointer = Age(q) /\ c.recoveryEpoch = recoveryEpoch
    BY <2>3, <2>4 DEF Completion
  <2>7. ~AguExceptionReady(in)
    BY <2>2 DEF AguExceptionReady, BaseCompletionBusy
  <2> QED
    BY <2>5, <2>6, <2>7 DEF Generates
<1>3. ASSUME q \in StorePositions, i = storeHead,
             StoreCompletionFire(in) \/ ResponseStoreAccepted(in)
      PROVE  Generates(in, q)
  <2>1. /\ StoreOf(q) = HeadStore /\ ~HeadStore.committed
        /\ HeadStore.robPointer = Age(q) /\ HeadStore.recoveryEpoch = recoveryEpoch
    BY <1>3, HeldStores DEF CompletionInv, StoreOf, HeadStore
  <2>2. CASE StoreCompletionFire(in)
    <3>1. PICK c : c = Completion(HeadStore, FALSE)
      OBVIOUS
    <3>2. GeneratedCompletion(in) = {c}
      BY <2>2, <3>1, GeneratedCases
    <3>3. c.robPointer = Age(q) /\ c.recoveryEpoch = recoveryEpoch
      BY <2>1, <3>1 DEF Completion
    <3>4. ~AguExceptionReady(in)
      BY <2>2 DEF StoreCompletionFire, AguExceptionReady, BaseCompletionBusy
    <3> QED
      BY <3>2, <3>3, <3>4 DEF Generates
  <2>3. CASE ResponseStoreAccepted(in)
    <3>1. PICK r \in in.response : in.response = {r}
      BY <2>3, ResponseForm DEF ResponseStoreAccepted
    <3>2. PICK c : c = Completion(HeadStore, r.error)
      OBVIOUS
    <3>3. GeneratedCompletion(in) = {c}
      BY <2>1, <2>3, <3>1, <3>2, GeneratedCases
    <3>4. c.robPointer = Age(q) /\ c.recoveryEpoch = recoveryEpoch
      BY <2>1, <3>2 DEF Completion
    <3>5. ~AguExceptionReady(in)
      BY <3>1 DEF AguExceptionReady, BaseCompletionBusy
    <3> QED
      BY <3>3, <3>4, <3>5 DEF Generates
  <2> QED
    BY <1>3, <2>2, <2>3
<1>4. ASSUME TranslationCompletes(in), i = translation.index,
             translation.store <=> q \in StorePositions
      PROVE  Generates(in, q)
  <2>1. /\ translation.active /\ in.response = {}
        /\ ~ForwardCandidate /\ ~StoreCompletionCandidate
        /\ \E t \in in.translation : in.translation = {t}
    BY <1>4, AnswerAlone
  <2>2. PICK t \in in.translation : in.translation = {t}
    BY <2>1
  <2>3. PICK j \in MemoryPositions :
           /\ j \in StorePositions <=> translation.store
           /\ Uop(j).index = translation.index /\ Age(j) = translation.robPointer
           /\ translation.recoveryEpoch = recoveryEpoch
    BY <2>1, OwnerAt
  <2>4. j = q
    BY <1>4, <2>3, HeldLoads, HeldStores DEF CompletionInv, MemoryPositions
  <2>5. PICK c : c = Completion(translation, t.exception)
    OBVIOUS
  <2>6. GeneratedCompletion(in) = {c}
    BY <1>4, <2>1, <2>2, <2>5, GeneratedCases
  <2>7. c.robPointer = Age(q) /\ c.recoveryEpoch = recoveryEpoch
    BY <2>3, <2>4, <2>5 DEF Completion
  <2>8. ~AguExceptionReady(in)
    BY <1>4 DEF AguExceptionReady
  <2> QED
    BY <2>6, <2>7, <2>8 DEF Generates
<1>5. CASE q \in LoadPositions
  <2>1. q \notin StorePositions
    BY <1>5, PositionForm
  <2>2. ASSUME NEW t, LoadAnswered(in, i, t), t.exception
        PROVE  TranslationCompletes(in) /\ i = translation.index /\ ~translation.store
    BY <2>2 DEF LoadAnswered, TranslationCompletes, TranslationProducesCompletion
  <2> QED
    BY <1>1, <1>2, <1>4, <1>5, <2>1, <2>2 DEF Ends, LoadDone
<1>6. CASE q \in StorePositions
  <2>1. q \notin LoadPositions
    BY <1>6, PositionForm
  <2>2. StoreAnswering(in, i) => i = translation.index /\ translation.store
    BY DEF StoreAnswering, StoreAnswered
  <2> QED
    BY <1>3, <1>4, <1>6, <2>1, <2>2 DEF Ends
<1> QED
  BY <1>5, <1>6 DEF MemoryPositions

(* Where nothing ends, a misalignment that waited may complete.                *)
LEMMA NothingEnds ==
  ASSUME CompletionInv, NEW in, NEW n, NEW kinds, Offered(in, n, kinds), ~in.flush,
         \A q \in MemoryPositions : ~Ends(in, q)
  PROVE  /\ AguExceptionReady(in) => GeneratedCompletion(in) = aguException
         /\ ~AguExceptionReady(in) => GeneratedCompletion(in) = {}
         /\ ~StoreCompletionFire(in) /\ ~TranslationCompletes(in)
<1>1. ~(ResponseStoreAccepted(in) /\ ~HeadStore.committed)
  <2> SUFFICES ASSUME ResponseStoreAccepted(in), ~HeadStore.committed PROVE FALSE
    OBVIOUS
  <2>1. HeadStore.valid
    BY DEF ResponseStoreAccepted
  <2>2. PICK k \in StorePositions : Uop(k).index = storeHead
    BY <2>1, HeadIsAt DEF CompletionInv
  <2>3. Ends(in, k) /\ k \in MemoryPositions
    BY <2>2, PositionForm DEF Ends, MemoryPositions
  <2> QED
    BY <2>3
<1>2. ResponseLoad(in) = {}
  <2> SUFFICES ASSUME NEW i \in ResponseLoad(in) PROVE FALSE
    OBVIOUS
  <2>1. i \in LoadIndex /\ loads[i].valid
    BY DEF ResponseLoad
  <2>2. PICK k \in LoadPositions : Uop(k).index = i
    BY <2>1, HeldLoads DEF CompletionInv
  <2>3. Ends(in, k) /\ k \in MemoryPositions
    BY <2>2 DEF Ends, MemoryPositions, LoadDone
  <2> QED
    BY <2>3
<1>3. ~ForwardFire(in)
  <2> SUFFICES ASSUME ForwardFire(in) PROVE FALSE
    OBVIOUS
  <2>1. LoadHead.valid /\ scheduled.index \in LoadIndex
    BY DEF ForwardFire, ForwardCandidate, LoadHeadReady, CompletionInv, MemoryInv,
       MemoryTypeOK, QueueTypeOK, Scheduled
  <2>2. PICK k \in LoadPositions : Uop(k).index = scheduled.index
    BY <2>1, HeldLoads DEF CompletionInv, LoadHead
  <2>3. Ends(in, k) /\ k \in MemoryPositions
    BY <2>2 DEF Ends, MemoryPositions, LoadDone
  <2> QED
    BY <2>3
<1>4. ~StoreCompletionFire(in)
  <2> SUFFICES ASSUME StoreCompletionFire(in) PROVE FALSE
    OBVIOUS
  <2>1. /\ HeadStore.valid /\ ~HeadStore.completed /\ storeHead \in StoreIndex
        /\ ~HeadStore.uncached \/ HeadStore.isSc
    BY DEF StoreCompletionFire, StoreCompletionCandidate, CompletionInv, MemoryInv,
       MemoryTypeOK, QueueTypeOK
  <2>2. ~HeadStore.requestSent
    BY <2>1 DEF CompletionInv, MemoryInv, StoreInv, SentInv, StoreSlotInv, HeadStore
  <2>3. ~HeadStore.committed
    BY <2>1, <2>2 DEF CompletionInv, StoreSlotInv, HeadStore
  <2>4. PICK k \in StorePositions : Uop(k).index = storeHead
    BY <2>1, <2>3, HeadIsAt DEF CompletionInv
  <2>5. Ends(in, k) /\ k \in MemoryPositions
    BY <2>4, PositionForm DEF Ends, MemoryPositions
  <2> QED
    BY <2>5
<1>5. ~TranslationCompletes(in)
  <2> SUFFICES ASSUME TranslationCompletes(in) PROVE FALSE
    OBVIOUS
  <2>1. /\ translation.active
        /\ \E t \in in.translation :
               /\ Translated(in) = {t} /\ TranslationProducesCompletion(t) /\ ~t.cancelled
    BY AnswerAlone
  <2>2. PICK t : t \in Translated(in) /\ TranslationProducesCompletion(t) /\ ~t.cancelled
    BY <2>1
  <2>3. PICK q \in MemoryPositions :
            /\ q \in StorePositions <=> translation.store
            /\ Uop(q).index = translation.index /\ Age(q) = translation.robPointer
    BY <2>1, OwnerAt
  <2>4. CASE translation.store
    <3>1. q \in StorePositions /\ q \notin LoadPositions
      BY <2>3, <2>4, PositionForm
    <3>2. StoreOf(q).valid /\ StoreOf(q).robPointer = Age(q)
      BY <3>1, HeldStores DEF CompletionInv
    <3>3. StoreAnswered(in, Uop(q).index, t)
      BY <2>2, <2>3, <2>4, <3>2 DEF StoreAnswered, StoreOf
    <3> QED
      BY <3>1, <3>3 DEF Ends, StoreAnswering
  <2>5. CASE ~translation.store
    <3>1. q \in LoadPositions
      BY <2>3, <2>5 DEF MemoryPositions
    <3>2. LoadOf(q).valid /\ LoadOf(q).robPointer = Age(q)
      BY <3>1, HeldLoads DEF CompletionInv
    <3>3. LoadAnswered(in, Uop(q).index, t)
      BY <2>2, <2>3, <2>5, <3>2 DEF LoadAnswered, LoadOf
    <3>4. t.exception
      BY <2>2, <2>5 DEF TranslationProducesCompletion
    <3> QED
      BY <3>1, <3>3, <3>4 DEF Ends
  <2> QED
    BY <2>4, <2>5
<1> QED
  BY <1>1, <1>2, <1>3, <1>4, <1>5 DEF GeneratedCompletion

(***************************************************************************)
(* An access that stays in the window at an edge.                            *)
(***************************************************************************)
LEMMA LoadFollows ==
  ASSUME CompletionInv, NEW in, NEW n, NEW kinds, Offered(in, n, kinds), ~in.flush,
         NEW q \in LoadPositions, LoadKept(in, Uop(q).index)
  PROVE  LET r == loads'[Uop(q).index] IN
         /\ r.addressReady <=> LoadOf(q).addressReady \/ Located(in, q)
         /\ r.completed <=> LoadOf(q).completed \/ Ends(in, q) \/ Misaligns(in, q)
<1> DEFINE i == Uop(q).index
           s == loads[i]
           r == loads'[i]
<1>1. /\ i \in LoadIndex /\ LoadOf(q) = s /\ q \in MemoryPositions
      /\ s.addressReady \in BOOLEAN /\ s.completed \in BOOLEAN
  <2>1. i \in LoadIndex /\ LoadOf(q) = s /\ q \in MemoryPositions
    BY HeldLoads DEF CompletionInv, LoadOf, MemoryPositions
  <2>2. s \in LoadEntries
    BY <2>1 DEF CompletionInv, MemoryInv, MemoryTypeOK, SlotsTypeOK
  <2> QED
    BY <2>1, <2>2 DEF LoadEntries
<1>2. /\ Located(in, q) \/ Misaligns(in, q) <=> LoadAddressing(in, i)
      /\ LoadAddressing(in, i) => /\ ~Uop(q).issued /\ ~s.addressReady
                                  /\ Located(in, q) <=> ~Misaligns(in, q)
      /\ \A a \in in.agu : ~a.isWrite /\ a.index = i =>
            (Misaligns(in, q) <=> a.misaligned) /\ a.misaligned \in BOOLEAN
  BY <1>1, AguToLoad DEF CompletionInv
<1>3. LoadAddressing(in, i) => ~s.completed
  BY <1>1, <1>2, PositionForm DEF CompletionInv, IssueInv, Complete
<1>4. r.addressReady <=> s.addressReady \/ Located(in, q)
  <2>1. CASE LoadAddressing(in, i)
    <3>1. PICK a \in in.agu : ~a.isWrite /\ a.index = i
      BY <2>1 DEF LoadAddressing
    <3>2. r.addressReady = ~a.misaligned
      BY <3>1 DEF LoadKept
    <3>3. (Misaligns(in, q) <=> a.misaligned) /\ a.misaligned \in BOOLEAN
      BY <1>2, <3>1
    <3> QED
      BY <1>1, <1>2, <2>1, <3>2, <3>3
  <2>2. CASE ~LoadAddressing(in, i)
    <3>1. r.addressReady = s.addressReady
      BY <2>2 DEF LoadKept
    <3> QED
      BY <1>1, <1>2, <2>2, <3>1
  <2> QED
    BY <2>1, <2>2
<1>5. Ends(in, q) <=> LoadDone(in, i) \/ \E t : LoadAnswered(in, i, t) /\ t.exception
  BY DEF Ends
<1>6. r.completed <=> s.completed \/ Ends(in, q) \/ Misaligns(in, q)
  <2>1. CASE LoadAnswering(in, i)
    <3>1. PICK t : LoadAnswered(in, i, t)
      BY <2>1 DEF LoadAnswering
    <3>2. \A x : LoadAnswered(in, i, x) => x = t
      BY <3>1, TranslatedForm DEF LoadAnswered
    <3>3. s.addressReady
      BY <1>1, <3>1, TranslatedForm DEF LoadAnswered, CompletionInv, OwnerInv
    <3>4. ~LoadAddressing(in, i)
      BY <1>2, <3>3
    <3>5. r.completed <=> s.completed \/ t.exception \/ LoadDone(in, i)
      BY <3>1, <3>4 DEF LoadKept
    <3> QED
      BY <1>2, <1>5, <3>1, <3>2, <3>4, <3>5
  <2>2. CASE ~LoadAnswering(in, i) /\ LoadAddressing(in, i)
    <3>1. PICK a \in in.agu : ~a.isWrite /\ a.index = i
      BY <2>2 DEF LoadAddressing
    <3>2. r.completed <=> a.misaligned \/ LoadDone(in, i)
      BY <2>2, <3>1 DEF LoadKept
    <3>3. Ends(in, q) <=> LoadDone(in, i)
      BY <1>5, <2>2 DEF LoadAnswering
    <3> QED
      BY <1>2, <1>3, <2>2, <3>1, <3>2, <3>3
  <2>3. CASE ~LoadAnswering(in, i) /\ ~LoadAddressing(in, i)
    <3>1. r.completed <=> s.completed \/ LoadDone(in, i)
      BY <2>3 DEF LoadKept
    <3>2. Ends(in, q) <=> LoadDone(in, i)
      BY <1>5, <2>3 DEF LoadAnswering
    <3> QED
      BY <1>2, <2>3, <3>1, <3>2
  <2> QED
    BY <2>1, <2>2, <2>3
<1> QED
  BY <1>1, <1>4, <1>6

LEMMA StoreFollows ==
  ASSUME CompletionInv, NEW in, NEW n, NEW kinds, Offered(in, n, kinds), ~in.flush,
         NEW q \in StorePositions, GoesOn(in, Uop(q).index)
  PROVE  LET r == stores'[Uop(q).index] IN
         /\ r.addressReady <=> StoreOf(q).addressReady \/ Located(in, q)
         /\ r.completed <=> StoreOf(q).completed \/ Ends(in, q)
<1> DEFINE i == Uop(q).index
           s == stores[i]
           r == stores'[i]
<1>1. /\ i \in StoreIndex /\ StoreOf(q) = s /\ q \notin LoadPositions
      /\ s.addressReady \in BOOLEAN /\ s.completed \in BOOLEAN
  <2>1. i \in StoreIndex /\ StoreOf(q) = s /\ q \notin LoadPositions
    BY HeldStores, PositionForm DEF CompletionInv, StoreOf
  <2>2. s \in StoreEntries
    BY <2>1 DEF CompletionInv, MemoryInv, MemoryTypeOK, SlotsTypeOK
  <2> QED
    BY <2>1, <2>2 DEF StoreEntries
<1>2. /\ Located(in, q) \/ Misaligns(in, q) <=> StoreAddressing(in, i)
      /\ StoreAddressing(in, i) => /\ ~Uop(q).issued /\ ~s.addressReady
                                   /\ Located(in, q) <=> ~Misaligns(in, q)
      /\ \A a \in in.agu : a.isWrite /\ a.index = i =>
            (Misaligns(in, q) <=> a.misaligned) /\ a.misaligned \in BOOLEAN
  BY <1>1, AguToStore DEF CompletionInv
<1>3. StoreKept(in, i)
  BY DEF GoesOn
<1>4. r.addressReady <=> s.addressReady \/ Located(in, q)
  <2>1. CASE StoreAddressing(in, i)
    <3>1. PICK a \in in.agu : a.isWrite /\ a.index = i
      BY <2>1 DEF StoreAddressing
    <3>2. r.addressReady = ~a.misaligned
      BY <1>3, <3>1 DEF StoreKept
    <3>3. (Misaligns(in, q) <=> a.misaligned) /\ a.misaligned \in BOOLEAN
      BY <1>2, <3>1
    <3> QED
      BY <1>1, <1>2, <2>1, <3>2, <3>3
  <2>2. CASE ~StoreAddressing(in, i)
    <3>1. r.addressReady = s.addressReady
      BY <1>3, <2>2 DEF StoreKept
    <3> QED
      BY <1>1, <1>2, <2>2, <3>1
  <2> QED
    BY <2>1, <2>2
<1>5. Ends(in, q) <=> \/ i = storeHead /\ (StoreCompletionFire(in) \/ ResponseStoreAccepted(in))
                      \/ StoreAnswering(in, i) /\ TranslationCompletes(in)
  BY <1>1 DEF Ends
<1>6. r.completed <=> s.completed \/ Ends(in, q)
  <2>1. CASE StoreAnswering(in, i)
    <3>1. PICK t : StoreAnswered(in, i, t)
      BY <2>1 DEF StoreAnswering
    <3>2. r.completed <=> \/ s.completed \/ TranslationCompletes(in)
                          \/ i = storeHead /\ (StoreCompletionFire(in)
                                               \/ ResponseStoreAccepted(in))
      BY <1>3, <3>1 DEF StoreKept
    <3> QED
      BY <1>5, <2>1, <3>2
  <2>2. CASE ~StoreAnswering(in, i)
    <3>1. r.completed <=> \/ s.completed
                          \/ i = storeHead /\ (StoreCompletionFire(in)
                                               \/ ResponseStoreAccepted(in))
      BY <1>3, <2>2 DEF StoreKept
    <3> QED
      BY <1>5, <2>2, <3>1
  <2> QED
    BY <2>1, <2>2
<1> QED
  BY <1>1, <1>4, <1>6

AccessMoves(in, q, k) ==
    /\ k \in LoadPositions' <=> q \in LoadPositions
    /\ k \in StorePositions' <=> q \in StorePositions
    /\ k \in MemoryPositions' /\ Age(k)' = Age(q)
    /\ Uop(k)'.issued <=> Uop(q).issued \/ Located(in, q) \/ Misaligns(in, q)
    /\ AddressReady(k)' <=> AddressReady(q) \/ Located(in, q)
    /\ Complete(k)' <=> Complete(q) \/ Ends(in, q)
                          \/ (q \in LoadPositions /\ Misaligns(in, q))
    /\ Located(in, q) \/ Misaligns(in, q) => ~Uop(q).issued /\ ~AddressReady(q)
    /\ Located(in, q) => ~Misaligns(in, q)

LEMMA AccessEdge ==
  ASSUME CompletionInv, NEW in, NEW n, NEW kinds, Offered(in, n, kinds), Cycle(in, n, kinds),
         ~in.flush, NEW q \in MemoryPositions, NEW k, Follows(in, n, q, k)
  PROVE  AccessMoves(in, q, k)
<1> DEFINE i == Uop(q).index
<1>1. /\ k \in LoadPositions' <=> q \in LoadPositions
      /\ k \in StorePositions' <=> q \in StorePositions
      /\ q \in LoadPositions \/ q \in StorePositions
      /\ ~(q \in LoadPositions /\ q \in StorePositions)
  <2>1. /\ InWindow(q) /\ InWindow(k)' /\ Uop(k)'.kind = Uop(q).kind
    BY DEF Follows
  <2>2. /\ k \in LoadPositions' <=> IsLoad(Uop(k))'
        /\ k \in StorePositions' <=> IsStore(Uop(k))'
    BY <2>1 DEF LoadPositions, StorePositions, InWindow, Uop, IsLoad, IsStore
  <2>3. /\ IsLoad(Uop(k))' <=> IsLoad(Uop(q))
        /\ IsStore(Uop(k))' <=> IsStore(Uop(q))
    BY <2>1 DEF IsLoad, IsStore
  <2>4. /\ q \in LoadPositions <=> IsLoad(Uop(q))
        /\ q \in StorePositions <=> IsStore(Uop(q))
    BY <2>1, PositionForm
  <2> QED
    BY <2>2, <2>3, <2>4, PositionForm DEF MemoryPositions
<1>2. /\ k \in MemoryPositions' /\ Age(k)' = Age(q) /\ Uop(k)'.index = i
  BY <1>1 DEF Follows, MemoryPositions
<1>3. Uop(k)'.issued <=> Uop(q).issued \/ Located(in, q) \/ Misaligns(in, q)
  <2>1. Uop(k)'.issued <=> Uop(q).issued \/ \E a \in in.agu : a.robPointer = Age(q)
    BY DEF Follows, UopKept, Uop, Age
  <2>2. \A a \in in.agu : a.misaligned \in BOOLEAN
    BY AguAt DEF CompletionInv
  <2> QED
    BY <2>1, <2>2 DEF Located, Misaligns
<1>4. CASE q \in LoadPositions
  <2>1. LoadKept(in, i)
    BY <1>4 DEF Follows
  <2>2. /\ loads'[i].addressReady <=> LoadOf(q).addressReady \/ Located(in, q)
        /\ loads'[i].completed <=> LoadOf(q).completed \/ Ends(in, q) \/ Misaligns(in, q)
    BY <1>4, <2>1, LoadFollows
  <2>3. /\ AddressReady(k)' = loads'[i].addressReady /\ Complete(k)' = loads'[i].completed
    BY <1>1, <1>2, <1>4 DEF AddressReady, Complete, LoadOf
  <2>4. AddressReady(q) = LoadOf(q).addressReady /\ Complete(q) = LoadOf(q).completed
    BY <1>4 DEF AddressReady, Complete
  <2>5. /\ Located(in, q) \/ Misaligns(in, q) => ~Uop(q).issued /\ ~LoadOf(q).addressReady
        /\ Located(in, q) => ~Misaligns(in, q)
    BY <1>4, AguToLoad DEF CompletionInv
  <2> QED
    BY <1>1, <1>2, <1>3, <1>4, <2>2, <2>3, <2>4, <2>5 DEF AccessMoves
<1>5. CASE q \in StorePositions
  <2>1. GoesOn(in, i)
    BY <1>5 DEF Follows
  <2>2. /\ stores'[i].addressReady <=> StoreOf(q).addressReady \/ Located(in, q)
        /\ stores'[i].completed <=> StoreOf(q).completed \/ Ends(in, q)
    BY <1>5, <2>1, StoreFollows
  <2>3. /\ AddressReady(k)' = stores'[i].addressReady /\ Complete(k)' = stores'[i].completed
    BY <1>1, <1>2, <1>5 DEF AddressReady, Complete, StoreOf
  <2>4. AddressReady(q) = StoreOf(q).addressReady /\ Complete(q) = StoreOf(q).completed
    BY <1>1, <1>5 DEF AddressReady, Complete
  <2>5. /\ Located(in, q) \/ Misaligns(in, q) => ~Uop(q).issued /\ ~StoreOf(q).addressReady
        /\ Located(in, q) => ~Misaligns(in, q)
    BY <1>5, AguToStore DEF CompletionInv
  <2> QED
    BY <1>1, <1>2, <1>3, <1>5, <2>2, <2>3, <2>4, <2>5 DEF AccessMoves
<1> QED
  BY <1>1, <1>4, <1>5

(* Every access after the edge either was there before or has just come.         *)
LEMMA AccessCases ==
  ASSUME CompletionInv, NEW in, NEW n, NEW kinds, Offered(in, n, kinds), Cycle(in, n, kinds),
         ~in.flush, NEW k \in MemoryPositions'
  PROVE  \/ Enters(in, n, k)
         \/ \E q \in MemoryPositions : Follows(in, n, q, k) /\ AccessMoves(in, q, k)
<1>1. InWindow(k)' /\ (IsLoad(Uop(k))' \/ IsStore(Uop(k))')
  BY DEF MemoryPositions, LoadPositions, StorePositions, InWindow, Uop, IsLoad, IsStore
<1>2. ASSUME NEW q, Follows(in, n, q, k)
      PROVE  q \in MemoryPositions /\ AccessMoves(in, q, k)
  <2>1. InWindow(q) /\ Uop(k)'.kind = Uop(q).kind
    BY <1>2 DEF Follows
  <2>2. IsLoad(Uop(q)) \/ IsStore(Uop(q))
    BY <1>1, <2>1 DEF IsLoad, IsStore
  <2>3. q \in MemoryPositions
    BY <2>1, <2>2, PositionForm DEF MemoryPositions
  <2> QED
    BY <1>2, <2>3, AccessEdge
<1>3. Enters(in, n, k) \/ \E q : Follows(in, n, q, k)
  BY <1>1, WindowEdge DEF CompletionInv
<1> QED
  BY <1>2, <1>3

(* Of an access that has just come nothing is known.                           *)
LEMMA AccessEnters ==
  ASSUME NEW in, NEW n, NEW k \in MemoryPositions', Enters(in, n, k)
  PROVE  /\ ~Uop(k)'.issued /\ ~AddressReady(k)' /\ ~Complete(k)' /\ ~Finished(k)'
         /\ Uop(k)'.done = "no" /\ Uop(k)'.accesses = 0
<1>1. /\ ~Uop(k)'.issued /\ Uop(k)'.accesses = 0 /\ InWindow(k)'
      /\ IsMemory(Uop(k)') => Uop(k)'.done = "no"
      /\ IsLoad(Uop(k)') => LoadFresh(in, Uop(k)'.index)
      /\ IsStore(Uop(k)') => StoreFresh(in, Uop(k)'.index)
  BY DEF Enters
<1>2. CASE k \in LoadPositions'
  <2>1. IsLoad(Uop(k)')
    BY <1>2 DEF LoadPositions, Uop, IsLoad
  <2>2. PICK lane : loads'[Uop(k)'.index] = Fresh(EmptyLoad, lane)
    BY <1>1, <2>1 DEF LoadFresh
  <2>3. ~loads'[Uop(k)'.index].addressReady /\ ~loads'[Uop(k)'.index].completed
    BY <2>2 DEF Fresh, EmptyLoad
  <2>4. ~AddressReady(k)' /\ ~Complete(k)'
    BY <1>2, <2>3 DEF AddressReady, Complete, LoadOf
  <2> QED
    BY <1>1, <2>1, <2>4 DEF Finished, IsMemory
<1>3. CASE k \notin LoadPositions'
  <2>1. IsStore(Uop(k)')
    BY <1>3 DEF MemoryPositions, StorePositions, Uop, IsStore
  <2>2. PICK lane : stores'[Uop(k)'.index] = Fresh(EmptyStore, lane)
    BY <1>1, <2>1 DEF StoreFresh
  <2>3. ~stores'[Uop(k)'.index].addressReady /\ ~stores'[Uop(k)'.index].completed
    BY <2>2 DEF Fresh, EmptyStore
  <2>4. ~AddressReady(k)' /\ ~Complete(k)'
    BY <1>3, <2>3 DEF AddressReady, Complete, StoreOf
  <2> QED
    BY <1>1, <2>1, <2>4 DEF Finished, IsMemory
<1> QED
  BY <1>2, <1>3

LEMMA FinishedMoves ==
  ASSUME NEW in, NEW q, NEW k, AccessMoves(in, q, k), Ends(in, q) => AddressReady(q)
  PROVE  Finished(k)' <=> Finished(q) \/ Ends(in, q) \/ Misaligns(in, q)
BY DEF Finished, AccessMoves

(***************************************************************************)
(* What the reorder buffer is told at an edge and what is registered for it.    *)
(***************************************************************************)
FastEdge(in, q) ==
    /\ completion = {} /\ completion' = {}
    /\ \E c : /\ CompletionOutput(in) = {c} /\ ~c.exception
              /\ c.robPointer = Age(q) /\ c.recoveryEpoch = recoveryEpoch
SlowEdge(in, q) ==
    /\ CompletionOutput(in) = completion
    /\ \E c : /\ completion' = {c}
              /\ c.robPointer = Age(q) /\ c.recoveryEpoch = recoveryEpoch
EndingEdge(in, q) ==
    /\ Ends(in, q) /\ ~AguExceptionReady(in)
    /\ \A j \in MemoryPositions : Ends(in, j) => j = q
    /\ FastEdge(in, q) \/ SlowEdge(in, q)
QuietEdge(in) ==
    /\ \A j \in MemoryPositions : ~Ends(in, j)
    /\ CompletionOutput(in) = completion
    /\ completion' = IF AguExceptionReady(in) THEN aguException ELSE {}

LEMMA FastForm ==
  ASSUME CompletionInv, NEW in, NEW n, NEW kinds, Offered(in, n, kinds), ~in.flush,
         FastStoreCompletion(in) # {}
  PROVE  /\ FastStoreCompletion(in) = GeneratedCompletion(in) /\ completion = {}
         /\ StoreCompletionFire(in) \/ TranslationCompletes(in)
         /\ \A c \in GeneratedCompletion(in) : ~c.exception
<1>1. /\ FastStoreCompletion(in) = GeneratedCompletion(in) /\ completion = {}
      /\ \/ StoreCompletionFire(in)
         \/ /\ TranslationCompletes(in)
            /\ \A t \in in.translation : ~t.exception
  BY DEF FastStoreCompletion
<1>2. ASSUME StoreCompletionFire(in)
      PROVE  \A c \in GeneratedCompletion(in) : ~c.exception
  <2>1. PICK c : c = Completion(HeadStore, FALSE)
    OBVIOUS
  <2>2. GeneratedCompletion(in) = {c}
    BY <1>2, <2>1, GeneratedCases
  <2>3. ~c.exception
    BY <2>1 DEF Completion
  <2> QED
    BY <2>2, <2>3
<1>3. ASSUME TranslationCompletes(in), \A t \in in.translation : ~t.exception
      PROVE  \A c \in GeneratedCompletion(in) : ~c.exception
  <2>1. /\ in.response = {} /\ ~ForwardCandidate /\ ~StoreCompletionCandidate
        /\ \E t \in in.translation : in.translation = {t} /\ t.exception \in BOOLEAN
    BY <1>3, AnswerAlone
  <2>2. PICK t \in in.translation : in.translation = {t}
    BY <2>1
  <2>3. PICK c : c = Completion(translation, t.exception)
    OBVIOUS
  <2>4. GeneratedCompletion(in) = {c}
    BY <1>3, <2>1, <2>2, <2>3, GeneratedCases
  <2>5. ~c.exception
    BY <1>3, <2>3 DEF Completion
  <2> QED
    BY <2>4, <2>5
<1> QED
  BY <1>1, <1>2, <1>3

LEMMA CompletionEdge ==
  ASSUME CompletionInv, NEW in, NEW n, NEW kinds, Offered(in, n, kinds), Cycle(in, n, kinds),
         ~in.flush
  PROVE  QuietEdge(in) \/ \E q \in MemoryPositions : EndingEdge(in, q)
<1>1. /\ FastStoreCompletion(in) # {} => completion' = {}
      /\ FastStoreCompletion(in) = {} => completion' = GeneratedCompletion(in)
      /\ FastStoreCompletion(in) # {} => CompletionOutput(in) = FastStoreCompletion(in)
      /\ FastStoreCompletion(in) = {} => CompletionOutput(in) = completion
  BY DEF Cycle, QueueStep, RequestStep, CompletionOutput
<1>2. CASE \A q \in MemoryPositions : ~Ends(in, q)
  <2>1. /\ AguExceptionReady(in) => GeneratedCompletion(in) = aguException
        /\ ~AguExceptionReady(in) => GeneratedCompletion(in) = {}
        /\ ~StoreCompletionFire(in) /\ ~TranslationCompletes(in)
    BY <1>2, NothingEnds
  <2>2. FastStoreCompletion(in) = {}
    BY <2>1, FastForm
  <2>3. completion' = GeneratedCompletion(in) /\ CompletionOutput(in) = completion
    BY <1>1, <2>2
  <2>4. QuietEdge(in)
    BY <1>2, <2>1, <2>3 DEF QuietEdge
  <2> QED
    BY <2>4
<1>3. ASSUME NEW q \in MemoryPositions, Ends(in, q)
      PROVE  EndingEdge(in, q)
  <2>1. Generates(in, q)
    BY <1>3, EndsGenerates
  <2>2. PICK c : /\ GeneratedCompletion(in) = {c}
                 /\ c.robPointer = Age(q) /\ c.recoveryEpoch = recoveryEpoch
    BY <2>1 DEF Generates
  <2>3. ASSUME NEW j \in MemoryPositions, Ends(in, j) PROVE j = q
    <3>1. Generates(in, j)
      BY <2>3, EndsGenerates
    <3>2. PICK e : GeneratedCompletion(in) = {e} /\ e.robPointer = Age(j)
      BY <3>1 DEF Generates
    <3>3. Age(j) = Age(q)
      BY <2>2, <3>2
    <3>4. j \in 0 .. RobEntries - 1 /\ q \in 0 .. RobEntries - 1
      BY PositionForm, InWindowForm DEF CompletionInv, MemoryInv
    <3> QED
      BY <3>3, <3>4, Ages DEF CompletionInv, MemoryInv
  <2>4. CASE FastStoreCompletion(in) # {}
    <3>1. CompletionOutput(in) = {c} /\ completion' = {} /\ completion = {} /\ ~c.exception
      BY <1>1, <2>2, <2>4, FastForm
    <3>2. FastEdge(in, q)
      BY <2>2, <3>1 DEF FastEdge
    <3> QED
      BY <1>3, <2>1, <2>3, <3>2 DEF EndingEdge, Generates
  <2>5. CASE FastStoreCompletion(in) = {}
    <3>1. SlowEdge(in, q)
      BY <1>1, <2>2, <2>5 DEF SlowEdge
    <3> QED
      BY <1>3, <2>1, <2>3, <3>1 DEF EndingEdge, Generates
  <2> QED
    BY <2>4, <2>5
<1> QED
  BY <1>2, <1>3

Told(in, q) == \E c \in CompletionOutput(in) : c.robPointer = Age(q)
CompletionOwed(q) == \E c \in completion : c.robPointer = Age(q)
ExceptionOwed(q) == \E c \in aguException : c.robPointer = Age(q)

LEMMA OutputEpoch ==
  ASSUME CompletionInv, NEW in, NEW n, NEW kinds, Offered(in, n, kinds), Cycle(in, n, kinds),
         ~in.flush, NEW c \in CompletionOutput(in)
  PROVE  c.recoveryEpoch = recoveryEpoch
<1>1. CASE c \in completion
  BY <1>1 DEF CompletionInv, OwedInv, Owed
<1>2. CASE c \notin completion
  <2>1. PICK q \in MemoryPositions : EndingEdge(in, q)
    BY <1>2, CompletionEdge DEF QuietEdge
  <2>2. FastEdge(in, q)
    BY <1>2, <2>1 DEF EndingEdge, SlowEdge
  <2> QED
    BY <2>2 DEF FastEdge
<1> QED
  BY <1>1, <1>2

LEMMA DoneForm ==
  ASSUME CompletionInv, NEW in, NEW n, NEW kinds, Offered(in, n, kinds), Cycle(in, n, kinds),
         ~in.flush, NEW q \in MemoryPositions, NEW k, Follows(in, n, q, k)
  PROVE  /\ Told(in, q) => Uop(k)'.done \in {"good", "redirect"}
         /\ ~Told(in, q) => Uop(k)'.done = Uop(q).done
         /\ Uop(k)'.done = "good" =>
               \A c \in CompletionOutput(in) : c.robPointer = Age(q) => ~c.exception
<1>1. PICK C : C = Completed(in, q + 1)
  OBVIOUS
<1>2. \A c : c \in C <=> c \in CompletionOutput(in) /\ c.robPointer = Age(q)
  BY <1>1, OutputEpoch DEF Completed, Age
<1>3. ~(q + 1 = 1 /\ in.barrier)
  <2> SUFFICES ASSUME q + 1 = 1, in.barrier PROVE FALSE
    OBVIOUS
  <2>1. BarrierMayComplete
    BY DEF Offered
  <2>2. window[q + 1].kind = "barrier"
    BY <2>1 DEF BarrierMayComplete
  <2>3. IsMemory(Uop(q))
    BY PositionForm
  <2> QED
    BY <2>2, <2>3 DEF IsMemory, IsLoad, IsStore, Uop
<1>4. Uop(k)'.done = IF \E c \in C : c.exception THEN "redirect"
                     ELSE IF C # {} \/ (q + 1 = 1 /\ in.barrier) THEN "good"
                     ELSE Uop(q).done
  BY <1>1 DEF Follows, UopKept, Uop
<1>5. Uop(k)'.done = IF \E c \in C : c.exception THEN "redirect"
                     ELSE IF C # {} THEN "good" ELSE Uop(q).done
  BY <1>3, <1>4
<1>6. Told(in, q) <=> C # {}
  BY <1>2 DEF Told
<1> QED
  BY <1>2, <1>5, <1>6

LEMMA ExceptionsAfter ==
  ASSUME NEW in, NEW n, NEW kinds, Offered(in, n, kinds), Cycle(in, n, kinds), ~in.flush,
         NEW e
  PROVE  e \in aguException' <=>
            \/ ~AguExceptionReady(in) /\ e \in aguException
            \/ \E a \in in.agu : a.misaligned /\ e = Completion(a, TRUE)
<1>1. PICK M : M = {Completion(a, TRUE) : a \in {b \in in.agu : b.misaligned}}
  OBVIOUS
<1>2. e \in M <=> \E a \in in.agu : a.misaligned /\ e = Completion(a, TRUE)
  <2> HIDE DEF Completion
  <2> QED
    BY <1>1
<1>3. aguException' = (IF AguExceptionReady(in) THEN {} ELSE aguException) \cup M
  BY <1>1 DEF Cycle, QueueStep, RequestStep, Completion
<1> QED
  BY <1>2, <1>3

(* What is owed to an access after the edge.                                   *)
LEMMA OwedAfter ==
  ASSUME CompletionInv, NEW in, NEW n, NEW kinds, Offered(in, n, kinds), Cycle(in, n, kinds),
         ~in.flush, NEW q \in MemoryPositions, NEW k, Age(k)' = Age(q)
  PROVE  /\ QuietEdge(in) => /\ Told(in, q) <=> CompletionOwed(q)
                             /\ OwedTo(k)' <=> ExceptionOwed(q) \/ Misaligns(in, q)
         /\ \A p \in MemoryPositions :
               EndingEdge(in, p) /\ FastEdge(in, p) =>
                  /\ Told(in, q) <=> q = p
                  /\ ~CompletionOwed(q)
                  /\ OwedTo(k)' <=> ExceptionOwed(q) \/ Misaligns(in, q)
         /\ \A p \in MemoryPositions :
               EndingEdge(in, p) /\ SlowEdge(in, p) =>
                  /\ Told(in, q) <=> CompletionOwed(q)
                  /\ OwedTo(k)' <=> q = p \/ ExceptionOwed(q) \/ Misaligns(in, q)
<1>1. (\E e \in aguException' : e.robPointer = Age(q)) <=>
          \/ ~AguExceptionReady(in) /\ ExceptionOwed(q)
          \/ Misaligns(in, q)
  <2>1. \A a, e : e = Completion(a, TRUE) => e.robPointer = a.robPointer
    BY DEF Completion
  <2>2. ASSUME NEW e \in aguException', e.robPointer = Age(q)
        PROVE  (~AguExceptionReady(in) /\ ExceptionOwed(q)) \/ Misaligns(in, q)
    <3>1. \/ ~AguExceptionReady(in) /\ e \in aguException
          \/ \E a \in in.agu : a.misaligned /\ e = Completion(a, TRUE)
      BY <2>2, ExceptionsAfter
    <3>2. CASE ~AguExceptionReady(in) /\ e \in aguException
      BY <2>2, <3>2 DEF ExceptionOwed
    <3>3. ASSUME NEW a \in in.agu, a.misaligned, e = Completion(a, TRUE)
          PROVE  Misaligns(in, q)
      BY <2>1, <2>2, <3>3 DEF Misaligns
    <3> QED
      BY <3>1, <3>2, <3>3
  <2>3. ASSUME ~AguExceptionReady(in), ExceptionOwed(q)
        PROVE  \E e \in aguException' : e.robPointer = Age(q)
    BY <2>3, ExceptionsAfter DEF ExceptionOwed
  <2>4. ASSUME Misaligns(in, q)
        PROVE  \E e \in aguException' : e.robPointer = Age(q)
    <3>1. PICK a \in in.agu : a.robPointer = Age(q) /\ a.misaligned
      BY <2>4 DEF Misaligns
    <3>2. PICK e : e = Completion(a, TRUE)
      OBVIOUS
    <3>3. e \in aguException' /\ e.robPointer = Age(q)
      BY <2>1, <3>1, <3>2, ExceptionsAfter
    <3> QED
      BY <3>3
  <2> QED
    BY <2>2, <2>3, <2>4
<1>2. OwedTo(k)' <=> \/ \E e \in aguException' : e.robPointer = Age(q)
                     \/ \E c \in completion' : c.robPointer = Age(q)
  BY DEF OwedTo, Owed
<1>3. ASSUME QuietEdge(in)
      PROVE  /\ Told(in, q) <=> CompletionOwed(q)
             /\ OwedTo(k)' <=> ExceptionOwed(q) \/ Misaligns(in, q)
  <2>1. Told(in, q) <=> CompletionOwed(q)
    BY <1>3 DEF QuietEdge, Told, CompletionOwed
  <2>2. (\E c \in completion' : c.robPointer = Age(q))
            <=> AguExceptionReady(in) /\ ExceptionOwed(q)
    BY <1>3 DEF QuietEdge, ExceptionOwed
  <2> QED
    BY <1>1, <1>2, <2>1, <2>2
<1>4. ASSUME NEW p \in MemoryPositions
      PROVE  Age(p) = Age(q) <=> q = p
  <2>1. p \in 0 .. RobEntries - 1 /\ q \in 0 .. RobEntries - 1
    BY PositionForm, InWindowForm DEF CompletionInv, MemoryInv
  <2> QED
    BY <2>1, Ages DEF CompletionInv, MemoryInv
<1>5. ASSUME NEW p \in MemoryPositions, EndingEdge(in, p), FastEdge(in, p)
      PROVE  /\ Told(in, q) <=> q = p
             /\ ~CompletionOwed(q)
             /\ OwedTo(k)' <=> ExceptionOwed(q) \/ Misaligns(in, q)
  <2>1. Told(in, q) <=> q = p
    BY <1>4, <1>5 DEF FastEdge, Told
  <2>2. ~CompletionOwed(q) /\ ~\E c \in completion' : c.robPointer = Age(q)
    BY <1>5 DEF FastEdge, CompletionOwed
  <2> QED
    BY <1>1, <1>2, <1>5, <2>1, <2>2 DEF EndingEdge
<1>6. ASSUME NEW p \in MemoryPositions, EndingEdge(in, p), SlowEdge(in, p)
      PROVE  /\ Told(in, q) <=> CompletionOwed(q)
             /\ OwedTo(k)' <=> q = p \/ ExceptionOwed(q) \/ Misaligns(in, q)
  <2>1. Told(in, q) <=> CompletionOwed(q)
    BY <1>6 DEF SlowEdge, Told, CompletionOwed
  <2>2. (\E c \in completion' : c.robPointer = Age(q)) <=> q = p
    BY <1>4, <1>6 DEF SlowEdge
  <2> QED
    BY <1>1, <1>2, <1>6, <2>1, <2>2 DEF EndingEdge
<1> QED
  BY <1>3, <1>5, <1>6

(* What reaches an access finds it unfinished and nothing owed to it.            *)
LEMMA NotYetFinished ==
  ASSUME CompletionInv, NEW in, NEW n, NEW kinds, Offered(in, n, kinds), ~in.flush,
         NEW q \in MemoryPositions
  PROVE  /\ Ends(in, q) => AddressReady(q) /\ ~Complete(q)
         /\ Ends(in, q) \/ Misaligns(in, q) =>
               ~Finished(q) /\ ~OwedTo(q) /\ Uop(q).done = "no" /\ n <= q
         /\ OwedTo(q) => Uop(q).done = "no" /\ n <= q
         /\ ~(Ends(in, q) /\ Misaligns(in, q))
<1>1. Ends(in, q) => AddressReady(q) /\ ~Complete(q)
  BY EndsForm
<1>2. Misaligns(in, q) => ~Uop(q).issued
  <2>1. q \in LoadPositions \/ q \in StorePositions
    BY DEF MemoryPositions
  <2> QED
    BY <2>1, AguToLoad, AguToStore DEF CompletionInv
<1>3. /\ Ends(in, q) \/ Misaligns(in, q) => ~Finished(q)
      /\ ~(Ends(in, q) /\ Misaligns(in, q))
  BY <1>1, <1>2 DEF Finished, CompletionInv, IssueInv
<1>4. /\ Finished(q) <=> Uop(q).done # "no" \/ OwedTo(q)
      /\ Uop(q).done # "no" => ~OwedTo(q)
  BY DEF CompletionInv, DoneInv
<1>5. Uop(q).done = "no" => n <= q
  <2> SUFFICES ASSUME Uop(q).done = "no", ~(n <= q) PROVE FALSE
    OBVIOUS
  <2>1. q \in Nat /\ n \in Nat
    BY PositionForm, InWindowForm, Sizes DEF CompletionInv, MemoryInv, Offered
  <2>2. q + 1 \in 1 .. n
    BY <2>1
  <2>3. window[q + 1].done # "no"
    BY <2>2 DEF Offered, Retirable
  <2> QED
    BY <2>3 DEF Uop
<1> QED
  BY <1>1, <1>3, <1>4, <1>5

LEMMA DoneMoves ==
  ASSUME CompletionInv, NEW in, NEW n, NEW kinds, Offered(in, n, kinds), Cycle(in, n, kinds),
         ~in.flush, NEW q \in MemoryPositions, NEW k, Follows(in, n, q, k)
  PROVE  /\ Told(in, q) => ~OwedTo(k)'
         /\ Told(in, q) \/ OwedTo(k)' <=> OwedTo(q) \/ Ends(in, q) \/ Misaligns(in, q)
         /\ Told(in, q) /\ Uop(k)'.done = "good" => Complete(k)'
<1>1. AccessMoves(in, q, k) /\ Age(k)' = Age(q)
  BY AccessEdge DEF Follows
<1>2. OwedTo(q) <=> CompletionOwed(q) \/ ExceptionOwed(q)
  BY DEF OwedTo, Owed, CompletionOwed, ExceptionOwed
<1>3. ~(CompletionOwed(q) /\ ExceptionOwed(q))
  BY DEF CompletionInv, OwedInv, CompletionOwed, ExceptionOwed
<1>4. Ends(in, q) \/ Misaligns(in, q) => ~OwedTo(q)
  BY NotYetFinished
<1>5. ~(Ends(in, q) /\ Misaligns(in, q))
  BY <1>1, NotYetFinished DEF AccessMoves
<1>6. ASSUME NEW c \in completion, c.robPointer = Age(q), ~c.exception
      PROVE  Complete(q)
  <2>1. PICK j \in MemoryPositions : Age(j) = c.robPointer /\ Complete(j)
    BY <1>6 DEF CompletionInv, OwedInv, Owed
  <2>2. j \in 0 .. RobEntries - 1 /\ q \in 0 .. RobEntries - 1
    BY PositionForm, InWindowForm DEF CompletionInv, MemoryInv
  <2>3. j = q
    BY <1>6, <2>1, <2>2, Ages DEF CompletionInv, MemoryInv
  <2> QED
    BY <2>1, <2>3
<1>7. ASSUME CompletionOutput(in) = completion, CompletionOwed(q), Uop(k)'.done = "good"
      PROVE  Complete(k)'
  <2>1. PICK c \in completion : c.robPointer = Age(q)
    BY <1>7 DEF CompletionOwed
  <2>2. ~c.exception
    BY <1>7, <2>1, DoneForm
  <2>3. Complete(q)
    BY <1>6, <2>1, <2>2
  <2> QED
    BY <1>1, <2>3 DEF AccessMoves
<1>8. CASE QuietEdge(in)
  <2>1. /\ Told(in, q) <=> CompletionOwed(q)
        /\ OwedTo(k)' <=> ExceptionOwed(q) \/ Misaligns(in, q)
    BY <1>1, <1>8, OwedAfter
  <2>2. ~Ends(in, q) /\ CompletionOutput(in) = completion
    BY <1>8 DEF QuietEdge
  <2> QED
    BY <1>2, <1>3, <1>4, <1>7, <2>1, <2>2
<1>9. ASSUME NEW p \in MemoryPositions, EndingEdge(in, p), FastEdge(in, p)
      PROVE  /\ Told(in, q) => ~OwedTo(k)'
             /\ Told(in, q) \/ OwedTo(k)' <=> OwedTo(q) \/ Ends(in, q) \/ Misaligns(in, q)
             /\ Told(in, q) /\ Uop(k)'.done = "good" => Complete(k)'
  <2>1. /\ Told(in, q) <=> q = p
        /\ ~CompletionOwed(q)
        /\ OwedTo(k)' <=> ExceptionOwed(q) \/ Misaligns(in, q)
    BY <1>1, <1>9, OwedAfter
  <2>2. Ends(in, q) <=> q = p
    BY <1>9 DEF EndingEdge
  <2>3. Ends(in, q) => Complete(k)'
    BY <1>1 DEF AccessMoves
  <2> QED
    BY <1>2, <1>4, <1>5, <2>1, <2>2, <2>3
<1>10. ASSUME NEW p \in MemoryPositions, EndingEdge(in, p), SlowEdge(in, p)
       PROVE  /\ Told(in, q) => ~OwedTo(k)'
              /\ Told(in, q) \/ OwedTo(k)' <=> OwedTo(q) \/ Ends(in, q) \/ Misaligns(in, q)
              /\ Told(in, q) /\ Uop(k)'.done = "good" => Complete(k)'
  <2>1. /\ Told(in, q) <=> CompletionOwed(q)
        /\ OwedTo(k)' <=> q = p \/ ExceptionOwed(q) \/ Misaligns(in, q)
    BY <1>1, <1>10, OwedAfter
  <2>2. (Ends(in, q) <=> q = p) /\ CompletionOutput(in) = completion
    BY <1>10 DEF EndingEdge, SlowEdge
  <2> QED
    BY <1>2, <1>3, <1>4, <1>7, <2>1, <2>2
<1>11. QuietEdge(in) \/ \E p \in MemoryPositions : EndingEdge(in, p)
  BY CompletionEdge
<1> QED
  BY <1>8, <1>9, <1>10, <1>11 DEF EndingEdge

LEMMA IssueStays ==
  ASSUME CompletionInv, NEW in, NEW n, NEW kinds, Offered(in, n, kinds), Cycle(in, n, kinds),
         ~in.flush
  PROVE  IssueInv'
<1> SUFFICES ASSUME NEW k \in MemoryPositions'
             PROVE  /\ ~Uop(k)'.issued => ~AddressReady(k)' /\ ~Complete(k)'
                    /\ k \in LoadPositions' /\ Finished(k)' => Complete(k)'
  BY DEF IssueInv
<1>1. CASE Enters(in, n, k)
  BY <1>1, AccessEnters
<1>2. ASSUME NEW q \in MemoryPositions, Follows(in, n, q, k), AccessMoves(in, q, k)
      PROVE  /\ ~Uop(k)'.issued => ~AddressReady(k)' /\ ~Complete(k)'
             /\ k \in LoadPositions' /\ Finished(k)' => Complete(k)'
  <2>1. /\ ~Uop(q).issued => ~AddressReady(q) /\ ~Complete(q)
        /\ q \in LoadPositions /\ Finished(q) => Complete(q)
    BY DEF CompletionInv, IssueInv
  <2>2. Ends(in, q) => AddressReady(q)
    BY NotYetFinished
  <2>3. Finished(k)' <=> Finished(q) \/ Ends(in, q) \/ Misaligns(in, q)
    BY <1>2, <2>2, FinishedMoves
  <2> QED
    BY <1>2, <2>1, <2>2, <2>3 DEF AccessMoves
<1> QED
  BY <1>1, <1>2, AccessCases

(* Whatever is owed after the edge belongs to an access that has not retired.     *)
LEMMA OwedHasAccess ==
  ASSUME CompletionInv, NEW in, NEW n, NEW kinds, Offered(in, n, kinds), Cycle(in, n, kinds),
         ~in.flush, NEW c \in Owed'
  PROVE  /\ c.recoveryEpoch = recoveryEpoch
         /\ c \in aguException' => c.exception
         /\ \E q \in MemoryPositions :
               /\ c.robPointer = Age(q) /\ n <= q
               /\ ~c.exception => Ends(in, q)
               /\ \/ c \in completion' /\ Ends(in, q)
                  \/ ExceptionOwed(q) \/ Misaligns(in, q)
<1>1. ASSUME c \in aguException
      PROVE  /\ c.recoveryEpoch = recoveryEpoch /\ c.exception
             /\ \E q \in MemoryPositions :
                   c.robPointer = Age(q) /\ n <= q /\ ExceptionOwed(q)
  <2>1. /\ c.recoveryEpoch = recoveryEpoch /\ c.exception
        /\ \E q \in MemoryPositions : Age(q) = c.robPointer
    BY <1>1 DEF CompletionInv, OwedInv, Owed
  <2>2. PICK q \in MemoryPositions : Age(q) = c.robPointer
    BY <2>1
  <2>3. OwedTo(q) /\ ExceptionOwed(q)
    BY <1>1, <2>2 DEF OwedTo, Owed, ExceptionOwed
  <2>4. n <= q
    BY <2>3, NotYetFinished
  <2> QED
    BY <2>1, <2>2, <2>3, <2>4
<1>2. ASSUME NEW a \in in.agu, a.misaligned, c = Completion(a, TRUE)
      PROVE  /\ c.recoveryEpoch = recoveryEpoch /\ c.exception
             /\ \E q \in MemoryPositions :
                   c.robPointer = Age(q) /\ n <= q /\ Misaligns(in, q)
  <2>1. /\ c.recoveryEpoch = a.recoveryEpoch /\ c.exception /\ c.robPointer = a.robPointer
    BY <1>2 DEF Completion
  <2>2. a.recoveryEpoch = recoveryEpoch
    BY AguForm DEF Addressing
  <2>3. PICK q \in MemoryPositions : a.robPointer = Age(q)
    BY AguAt DEF CompletionInv
  <2>4. Misaligns(in, q)
    BY <1>2, <2>3 DEF Misaligns
  <2>5. n <= q
    BY <2>4, NotYetFinished
  <2> QED
    BY <2>1, <2>2, <2>3, <2>4, <2>5
<1>3. CASE c \in aguException'
  <2>1. \/ ~AguExceptionReady(in) /\ c \in aguException
        \/ \E a \in in.agu : a.misaligned /\ c = Completion(a, TRUE)
    BY <1>3, ExceptionsAfter
  <2> QED
    BY <1>1, <1>2, <2>1
<1>4. CASE c \in completion' /\ c \notin aguException'
  <2>1. CASE QuietEdge(in)
    <3>1. c \in aguException
      BY <1>4, <2>1 DEF QuietEdge
    <3> QED
      BY <1>1, <1>4, <3>1
  <2>2. ASSUME NEW q \in MemoryPositions, EndingEdge(in, q)
        PROVE  c.recoveryEpoch = recoveryEpoch /\ c.robPointer = Age(q) /\ n <= q /\ Ends(in, q)
    <3>1. SlowEdge(in, q) /\ Ends(in, q)
      BY <1>4, <2>2 DEF EndingEdge, FastEdge
    <3>2. n <= q
      BY <3>1, NotYetFinished
    <3> QED
      BY <1>4, <3>1, <3>2 DEF SlowEdge
  <2> QED
    BY <1>4, <2>1, <2>2, CompletionEdge
<1> QED
  BY <1>3, <1>4 DEF Owed

LEMMA DoneStays ==
  ASSUME CompletionInv, NEW in, NEW n, NEW kinds, Offered(in, n, kinds), Cycle(in, n, kinds),
         ~in.flush, NEW k \in MemoryPositions'
  PROVE  /\ Finished(k)' <=> Uop(k)'.done # "no" \/ OwedTo(k)'
         /\ Uop(k)'.done # "no" => ~OwedTo(k)'
         /\ Uop(k)'.done = "good" => Complete(k)'
<1>1. ASSUME NEW q \in MemoryPositions, Follows(in, n, q, k), AccessMoves(in, q, k)
      PROVE  /\ Finished(k)' <=> Uop(k)'.done # "no" \/ OwedTo(k)'
             /\ Uop(k)'.done # "no" => ~OwedTo(k)'
             /\ Uop(k)'.done = "good" => Complete(k)'
  <2>1. /\ Finished(q) <=> Uop(q).done # "no" \/ OwedTo(q)
        /\ Uop(q).done # "no" => ~OwedTo(q)
        /\ Uop(q).done = "good" => Complete(q)
    BY DEF CompletionInv, DoneInv
  <2>2. /\ Ends(in, q) => AddressReady(q)
        /\ Ends(in, q) \/ Misaligns(in, q) => Uop(q).done = "no"
    BY NotYetFinished
  <2>3. Finished(k)' <=> Finished(q) \/ Ends(in, q) \/ Misaligns(in, q)
    BY <1>1, <2>2, FinishedMoves
  <2>4. /\ Told(in, q) => Uop(k)'.done \in {"good", "redirect"}
        /\ ~Told(in, q) => Uop(k)'.done = Uop(q).done
    BY <1>1, DoneForm
  <2>5. /\ Told(in, q) => ~OwedTo(k)'
        /\ Told(in, q) \/ OwedTo(k)' <=> OwedTo(q) \/ Ends(in, q) \/ Misaligns(in, q)
        /\ Told(in, q) /\ Uop(k)'.done = "good" => Complete(k)'
    BY <1>1, DoneMoves
  <2>6. Complete(q) => Complete(k)'
    BY <1>1 DEF AccessMoves
  <2> QED
    BY <2>1, <2>2, <2>3, <2>4, <2>5, <2>6
<1>2. ASSUME Enters(in, n, k)
      PROVE  /\ Finished(k)' <=> Uop(k)'.done # "no" \/ OwedTo(k)'
             /\ Uop(k)'.done # "no" => ~OwedTo(k)'
             /\ Uop(k)'.done = "good" => Complete(k)'
  <2>1. ~Finished(k)' /\ Uop(k)'.done = "no"
    BY <1>2, AccessEnters
  <2>2. ~OwedTo(k)'
    <3> SUFFICES ASSUME NEW c \in Owed', c.robPointer = Age(k)' PROVE FALSE
      BY DEF OwedTo
    <3>1. PICK q \in MemoryPositions : c.robPointer = Age(q)
      BY OwedHasAccess
    <3>2. InWindow(q)
      BY <3>1, PositionForm
    <3> QED
      BY <1>2, <3>1, <3>2 DEF Enters
  <2> QED
    BY <2>1, <2>2
<1> QED
  BY <1>1, <1>2, AccessCases

LEMMA OwedStays ==
  ASSUME CompletionInv, NEW in, NEW n, NEW kinds, Offered(in, n, kinds), Cycle(in, n, kinds),
         ~in.flush
  PROVE  OwedInv'
<1>1. ASSUME NEW c \in Owed'
      PROVE  /\ c.recoveryEpoch = recoveryEpoch'
             /\ \E k \in MemoryPositions' : Age(k)' = c.robPointer /\ (~c.exception => Complete(k)')
  <2>1. PICK q \in MemoryPositions :
           c.robPointer = Age(q) /\ n <= q /\ (~c.exception => Ends(in, q))
    BY OwedHasAccess
  <2>2. PICK k : Follows(in, n, q, k)
    BY <2>1, PositionForm, WindowEdge DEF CompletionInv
  <2>3. AccessMoves(in, q, k)
    BY <2>2, AccessEdge
  <2>4. recoveryEpoch' = recoveryEpoch
    BY DEF Cycle, WindowStep
  <2>5. c.recoveryEpoch = recoveryEpoch
    BY OwedHasAccess
  <2> QED
    BY <2>1, <2>3, <2>4, <2>5 DEF AccessMoves
<1>2. \A c \in aguException' : c.exception
  BY OwedHasAccess DEF Owed
<1>3. \A e, c \in aguException : e = c
  BY DEF CompletionInv, OwedInv
<1>4. ASSUME NEW a \in in.agu, a.misaligned
      PROVE  in.agu = {a} /\ aguException = {}
  BY <1>4, AguAt DEF AguReady, CompletionInv
<1>5. ASSUME NEW c \in aguException', NEW e \in aguException'
      PROVE  c = e
  <2>1. \/ ~AguExceptionReady(in) /\ c \in aguException
        \/ \E a \in in.agu : a.misaligned /\ c = Completion(a, TRUE)
    BY ExceptionsAfter
  <2>2. \/ ~AguExceptionReady(in) /\ e \in aguException
        \/ \E a \in in.agu : a.misaligned /\ e = Completion(a, TRUE)
    BY ExceptionsAfter
  <2>3. CASE c \in aguException
    BY <1>3, <1>4, <2>2, <2>3
  <2>4. ASSUME NEW a \in in.agu, a.misaligned, c = Completion(a, TRUE)
        PROVE  c = e
    <3>1. PICK b \in in.agu : b.misaligned /\ e = Completion(b, TRUE)
      BY <1>4, <2>2, <2>4
    <3> HIDE DEF Completion
    <3> QED
      BY <1>4, <2>4, <3>1
  <2> QED
    BY <2>1, <2>3, <2>4
<1>6. \A c, e \in completion' : c = e
  <2>1. QuietEdge(in) => \A c, e \in completion' : c = e
    BY <1>3 DEF QuietEdge
  <2>2. ASSUME NEW q, EndingEdge(in, q)
        PROVE  \A c, e \in completion' : c = e
    BY <2>2 DEF EndingEdge, FastEdge, SlowEdge
  <2> QED
    BY <2>1, <2>2, CompletionEdge
<1>7. ASSUME NEW c \in completion', NEW e \in aguException', c.robPointer = e.robPointer
      PROVE  FALSE
  <2>1. CASE QuietEdge(in)
    <3>1. c \in aguException /\ AguExceptionReady(in)
      BY <2>1 DEF QuietEdge
    <3>2. PICK a \in in.agu : a.misaligned
      BY <3>1, ExceptionsAfter
    <3> QED
      BY <1>4, <3>1, <3>2
  <2>2. ASSUME NEW q \in MemoryPositions, EndingEdge(in, q)
        PROVE  FALSE
    <3>1. Ends(in, q) /\ c.robPointer = Age(q)
      BY <2>2 DEF EndingEdge, FastEdge, SlowEdge
    <3>2. ~OwedTo(q) /\ ~Misaligns(in, q)
      BY <3>1, NotYetFinished
    <3>3. \/ e \in aguException
          \/ \E a \in in.agu : a.misaligned /\ e = Completion(a, TRUE)
      BY ExceptionsAfter
    <3>4. e \notin aguException
      BY <1>7, <3>1, <3>2 DEF OwedTo, Owed
    <3>5. PICK a \in in.agu : a.misaligned /\ e = Completion(a, TRUE)
      BY <3>3, <3>4
    <3>6. e.robPointer = a.robPointer
      BY <3>5 DEF Completion
    <3> QED
      BY <1>7, <3>1, <3>2, <3>5, <3>6 DEF Misaligns
  <2> QED
    BY <2>1, <2>2, CompletionEdge
<1> QED
  BY <1>1, <1>2, <1>5, <1>6, <1>7 DEF OwedInv

(***************************************************************************)
(* The order in which the slots learn.                                       *)
(***************************************************************************)
LEMMA LoadFacts ==
  ASSUME CompletionInv, NEW in, NEW n, NEW kinds, Offered(in, n, kinds), NEW i \in LoadIndex
  PROVE  /\ LoadAddressing(in, i) => loads[i].valid /\ ~loads[i].addressReady
         /\ \A a \in in.agu : ~a.isWrite /\ a.index = i =>
               a.mask \in Masks /\ a.misaligned \in BOOLEAN
         /\ LoadAnswering(in, i) => /\ loads[i].valid /\ loads[i].addressReady
                                    /\ ~loads[i].translationDone
         /\ LoadSent(in, i) => /\ loads[i].valid /\ loads[i].translationDone
                               /\ ~loads[i].completed
         /\ LoadDone(in, i) => /\ loads[i].valid /\ loads[i].translationDone
                               /\ loads[i].addressReady /\ ~loads[i].completed
<1>1. /\ LoadAddressing(in, i) => loads[i].valid /\ ~loads[i].addressReady
      /\ \A a \in in.agu : ~a.isWrite /\ a.index = i =>
            a.mask \in Masks /\ a.misaligned \in BOOLEAN
  BY AguAt DEF LoadAddressing, AguReady, AguTargetAvailable, CompletionInv
<1>2. LoadAnswering(in, i) => /\ loads[i].valid /\ loads[i].addressReady
                              /\ ~loads[i].translationDone
  BY TranslatedForm DEF LoadAnswering, LoadAnswered, CompletionInv, OwnerInv
<1>3. LoadSent(in, i) => /\ loads[i].valid /\ loads[i].translationDone /\ ~loads[i].completed
  <2>1. Taken(in) \subseteq requestBuffer
    BY DEF Taken, DataRequest
  <2> QED
    BY <2>1 DEF LoadSent, CompletionInv, BufferLoadInv
<1>4. ASSUME i \in ResponseLoad(in)
      PROVE  /\ loads[i].valid /\ loads[i].translationDone
             /\ loads[i].addressReady /\ ~loads[i].completed
  <2>1. loads[i].valid /\ loads[i].requestSent /\ ~loads[i].completed
    BY <1>4 DEF ResponseLoad
  <2> QED
    BY <2>1 DEF CompletionInv, LoadSlotInv
<1>5. ASSUME ForwardFire(in), i = scheduled.index
      PROVE  /\ loads[i].valid /\ loads[i].translationDone
             /\ loads[i].addressReady /\ ~loads[i].completed
  <2>1. LoadHeadReady /\ Load.translationDone
    BY <1>5 DEF ForwardFire, ForwardCandidate
  <2>2. Copies /\ LoadHead.valid /\ LoadHead.addressReady /\ ~LoadHead.completed
    BY <2>1 DEF LoadHeadReady, Copies
  <2>3. LoadHead.translationDone
    BY <2>1, <2>2 DEF CompletionInv, CopyInv
  <2> QED
    BY <1>5, <2>2, <2>3 DEF LoadHead
<1> QED
  BY <1>1, <1>2, <1>3, <1>4, <1>5 DEF LoadDone

LEMMA LoadSlotStays ==
  ASSUME CompletionInv, NEW in, NEW n, NEW kinds, Offered(in, n, kinds), Cycle(in, n, kinds),
         ~in.flush
  PROVE  LoadSlotInv'
<1> SUFFICES ASSUME NEW i \in LoadIndex
             PROVE  LET r == loads'[i]
                    IN  /\ r.translationDone => r.addressReady
                        /\ r.requestSent => r.translationDone
                        /\ r.addressReady /\ ~r.translationDone => ~r.completed
                        /\ r.addressReady => r.mask \in Masks
  BY DEF LoadSlotInv, LoadIndex
<1> DEFINE s == loads[i]
           r == loads'[i]
<1>1. \/ r = EmptyLoad \/ LoadFresh(in, i) \/ LoadKept(in, i)
  BY LoadEdge DEF CompletionInv, MemoryInv
<1>2. CASE r = EmptyLoad
  BY <1>2 DEF EmptyLoad
<1>3. CASE LoadFresh(in, i)
  <2>1. PICK lane : r = Fresh(EmptyLoad, lane)
    BY <1>3 DEF LoadFresh
  <2>2. ~r.translationDone /\ ~r.requestSent /\ ~r.addressReady
    BY <2>1 DEF Fresh, EmptyLoad
  <2> QED
    BY <2>2
<1>4. ASSUME LoadKept(in, i)
      PROVE  /\ r.translationDone => r.addressReady
             /\ r.requestSent => r.translationDone
             /\ r.addressReady /\ ~r.translationDone => ~r.completed
             /\ r.addressReady => r.mask \in Masks
  <2>1. /\ s.translationDone => s.addressReady
        /\ s.requestSent => s.translationDone
        /\ s.addressReady /\ ~s.translationDone => ~s.completed
        /\ s.addressReady => s.mask \in Masks
    BY DEF CompletionInv, LoadSlotInv
  <2>2. r.requestSent <=> s.requestSent \/ LoadSent(in, i)
    BY <1>4 DEF LoadKept
  <2>3. CASE LoadAnswering(in, i)
    <3>1. ~LoadAddressing(in, i) /\ s.addressReady
      BY <2>3, LoadFacts
    <3>2. r.addressReady = s.addressReady /\ r.mask = s.mask
      BY <1>4, <3>1 DEF LoadKept
    <3>3. r.translationDone
      BY <1>4, <2>3 DEF LoadKept, LoadAnswering
    <3> QED
      BY <2>1, <3>1, <3>2, <3>3
  <2>4. CASE ~LoadAnswering(in, i) /\ LoadAddressing(in, i)
    <3>1. PICK a \in in.agu : ~a.isWrite /\ a.index = i
      BY <2>4 DEF LoadAddressing
    <3>2. /\ r.addressReady = ~a.misaligned /\ r.mask = a.mask
          /\ r.completed <=> a.misaligned \/ LoadDone(in, i)
          /\ r.translationDone <=> s.translationDone /\ ~LoadAddressing(in, i)
      BY <1>4, <2>4, <3>1 DEF LoadKept
    <3>3. a.mask \in Masks /\ a.misaligned \in BOOLEAN /\ ~s.addressReady
      BY <2>4, <3>1, LoadFacts
    <3>4. ~LoadDone(in, i) /\ ~LoadSent(in, i)
      BY <2>1, <3>3, LoadFacts
    <3> QED
      BY <2>1, <2>2, <2>4, <3>2, <3>3, <3>4
  <2>5. CASE ~LoadAnswering(in, i) /\ ~LoadAddressing(in, i)
    <3>1. /\ r.addressReady = s.addressReady /\ r.mask = s.mask
          /\ r.completed <=> s.completed \/ LoadDone(in, i)
          /\ r.translationDone <=> s.translationDone
      BY <1>4, <2>5 DEF LoadKept
    <3>2. /\ LoadDone(in, i) => s.translationDone
          /\ LoadSent(in, i) => s.translationDone
      BY LoadFacts
    <3> QED
      BY <2>1, <2>2, <3>1, <3>2
  <2> QED
    BY <2>3, <2>4, <2>5
<1> QED
  BY <1>1, <1>2, <1>3, <1>4

(* A store that commits without an exception is complete.                       *)
LEMMA CommittedComplete ==
  ASSUME CompletionInv, NEW in, NEW n, NEW kinds, Offered(in, n, kinds),
         NEW i \in CommittedStores(in)
  PROVE  stores[i].completed
<1>1. PICK c \in in.commit : CommitsStore(c, i) /\ ~c.exception
  BY DEF CommittedStores
<1>2. PICK k \in 1 .. n : /\ c.isStore = IsStore(window[k]) /\ c.index = window[k].index
                          /\ c.exception = (window[k].done = "redirect")
  BY <1>1 DEF Offered, CommitLanes
<1>3. /\ window[k].done # "no" /\ n <= Len(window) /\ n \in Nat /\ Len(window) \in Nat
      /\ window \in Seq(WindowUops)
  BY Sizes DEF Offered, Retirable, CompletionInv, MemoryInv, MemoryTypeOK, WindowTypeOK
<1>4. PICK q : q = k - 1
  OBVIOUS
<1>5. q \in 0 .. Len(window) - 1 /\ q + 1 = k /\ k \in 1 .. Len(window)
  BY <1>3, <1>4
<1>6. InWindow(q) /\ Uop(q) = window[k]
  BY <1>5 DEF InWindow, Uop
<1>7. q \in StorePositions /\ Uop(q).index = i
  BY <1>1, <1>2, <1>6, PositionForm DEF CommitsStore
<1>8. window[k].done \in {"no", "good", "redirect"}
  <2>1. window[k] \in WindowUops
    BY <1>3, <1>5
  <2> QED
    BY <2>1 DEF WindowUops
<1>9. Uop(q).done = "good"
  BY <1>1, <1>2, <1>3, <1>6, <1>8
<1>10. Complete(q) /\ q \notin LoadPositions
  BY <1>7, <1>9, PositionForm DEF CompletionInv, DoneInv, MemoryPositions
<1> QED
  BY <1>7, <1>10 DEF Complete, StoreOf

LEMMA StoreSlotStays ==
  ASSUME CompletionInv, NEW in, NEW n, NEW kinds, Offered(in, n, kinds), Cycle(in, n, kinds),
         ~in.flush
  PROVE  StoreSlotInv'
<1> SUFFICES ASSUME NEW i \in StoreIndex
             PROVE  LET r == stores'[i]
                    IN  /\ r.completed => r.translationDone
                        /\ r.committed => r.completed \/ r.requestSent
                        /\ r.requestSent => ~r.isSc
                        /\ r.translationDone /\ r.uncached => ~r.scSuccess
  BY DEF StoreSlotInv, StoreIndex
<1> DEFINE s == stores[i]
           r == stores'[i]
<1>1. \/ r = EmptyStore \/ StoreFresh(in, i) \/ StoreKept(in, i)
  BY StoreEdge DEF CompletionInv, MemoryInv
<1>2. CASE r = EmptyStore
  BY <1>2 DEF EmptyStore
<1>3. CASE StoreFresh(in, i)
  <2>1. PICK lane : r = Fresh(EmptyStore, lane)
    BY <1>3 DEF StoreFresh
  <2>2. ~r.completed /\ ~r.committed /\ ~r.requestSent /\ ~r.translationDone
    BY <2>1 DEF Fresh, EmptyStore
  <2> QED
    BY <2>2
<1>4. ASSUME StoreKept(in, i)
      PROVE  /\ r.completed => r.translationDone
             /\ r.committed => r.completed \/ r.requestSent
             /\ r.requestSent => ~r.isSc
             /\ r.translationDone /\ r.uncached => ~r.scSuccess
  <2>1. /\ s.completed => s.translationDone
        /\ s.committed => s.completed \/ s.requestSent
        /\ s.requestSent => ~s.isSc
        /\ s.translationDone /\ s.uncached => ~s.scSuccess
    BY DEF CompletionInv, StoreSlotInv
  <2>2. /\ s.translationDone => s.addressReady
        /\ s.requestSent => s.translationDone
    BY DEF CompletionInv, MemoryInv, StoreInv, SentInv
  <2>3. /\ StoreAddressing(in, i) => ~s.addressReady
        /\ StoreAnswering(in, i) => s.addressReady /\ ~s.translationDone
    BY AddressedOnce, AnsweredOnce DEF CompletionInv, MemoryInv
  <2>4. i = storeHead /\ (StoreCompletionFire(in) \/ ResponseStoreAccepted(in)) => s.translationDone
    BY <2>2 DEF StoreCompletionFire, StoreCompletionCandidate, ResponseStoreAccepted, HeadStore
  <2>5. StoreSent(in, i) => s.translationDone /\ ~s.isSc
    <3> SUFFICES ASSUME StoreSent(in, i) PROVE s.translationDone /\ ~s.isSc
      OBVIOUS
    <3>1. PICK q \in requestBuffer : q.isWrite /\ q.uncached /\ q.index = i
      BY DEF StoreSent, Taken, DataRequest
    <3>2. /\ i = storeHead /\ q.uncached = HeadStore.uncached /\ HeadStore.translationDone
          /\ HeadStore.isSc => HeadStore.scSuccess
      BY <3>1 DEF CompletionInv, MemoryInv, StoreInv, BufferInv
    <3> QED
      BY <2>1, <3>1, <3>2 DEF HeadStore
  <2>6. /\ r.committed <=> s.committed \/ i \in CommittedStores(in)
        /\ r.requestSent <=> s.requestSent \/ StoreSent(in, i)
        /\ ~StoreAddressing(in, i) => r.isSc = s.isSc
    BY <1>4 DEF StoreKept
  <2>7. i \in CommittedStores(in) => s.completed
    BY CommittedComplete
  <2>8. r.requestSent => ~r.isSc
    BY <2>1, <2>2, <2>3, <2>5, <2>6
  <2>9. CASE StoreAnswering(in, i)
    <3>1. PICK t : StoreAnswered(in, i, t)
      BY <2>9 DEF StoreAnswering
    <3>2. /\ r.uncached = t.uncached /\ r.translationDone
          /\ r.scSuccess <=> s.isSc /\ ScSucceeds(t)
          /\ s.completed => r.completed
      BY <1>4, <3>1 DEF StoreKept
    <3>3. r.uncached => ~r.scSuccess
      BY <3>2 DEF ScSucceeds
    <3> QED
      BY <2>1, <2>6, <2>7, <2>8, <3>2, <3>3
  <2>10. CASE ~StoreAnswering(in, i)
    <3>1. /\ r.uncached = s.uncached /\ r.scSuccess = s.scSuccess
          /\ r.translationDone <=> s.translationDone /\ ~StoreAddressing(in, i)
          /\ r.completed <=> \/ s.completed
                             \/ i = storeHead /\ (StoreCompletionFire(in)
                                                  \/ ResponseStoreAccepted(in))
      BY <1>4, <2>10 DEF StoreKept
    <3>2. r.completed => r.translationDone
      BY <2>1, <2>2, <2>3, <2>4, <3>1
    <3> QED
      BY <2>1, <2>6, <2>7, <2>8, <3>1, <3>2
  <2> QED
    BY <2>9, <2>10
<1> QED
  BY <1>1, <1>2, <1>3, <1>4

(***************************************************************************)
(* The scheduled load and the translation under way.                         *)
(***************************************************************************)
LEMMA UnfinishedStays ==
  ASSUME CompletionInv, NEW in, NEW n, NEW kinds, Offered(in, n, kinds), Cycle(in, n, kinds),
         ~in.flush, NEW i \in LoadIndex, loads[i].valid, ~loads[i].completed
  PROVE  LoadKept(in, i)
<1>1. PICK q \in LoadPositions : Uop(q).index = i
  BY HeldLoads DEF CompletionInv
<1>2. LoadOf(q) = loads[i] /\ q \in MemoryPositions
  BY <1>1 DEF LoadOf, MemoryPositions
<1>3. ~Complete(q)
  BY <1>1, <1>2 DEF Complete
<1>4. Uop(q).done = "no"
  BY <1>1, <1>2, <1>3 DEF CompletionInv, IssueInv, DoneInv
<1>5. ~(q < n)
  <2> SUFFICES ASSUME q < n PROVE FALSE
    OBVIOUS
  <2>1. q \in Nat /\ n \in Nat
    BY <1>2, PositionForm, InWindowForm, Sizes DEF CompletionInv, MemoryInv, Offered
  <2>2. q + 1 \in 1 .. n
    BY <2>1
  <2>3. window[q + 1].done # "no"
    BY <2>2 DEF Offered, Retirable
  <2> QED
    BY <1>4, <2>3 DEF Uop
<1>6. i \notin CommittedLoads(in)
  BY <1>1, <1>5, LoadLeaves DEF CompletionInv
<1> QED
  BY <1>6, LoadStays DEF CompletionInv

LEMMA OldestPending ==
  ASSUME CompletionInv, Copies, scheduled.index \in PendingLoads
  PROVE  PendingLoads # {} /\ SelectedLoad = scheduled.index
<1> DEFINE c == scheduled.index
           i == SelectedLoad
           N == LoadQueueEntries
<1>1. /\ i \in PendingLoads /\ i \in LoadIndex
      /\ Gap(loadBase, i, N) <= Gap(loadBase, c, N)
  BY SelectedForm DEF CompletionInv, MemoryInv
<1>2. /\ loads[i].valid /\ ~loads[i].requestSent /\ ~loads[i].completed
      /\ c \in LoadIndex /\ loads[c].valid
  BY <1>1 DEF PendingLoads
<1>3. PICK j \in LoadPositions : Uop(j).index = i
  BY <1>1, <1>2, HeldLoads DEF CompletionInv
<1>4. PICK k \in LoadPositions : Uop(k).index = c
  BY <1>2, HeldLoads DEF CompletionInv
<1>5. ~(j < k)
  BY <1>2, <1>3, <1>4 DEF CompletionInv, ScheduleInv, LoadOf
<1>6. ~(k < j)
  <2>1. k < j => Gap(loadBase, c, N) < Gap(loadBase, i, N)
    BY <1>3, <1>4, HeldLoads DEF CompletionInv
  <2>2. Gap(loadBase, c, N) \in Nat /\ Gap(loadBase, i, N) \in Nat
    <3>1. /\ N \in Nat \ {0} /\ loadBase \in 0 .. N - 1 /\ LoadIndex = 0 .. N - 1
          /\ i \in 0 .. N - 1 /\ c \in 0 .. N - 1
      BY <1>1, <1>2, LoadNumbers DEF CompletionInv, MemoryInv
    <3> HIDE DEF N, c, i
    <3>2. Gap(loadBase, c, N) \in 0 .. N - 1 /\ Gap(loadBase, i, N) \in 0 .. N - 1
      BY <3>1, GapForm
    <3> QED
      BY <3>1, <3>2
  <2> QED
    BY <1>1, <2>1, <2>2
<1>7. j \in Nat /\ k \in Nat
  BY PositionForm, InWindowForm DEF CompletionInv, MemoryInv
<1>8. j = k
  BY <1>5, <1>6, <1>7
<1> QED
  BY <1>3, <1>4, <1>8

(* The scheduled load, located and untranslated, stays so where no answer comes.  *)
LEMMA WaitingLoadStays ==
  ASSUME CompletionInv, NEW in, NEW n, NEW kinds, Offered(in, n, kinds), Cycle(in, n, kinds),
         ~in.flush, Copies, NEW i, i = scheduled.index,
         loads[i].addressReady, ~loads[i].translationDone, ~LoadAnswering(in, i)
  PROVE  /\ loads'[i].valid /\ loads'[i].addressReady /\ ~loads'[i].translationDone
         /\ loads'[i].robPointer = Load.robPointer
         /\ loads'[i].recoveryEpoch = Load.recoveryEpoch
         /\ scheduled'.valid /\ scheduled'.index = i
         /\ scheduled'.load.robPointer = Load.robPointer
<1>1. /\ i \in LoadIndex /\ LoadHead = loads[i] /\ loads[i].valid
      /\ loads[i].robPointer = Load.robPointer /\ loads[i].recoveryEpoch = Load.recoveryEpoch
  BY DEF Copies, LoadHead, CompletionInv, CopyInv, MemoryInv, MemoryTypeOK, QueueTypeOK, Scheduled
<1>2. ~loads[i].requestSent /\ ~loads[i].completed
  BY <1>1 DEF CompletionInv, LoadSlotInv
<1>3. LoadKept(in, i)
  BY <1>1, <1>2, UnfinishedStays
<1>4. ~LoadAddressing(in, i)
  BY <1>1, LoadFacts
<1>5. i \in PendingLoads
  BY <1>1, <1>2 DEF PendingLoads
<1>6. PendingLoads # {} /\ SelectedLoad = i
  BY <1>5, OldestPending
<1>7. scheduled'.valid
  BY <1>6 DEF Cycle, QueueStep, ScheduleStep
<1>8. scheduled'.index = i /\ scheduled'.load.robPointer = loads[i].robPointer
  BY <1>6, ScheduleForm DEF Copied, CompletionInv, MemoryInv
<1> QED
  BY <1>1, <1>3, <1>4, <1>7, <1>8 DEF LoadKept

LEMMA OwnerStays ==
  ASSUME CompletionInv, NEW in, NEW n, NEW kinds, Offered(in, n, kinds), Cycle(in, n, kinds),
         ~in.flush, translation'.active
  PROVE  /\ ~translationCancelPending'
         /\ translation'.store =>
               stores'[translation'.index].recoveryEpoch = translation'.recoveryEpoch
         /\ ~translation'.store =>
               LET r == loads'[translation'.index]
               IN  /\ r.valid /\ r.addressReady /\ ~r.translationDone
                   /\ r.robPointer = translation'.robPointer
                   /\ r.recoveryEpoch = translation'.recoveryEpoch
                   /\ scheduled'.valid /\ scheduled'.index = translation'.index
                   /\ scheduled'.load.robPointer = translation'.robPointer
<1>1. /\ in.translationReady => translation' = TranslationOwner
      /\ ~in.translationReady => in.translation = {} /\ translation' = translation
      /\ translationCancelPending' <=> in.translation = {} /\ translationCancelPending
  <2>1. ~NoTranslation.active
    BY DEF NoTranslation
  <2> QED
    BY <2>1 DEF Cycle, QueueStep, TranslationStep
<1>2. ASSUME NEW i \in StoreIndex, i \in UntranslatedStores
      PROVE  stores'[i].recoveryEpoch = stores[i].recoveryEpoch
  <2>1. stores[i].valid /\ ~stores[i].translationDone
    BY <1>2 DEF UntranslatedStores
  <2>2. ~StoreFreed(i)
    BY <2>1, HeadForm DEF CompletionInv, MemoryInv
  <2>3. GoesOn(in, i)
    BY <2>1, <2>2, StoreGoesOn DEF CompletionInv, MemoryInv
  <2> QED
    BY <2>3 DEF GoesOn, StoreKept
<1>3. CASE in.translationReady
  <2>1. /\ ~translation.active /\ ~translationCancelPending /\ in.translation = {}
        /\ (\E i \in StoreIndex : StoreAsks(i, TranslationOwner)) \/ LoadAsks(TranslationOwner)
    BY <1>3, OwnerForm DEF CompletionInv, MemoryInv
  <2>2. ASSUME NEW i \in StoreIndex, StoreAsks(i, translation')
        PROVE  /\ translation'.store
               /\ stores'[translation'.index].recoveryEpoch = translation'.recoveryEpoch
    BY <1>2, <2>2 DEF StoreAsks
  <2>3. ASSUME LoadAsks(translation')
        PROVE  /\ ~translation'.store
               /\ LET r == loads'[translation'.index]
                  IN  /\ r.valid /\ r.addressReady /\ ~r.translationDone
                      /\ r.robPointer = translation'.robPointer
                      /\ r.recoveryEpoch = translation'.recoveryEpoch
                      /\ scheduled'.valid /\ scheduled'.index = translation'.index
                      /\ scheduled'.load.robPointer = translation'.robPointer
    <3>1. PICK i : i = scheduled.index
      OBVIOUS
    <3>2. /\ ~translation'.store /\ translation'.index = i
          /\ translation'.robPointer = Load.robPointer
          /\ translation'.recoveryEpoch = Load.recoveryEpoch
      BY <2>3, <3>1 DEF LoadAsks
    <3>3. /\ LoadHeadReady /\ ~Load.translationDone
      BY <2>3 DEF LoadAsks, LoadNeedsTranslation
    <3>4. Copies /\ LoadHead.addressReady /\ ~LoadHead.completed
      BY <3>3 DEF LoadHeadReady, Copies
    <3>5. loads[i].addressReady /\ ~loads[i].translationDone
      BY <3>1, <3>3, <3>4 DEF CompletionInv, CopyInv, LoadHead
    <3>6. ~LoadAnswering(in, i)
      BY <2>1, TranslatedForm DEF LoadAnswering, LoadAnswered
    <3>7. /\ loads'[i].valid /\ loads'[i].addressReady /\ ~loads'[i].translationDone
          /\ loads'[i].robPointer = Load.robPointer
          /\ loads'[i].recoveryEpoch = Load.recoveryEpoch
          /\ scheduled'.valid /\ scheduled'.index = i
          /\ scheduled'.load.robPointer = Load.robPointer
      BY <3>1, <3>4, <3>5, <3>6, WaitingLoadStays
    <3> QED
      BY <3>2, <3>7
  <2> QED
    BY <1>1, <1>3, <2>1, <2>2, <2>3
<1>4. CASE ~in.translationReady
  <2>1. translation' = translation /\ translation.active /\ in.translation = {}
    BY <1>1, <1>4
  <2>2. ~translationCancelPending
    BY <2>1 DEF CompletionInv, OwnerInv
  <2>3. ASSUME translation.store
        PROVE  stores'[translation.index].recoveryEpoch = translation.recoveryEpoch
    <3>1. translation.index \in StoreIndex
      BY <2>1, <2>3 DEF CompletionInv, MemoryInv, MemoryTypeOK, QueueTypeOK
    <3>2. translation.index \in UntranslatedStores
      BY <2>1, <2>3, <3>1 DEF CompletionInv, MemoryInv, StoreInv, OwnerStoreInv, OwnerStore,
         UntranslatedStores
    <3>3. stores[translation.index].recoveryEpoch = translation.recoveryEpoch
      BY <2>1, <2>3 DEF CompletionInv, OwnerInv, OwnerStore
    <3> QED
      BY <1>2, <3>1, <3>2, <3>3
  <2>4. ASSUME ~translation.store
        PROVE  LET r == loads'[translation.index]
               IN  /\ r.valid /\ r.addressReady /\ ~r.translationDone
                   /\ r.robPointer = translation.robPointer
                   /\ r.recoveryEpoch = translation.recoveryEpoch
                   /\ scheduled'.valid /\ scheduled'.index = translation.index
                   /\ scheduled'.load.robPointer = translation.robPointer
    <3>1. PICK i : i = translation.index
      OBVIOUS
    <3>2. /\ loads[i].valid /\ loads[i].addressReady /\ ~loads[i].translationDone
          /\ loads[i].robPointer = translation.robPointer
          /\ loads[i].recoveryEpoch = translation.recoveryEpoch
          /\ scheduled.valid /\ scheduled.index = i /\ Load.robPointer = translation.robPointer
      BY <2>1, <2>4, <3>1 DEF CompletionInv, OwnerInv
    <3>3. Copies /\ Load.recoveryEpoch = translation.recoveryEpoch
      BY <3>2 DEF Copies, LoadHead, CompletionInv, CopyInv
    <3>4. ~LoadAnswering(in, i)
      BY <2>1, TranslatedForm DEF LoadAnswering, LoadAnswered
    <3>5. /\ loads'[i].valid /\ loads'[i].addressReady /\ ~loads'[i].translationDone
          /\ loads'[i].robPointer = Load.robPointer
          /\ loads'[i].recoveryEpoch = Load.recoveryEpoch
          /\ scheduled'.valid /\ scheduled'.index = i
          /\ scheduled'.load.robPointer = Load.robPointer
      BY <3>2, <3>3, <3>4, WaitingLoadStays
    <3> QED
      BY <3>1, <3>2, <3>3, <3>5
  <2> QED
    BY <1>1, <2>1, <2>2, <2>3, <2>4
<1> QED
  BY <1>3, <1>4

LEMMA AnswerReachesBoth ==
  ASSUME CompletionInv, NEW in, NEW n, NEW kinds, Offered(in, n, kinds), PendingLoads # {},
         NEW i, i = SelectedLoad, NEW t
  PROVE  BypassAnswer(in, t) <=> LoadAnswered(in, i, t)
<1>1. ASSUME LoadAnswered(in, i, t) PROVE BypassAnswer(in, t)
  <2>1. /\ translation.active /\ ~translation.store /\ translation.index = i
        /\ t \in Translated(in) /\ ~t.cancelled
        /\ loads[i].valid /\ loads[i].robPointer = translation.robPointer
    BY <1>1, TranslatedForm DEF LoadAnswered
  <2>2. /\ scheduled.valid /\ scheduled.index = translation.index
        /\ Load.robPointer = translation.robPointer
    BY <2>1 DEF CompletionInv, OwnerInv
  <2> QED
    BY <2>1, <2>2 DEF BypassAnswer
<1>2. ASSUME BypassAnswer(in, t) PROVE LoadAnswered(in, i, t)
  <2>1. /\ translation.active /\ ~translation.store /\ scheduled.index = translation.index
        /\ t \in Translated(in) /\ ~t.cancelled /\ scheduled.valid
        /\ Load.robPointer = translation.robPointer
        /\ loads[translation.index].valid
        /\ loads[translation.index].robPointer = translation.robPointer
    BY <1>2, TranslatedForm DEF BypassAnswer
  <2>2. /\ loads[translation.index].addressReady /\ ~loads[translation.index].translationDone
        /\ translation.index \in LoadIndex
    BY <2>1 DEF CompletionInv, OwnerInv, MemoryInv, MemoryTypeOK, QueueTypeOK
  <2>3. ~loads[translation.index].requestSent /\ ~loads[translation.index].completed
    BY <2>2 DEF CompletionInv, LoadSlotInv
  <2>4. translation.index \in PendingLoads
    BY <2>1, <2>2, <2>3 DEF PendingLoads
  <2>5. Copies
    BY <2>1 DEF Copies, LoadHead
  <2>6. SelectedLoad = translation.index
    BY <2>1, <2>4, <2>5, OldestPending
  <2> QED
    BY <2>1, <2>6 DEF LoadAnswered
<1> QED
  BY <1>1, <1>2

LEMMA CopyStays ==
  ASSUME CompletionInv, NEW in, NEW n, NEW kinds, Offered(in, n, kinds), Cycle(in, n, kinds),
         ~in.flush
  PROVE  CopyInv'
<1> SUFFICES ASSUME Copies'
             PROVE  LET b == scheduled'.load
                        r == loads'[scheduled'.index]
                    IN  /\ b.recoveryEpoch = r.recoveryEpoch
                        /\ r.addressReady /\ ~r.completed =>
                              /\ b.translationDone = r.translationDone
                              /\ b.word = r.word /\ b.uncached = r.uncached
                              /\ b.mask = r.mask
  BY DEF CopyInv, Load, LoadHead
<1>1. PendingLoads # {}
  BY ScheduleForm DEF Copies, CompletionInv, MemoryInv
<1>2. PICK i : i = SelectedLoad
  OBVIOUS
<1>3. PICK b, r, s : b = scheduled'.load /\ r = loads'[i] /\ s = loads[i]
  OBVIOUS
<1>4. /\ scheduled'.index = i /\ Copied(in, i, b) /\ scheduled' \in Scheduled
  BY <1>1, <1>2, <1>3, ScheduleForm DEF CompletionInv, MemoryInv
<1>5. i \in PendingLoads /\ i \in LoadIndex
  BY <1>1, <1>2, SelectedForm DEF CompletionInv, MemoryInv
<1>6. LoadKept(in, i)
  BY <1>5, UnfinishedStays DEF PendingLoads
<1>7. b \in LoadEntries /\ r \in LoadEntries
  BY <1>3, <1>4, <1>5, LoadEdge DEF Scheduled, CompletionInv, MemoryInv
<1>8. \A t : BypassAnswer(in, t) <=> LoadAnswered(in, i, t)
  BY <1>1, <1>2, AnswerReachesBoth
<1>9. b.recoveryEpoch = r.recoveryEpoch
  BY <1>3, <1>4, <1>6 DEF Copied, LoadKept
<1>10. ASSUME r.addressReady, ~r.completed
       PROVE  /\ b.translationDone = r.translationDone
              /\ b.word = r.word /\ b.uncached = r.uncached
              /\ b.mask = r.mask
  <2>1. b.mask = r.mask /\ (LoadAddressing(in, i) <=> \E a : BypassAddress(in, i, a))
    <3>1. CASE LoadAddressing(in, i)
      <4>1. PICK a \in in.agu : ~a.isWrite /\ a.index = i
        BY <3>1 DEF LoadAddressing
      <4>2. r.addressReady = ~a.misaligned /\ r.mask = a.mask
        BY <1>3, <1>6, <4>1 DEF LoadKept
      <4>3. BypassAddress(in, i, a)
        BY <1>10, <4>1, <4>2 DEF BypassAddress
      <4>4. b.mask = a.mask
        BY <1>4, <4>3 DEF Copied
      <4> QED
        BY <3>1, <4>2, <4>3, <4>4
    <3>2. CASE ~LoadAddressing(in, i)
      <4>1. \A a : ~BypassAddress(in, i, a)
        BY <3>2 DEF LoadAddressing, BypassAddress
      <4>2. b.mask = s.mask
        BY <1>3, <1>4, <4>1 DEF Copied
      <4>3. r.mask = s.mask
        BY <1>3, <1>6, <3>2 DEF LoadKept
      <4> QED
        BY <3>2, <4>1, <4>2, <4>3
    <3> QED
      BY <3>1, <3>2
  <2>2. CASE \A t : ~BypassAnswer(in, t)
    <3>1. ~LoadAnswering(in, i)
      BY <1>8, <2>2 DEF LoadAnswering
    <3>2. /\ r.word = s.word /\ r.uncached = s.uncached
          /\ r.translationDone <=> s.translationDone /\ ~LoadAddressing(in, i)
      BY <1>3, <1>6, <3>1 DEF LoadKept
    <3>3. /\ b.word = s.word /\ b.uncached = s.uncached
          /\ b.translationDone <=> s.translationDone /\ \A a : ~BypassAddress(in, i, a)
      BY <1>3, <1>4, <2>2 DEF Copied
    <3>4. b.translationDone <=> r.translationDone
      BY <2>1, <3>2, <3>3
    <3>5. b.translationDone \in BOOLEAN /\ r.translationDone \in BOOLEAN
      BY <1>7 DEF LoadEntries
    <3> QED
      BY <2>1, <3>2, <3>3, <3>4, <3>5
  <2>3. ASSUME NEW t, BypassAnswer(in, t)
        PROVE  /\ b.translationDone = r.translationDone
               /\ b.word = r.word /\ b.uncached = r.uncached
    <3>1. LoadAnswered(in, i, t)
      BY <1>8, <2>3
    <3>2. r.word = t.word /\ r.uncached = t.uncached /\ r.translationDone
      BY <1>3, <1>6, <3>1 DEF LoadKept
    <3>3. b.word = t.word /\ b.uncached = t.uncached /\ b.translationDone
      BY <1>4, <2>3 DEF Copied
    <3>5. b.translationDone \in BOOLEAN /\ r.translationDone \in BOOLEAN
      BY <1>7 DEF LoadEntries
    <3> QED
      BY <3>2, <3>3, <3>5
  <2> QED
    BY <2>1, <2>2, <2>3
<1> QED
  BY <1>3, <1>4, <1>9, <1>10

LEMMA ScheduleStays ==
  ASSUME CompletionInv, NEW in, NEW n, NEW kinds, Offered(in, n, kinds), Cycle(in, n, kinds),
         ~in.flush
  PROVE  ScheduleInv'
<1> SUFFICES ASSUME Copies', NEW j \in LoadPositions', NEW k \in LoadPositions', j < k,
                    Uop(k)'.index = scheduled'.index
             PROVE  LoadOf(j)'.requestSent \/ LoadOf(j)'.completed
  BY DEF ScheduleInv
<1>1. PICK i : i = SelectedLoad
  OBVIOUS
<1>2. i \in PendingLoads /\ i \in LoadIndex /\ Uop(k)'.index = i
  <2>1. PendingLoads # {}
    BY ScheduleForm DEF Copies, CompletionInv, MemoryInv
  <2> QED
    BY <1>1, <2>1, ScheduleForm, SelectedForm DEF CompletionInv, MemoryInv
<1>3. j \in MemoryPositions' /\ k \in MemoryPositions'
  BY DEF MemoryPositions
<1>4. IsLoad(Uop(k)') /\ InWindow(j)' /\ InWindow(k)'
  BY DEF LoadPositions, InWindow, Uop, IsLoad
<1>5. PICK q \in MemoryPositions : Follows(in, n, q, k) /\ AccessMoves(in, q, k)
  <2>1. ~Enters(in, n, k)
    BY <1>2, <1>4 DEF Enters, PendingLoads
  <2> QED
    BY <1>3, <2>1, AccessCases
<1>6. /\ q = n + k /\ q \in LoadPositions /\ Uop(q).index = i /\ InWindow(q)
  BY <1>2, <1>5 DEF Follows, AccessMoves
<1>7. /\ n \in Nat /\ Len(window) \in Nat /\ q < Len(window) /\ Len(window') \in Nat
      /\ j \in Nat /\ k \in Nat
  <2>1. n \in Nat /\ Len(window) \in Nat
    BY Sizes DEF Offered, CompletionInv, MemoryInv, MemoryTypeOK, WindowTypeOK
  <2>2. q < Len(window)
    BY <1>6, <2>1 DEF InWindow
  <2>3. Len(window') \in Nat
    <3>1. MemoryTypeOK'
      BY MemoryInvStep DEF CompletionInv, MemoryInv
    <3> QED
      BY <3>1 DEF MemoryTypeOK, WindowTypeOK
  <2>4. j \in Nat /\ k \in Nat
    BY <1>4, <2>3 DEF InWindow
  <2> QED
    BY <2>1, <2>2, <2>3, <2>4
<1>8. PICK p \in MemoryPositions : Follows(in, n, p, j) /\ AccessMoves(in, p, j)
  <2>1. ~(Len(window) <= n + j)
    BY <1>6, <1>7
  <2>2. ~Enters(in, n, j)
    BY <2>1 DEF Enters
  <2> QED
    BY <1>3, <2>2, AccessCases
<1>9. /\ p = n + j /\ p \in LoadPositions /\ Uop(j)'.index = Uop(p).index
      /\ LoadKept(in, Uop(p).index)
  BY <1>8 DEF Follows, AccessMoves
<1>10. p < q
  BY <1>6, <1>7, <1>9
<1>11. PICK h : h = Uop(p).index
  OBVIOUS
<1>12. /\ h \in LoadIndex /\ loads[h].valid
       /\ Gap(loadBase, h, LoadQueueEntries) < Gap(loadBase, i, LoadQueueEntries)
  BY <1>6, <1>9, <1>10, <1>11, HeldLoads DEF LoadOf, CompletionInv
<1>13. Gap(loadBase, h, LoadQueueEntries) \in Nat /\ Gap(loadBase, i, LoadQueueEntries) \in Nat
  <2>1. /\ LoadQueueEntries \in Nat \ {0} /\ loadBase \in 0 .. LoadQueueEntries - 1
        /\ LoadIndex = 0 .. LoadQueueEntries - 1
    BY LoadNumbers DEF CompletionInv, MemoryInv
  <2> QED
    BY <1>2, <1>12, <2>1, GapForm
<1>14. h \notin PendingLoads
  <2>1. h \in PendingLoads =>
          Gap(loadBase, i, LoadQueueEntries) <= Gap(loadBase, h, LoadQueueEntries)
    BY <1>1, <1>2, SelectedForm DEF CompletionInv, MemoryInv
  <2> QED
    BY <1>12, <1>13, <2>1
<1>15. CASE loads[h].requestSent
  <2>1. loads'[h].requestSent
    BY <1>9, <1>11, <1>15 DEF LoadKept
  <2> QED
    BY <1>9, <1>11, <2>1 DEF LoadOf
<1>16. CASE loads[h].completed
  <2>1. Complete(p)
    BY <1>9, <1>11, <1>16 DEF Complete, LoadOf
  <2>2. Complete(j)'
    BY <1>8, <2>1 DEF AccessMoves
  <2> QED
    BY <2>2 DEF Complete
<1> QED
  BY <1>12, <1>14, <1>15, <1>16 DEF PendingLoads

LEMMA OwnerInvStays ==
  ASSUME CompletionInv, NEW in, NEW n, NEW kinds, Offered(in, n, kinds), Cycle(in, n, kinds),
         ~in.flush
  PROVE  OwnerInv'
BY OwnerStays DEF OwnerInv, OwnerStore, Load

(***************************************************************************)
(* The load waiting for the cache.                                            *)
(***************************************************************************)
LEMMA LanesAreYounger ==
  ASSUME MemoryInv, NEW in, NEW n, NEW kinds, Offered(in, n, kinds),
         NEW lane \in in.group, NEW q, InWindow(q)
  PROVE  ~IsOlder(lane.robPointer, Age(q))
<1>1. PICK i : Laning(lane, kinds, i)
  BY LaneForm
<1>2. /\ i \in 1 .. Len(kinds) /\ Len(kinds) \in Nat
      /\ lane.robPointer = Pointer(Len(window) + i)
  BY <1>1, GroupForm DEF Laning
<1>3. /\ Len(window) + Len(kinds) <= RobEntries /\ Len(window) \in Nat /\ RobEntries \in Nat
      /\ q \in 0 .. Len(window) - 1
  BY GroupFits, Sizes DEF MemoryInv, MemoryTypeOK, WindowTypeOK, InWindow
<1>4. PICK x, y : x = Len(window) + i /\ y = q + 1
  OBVIOUS
<1>5. x \in 1 .. RobEntries /\ y \in 1 .. RobEntries /\ ~(x < y)
  BY <1>2, <1>3, <1>4
<1>6. ~IsOlder(Pointer(x), Pointer(y))
  BY <1>5, PointerAge DEF MemoryInv
<1> QED
  BY <1>2, <1>4, <1>6 DEF Age

Waits(r) ==
    LET s == loads[r.index]
    IN  /\ r.index \in LoadIndex
        /\ s.valid /\ s.robPointer = r.robPointer /\ s.translationDone
        /\ ~s.requestSent /\ ~s.completed
        /\ \A i \in StoreIndex : Blocks(stores[i], r)

LEMMA BlockedLoads ==
  ASSUME CompletionInv, NEW r, Waits(r), Copies, scheduled.index = r.index
  PROVE  ForwardingStores = {}
<1> SUFFICES ASSUME NEW x \in ForwardingStores PROVE FALSE
  OBVIOUS
<1>1. PICK s : s = loads[r.index]
  OBVIOUS
<1>2. /\ s.valid /\ s.robPointer = r.robPointer /\ s.translationDone /\ ~s.completed
      /\ LoadHead = s /\ r.index \in LoadIndex
  BY <1>1 DEF Waits, LoadHead
<1>3. s.addressReady
  BY <1>1, <1>2 DEF CompletionInv, LoadSlotInv
<1>4. Load.robPointer = r.robPointer /\ Load.word = s.word /\ Load.mask = s.mask
  BY <1>2, <1>3 DEF CompletionInv, CopyInv, Copies
<1>5. /\ x \in StoreIndex /\ stores[x].valid /\ IsOlder(stores[x].robPointer, r.robPointer)
      /\ stores[x].word = s.word /\ s.mask \subseteq stores[x].mask
  BY <1>4 DEF ForwardingStores, OlderStores, Aliases, Covers
<1>6. Blocks(stores[x], r)
  BY <1>5 DEF Waits
<1> QED
  BY <1>1, <1>5, <1>6 DEF Blocks

LEMMA WaitingStays ==
  ASSUME CompletionInv, NEW in, NEW n, NEW kinds, Offered(in, n, kinds), Cycle(in, n, kinds),
         ~in.flush, NEW r, Waits(r), Taken(in) = {}
  PROVE  Waits(r)'
<1>1. PICK i : i = r.index
  OBVIOUS
<1>2. /\ i \in LoadIndex /\ loads[i].valid /\ loads[i].robPointer = r.robPointer
      /\ loads[i].translationDone /\ ~loads[i].requestSent /\ ~loads[i].completed
  BY <1>1 DEF Waits
<1>3. LoadKept(in, i)
  BY <1>2, UnfinishedStays
<1>4. ~LoadSent(in, i)
  BY DEF LoadSent
<1>5. ~LoadAddressing(in, i) /\ ~LoadAnswering(in, i)
  <2>1. loads[i].addressReady
    BY <1>2 DEF CompletionInv, LoadSlotInv
  <2> QED
    BY <1>2, <2>1, LoadFacts
<1>6. ~LoadDone(in, i)
  <2>1. i \notin ResponseLoad(in)
    BY <1>2 DEF ResponseLoad
  <2>2. ASSUME ForwardFire(in), i = scheduled.index PROVE FALSE
    <3>1. ForwardCandidate
      BY <2>2 DEF ForwardFire
    <3>2. Copies /\ Cardinality(ForwardingStores) = 1
      BY <3>1 DEF ForwardCandidate, LoadHeadReady, Copies
    <3>3. ForwardingStores = {}
      BY <1>1, <2>2, <3>2, BlockedLoads
    <3> QED
      BY <3>2, <3>3, FS_EmptySet
  <2> QED
    BY <2>1, <2>2 DEF LoadDone
<1>7. /\ loads'[i].valid /\ loads'[i].robPointer = r.robPointer /\ loads'[i].translationDone
      /\ ~loads'[i].requestSent /\ ~loads'[i].completed
      /\ loads'[i].word = loads[i].word /\ loads'[i].mask = loads[i].mask
  BY <1>2, <1>3, <1>4, <1>5, <1>6 DEF LoadKept
<1>8. PICK q \in LoadPositions : Age(q) = r.robPointer /\ InWindow(q)
  <2>1. PICK q \in LoadPositions : Uop(q).index = i
    BY <1>2, HeldLoads DEF CompletionInv
  <2>2. Age(q) = r.robPointer
    BY <1>2, <2>1, HeldLoads DEF CompletionInv, LoadOf
  <2> QED
    BY <2>2, PositionForm
<1>9. ASSUME NEW x \in StoreIndex, stores'[x].valid,
             IsOlder(stores'[x].robPointer, r.robPointer)
      PROVE  /\ stores'[x].translationDone
             /\ ~(stores'[x].word = loads'[i].word /\ loads'[i].mask \subseteq stores'[x].mask)
  <2>1. stores'[x] = EmptyStore \/ StoreFresh(in, x) \/ StoreKept(in, x)
    BY StoreEdge DEF CompletionInv, MemoryInv
  <2>2. stores'[x] # EmptyStore
    BY <1>9 DEF EmptyStore
  <2>3. ~StoreFresh(in, x)
    <3> SUFFICES ASSUME StoreFresh(in, x) PROVE FALSE
      OBVIOUS
    <3>1. PICK lane \in Lanes(in, TRUE, x) : stores'[x] = Fresh(EmptyStore, lane)
      BY DEF StoreFresh
    <3>2. lane \in in.group /\ stores'[x].robPointer = lane.robPointer
      BY <3>1 DEF Lanes, Fresh, EmptyStore
    <3> QED
      BY <1>8, <1>9, <3>2, LanesAreYounger DEF CompletionInv
  <2>4. StoreKept(in, x)
    BY <2>1, <2>2, <2>3
  <2>5. stores[x].valid /\ IsOlder(stores[x].robPointer, r.robPointer)
    BY <1>9, <2>4 DEF StoreKept
  <2>6. /\ stores[x].translationDone
        /\ ~(stores[x].word = loads[i].word /\ loads[i].mask \subseteq stores[x].mask)
    BY <1>1, <2>5 DEF Waits, Blocks
  <2>7. stores[x].addressReady
    BY <2>6 DEF CompletionInv, MemoryInv, StoreInv, SentInv
  <2>8. ~StoreAddressing(in, x) /\ ~StoreAnswering(in, x)
    BY <2>6, <2>7, AddressedOnce, AnsweredOnce DEF CompletionInv, MemoryInv
  <2>9. stores'[x].translationDone /\ stores'[x].word = stores[x].word
        /\ stores'[x].mask = stores[x].mask
    BY <2>4, <2>6, <2>8 DEF StoreKept
  <2> QED
    BY <1>7, <2>6, <2>9
<1>10. \A x \in StoreIndex : Blocks(stores[x], r)'
  BY <1>1, <1>9 DEF Blocks
<1> QED
  BY <1>1, <1>2, <1>7, <1>10 DEF Waits, LoadIndex, StoreIndex

LEMMA CapturedWaits ==
  ASSUME CompletionInv, NEW r, LoadCaptured(r)
  PROVE  Waits(r)
<1>1. /\ CacheLoadCandidate /\ r.index = scheduled.index /\ r.robPointer = Load.robPointer
  BY DEF LoadCaptured
<1>2. /\ LoadHeadReady /\ LoadOrderClear /\ ForwardingStores = {} /\ Load.translationDone
  BY <1>1 DEF CacheLoadCandidate
<1>3. /\ Copies /\ LoadHead.addressReady /\ ~LoadHead.requestSent /\ ~LoadHead.completed
      /\ LoadHead.valid /\ LoadHead.robPointer = Load.robPointer
      /\ scheduled.index \in LoadIndex /\ LoadHead = loads[scheduled.index]
  BY <1>2 DEF LoadHeadReady, Copies, LoadHead, CompletionInv, MemoryInv, MemoryTypeOK, QueueTypeOK,
     Scheduled
<1>4. LoadHead.translationDone /\ Load.word = LoadHead.word /\ Load.mask = LoadHead.mask
  BY <1>2, <1>3 DEF CompletionInv, CopyInv
<1>5. LoadHead.mask \in Masks
  BY <1>3 DEF CompletionInv, LoadSlotInv
<1>6. Load.mask # {}
  BY <1>4, <1>5, MemoryAssumption
<1>7. ASSUME NEW x \in StoreIndex, stores[x].valid,
             IsOlder(stores[x].robPointer, r.robPointer)
      PROVE  /\ stores[x].translationDone
             /\ ~(stores[x].word = LoadHead.word /\ LoadHead.mask \subseteq stores[x].mask)
  <2>1. x \in OlderStores
    BY <1>1, <1>7 DEF OlderStores
  <2>2. stores[x].translationDone
    BY <1>2, <2>1 DEF LoadOrderClear, UnknownOlderStore
  <2>3. ASSUME stores[x].word = LoadHead.word, LoadHead.mask \subseteq stores[x].mask
        PROVE  FALSE
    <3>1. Aliases(x) /\ Covers(x)
      BY <1>2, <1>4, <2>2, <2>3 DEF Aliases, Covers
    <3>2. Overlaps(x)
      BY <1>6, <3>1 DEF Overlaps, Covers
    <3>3. stores[x].dataReady
      BY <1>2, <2>1, <3>2 DEF LoadOrderClear, PendingDataStore
    <3>4. x \in ForwardingStores
      BY <2>1, <3>1, <3>3 DEF ForwardingStores
    <3> QED
      BY <1>2, <3>4
  <2> QED
    BY <2>2, <2>3
<1>8. \A x \in StoreIndex : Blocks(stores[x], r)
  BY <1>1, <1>3, <1>7 DEF Blocks
<1> QED
  BY <1>1, <1>3, <1>4, <1>8 DEF Waits

LEMMA BufferLoadStays ==
  ASSUME CompletionInv, NEW in, NEW n, NEW kinds, Offered(in, n, kinds), Cycle(in, n, kinds),
         ~in.flush
  PROVE  BufferLoadInv'
<1>1. ASSUME NEW r \in requestBuffer', ~r.isWrite
      PROVE  Waits(r) /\ Taken(in) = {}
  <2>1. /\ \/ r \in requestBuffer /\ r \notin Taken(in)
           \/ requestBuffer = {} /\ (StoreCaptured(r) \/ LoadCaptured(r))
        /\ Taken(in) = {} \/ Taken(in) = requestBuffer
    BY <1>1, RequestForm DEF CompletionInv, MemoryInv
  <2>2. CASE r \in requestBuffer /\ r \notin Taken(in)
    <3>1. r.index \in LoadIndex
      BY <1>1, <2>2 DEF CompletionInv, MemoryInv, MemoryTypeOK, QueueTypeOK
    <3> QED
      BY <1>1, <2>1, <2>2, <3>1 DEF CompletionInv, BufferLoadInv, Waits
  <2>3. CASE requestBuffer = {} /\ (StoreCaptured(r) \/ LoadCaptured(r))
    <3>1. LoadCaptured(r)
      BY <1>1, <2>3 DEF StoreCaptured
    <3> QED
      BY <2>1, <2>3, <3>1, CapturedWaits
  <2> QED
    BY <2>1, <2>2, <2>3
<1>2. \A r \in requestBuffer' : ~r.isWrite => Waits(r)'
  BY <1>1, WaitingStays
<1> QED
  BY <1>2 DEF BufferLoadInv, Waits

(***************************************************************************)
(* A flush, and the invariant as a whole.                                     *)
(***************************************************************************)
LEMMA StoreSlotsAfterFlush ==
  ASSUME CompletionInv, NEW in, NEW n, NEW kinds, Offered(in, n, kinds), Cycle(in, n, kinds),
         in.flush
  PROVE  StoreSlotInv'
<1> SUFFICES ASSUME NEW i \in StoreIndex
             PROVE  LET r == stores'[i]
                    IN  /\ r.completed => r.translationDone
                        /\ r.committed => r.completed \/ r.requestSent
                        /\ r.requestSent => ~r.isSc
                        /\ r.translationDone /\ r.uncached => ~r.scSuccess
  BY DEF StoreSlotInv, StoreIndex
<1>1. PICK s, r : s = stores[i] /\ r = stores'[i]
  OBVIOUS
<1>2. r = StoreAfterFlush(in, i) /\ s \in StoreEntries
  BY <1>1 DEF Cycle, QueueStep, CompletionInv, MemoryInv, MemoryTypeOK, SlotsTypeOK
<1>3. /\ s.completed => s.translationDone
      /\ s.committed => s.completed \/ s.requestSent
      /\ s.requestSent => ~s.isSc
      /\ s.translationDone /\ s.uncached => ~s.scSuccess
      /\ s.requestSent => s.translationDone
  BY <1>1 DEF CompletionInv, StoreSlotInv, MemoryInv, StoreInv, SentInv
<1>4. CASE s.uncached /\ s.requestSent
  <2>1. PICK f : f = (s.completed \/ (i = storeHead /\ ResponseStoreAccepted(in)))
    OBVIOUS
  <2>2. r = [s EXCEPT !.committed = TRUE, !.completed = f]
    BY <1>1, <1>2, <1>4, <2>1 DEF StoreAfterFlush
  <2>3. /\ r.translationDone = s.translationDone /\ r.requestSent = s.requestSent
        /\ r.isSc = s.isSc /\ r.uncached = s.uncached /\ r.scSuccess = s.scSuccess
    BY <1>2, <2>2 DEF StoreEntries
  <2> QED
    BY <1>1, <1>3, <1>4, <2>3
<1>5. CASE ~(s.uncached /\ s.requestSent)
  <2>1. r = s \/ r = EmptyStore
    BY <1>1, <1>2, <1>5 DEF StoreAfterFlush
  <2> QED
    BY <1>1, <1>3, <2>1 DEF EmptyStore
<1> QED
  BY <1>4, <1>5

LEMMA CompletionInvStep ==
  ASSUME CompletionInv, NEW in, NEW n, NEW kinds, Offered(in, n, kinds), Cycle(in, n, kinds)
  PROVE  CompletionInv'
<1>1. MemoryInv'
  BY MemoryInvStep DEF CompletionInv
<1>2. CASE in.flush
  <2>1. /\ window' = <<>> /\ ~scheduled'.valid /\ ~translation'.active
        /\ aguException' = {} /\ completion' = {} /\ requestBuffer' = KeptRequests
        /\ loads' = [i \in LoadIndex |-> EmptyLoad]
    BY <1>2 DEF Cycle, QueueStep, WindowStep, ScheduleStep, TranslationStep, RequestStep,
       NothingScheduled, NoTranslation
  <2>2. LoadPositions' = {} /\ StorePositions' = {} /\ MemoryPositions' = {} /\ Owed' = {}
    <3>1. Len(window') = 0
      BY <2>1
    <3> QED
      BY <2>1, <3>1 DEF LoadPositions, StorePositions, MemoryPositions, Owed
  <2>3. LoadSlotInv'
    BY <2>1 DEF LoadSlotInv, EmptyLoad, LoadIndex
  <2>4. StoreSlotInv'
    BY <1>2, StoreSlotsAfterFlush
  <2>5. IssueInv' /\ DoneInv' /\ OwedInv'
    BY <2>1, <2>2 DEF IssueInv, DoneInv, OwedInv
  <2>6. CopyInv' /\ ScheduleInv' /\ OwnerInv'
    BY <2>1 DEF CopyInv, ScheduleInv, OwnerInv, Copies
  <2>7. BufferLoadInv'
    BY <2>1 DEF BufferLoadInv, KeptRequests
  <2> QED
    BY <1>1, <2>3, <2>4, <2>5, <2>6, <2>7 DEF CompletionInv
<1>3. CASE ~in.flush
  <2>1. LoadSlotInv' /\ StoreSlotInv'
    BY <1>3, LoadSlotStays, StoreSlotStays
  <2>2. IssueInv' /\ OwedInv'
    BY <1>3, IssueStays, OwedStays
  <2>3. DoneInv'
    BY <1>3, DoneStays DEF DoneInv
  <2>4. CopyInv' /\ ScheduleInv' /\ OwnerInv' /\ BufferLoadInv'
    BY <1>3, CopyStays, ScheduleStays, OwnerInvStays, BufferLoadStays
  <2> QED
    BY <1>1, <2>1, <2>2, <2>3, <2>4 DEF CompletionInv
<1> QED
  BY <1>2, <1>3

LEMMA CompletionInvInit == MemoryInit => CompletionInv
<1> SUFFICES ASSUME MemoryInit PROVE CompletionInv
  OBVIOUS
<1>1. /\ stores = [i \in StoreIndex |-> EmptyStore] /\ loads = [i \in LoadIndex |-> EmptyLoad]
      /\ requestBuffer = {} /\ Owed = {} /\ completion = {} /\ aguException = {}
      /\ ~translation.active /\ ~scheduled.valid /\ Len(window) = 0
  BY DEF MemoryInit, QueueInit, NoTranslation, NothingScheduled, Owed
<1>2. MemoryPositions = {}
  BY <1>1 DEF LoadPositions, StorePositions, MemoryPositions
<1>3. LoadSlotInv /\ StoreSlotInv
  BY <1>1 DEF LoadSlotInv, StoreSlotInv, EmptyLoad, EmptyStore
<1>4. IssueInv /\ DoneInv /\ OwedInv
  BY <1>1, <1>2 DEF IssueInv, DoneInv, OwedInv
<1>5. CopyInv /\ ScheduleInv /\ OwnerInv /\ BufferLoadInv
  BY <1>1 DEF CopyInv, ScheduleInv, OwnerInv, BufferLoadInv, Copies
<1> QED
  BY <1>3, <1>4, <1>5, MemoryInvInit DEF CompletionInv

LEMMA CompletionInvStutters ==
  ASSUME CompletionInv, UNCHANGED memoryVars
  PROVE  CompletionInv'
<1>1. /\ stores' = stores /\ loads' = loads /\ scheduled' = scheduled
      /\ translation' = translation
      /\ translationCancelPending' = translationCancelPending
      /\ requestBuffer' = requestBuffer /\ aguException' = aguException
      /\ completion' = completion /\ robHead' = robHead /\ window' = window
      /\ recoveryEpoch' = recoveryEpoch
  BY DEF memoryVars, queueVars, allocatorVars, environmentVars
<1>2. MemoryInv'
  BY MemoryInvStutters DEF CompletionInv
<1>3. /\ LoadPositions' = LoadPositions /\ StorePositions' = StorePositions
      /\ MemoryPositions' = MemoryPositions /\ Owed' = Owed
      /\ \A k : Uop(k)' = Uop(k) /\ Age(k)' = Age(k)
  BY <1>1 DEF LoadPositions, StorePositions, MemoryPositions, Owed, Uop, Age, Pointer,
     PointerModulus
<1>4. \A k : /\ AddressReady(k)' <=> AddressReady(k)
             /\ Complete(k)' <=> Complete(k)
  BY <1>1, <1>3 DEF AddressReady, Complete, LoadOf, StoreOf
<1>5. \A k : /\ Finished(k)' <=> Finished(k)
             /\ OwedTo(k)' <=> OwedTo(k)
  BY <1>3, <1>4 DEF Finished, OwedTo
<1>6. LoadSlotInv' /\ StoreSlotInv'
  BY <1>1 DEF CompletionInv, LoadSlotInv, StoreSlotInv, LoadIndex, StoreIndex
<1>7. IssueInv' /\ DoneInv'
  BY <1>3, <1>4, <1>5 DEF CompletionInv, IssueInv, DoneInv
<1>8. OwedInv'
  BY <1>1, <1>3, <1>4 DEF CompletionInv, OwedInv
<1>9. CopyInv'
  BY <1>1 DEF CompletionInv, CopyInv, Copies, Load, LoadHead
<1>10. ScheduleInv'
  BY <1>1, <1>3 DEF CompletionInv, ScheduleInv, Copies, Load, LoadHead, LoadOf
<1>11. OwnerInv'
  BY <1>1 DEF CompletionInv, OwnerInv, Load, OwnerStore
<1>12. BufferLoadInv'
  BY <1>1 DEF CompletionInv, BufferLoadInv, Blocks, IsOlder, PointerModulus, StoreIndex
<1> QED
  BY <1>2, <1>6, <1>7, <1>8, <1>9, <1>10, <1>11, <1>12 DEF CompletionInv

LEMMA CompletionInvAlways == MemorySpec => []CompletionInv
<1>1. CompletionInv /\ [MemoryNext]_memoryVars => CompletionInv'
  BY StepForm, CompletionInvStep, CompletionInvStutters
<1> QED
  BY <1>1, CompletionInvInit, PTL DEF MemorySpec

(***************************************************************************)
(* The translator's answer reaches the access it was asked for, and the copy of *)
(* the scheduled load that the ordering checks and the cache request are made   *)
(* from knows exactly what the load queue knows.                              *)
(***************************************************************************)
THEOREM AnswersReachTheirOwner == MemorySpec => []TranslationReachesItsOwner
<1>1. ASSUME CompletionInv PROVE TranslationReachesItsOwner
  <2>1. translation.active => translation.store \in BOOLEAN
    BY <1>1 DEF CompletionInv, MemoryInv, MemoryTypeOK, QueueTypeOK, Owners
  <2>2. translation.active /\ translation.store =>
          LET e == stores[translation.index]
          IN  /\ e.valid /\ e.addressReady /\ ~e.translationDone
              /\ e.robPointer = translation.robPointer
    BY <1>1 DEF CompletionInv, MemoryInv, StoreInv, OwnerStoreInv, OwnerStore
  <2>3. translation.active /\ ~translation.store =>
          LET e == loads[translation.index]
          IN  /\ e.valid /\ e.addressReady /\ ~e.translationDone
              /\ e.robPointer = translation.robPointer
    BY <1>1 DEF CompletionInv, OwnerInv
  <2>4. LoadHeadReady => Copies /\ LoadHead.addressReady /\ ~LoadHead.completed
    BY DEF LoadHeadReady, Copies
  <2>5. LoadHeadReady =>
          /\ Load.translationDone = LoadHead.translationDone
          /\ Load.word = LoadHead.word /\ Load.uncached = LoadHead.uncached
          /\ Load.mask = LoadHead.mask
    BY <1>1, <2>4 DEF CompletionInv, CopyInv
  <2> QED
    BY <2>1, <2>2, <2>3, <2>5 DEF TranslationReachesItsOwner
<1> QED
  BY <1>1, CompletionInvAlways, PTL

LEMMA PositionOfAge ==
  ASSUME MemoryTypeOK, NEW k, InWindow(k)
  PROVE  Position(Age(k)) = k + 1
<1>1. /\ PointerModulus \in Nat \ {0} /\ robHead \in 0 .. PointerModulus - 1
      /\ k \in 0 .. PointerModulus - 1 /\ k \in Nat
  BY InWindowForm, Sizes DEF MemoryTypeOK, WindowTypeOK, RobPointer
<1>2. Age(k) = At(robHead, k, PointerModulus)
  <2>1. robHead + (k + 1) - 1 = robHead + k
    BY <1>1
  <2> QED
    BY <2>1 DEF Age, Pointer, At
<1>3. Gap(robHead, At(robHead, k, PointerModulus), PointerModulus) = k
  BY <1>1, GapAt
<1> QED
  BY <1>1, <1>2, <1>3 DEF Position, Gap

LEMMA EveryCompletionAwaited ==
  ASSUME CompletionInv
  PROVE  NoCompletionLostOrRepeated
<1>1. ASSUME NEW x \in DOMAIN window, IsMemory(window[x]), QueueEntry(window[x]).completed
      PROVE  window[x].done # "no" \/ \E c \in Owed : c.robPointer = Pointer(x)
  <2>1. PICK k : k = x - 1
    OBVIOUS
  <2>2. InWindow(k) /\ k + 1 = x
    <3>1. x \in 1 .. Len(window) /\ Len(window) \in Nat
      BY DEF CompletionInv, MemoryInv, MemoryTypeOK, WindowTypeOK
    <3> QED
      BY <2>1, <3>1 DEF InWindow
  <2>3. Uop(k) = window[x] /\ Age(k) = Pointer(x)
    BY <2>2 DEF Uop, Age
  <2>4. k \in MemoryPositions
    BY <1>1, <2>2, <2>3, PositionForm
  <2>5. Complete(k)
    <3>1. CASE IsLoad(Uop(k))
      <4>1. k \in LoadPositions
        BY <2>2, <3>1, PositionForm
      <4> QED
        BY <1>1, <2>3, <3>1, <4>1 DEF Complete, LoadOf, QueueEntry
    <3>2. CASE ~IsLoad(Uop(k))
      <4>1. k \notin LoadPositions
        BY <3>2, PositionForm
      <4> QED
        BY <1>1, <2>3, <3>2, <4>1 DEF Complete, StoreOf, QueueEntry
    <3> QED
      BY <3>1, <3>2
  <2>6. Finished(k)
    BY <2>5 DEF Finished
  <2> QED
    BY <2>3, <2>4, <2>6 DEF CompletionInv, DoneInv, OwedTo
<1>2. ASSUME NEW c \in Owed
      PROVE  /\ Position(c.robPointer) <= Len(window)
             /\ window[Position(c.robPointer)].done = "no"
  <2>1. PICK k \in MemoryPositions : Age(k) = c.robPointer
    BY DEF CompletionInv, OwedInv
  <2>2. InWindow(k)
    BY PositionForm
  <2>3. Position(c.robPointer) = k + 1
    BY <2>1, <2>2, PositionOfAge DEF CompletionInv, MemoryInv
  <2>4. k + 1 <= Len(window)
    <3>1. Len(window) \in Nat
      BY DEF CompletionInv, MemoryInv, MemoryTypeOK, WindowTypeOK
    <3> QED
      BY <2>2, <3>1 DEF InWindow
  <2>5. Uop(k).done = "no"
    <3>1. OwedTo(k)
      BY <2>1 DEF OwedTo
    <3> QED
      BY <3>1 DEF CompletionInv, DoneInv
  <2> QED
    BY <2>3, <2>4, <2>5 DEF Uop
<1>3. completion \cap aguException = {}
  BY DEF CompletionInv, OwedInv
<1> QED
  BY <1>1, <1>2, <1>3 DEF NoCompletionLostOrRepeated

(***************************************************************************)
(* Cache answers, head stores, forwarded loads, translations and misaligned    *)
(* addresses all compete for one completion per cycle: none is lost, none is    *)
(* made twice, and none is registered for an access that does not wait for it.  *)
(***************************************************************************)
THEOREM CompletionsAreExact == MemorySpec => []NoCompletionLostOrRepeated
BY EveryCompletionAwaited, CompletionInvAlways, PTL

(***************************************************************************)
(* Uncached accesses: only the uop at the head sends one, and it stays there     *)
(* until the answer has come.                                                *)
(***************************************************************************)
HeadWaits ==
    /\ HeadStore.valid /\ HeadStore.translationDone /\ HeadStore.uncached
    /\ HeadStore.robPointer = robHead
    /\ ~HeadStore.requestSent /\ ~HeadStore.committed /\ ~HeadStore.completed
    /\ HeadStore.isSc => HeadStore.scSuccess
HeadRequest(r) ==
    /\ r.uncached /\ r.robPointer = robHead
    /\ r.isWrite => r.index = storeHead /\ HeadWaits
    /\ ~r.isWrite => Waits(r)
UncachedInv == \A r \in requestBuffer : r.uncached => HeadRequest(r)
RequestSent(k) ==
    IF k \in LoadPositions THEN LoadOf(k).requestSent ELSE StoreOf(k).requestSent
AccessInv ==
    \A k : InWindow(k) =>
        /\ Uop(k).accesses <= 1
        /\ Uop(k).accesses = 1 =>
              k = 0 /\ ~redirectPending /\ k \in MemoryPositions /\ RequestSent(k)
UncachedAccessInv == CompletionInv /\ UncachedInv /\ AccessInv

LEMMA HeadAge ==
  ASSUME MemoryTypeOK
  PROVE  Age(0) = robHead /\ \A k : InWindow(k) /\ Age(k) = robHead => k = 0
<1>1. /\ PointerModulus \in Nat \ {0} /\ robHead \in 0 .. PointerModulus - 1
  BY Sizes DEF MemoryTypeOK, WindowTypeOK, RobPointer
<1>2. Age(0) = At(robHead, 0, PointerModulus)
  <2>1. robHead + (0 + 1) - 1 = robHead + 0
    BY <1>1
  <2> QED
    BY <2>1 DEF Age, Pointer, At
<1>3. At(robHead, 0, PointerModulus) = robHead
  BY <1>1, AtZero
<1>4. ASSUME NEW k, InWindow(k), Age(k) = robHead PROVE k = 0
  <2>1. k \in 0 .. RobEntries - 1 /\ 0 \in 0 .. RobEntries - 1
    BY <1>4, InWindowForm, Sizes
  <2> QED
    BY <1>2, <1>3, <1>4, <2>1, Ages
<1> QED
  BY <1>2, <1>3, <1>4

(* Whoever waits for the cache with an uncached access is the uop at the head.    *)
LEMMA RequestOfHead ==
  ASSUME CompletionInv, NEW in, NEW n, NEW kinds, Offered(in, n, kinds), ~in.flush,
         NEW r, HeadRequest(r)
  PROVE  /\ n = 0 /\ 0 \in MemoryPositions /\ Uop(0).index = r.index
         /\ 0 \in LoadPositions <=> ~r.isWrite
         /\ ~RequestSent(0)
<1>1. /\ 0 \in MemoryPositions /\ Uop(0).index = r.index
      /\ 0 \in LoadPositions <=> ~r.isWrite
      /\ ~RequestSent(0) /\ ~Finished(0)
  <2>1. CASE r.isWrite
    <3>1. HeadWaits /\ r.index = storeHead
      BY <2>1 DEF HeadRequest
    <3>2. PICK k \in StorePositions : Uop(k).index = storeHead /\ StoreOf(k) = HeadStore
      BY <3>1, HeadIsAt DEF HeadWaits, CompletionInv
    <3>3. Age(k) = robHead
      BY <3>1, <3>2, HeldStores DEF HeadWaits, CompletionInv
    <3>4. k = 0 /\ k \notin LoadPositions
      BY <3>3, HeadAge, PositionForm DEF CompletionInv, MemoryInv
    <3>5. HeadStore.addressReady
      <4>1. storeHead \in StoreIndex
        BY DEF CompletionInv, MemoryInv, MemoryTypeOK, QueueTypeOK
      <4> QED
        BY <3>1, <4>1 DEF HeadWaits, HeadStore, CompletionInv, MemoryInv, StoreInv, SentInv
    <3>6. ~RequestSent(k) /\ ~Finished(k)
      BY <3>1, <3>2, <3>4, <3>5 DEF HeadWaits, RequestSent, Finished, Complete, AddressReady
    <3> QED
      BY <2>1, <3>1, <3>2, <3>4, <3>6 DEF MemoryPositions
  <2>2. CASE ~r.isWrite
    <3>1. /\ r.index \in LoadIndex /\ loads[r.index].valid /\ loads[r.index].robPointer = robHead
          /\ ~loads[r.index].requestSent /\ ~loads[r.index].completed
          /\ loads[r.index].translationDone
      BY <2>2 DEF HeadRequest, Waits
    <3>2. PICK k \in LoadPositions : Uop(k).index = r.index
      BY <3>1, HeldLoads DEF CompletionInv
    <3>3. Age(k) = robHead
      BY <3>1, <3>2, HeldLoads DEF CompletionInv, LoadOf
    <3>4. k = 0
      BY <3>3, HeadAge, PositionForm DEF CompletionInv, MemoryInv
    <3>5. loads[r.index].addressReady
      BY <3>1 DEF CompletionInv, LoadSlotInv
    <3>6. ~RequestSent(k) /\ ~Finished(k)
      BY <3>1, <3>2, <3>5 DEF RequestSent, Finished, Complete, AddressReady, LoadOf
    <3> QED
      BY <2>2, <3>2, <3>4, <3>6 DEF MemoryPositions
  <2> QED
    BY <2>1, <2>2
<1>2. Uop(0).done = "no"
  BY <1>1 DEF CompletionInv, DoneInv
<1>3. n = 0
  <2> SUFFICES ASSUME n # 0 PROVE FALSE
    OBVIOUS
  <2>1. n \in Nat
    BY Sizes DEF Offered
  <2>2. 0 + 1 \in 1 .. n
    BY <2>1
  <2>3. window[0 + 1].done # "no"
    BY <2>2 DEF Offered, Retirable
  <2> QED
    BY <1>2, <2>3 DEF Uop
<1> QED
  BY <1>1, <1>3

LEMMA CapturedAtHead ==
  ASSUME CompletionInv, NEW r, r.uncached, StoreCaptured(r) \/ LoadCaptured(r)
  PROVE  HeadRequest(r)
<1>1. CASE StoreCaptured(r)
  <2>1. /\ StoreRequest /\ HeadStore.uncached /\ r.index = storeHead /\ r.isWrite
        /\ r.robPointer = HeadStore.robPointer
    BY <1>1 DEF StoreCaptured
  <2>2. /\ HeadStore.valid /\ HeadStore.translationDone /\ ~HeadStore.completed
        /\ ~HeadStore.requestSent /\ HeadStore.robPointer = robHead
        /\ HeadStore.isSc => HeadStore.scSuccess
    BY <2>1 DEF StoreRequest
  <2>3. ~HeadStore.committed
    <3>1. storeHead \in StoreIndex
      BY DEF CompletionInv, MemoryInv, MemoryTypeOK, QueueTypeOK
    <3> QED
      BY <2>2, <3>1 DEF HeadStore, CompletionInv, StoreSlotInv
  <2> QED
    BY <2>1, <2>2, <2>3 DEF HeadRequest, HeadWaits
<1>2. CASE LoadCaptured(r)
  <2>1. /\ CacheLoadCandidate /\ Load.uncached /\ ~r.isWrite /\ r.robPointer = Load.robPointer
    BY <1>2 DEF LoadCaptured
  <2>2. Load.robPointer = robHead
    BY <2>1 DEF CacheLoadCandidate
  <2>3. Waits(r)
    BY <1>2, CapturedWaits
  <2> QED
    BY <2>1, <2>2, <2>3 DEF HeadRequest
<1> QED
  BY <1>1, <1>2

LEMMA HeadRequestStays ==
  ASSUME CompletionInv, NEW in, NEW n, NEW kinds, Offered(in, n, kinds), Cycle(in, n, kinds),
         ~in.flush, NEW r, HeadRequest(r), Taken(in) = {}
  PROVE  HeadRequest(r)'
<1>1. n = 0
  BY RequestOfHead
<1>2. robHead' = robHead
  <2>1. robHead' = Pointer(1 + n)
    BY DEF Cycle, WindowStep
  <2>2. Pointer(1 + n) = Age(0)
    BY <1>1 DEF Age
  <2> QED
    BY <2>1, <2>2, HeadAge DEF CompletionInv, MemoryInv
<1>3. ASSUME ~r.isWrite PROVE Waits(r)'
  BY <1>3, WaitingStays DEF HeadRequest
<1>4. ASSUME r.isWrite PROVE r.index = storeHead' /\ HeadWaits'
  <2>1. /\ HeadStore.valid /\ HeadStore.translationDone /\ HeadStore.uncached
        /\ HeadStore.robPointer = robHead
        /\ ~HeadStore.requestSent /\ ~HeadStore.committed /\ ~HeadStore.completed
        /\ HeadStore.isSc => HeadStore.scSuccess
        /\ r.index = storeHead /\ storeHead \in StoreIndex
    BY <1>4 DEF HeadRequest, HeadWaits, CompletionInv, MemoryInv, MemoryTypeOK, QueueTypeOK
  <2>2. TakenCachedStores(in) = {}
    BY DEF TakenCachedStores
  <2>3. storeHead' = storeHead /\ GoesOn(in, storeHead)
    BY <2>1, <2>2, HeadHolds DEF CompletionInv, MemoryInv
  <2>4. HeadStore.addressReady
    BY <2>1 DEF HeadStore, CompletionInv, MemoryInv, StoreInv, SentInv
  <2>5. ~StoreSent(in, storeHead)
    BY DEF StoreSent
  <2>6. storeHead \notin CommittedStores(in)
    <3>1. in.commit = {}
      BY <1>1 DEF Offered, CommitLanes
    <3> QED
      BY <3>1 DEF CommittedStores
  <2>7. ~StoreCompletionFire(in) /\ ~ResponseStoreAccepted(in)
    <3>1. HeadStore.isSc => ~HeadStore.scSuccess
      BY <2>1 DEF HeadStore, CompletionInv, StoreSlotInv
    <3>2. ~HeadStore.isSc
      BY <2>1, <3>1
    <3> QED
      BY <2>1, <3>2 DEF StoreCompletionFire, StoreCompletionCandidate, ResponseStoreAccepted
  <2>8. PICK s, t : s = HeadStore /\ t = HeadStore'
    OBVIOUS
  <2>9. /\ t.valid /\ t.robPointer = s.robPointer /\ ~t.committed
        /\ t.translationDone /\ t.uncached = s.uncached
        /\ t.isSc = s.isSc /\ t.scSuccess = s.scSuccess
        /\ ~t.requestSent /\ ~t.completed
    <3>1. s = stores[storeHead] /\ t = stores'[storeHead]
      BY <2>3, <2>8 DEF HeadStore
    <3> QED
      BY <2>1, <2>3, <2>4, <2>5, <2>6, <2>7, <2>8, <3>1 DEF GoesOn, StoreKept
  <2> QED
    BY <1>2, <2>1, <2>3, <2>8, <2>9 DEF HeadWaits
<1> QED
  BY <1>2, <1>3, <1>4 DEF HeadRequest

LEMMA UncachedStep ==
  ASSUME UncachedAccessInv, NEW in, NEW n, NEW kinds, Offered(in, n, kinds),
         Cycle(in, n, kinds)
  PROVE  UncachedInv'
<1>1. ASSUME NEW r \in requestBuffer', r.uncached
      PROVE  /\ ~in.flush /\ Taken(in) = {} /\ HeadRequest(r)
  <2>1. /\ \/ r \in requestBuffer /\ r \notin Taken(in) /\ (in.flush => r.isWrite /\ ~r.uncached)
           \/ ~in.flush /\ requestBuffer = {} /\ (StoreCaptured(r) \/ LoadCaptured(r))
        /\ Taken(in) = {} \/ Taken(in) = requestBuffer
    BY <1>1, RequestForm DEF UncachedAccessInv, CompletionInv, MemoryInv
  <2>2. CASE r \in requestBuffer /\ r \notin Taken(in)
    <3>1. HeadRequest(r)
      BY <1>1, <2>2 DEF UncachedAccessInv, UncachedInv
    <3> QED
      BY <1>1, <2>1, <2>2, <3>1
  <2>3. CASE ~in.flush /\ requestBuffer = {} /\ (StoreCaptured(r) \/ LoadCaptured(r))
    <3>1. HeadRequest(r)
      BY <1>1, <2>3, CapturedAtHead DEF UncachedAccessInv
    <3> QED
      BY <2>1, <2>3, <3>1
  <2> QED
    BY <2>1, <2>2, <2>3
<1>2. \A r \in requestBuffer' : r.uncached => HeadRequest(r)'
  BY <1>1, HeadRequestStays DEF UncachedAccessInv
<1> QED
  BY <1>2 DEF UncachedInv

LEMMA AccessStep ==
  ASSUME UncachedAccessInv, NEW in, NEW n, NEW kinds, Offered(in, n, kinds),
         Cycle(in, n, kinds)
  PROVE  AccessInv'
<1> SUFFICES ASSUME NEW k, InWindow(k)'
             PROVE  /\ Uop(k)'.accesses <= 1
                    /\ Uop(k)'.accesses = 1 =>
                          k = 0 /\ ~redirectPending' /\ k \in MemoryPositions' /\ RequestSent(k)'
  BY DEF AccessInv
<1>1. ~in.flush
  <2> SUFFICES ASSUME in.flush PROVE FALSE
    OBVIOUS
  <2>1. window' = <<>>
    BY DEF Cycle, WindowStep
  <2>2. Len(window') = 0
    BY <2>1
  <2> QED
    BY <2>2 DEF InWindow
<1>2. MemoryInv /\ MemoryTypeOK
  BY DEF UncachedAccessInv, CompletionInv, MemoryInv
<1>3. CASE Enters(in, n, k)
  BY <1>3 DEF Enters
<1>4. ASSUME NEW q, Follows(in, n, q, k)
      PROVE  /\ Uop(k)'.accesses <= 1
             /\ Uop(k)'.accesses = 1 =>
                   k = 0 /\ ~redirectPending' /\ k \in MemoryPositions' /\ RequestSent(k)'
  <2>1. /\ InWindow(q) /\ q = n + k /\ Uop(q) \in WindowUops
        /\ Uop(k)'.accesses = IF Uop(q).accesses < 2
                                   /\ \E r \in Taken(in) : r.uncached /\ r.robPointer = Age(q)
                              THEN Uop(q).accesses + 1 ELSE Uop(q).accesses
    BY <1>2, <1>4, InWindowForm DEF Follows, UopKept, Uop, Age
  <2>2. /\ Uop(q).accesses <= 1
        /\ Uop(q).accesses = 1 => q = 0 /\ q \in MemoryPositions /\ RequestSent(q)
    BY <2>1 DEF UncachedAccessInv, AccessInv
  <2>3. Uop(q).accesses \in Nat
    BY <2>1 DEF WindowUops
  <2>4. n \in Nat /\ k \in Nat
    <3>1. MemoryTypeOK'
      BY MemoryInvStep, <1>2 DEF MemoryInv
    <3>2. Len(window') \in Nat
      BY <3>1 DEF MemoryTypeOK, WindowTypeOK
    <3> QED
      BY <3>2, Sizes DEF Offered, InWindow
  <2>5. ASSUME q = 0, q \in MemoryPositions,
               RequestSent(q) \/ \E r \in Taken(in) : HeadRequest(r)
        PROVE  k = 0 /\ ~redirectPending' /\ k \in MemoryPositions' /\ RequestSent(k)'
    <3>1. n = 0 /\ k = 0
      BY <2>1, <2>4, <2>5
    <3>2. ~redirectPending'
      <4>1. redirectPending' = (~in.flush /\ n > 0 /\ Redirects(window[n])) /\ ~(n > 0)
        BY <3>1 DEF Cycle, WindowStep
      <4> QED
        BY <4>1, Zenon
    <3>3. AccessMoves(in, q, k)
      BY <1>1, <1>4, <2>5, AccessEdge DEF UncachedAccessInv
    <3>4. /\ k \in MemoryPositions' /\ (k \in LoadPositions' <=> q \in LoadPositions)
          /\ Uop(k)'.index = Uop(q).index
      BY <1>4, <3>3 DEF AccessMoves, Follows
    <3>5. CASE RequestSent(q)
      <4> PICK h : h = Uop(q).index
        OBVIOUS
      <4>1. CASE q \in LoadPositions
        <5>1. LoadOf(q).requestSent /\ LoadKept(in, Uop(q).index)
          BY <1>4, <3>5, <4>1 DEF RequestSent, Follows
        <5>2. loads'[h].requestSent
          BY <5>1 DEF LoadKept, LoadOf
        <5> QED
          BY <3>1, <3>2, <3>4, <4>1, <5>2 DEF RequestSent, LoadOf
      <4>2. CASE q \notin LoadPositions
        <5>1. StoreOf(q).requestSent /\ GoesOn(in, Uop(q).index)
          BY <1>4, <2>5, <3>5, <4>2 DEF RequestSent, Follows, MemoryPositions
        <5>2. stores'[h].requestSent
          BY <5>1 DEF GoesOn, StoreOf
        <5> QED
          BY <3>1, <3>2, <3>4, <4>2, <5>2 DEF RequestSent, StoreOf
      <4> QED
        BY <4>1, <4>2
    <3>6. ASSUME NEW r \in Taken(in), HeadRequest(r)
          PROVE  RequestSent(k)'
      <4>1. /\ Uop(q).index = r.index /\ (q \in LoadPositions <=> ~r.isWrite)
            /\ r.uncached
        BY <1>1, <2>5, <3>6, RequestOfHead DEF UncachedAccessInv, HeadRequest
      <4>2. CASE q \in LoadPositions
        <5>1. LoadSent(in, r.index)
          BY <3>6, <4>1, <4>2 DEF LoadSent, HeadRequest, Waits
        <5>2. loads'[r.index].requestSent
          BY <1>4, <4>1, <4>2, <5>1 DEF Follows, LoadKept
        <5> QED
          BY <3>4, <4>1, <4>2, <5>2 DEF RequestSent, LoadOf
      <4>3. CASE q \notin LoadPositions
        <5>1. StoreSent(in, r.index)
          BY <3>6, <4>1, <4>3 DEF StoreSent
        <5>2. GoesOn(in, r.index)
          BY <1>4, <2>5, <4>1, <4>3 DEF Follows, MemoryPositions
        <5>3. stores'[r.index].requestSent
          BY <5>1, <5>2 DEF GoesOn
        <5> QED
          BY <3>4, <4>1, <4>3, <5>3 DEF RequestSent, StoreOf
      <4> QED
        BY <4>2, <4>3
    <3> QED
      BY <2>5, <3>1, <3>2, <3>4, <3>5, <3>6
  <2>6. CASE \E r \in Taken(in) : r.uncached /\ r.robPointer = Age(q)
    <3>1. PICK r \in Taken(in) : r.uncached /\ r.robPointer = Age(q)
      BY <2>6
    <3>2. HeadRequest(r)
      <4>1. Taken(in) \subseteq requestBuffer
        BY DEF Taken, DataRequest
      <4> QED
        BY <3>1, <4>1 DEF UncachedAccessInv, UncachedInv
    <3>3. q = 0
      BY <1>2, <2>1, <3>1, <3>2, HeadAge DEF HeadRequest
    <3>4. q \in MemoryPositions /\ ~RequestSent(q)
      BY <1>1, <3>2, <3>3, RequestOfHead DEF UncachedAccessInv
    <3>5. Uop(q).accesses = 0
      BY <2>2, <2>3, <3>4
    <3>6. Uop(k)'.accesses = 1
      BY <2>1, <2>6, <3>5
    <3> QED
      BY <2>5, <3>2, <3>3, <3>4, <3>6
  <2>7. CASE ~\E r \in Taken(in) : r.uncached /\ r.robPointer = Age(q)
    <3>1. Uop(k)'.accesses = Uop(q).accesses
      BY <2>1, <2>7
    <3> QED
      BY <2>2, <2>5, <3>1
  <2> QED
    BY <2>6, <2>7
<1> QED
  BY <1>1, <1>2, <1>3, <1>4, WindowEdge

LEMMA UncachedAccessInvInit == MemoryInit => UncachedAccessInv
<1> SUFFICES ASSUME MemoryInit PROVE UncachedAccessInv
  OBVIOUS
<1>1. requestBuffer = {} /\ Len(window) = 0
  BY DEF MemoryInit, QueueInit
<1>2. UncachedInv /\ AccessInv
  BY <1>1 DEF UncachedInv, AccessInv, InWindow
<1> QED
  BY <1>2, CompletionInvInit DEF UncachedAccessInv

LEMMA UncachedAccessInvStutters ==
  ASSUME UncachedAccessInv, UNCHANGED memoryVars
  PROVE  UncachedAccessInv'
<1>1. /\ stores' = stores /\ loads' = loads /\ storeHead' = storeHead
      /\ requestBuffer' = requestBuffer /\ robHead' = robHead /\ window' = window
      /\ redirectPending' = redirectPending
  BY DEF memoryVars, queueVars, allocatorVars, environmentVars
<1>2. /\ HeadStore' = HeadStore
      /\ LoadPositions' = LoadPositions /\ StorePositions' = StorePositions
      /\ MemoryPositions' = MemoryPositions
      /\ \A k : Uop(k)' = Uop(k) /\ (InWindow(k)' <=> InWindow(k))
  BY <1>1 DEF HeadStore, LoadPositions, StorePositions, MemoryPositions, Uop, InWindow
<1>3. \A r : Waits(r)' <=> Waits(r)
  BY <1>1 DEF Waits, Blocks, IsOlder, PointerModulus, StoreIndex, LoadIndex
<1>4. HeadWaits' <=> HeadWaits
  BY <1>1, <1>2 DEF HeadWaits
<1>5. \A r : HeadRequest(r)' <=> HeadRequest(r)
  BY <1>1, <1>3, <1>4 DEF HeadRequest
<1>6. UncachedInv'
  BY <1>1, <1>5 DEF UncachedAccessInv, UncachedInv
<1>7. \A k : RequestSent(k)' <=> RequestSent(k)
  BY <1>1, <1>2 DEF RequestSent, LoadOf, StoreOf
<1>8. AccessInv'
  BY <1>1, <1>2, <1>7 DEF UncachedAccessInv, AccessInv
<1> QED
  BY <1>6, <1>8, CompletionInvStutters DEF UncachedAccessInv

(***************************************************************************)
(* A device sees every uncached access at most once, and only from a uop that   *)
(* no retired uop's recovery discards: the one at the head of the reorder buffer, *)
(* which stays there until its access is answered.                            *)
(***************************************************************************)
THEOREM DevicesSeeEachAccessOnce == MemorySpec => []UncachedAccessesHappenOnce
<1>1. ASSUME UncachedAccessInv, NEW in, NEW n, NEW kinds, Offered(in, n, kinds),
             Cycle(in, n, kinds)
      PROVE  UncachedAccessInv'
  BY <1>1, CompletionInvStep, UncachedStep, AccessStep DEF UncachedAccessInv
<1>2. UncachedAccessInv /\ [MemoryNext]_memoryVars => UncachedAccessInv'
  BY <1>1, StepForm, UncachedAccessInvStutters
<1>3. MemorySpec => []UncachedAccessInv
  BY <1>2, UncachedAccessInvInit, PTL DEF MemorySpec
<1>4. ASSUME UncachedAccessInv PROVE UncachedAccessesHappenOnce
  <2> SUFFICES ASSUME NEW x \in DOMAIN window
               PROVE  /\ window[x].accesses <= 1
                      /\ window[x].accesses = 1 => ~redirectPending /\ x = 1
    BY DEF UncachedAccessesHappenOnce
  <2>1. PICK k : k = x - 1
    OBVIOUS
  <2>2. x \in 1 .. Len(window) /\ Len(window) \in Nat
    BY <1>4 DEF UncachedAccessInv, CompletionInv, MemoryInv, MemoryTypeOK, WindowTypeOK
  <2>3. InWindow(k) /\ k + 1 = x
    BY <2>1, <2>2 DEF InWindow
  <2>4. Uop(k) = window[x]
    BY <2>3 DEF Uop
  <2>5. /\ Uop(k).accesses <= 1
        /\ Uop(k).accesses = 1 => k = 0 /\ ~redirectPending
    BY <1>4, <2>3 DEF UncachedAccessInv, AccessInv
  <2>6. k = 0 => x = 1
    BY <2>3
  <2> QED
    BY <2>4, <2>5, <2>6
<1> QED
  BY <1>3, <1>4, PTL
=============================================================================
