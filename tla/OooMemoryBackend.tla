--------------------------- MODULE OooMemoryBackend ---------------------------
(***************************************************************************)
(* The load/store queue as backend/OooBackendWithExecution.scala connects it, *)
(* between a reorder buffer, the address unit, a translator and a data cache.  *)
(*                                                                         *)
(* The reorder buffer is `window`, the uops from its head in program order.    *)
(* The address unit and the store-data queue deliver in any order, the cache   *)
(* takes one request at a time, in the order of acceptance, and answers loads  *)
(* and uncached stores in any order, also after a flush.                      *)
(***************************************************************************)
EXTENDS OooLoadStoreQueue, SequencesExt

CONSTANTS
    Kinds,          \* of uops: "load", "store", "ll", "sc", "barrier", "other", "wrong"
    Masks,          \* byte masks of the accesses
    Answers,        \* of the translator: [cancelled, exception, uncached, word, reserved]
    Misaligned,     \* subset of BOOLEAN: whether addresses may be misaligned
    Errors,         \* subset of BOOLEAN: whether memory may answer with an error
    FlushAnytime,   \* flushes besides the one a retirement asks for
    EventsPerCycle, \* bound: inputs of one cycle
    Reach           \* bound: uops from the oldest undrained store to the youngest

\* An access touches a byte at least: the size of every memory uop is 1, 2 or 4 bytes.
ASSUME MemoryAssumption ==
    /\ {} \notin Masks
    /\ Kinds \subseteq {"load", "store", "ll", "sc", "barrier", "other", "wrong"}
    /\ Answers \subseteq [cancelled : BOOLEAN, exception : BOOLEAN, uncached : BOOLEAN,
                         word : Words, reserved : BOOLEAN]
    /\ Misaligned \subseteq BOOLEAN /\ Errors \subseteq BOOLEAN /\ FlushAnytime \in BOOLEAN

VARIABLES
    window,             \* uops of the reorder buffer
    recoveryEpoch,
    redirectPending,    \* a retirement of the previous cycle asked for a flush
    responses,          \* [robPointer, recoveryEpoch] memory owes an answer for
    undrained           \* history: retired stores memory has not taken, with the
                        \* number of uops retired since

environmentVars == <<robHead, committedMemoryEpoch, window, recoveryEpoch, redirectPending,
                     responses, undrained>>
memoryVars == <<queueVars, allocatorVars, environmentVars>>

IsLoad(u) == u.kind \in {"load", "ll"}
IsStore(u) == u.kind \in {"store", "sc"}
IsMemory(u) == IsLoad(u) \/ IsStore(u)
Special(u) == u.kind \in {"ll", "sc"}
Serializes(u) == u.kind \in {"ll", "sc", "barrier"}
(* Its retirement redirects the frontend: a wrong prediction or an exception,  *)
(* or the refetch after a serializing uop.                                   *)
Redirects(u) == u.done = "redirect" \/ Serializes(u)

Pointer(k) == (robHead + k - 1) % PointerModulus

MemoryInit ==
    /\ QueueInit /\ AllocatorInit
    /\ robHead = 0 /\ committedMemoryEpoch = 0
    /\ window = <<>>
    /\ recoveryEpoch = 0
    /\ redirectPending = FALSE
    /\ responses = {}
    /\ undrained = <<>>

(***************************************************************************)
(* Allocation, all or nothing; blocked while committed stores drain.          *)
(***************************************************************************)
CountOf(kinds, n, some) == Cardinality({i \in 1 .. n : kinds[i] \in some})
LoadKinds == {"load", "ll"}
StoreKinds == {"store", "sc"}
LoadRequests(kinds) == CountOf(kinds, Len(kinds), LoadKinds)
StoreRequests(kinds) == CountOf(kinds, Len(kinds), StoreKinds)

(* Mutant: rename goes on while committed stores drain.                       *)
AcceptsInDrain(kinds, flush) ==
    /\ Len(window) + Len(kinds) <= RobEntries
    /\ AllocatorReady(LoadRequests(kinds), StoreRequests(kinds), flush)
Accepts(kinds, flush) ==
    /\ ~drainAfterFlush
    /\ Len(window) + Len(kinds) <= RobEntries
    /\ AllocatorReady(LoadRequests(kinds), StoreRequests(kinds), flush)

Span == Len(window) + (IF undrained = <<>> THEN 0 ELSE undrained[1].since)

NewUop(kinds, i) ==
    [kind |-> kinds[i],
     index |-> IF kinds[i] \in LoadKinds
               THEN AllocatedLoadIndex(CountOf(kinds, i - 1, LoadKinds))
               ELSE IF kinds[i] \in StoreKinds
               THEN AllocatedStoreIndex(CountOf(kinds, i - 1, StoreKinds))
               ELSE 0,
     issued |-> FALSE, dataSent |-> FALSE,
     done |-> IF kinds[i] = "other" THEN "good"
              ELSE IF kinds[i] = "wrong" THEN "redirect" ELSE "no",
     accesses |-> 0, stale |-> FALSE]

(* The memory epoch of a new uop counts the barriers before it.               *)
EpochOf(kinds, i) ==
    (committedMemoryEpoch + CountOf(kinds, i - 1, {"barrier"})
        + Cardinality({k \in DOMAIN window : window[k].kind = "barrier"})) % MemoryEpochs
AllocatedLanes(kinds) ==
    {[isStore |-> kinds[i] \in StoreKinds, index |-> NewUop(kinds, i).index,
      robPointer |-> Pointer(Len(window) + i),
      recoveryEpoch |-> recoveryEpoch, memoryEpoch |-> EpochOf(kinds, i)] :
        i \in {j \in DOMAIN kinds : kinds[j] \in LoadKinds \cup StoreKinds}}

(***************************************************************************)
(* Retirement of the n oldest uops.  A redirecting uop ends the group, a      *)
(* serializing one retires alone.                                            *)
(***************************************************************************)
Retirable(n) ==
    /\ n <= CommitWidth /\ n <= Len(window)
    /\ \A k \in 1 .. n : window[k].done # "no"
    /\ \A k \in 1 .. n - 1 : ~Redirects(window[k])
    /\ n > 1 => \A k \in 1 .. n : ~Serializes(window[k])
CommitLanes(n) ==
    {[isLoad |-> IsLoad(window[k]), isStore |-> IsStore(window[k]),
      index |-> window[k].index, robPointer |-> Pointer(k),
      exception |-> window[k].done = "redirect"] : k \in 1 .. n}

(* A retired store memory still has to take.                                 *)
ToDrain(u) ==
    /\ IsStore(u) /\ u.done = "good" /\ u.accesses = 0
    /\ u.kind = "sc" => stores[u.index].scSuccess

(***************************************************************************)
(* Which store a load has to read each byte from: the youngest older one that *)
(* memory has not taken, or memory itself.                                   *)
(***************************************************************************)
StoresBefore(k) ==
    [i \in DOMAIN undrained |-> undrained[i].index]
      \o LET older == SelectSeq(SubSeq(window, 1, k - 1),
                               LAMBDA u : IsStore(u) /\ u.accesses = 0)
         IN  [i \in DOMAIN older |-> older[i].index]
Source(k, word, byte) ==
    LET writers == SelectSeq(StoresBefore(k),
                       LAMBDA i : ~stores[i].translationDone
                                  \/ (stores[i].word = word /\ byte \in stores[i].mask))
    IN  IF writers = <<>> THEN {} ELSE {Last(writers)}
Misread(k, load, read) == \E byte \in load.mask : Source(k, load.word, byte) # read
(* A store memory has just taken still forwards: it is what memory holds.      *)
(* The load in the window at k gets its data at this edge, from elsewhere.     *)
ReadsStale(in, k) ==
    \/ /\ ForwardFire(in) /\ Load.robPointer = Pointer(k)
       /\ Misread(k, Load, ForwardingStores \ accepted)
    \/ \E r \in Taken(in) :
          /\ ~r.isWrite /\ r.robPointer = Pointer(k)
          /\ Misread(k, loads[r.index], {})

(***************************************************************************)
(* One edge of the reorder buffer and of the memory around the queue.         *)
(***************************************************************************)
Completed(in, k) ==
    {c \in CompletionOutput(in) :
        c.robPointer = Pointer(k) /\ c.recoveryEpoch = recoveryEpoch}
AfterEdge(in, k) ==
    LET u == window[k] IN
    [u EXCEPT
        !.done = IF \E c \in Completed(in, k) : c.exception THEN "redirect"
                 ELSE IF Completed(in, k) # {} \/ (k = 1 /\ in.barrier) THEN "good"
                 ELSE u.done,
        !.issued = @ \/ \E a \in in.agu : a.robPointer = Pointer(k),
        !.dataSent = @ \/ \E d \in in.data : d.robPointer = Pointer(k),
        !.accesses = IF @ < 2 /\ \E r \in Taken(in) : r.uncached /\ r.robPointer = Pointer(k)
                     THEN @ + 1 ELSE @,
        !.stale = @ \/ (IsLoad(u) /\ ReadsStale(in, k))]

WindowStep(in, n, kinds) ==
    /\ window' =
         IF in.flush THEN <<>>
         ELSE SubSeq([k \in DOMAIN window |-> AfterEdge(in, k)], n + 1, Len(window))
                \o [i \in DOMAIN kinds |-> NewUop(kinds, i)]
    /\ robHead' = Pointer(1 + IF in.flush THEN Len(window) ELSE n)
    /\ recoveryEpoch' = IF in.flush THEN (recoveryEpoch + 1) % RecoveryEpochs
                        ELSE recoveryEpoch
    /\ redirectPending' = (~in.flush /\ n > 0 /\ Redirects(window[n]))
    /\ committedMemoryEpoch' =
         (committedMemoryEpoch
            + Cardinality({k \in 1 .. n : ~in.flush /\ window[k].kind = "barrier"}))
           % MemoryEpochs

UndrainedStep(in, n) ==
    undrained' =
        IF in.flush THEN undrained
        ELSE LET left == IF TakenCachedStores(in) = {} THEN undrained
                         ELSE SubSeq(undrained, 2, Len(undrained))
             IN  [i \in DOMAIN left |-> [left[i] EXCEPT !.since = @ + n]]
                   \o LET retired == SelectSeq([k \in 1 .. n |-> <<window[k], n - k>>],
                                               LAMBDA p : ToDrain(p[1]))
                      IN  [i \in DOMAIN retired |->
                              [index |-> retired[i][1].index, since |-> retired[i][2]]]

ResponseStep(in) ==
    responses' =
        (responses \ {[robPointer |-> r.robPointer, recoveryEpoch |-> r.recoveryEpoch] :
                         r \in in.response})
          \cup {[robPointer |-> r.robPointer, recoveryEpoch |-> r.recoveryEpoch] :
                   r \in {q \in Taken(in) : ~q.isWrite \/ q.uncached}}

(* Slots that a drain gives back are not the allocator's, which restarted empty. *)
ReleasedStores(in) == IF StoreReleased(in) /\ ~drainAfterFlush THEN 1 ELSE 0

Cycle(in, n, kinds) ==
    /\ QueueStep(in)
    /\ AllocatorStep(LoadRequests(kinds), StoreRequests(kinds),
                     Cardinality(ReleasedLoads(in)),
                     ReleasedStores(in), in.flush)
    /\ WindowStep(in, n, kinds)
    /\ UndrainedStep(in, n)
    /\ ResponseStep(in)

(***************************************************************************)
(* The inputs of a cycle.  A flush follows a redirecting retirement at once.   *)
(***************************************************************************)
AtMostOne(set) == {{}} \cup {{x} : x \in set}
Flushes == IF redirectPending THEN {TRUE} ELSE {FALSE, FlushAnytime}
Groups == UNION {[1 .. n -> Kinds] : n \in 0 .. RenameWidth}

Addresses ==
    UNION {
        {[isWrite |-> IsStore(window[k]), index |-> window[k].index,
          robPointer |-> Pointer(k), recoveryEpoch |-> recoveryEpoch,
          mask |-> mask, misaligned |-> misaligned, special |-> Special(window[k])] :
            mask \in Masks, misaligned \in Misaligned} :
        k \in {j \in DOMAIN window : /\ IsMemory(window[j]) /\ ~window[j].issued
                                     /\ Serializes(window[j]) => j = 1}}
StoreData ==
    {[index |-> window[k].index, robPointer |-> Pointer(k)] :
        k \in {j \in DOMAIN window : IsStore(window[j]) /\ ~window[j].dataSent}}
Responses ==
    {[robPointer |-> r.robPointer, recoveryEpoch |-> r.recoveryEpoch, error |-> error] :
        r \in responses, error \in Errors}
BarrierMayComplete ==
    /\ window # <<>> /\ window[1].kind = "barrier" /\ window[1].done = "no"
    /\ ~OlderStorePending(robHead)

One(condition) == IF condition THEN 1 ELSE 0
Events(in, n, kinds) ==
    One(in.flush) + One(kinds # <<>>) + One(n > 0) + One(in.agu # {}) + One(in.data # {})
      + One(in.translationReady) + One(in.translation # {}) + One(in.dataReady)
      + One(in.response # {}) + One(in.barrier)

(* Answers to uops of the last epoch but one have all arrived: the epoch is    *)
(* wide enough in the source.                                               *)
EpochFree(in) ==
    in.flush => \A r \in responses :
        r.recoveryEpoch # (recoveryEpoch + 1) % RecoveryEpochs
          \/ \E q \in in.response : q.robPointer = r.robPointer
                                    /\ q.recoveryEpoch = r.recoveryEpoch

MemoryNext ==
    \E flush \in Flushes, kinds \in Groups, n \in 0 .. CommitWidth :
      /\ kinds # <<>> => Accepts(kinds, flush) /\ Span + Len(kinds) <= Reach
      /\ Retirable(n)
      /\ \E agu \in AtMostOne(Addresses), data \in AtMostOne(StoreData),
            translationReady \in {FALSE, TranslationRequestValid(flush)},
            translation_ \in AtMostOne(IF translation.active \/ translationCancelPending
                                       THEN Answers ELSE {}),
            dataReady \in {FALSE, DataRequest(flush) # {}},
            response \in AtMostOne(Responses),
            barrier \in {FALSE, BarrierMayComplete} :
           LET in == [flush |-> flush, group |-> AllocatedLanes(kinds),
                      commit |-> CommitLanes(n), agu |-> agu, data |-> data,
                      translationReady |-> translationReady, translation |-> translation_,
                      dataReady |-> dataReady, response |-> response, barrier |-> barrier]
           IN  /\ Events(in, n, kinds) <= EventsPerCycle
               /\ \A a \in agu : AguReady(a, flush)
               /\ \A d \in data : StoreDataReady(d, flush)
               /\ \A t \in translation_ : TranslationResponseReady(in, t)
               /\ EpochFree(in)
               /\ Cycle(in, n, kinds)

MemorySpec == MemoryInit /\ [][MemoryNext]_memoryVars
=============================================================================
