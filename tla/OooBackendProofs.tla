--------------------------- MODULE OooBackendProofs ---------------------------
(***************************************************************************)
(* Proofs about the reorder buffer, for every geometry: in every reachable     *)
(* state the live entries are exactly the ring between the two pointers, each  *)
(* under its own pointer, and what retires is the oldest part of that ring     *)
(* with a payload that was read after its write.  Then about rename,           *)
(* retirement and recovery together: the backend implements in-order           *)
(* retirement, an entry is completed only by its own result, and a core that   *)
(* sleeps is empty.                                                          *)
(***************************************************************************)
EXTENDS OooBackendProperties, CountingLemmas

(***************************************************************************)
(* Ring arithmetic.                                                          *)
(***************************************************************************)
(* Pointers stay pointers: adding up to a full ring wraps once.               *)
LEMMA AdvanceRobType ==
  ASSUME NEW p \in RobPointer, NEW n \in 0 .. RobEntries
  PROVE  AdvanceRob(p, n) \in RobPointer
BY CoreConfigAssumption DEF AdvanceRob, RobPointer

(* Slot numbers of pointers are slots.                                       *)
LEMMA IndexType ==
  ASSUME NEW p \in RobPointer
  PROVE  Index(p) \in RobIndex
BY CoreConfigAssumption DEF Index, RobPointer, RobIndex

(* Two advances are one, up to a full ring of slots with both wrap bits.      *)
LEMMA AdvanceRobTwice ==
  ASSUME NEW p \in RobPointer, NEW a \in Nat, NEW b \in Nat, a + b <= RobEntries
  PROVE  AdvanceRob(AdvanceRob(p, a), b) = AdvanceRob(p, a + b)
BY CoreConfigAssumption DEF AdvanceRob, RobPointer

(* Within one turn of the ring no two positions share a slot.                 *)
LEMMA SlotsDistinct ==
  ASSUME NEW p \in RobPointer,
         NEW a \in 0 .. RobEntries - 1, NEW b \in 0 .. RobEntries - 1,
         Index(AdvanceRob(p, a)) = Index(AdvanceRob(p, b))
  PROVE  a = b
BY CoreConfigAssumption DEF AdvanceRob, RobPointer, Index

(***************************************************************************)
(* Retirement takes a prefix of the candidates, and CommittedCount is its     *)
(* length: CountOne of the commit mask loses nothing.                        *)
(***************************************************************************)
LEMMA CommittedPrefix ==
  /\ CommittedCount \in 0 .. CommitWidth
  /\ \A lane \in CommitLane : CanCommit(lane) <=> lane <= CommittedCount
<1> DEFINE S == {lane \in CommitLane : CanCommit(lane)}
           T == CommitLane \ S
<1>0. CommitWidth \in Nat
  BY CoreConfigAssumption
<1>1. \A a, b \in CommitLane : CanCommit(b) /\ a <= b => CanCommit(a)
  BY <1>0 DEF CanCommit, CommitLane
<1>2. SUFFICES \E n \in 0 .. CommitWidth : S = 1 .. n
  <2>1. PICK n \in 0 .. CommitWidth : S = 1 .. n
    BY <1>2
  <2>2. n \in Nat /\ Cardinality(1 .. n) = n
    BY <2>1, <1>0, FS_Interval
  <2>3. CommittedCount = n
    BY <2>1, <2>2 DEF CommittedCount
  <2> QED
    BY <2>1, <2>2, <2>3, <1>0 DEF CommitLane
<1>3. CASE T = {}
  BY <1>3, <1>0 DEF CommitLane
<1>4. CASE T # {}
  <2>1. T \subseteq Nat
    BY <1>0 DEF CommitLane
  <2>2. \E x \in T : \A y \in T : ~ (<<y, x>> \in OpToRel(<, Nat))
    BY <2>1, <1>4, NatLessThanWellFounded, WFMin, Zenon
  <2>3. PICK x \in T : \A y \in T : ~ (y < x)
    BY <2>1, <2>2 DEF OpToRel
  <2>4. \A lane \in CommitLane : lane < x <=> CanCommit(lane)
    BY <1>0, <1>1, <2>1, <2>3 DEF CommitLane
  <2>5. S = 1 .. (x - 1)
    BY <1>0, <2>4 DEF CommitLane
  <2> QED
    BY <1>0, <2>5 DEF CommitLane
<1> QED
  BY <1>3, <1>4

(***************************************************************************)
(* The inductive invariant.  WindowMatchesPointers alone is not inductive:    *)
(* retirement reads the ring through the prefetched candidate pointers, and   *)
(* frees slots by counting from the commit pointer, so both must agree.  (At  *)
(* reset all candidates point at slot 0; the ring is empty then.)             *)
(***************************************************************************)
Position(k) == AdvanceRob(commitPointer, k)

PointersInv ==
    /\ allocatePointer \in RobPointer
    /\ commitPointer \in RobPointer
    /\ occupancy \in 0 .. RobEntries
    /\ allocatePointer = Position(occupancy)
CandidatesInv ==
    /\ candidatePointer \in [CommitLane -> RobPointer]
    /\ occupancy # 0 => candidatePointer = [lane \in CommitLane |-> Position(lane - 1)]
EntriesInv ==
    /\ entries = [i \in RobIndex |-> entries[i]]
    /\ \A k \in 0 .. occupancy - 1 :
          /\ entries[Index(Position(k))].valid
          /\ entries[Index(Position(k))].pointer = Position(k)
    /\ \A i \in RobIndex : entries[i].valid =>
          \E k \in 0 .. occupancy - 1 : i = Index(Position(k))
RobWindowInv == PointersInv /\ CandidatesInv /\ EntriesInv

(* Reset establishes it.                                                      *)
LEMMA RobWindowInit == BackendInit => RobWindowInv
BY CoreConfigAssumption
   DEF BackendInit, RobInit, RobWindowInv, PointersInv, CandidatesInv, EntriesInv,
       Position, AdvanceRob, RobPointer, RobIndex, CommitLane, InvalidEntry

(* No more retires than is there.                                             *)
LEMMA CommittedWithinWindow ==
  ASSUME RobWindowInv
  PROVE  CommittedCount \in 0 .. occupancy /\ CommittedCount \in 0 .. CommitWidth
<1> DEFINE c == CommittedCount
<1>1. c \in 0 .. CommitWidth
  BY CommittedPrefix
<1>2. CASE c = 0
  BY <1>1, <1>2 DEF RobWindowInv, PointersInv
<1>3. CASE c # 0
  <2>1. c \in CommitLane /\ c - 1 \in 0 .. RobEntries - 1
    BY <1>1, <1>3, CoreConfigAssumption DEF CommitLane
  <2>2. CanCommit(c)
    BY <2>1, CommittedPrefix
  <2>3. occupancy # 0
    <3>1. SUFFICES ASSUME occupancy = 0 PROVE FALSE
      OBVIOUS
    <3>2. Candidate(c).valid
      BY <2>1, <2>2 DEF CanCommit, Retirable, CommitLane
    <3>3. \A i \in RobIndex : ~entries[i].valid
      BY <3>1 DEF RobWindowInv, EntriesInv
    <3>4. Index(candidatePointer[c]) \in RobIndex
      BY <2>1, IndexType DEF RobWindowInv, CandidatesInv
    <3> QED
      BY <3>2, <3>3, <3>4 DEF Candidate
  <2>4. candidatePointer[c] = Position(c - 1)
    BY <2>1, <2>3 DEF RobWindowInv, CandidatesInv
  <2>5. entries[Index(Position(c - 1))].valid
    BY <2>1, <2>2, <2>4 DEF CanCommit, Retirable, Candidate, CommitLane
  <2>6. Position(c - 1) \in RobPointer /\ Index(Position(c - 1)) \in RobIndex
    BY <2>1, AdvanceRobType, IndexType, CoreConfigAssumption
       DEF RobWindowInv, PointersInv, Position
  <2>7. PICK k \in 0 .. occupancy - 1 : Index(Position(c - 1)) = Index(Position(k))
    BY <2>5, <2>6 DEF RobWindowInv, EntriesInv
  <2>8. k = c - 1
    BY <2>1, <2>7, SlotsDistinct, CoreConfigAssumption DEF RobWindowInv, PointersInv, Position
  <2> QED
    BY <1>1, <2>7, <2>8, CoreConfigAssumption DEF RobWindowInv, PointersInv
<1> QED
  BY <1>2, <1>3

(* What an edge writes into a slot.                                           *)
LEMMA NewEntryForm ==
  ASSUME NEW lane, NEW p
  PROVE  /\ NewEntry(lane, p).valid
         /\ NewEntry(lane, p).pointer = p
         /\ ~NewEntry(lane, p).payloadReady
BY DEF NewEntry

LEMMA UpdatedEntryForm ==
  ASSUME NEW i
  PROVE  /\ UpdatedEntry(i).valid <=> entries[i].valid
         /\ UpdatedEntry(i).pointer = entries[i].pointer
BY DEF UpdatedEntry

(***************************************************************************)
(* One edge of the reorder buffer without a flush, for any group it may       *)
(* accept, told by positions: the window moves up by what retires, resident    *)
(* entries are updated where they are, and each accepted lane fills the next    *)
(* free position.                                                            *)
(***************************************************************************)
LEMMA RobStepEntries ==
  ASSUME NEW n \in Nat, NEW allocated, DOMAIN allocated = 1 .. n, Len(allocated) = n,
         NEW completions, NEW epoch, NEW flush, ~flush,
         n # 0 => RobReady(n, flush),
         RobWindowInv,
         RobStep(allocated, completions, epoch, flush)
  PROVE  /\ occupancy + n \in 0 .. RobEntries
         /\ occupancy' = occupancy + n - CommittedCount
         /\ allocatePointer' = Position(occupancy + n)
         /\ \A k \in 0 .. RobEntries - CommittedCount :
               Position(k)' = Position(CommittedCount + k)
         /\ \A k \in CommittedCount .. occupancy - 1 :
               entries'[Index(Position(k))] = UpdatedEntry(Index(Position(k)))
         /\ \A l \in 1 .. n :
               /\ AllocatedPointer(l) = Position(occupancy + l - 1)
               /\ entries'[Index(Position(occupancy + l - 1))] =
                     NewEntry(allocated[l], Position(occupancy + l - 1))
<1> DEFINE c == CommittedCount
           slots == {Index(AllocatedPointer(i)) : i \in DOMAIN allocated}
           freed == {Index(AdvanceRob(commitPointer, l - 1)) : l \in 1 .. c}
<1>1. c \in 0 .. occupancy /\ c \in 0 .. CommitWidth
  BY CommittedWithinWindow
<1>2. /\ allocatePointer \in RobPointer /\ commitPointer \in RobPointer
      /\ occupancy \in 0 .. RobEntries
      /\ allocatePointer = Position(occupancy)
  BY DEF RobWindowInv, PointersInv
<1>3. n + occupancy <= RobEntries
  BY <1>2, CoreConfigAssumption DEF RobReady
<1>4. /\ commitPointer' = Position(c)
      /\ allocatePointer' = AdvanceRob(allocatePointer, n)
      /\ occupancy' = occupancy + n - c
  BY DEF RobStep, NextHead, Position
<1>5. \A k \in 0 .. RobEntries - c : Position(k)' = Position(c + k)
  BY <1>1, <1>2, <1>4, AdvanceRobTwice, CoreConfigAssumption DEF Position
<1>6. allocatePointer' = Position(occupancy + n)
  BY <1>2, <1>3, <1>4, AdvanceRobTwice DEF Position
<1>7. \A i \in 1 .. n : AllocatedPointer(i) = Position(occupancy + i - 1)
  BY <1>2, <1>3, AdvanceRobTwice, CoreConfigAssumption DEF AllocatedPointer, Position
<1>8. ASSUME NEW k \in 0 .. RobEntries - 1, Index(Position(k)) \in slots
      PROVE  k \in occupancy .. occupancy + n - 1
  <2>1. PICK i \in 1 .. n : Index(Position(k)) = Index(Position(occupancy + i - 1))
    BY <1>7, <1>8
  <2>2. occupancy + i - 1 \in 0 .. RobEntries - 1
    BY <1>2, <1>3, CoreConfigAssumption
  <2> QED
    BY <1>2, <2>1, <2>2, SlotsDistinct DEF Position
<1>9. ASSUME NEW k \in 0 .. RobEntries - 1, Index(Position(k)) \in freed
      PROVE  k \in 0 .. c - 1
  <2>1. PICK l \in 1 .. c : Index(Position(k)) = Index(Position(l - 1))
    BY <1>9 DEF Position
  <2>2. l - 1 \in 0 .. RobEntries - 1
    BY <1>1, <1>2, CoreConfigAssumption
  <2> QED
    BY <1>1, <1>2, <2>1, <2>2, SlotsDistinct DEF Position
<1>10. entries' =
         [i \in RobIndex |->
            CASE i \in freed -> InvalidEntry
              [] i \in slots \ freed ->
                   LET l == CHOOSE k \in DOMAIN allocated : Index(AllocatedPointer(k)) = i
                   IN  NewEntry(allocated[l], AllocatedPointer(l))
              [] OTHER -> UpdatedEntry(i)]
  BY DEF RobStep
<1>11. \A k \in 0 .. RobEntries - 1 : Index(Position(k)) \in RobIndex
  BY <1>2, AdvanceRobType, IndexType, CoreConfigAssumption DEF Position
<1>12. ASSUME NEW k \in c .. occupancy - 1
       PROVE  entries'[Index(Position(k))] = UpdatedEntry(Index(Position(k)))
  <2>1. k \in 0 .. RobEntries - 1 /\ k \notin 0 .. c - 1
          /\ k \notin occupancy .. occupancy + n - 1
    BY <1>1, <1>2, <1>12, CoreConfigAssumption
  <2>2. Index(Position(k)) \notin freed /\ Index(Position(k)) \notin slots
    BY <1>8, <1>9, <2>1
  <2> HIDE DEF freed, slots
  <2> QED
    BY <1>10, <1>11, <2>1, <2>2
<1>13. ASSUME NEW l \in 1 .. n
       PROVE  entries'[Index(Position(occupancy + l - 1))] =
                 NewEntry(allocated[l], Position(occupancy + l - 1))
  <2> DEFINE i == Index(Position(occupancy + l - 1))
  <2>1. /\ occupancy + l - 1 \in 0 .. RobEntries - 1
        /\ occupancy + l - 1 \notin 0 .. c - 1
    BY <1>1, <1>2, <1>3, <1>13, CoreConfigAssumption
  <2>2. i \in RobIndex /\ i \notin freed
    BY <1>9, <1>11, <2>1
  <2>3. l \in DOMAIN allocated /\ Index(AllocatedPointer(l)) = i
    BY <1>7, <1>13
  <2>4. \A k \in DOMAIN allocated : Index(AllocatedPointer(k)) = i => k = l
    <3>1. ASSUME NEW k \in 1 .. n, Index(AllocatedPointer(k)) = i
          PROVE  k = l
      <4>1. occupancy + k - 1 \in 0 .. RobEntries - 1
        BY <1>2, <1>3, CoreConfigAssumption
      <4>2. Index(Position(occupancy + k - 1)) = i
        BY <1>7, <3>1
      <4>3. occupancy + k - 1 = occupancy + l - 1
        BY <1>2, <2>1, <4>1, <4>2, SlotsDistinct DEF Position
      <4> QED
        BY <1>2, <1>13, <4>3
    <3> QED
      BY <3>1
  <2>5. i \in slots
    BY <2>3
  <2>6. (CHOOSE k \in DOMAIN allocated : Index(AllocatedPointer(k)) = i) = l
    BY <2>3, <2>4
  <2>7. entries'[i] = NewEntry(allocated[l], AllocatedPointer(l))
    BY <1>10, <2>2, <2>5, <2>6
  <2> QED
    BY <1>7, <2>7
<1> QED
  BY <1>2, <1>3, <1>4, <1>5, <1>6, <1>7, <1>12, <1>13

(***************************************************************************)
(* Any edge of the reorder buffer keeps window and pointers together.         *)
(***************************************************************************)
LEMMA RobStepWindow ==
  ASSUME NEW n \in Nat, NEW allocated, DOMAIN allocated = 1 .. n, Len(allocated) = n,
         NEW completions, NEW epoch, NEW flush,
         n # 0 => RobReady(n, flush),
         RobWindowInv,
         RobStep(allocated, completions, epoch, flush)
  PROVE  RobWindowInv'
<1> DEFINE c == CommittedCount
           freed == {Index(AdvanceRob(commitPointer, l - 1)) : l \in 1 .. c}
<1>1. c \in 0 .. occupancy /\ c \in 0 .. CommitWidth
  BY CommittedWithinWindow
<1>2. /\ allocatePointer \in RobPointer /\ commitPointer \in RobPointer
      /\ occupancy \in 0 .. RobEntries
      /\ allocatePointer = Position(occupancy)
  BY DEF RobWindowInv, PointersInv
<1>3. CASE flush
  <2>1. /\ commitPointer' = allocatePointer /\ allocatePointer' = allocatePointer
        /\ occupancy' = 0
        /\ entries' = [i \in RobIndex |-> InvalidEntry]
        /\ candidatePointer' =
              [lane \in CommitLane |-> AdvanceRob(allocatePointer, lane - 1)]
    BY <1>3 DEF RobStep, NextHead
  <2>2. PointersInv'
    BY <1>2, <2>1, CoreConfigAssumption, SMTT(30) DEF PointersInv, Position, AdvanceRob, RobPointer
  <2>3. CandidatesInv'
    BY <1>2, <2>1, AdvanceRobType, CoreConfigAssumption DEF CandidatesInv, CommitLane
  <2>4. EntriesInv'
    BY <2>1, CoreConfigAssumption DEF EntriesInv, InvalidEntry
  <2> QED
    BY <2>2, <2>3, <2>4 DEF RobWindowInv
<1>4. CASE ~flush
  <2>1. /\ occupancy + n \in 0 .. RobEntries
        /\ occupancy' = occupancy + n - c
        /\ allocatePointer' = Position(occupancy + n)
        /\ \A k \in 0 .. RobEntries - c : Position(k)' = Position(c + k)
        /\ \A k \in c .. occupancy - 1 :
              entries'[Index(Position(k))] = UpdatedEntry(Index(Position(k)))
        /\ \A l \in 1 .. n :
              /\ AllocatedPointer(l) = Position(occupancy + l - 1)
              /\ entries'[Index(Position(occupancy + l - 1))] =
                    NewEntry(allocated[l], Position(occupancy + l - 1))
    BY <1>4, RobStepEntries
  <2>2. /\ commitPointer' = Position(c)
        /\ candidatePointer' =
              [lane \in CommitLane |-> AdvanceRob(Position(c), lane - 1)]
    BY <1>4 DEF RobStep, NextHead, Position
  <2>3. \A k \in 0 .. occupancy' - 1 : Position(k)' = Position(c + k)
    BY <1>1, <1>2, <2>1, CoreConfigAssumption
  <2>4. PointersInv'
    <3>1. Position(c) \in RobPointer /\ Position(occupancy + n) \in RobPointer
      BY <1>1, <1>2, <2>1, AdvanceRobType, CoreConfigAssumption DEF Position
    <3>2. AdvanceRob(commitPointer', occupancy') = Position(occupancy + n)
      <4>1. occupancy' \in Nat /\ c \in Nat /\ c + occupancy' = occupancy + n
        BY <1>1, <1>2, <2>1
      <4> QED
        BY <1>2, <2>1, <2>2, <4>1, AdvanceRobTwice DEF Position
    <3>3. occupancy' \in 0 .. RobEntries
      BY <1>1, <1>2, <2>1, CoreConfigAssumption
    <3> QED
      BY <2>1, <2>2, <3>1, <3>2, <3>3 DEF PointersInv, Position
  <2>5. CandidatesInv'
    BY <2>1, <2>2, <2>4, <1>1, <1>2, AdvanceRobType, CoreConfigAssumption
       DEF CandidatesInv, PointersInv, Position, CommitLane
  <2>6. EntriesInv'
    <3>1. ASSUME NEW k \in 0 .. occupancy' - 1
          PROVE  /\ entries'[Index(Position(c + k))].valid
                 /\ entries'[Index(Position(c + k))].pointer = Position(c + k)
      <4>1. CASE c + k < occupancy
        <5>1. c + k \in c .. occupancy - 1 /\ c + k \in 0 .. occupancy - 1
          BY <1>1, <1>2, <3>1, <4>1
        <5>2. /\ entries[Index(Position(c + k))].valid
              /\ entries[Index(Position(c + k))].pointer = Position(c + k)
          BY <5>1 DEF RobWindowInv, EntriesInv
        <5> QED
          BY <2>1, <5>1, <5>2, UpdatedEntryForm
      <4>2. CASE c + k >= occupancy
        <5>1. PICK l \in 1 .. n : c + k = occupancy + l - 1
          <6>1. c + k - occupancy + 1 \in 1 .. n
            BY <1>1, <1>2, <2>1, <3>1, <4>2
          <6> QED
            BY <1>1, <1>2, <3>1, <6>1
        <5>2. entries'[Index(Position(c + k))] = NewEntry(allocated[l], Position(c + k))
          BY <2>1, <5>1
        <5> QED
          BY <5>2, NewEntryForm
      <4> QED
        BY <1>1, <1>2, <3>1, <4>1, <4>2
    <3>2. ASSUME NEW i \in RobIndex, entries'[i].valid
          PROVE  \E k \in 0 .. occupancy' - 1 : i = Index(Position(c + k))
      <4> DEFINE slots == {Index(AllocatedPointer(l)) : l \in DOMAIN allocated}
      <4>1. entries' =
               [j \in RobIndex |->
                  CASE j \in freed -> InvalidEntry
                    [] j \in slots \ freed ->
                         LET l == CHOOSE k \in DOMAIN allocated : Index(AllocatedPointer(k)) = j
                         IN  NewEntry(allocated[l], AllocatedPointer(l))
                    [] OTHER -> UpdatedEntry(j)]
        BY <1>4 DEF RobStep
      <4>2. i \notin freed
        BY <3>2, <4>1 DEF InvalidEntry
      <4>3. CASE i \in slots
        <5>1. PICK l \in 1 .. n : i = Index(Position(occupancy + l - 1))
          BY <2>1, <4>3
        <5>2. occupancy + l - 1 - c \in 0 .. occupancy' - 1
          BY <1>1, <1>2, <2>1
        <5>3. c + (occupancy + l - 1 - c) = occupancy + l - 1
          BY <1>1, <1>2
        <5> QED
          BY <5>1, <5>2, <5>3
      <4>4. CASE i \notin slots
        <5>1. entries[i].valid
          BY <3>2, <4>1, <4>2, <4>4, UpdatedEntryForm
        <5>2. PICK k \in 0 .. occupancy - 1 : i = Index(Position(k))
          BY <5>1 DEF RobWindowInv, EntriesInv
        <5>3. k \notin 0 .. c - 1
          <6>1. SUFFICES ASSUME k \in 0 .. c - 1 PROVE FALSE
            OBVIOUS
          <6>2. k + 1 \in 1 .. c /\ (k + 1) - 1 = k
            BY <1>1, <6>1
          <6> QED
            BY <4>2, <5>2, <6>2 DEF Position
        <5>4. k - c \in 0 .. occupancy' - 1 /\ c + (k - c) = k
          BY <1>1, <1>2, <2>1, <5>3
        <5> QED
          BY <5>2, <5>4
      <4> QED
        BY <4>3, <4>4
    <3>3. entries' = [i \in RobIndex |-> entries'[i]]
      BY <1>4 DEF RobStep
    <3>4. \A k \in 0 .. occupancy' - 1 :
            /\ entries'[Index(Position(k)')].valid
            /\ entries'[Index(Position(k)')].pointer = Position(k)'
      BY <2>3, <3>1
    <3>5. \A i \in RobIndex : entries'[i].valid =>
              \E k \in 0 .. occupancy' - 1 : i = Index(Position(k)')
      BY <2>3, <3>2
    <3> QED
      BY <3>3, <3>4, <3>5 DEF EntriesInv
  <2> QED
    BY <2>4, <2>5, <2>6 DEF RobWindowInv
<1> QED
  BY <1>3, <1>4

(* No payload is trusted before it could be read: where the candidate read     *)
(* met the write of its slot, the entry found there is not payload-ready.      *)
FreshInv ==
    \A lane \in CommitLane :
        LET e == entries[Index(candidatePointer[lane])]
        IN  e.valid /\ e.payloadReady => candidateFresh[lane]

LEMMA RobStepFresh ==
  ASSUME NEW n \in Nat, NEW allocated, DOMAIN allocated = 1 .. n,
         NEW completions, NEW epoch, NEW flush,
         CandidatesInv',
         RobStep(allocated, completions, epoch, flush)
  PROVE  FreshInv'
<1> DEFINE slots == {Index(AllocatedPointer(i)) : i \in DOMAIN allocated}
<1> SUFFICES ASSUME NEW lane \in CommitLane,
                    entries[Index(candidatePointer[lane])].valid',
                    entries[Index(candidatePointer[lane])].payloadReady'
             PROVE  candidateFresh[lane]'
  BY DEF FreshInv
<1> DEFINE i == Index(candidatePointer[lane])'
<1>1. i \in RobIndex
  BY IndexType DEF CandidatesInv
<1>2. candidateFresh[lane]' = (i \notin slots)
  BY DEF RobStep
<1>3. i \in slots => \/ entries'[i] = InvalidEntry
                    \/ \E l, p : entries'[i] = NewEntry(l, p)
  BY <1>1 DEF RobStep
<1>4. i \notin slots
  <2>1. entries'[i] # InvalidEntry
    BY DEF InvalidEntry
  <2>2. \A l, p : entries'[i] # NewEntry(l, p)
    BY NewEntryForm
  <2> QED
    BY <1>3, <2>1, <2>2
<1> QED
  BY <1>2, <1>4

(***************************************************************************)
(* The theorems.                                                             *)
(***************************************************************************)
LEMMA CycleRob ==
  ASSUME RobWindowInv, BackendNext
  PROVE  RobWindowInv' /\ FreshInv'
<1>1. PICK group \in Groups, us \in Presentable, interrupt \in BOOLEAN :
        /\ group # <<>> => ResourcesReady(group)
        /\ \E outcome \in OutcomesOf(us) : Cycle(group, outcome, interrupt)
  BY DEF BackendNext
<1>2. PICK outcome : Cycle(group, outcome, interrupt)
  BY <1>1
<1> DEFINE allocated == [i \in DOMAIN group |-> RobLane(group, i)]
           completions == {Result(u, outcome[u]) : u \in DOMAIN outcome}
<1>3. RobStep(allocated, completions, recoveryEpoch, Flush)
  BY <1>2 DEF Cycle
<1>4. PICK n \in Nat : group \in [1 .. n -> Decoded]
  BY CoreConfigAssumption DEF Groups
<1>5. DOMAIN allocated = 1 .. n /\ Len(allocated) = n /\ Len(group) = n
  BY <1>4
<1>6. n # 0 => RobReady(n, Flush)
  BY <1>1, <1>4, <1>5 DEF ResourcesReady
<1> HIDE DEF allocated, completions
<1>7. RobWindowInv'
  BY <1>3, <1>5, <1>6, RobStepWindow
<1>8. FreshInv'
  BY <1>3, <1>5, <1>7, RobStepFresh DEF RobWindowInv
<1> QED
  BY <1>7, <1>8

RobInv == RobWindowInv /\ FreshInv

(* The invariant holds in every reachable state.                              *)
THEOREM RobInvariant == BackendSpec => []RobInv
<1>1. BackendInit => RobInv
  <2> SUFFICES ASSUME BackendInit PROVE FreshInv
    BY RobWindowInit DEF RobInv
  <2> QED
    BY CoreConfigAssumption
       DEF BackendInit, RobInit, FreshInv, RobIndex, CommitLane, Index, InvalidEntry
<1>2. RobInv /\ [BackendNext]_backendVars => RobInv'
  <2>1. CASE BackendNext
    BY <2>1, CycleRob DEF RobInv
  <2>2. CASE UNCHANGED backendVars
    BY <2>2
       DEF RobInv, RobWindowInv, PointersInv, CandidatesInv, EntriesInv, FreshInv, Position,
           backendVars, robVars
  <2> QED
    BY <2>1, <2>2
<1> QED
  BY <1>1, <1>2, PTL DEF BackendSpec

(* The live entries are exactly the ring between commitPointer and             *)
(* allocatePointer: no slot is leaked, none is lost, whatever the flushes.     *)
THEOREM RobWindow == BackendSpec => []WindowMatchesPointers
<1>1. RobInv => WindowMatchesPointers
  <2> SUFFICES ASSUME RobInv PROVE WindowMatchesPointers
    OBVIOUS
  <2>1. \A k \in 0 .. occupancy - 1 : Index(Position(k)) \in RobIndex
    BY AdvanceRobType, IndexType, CoreConfigAssumption
       DEF RobInv, RobWindowInv, PointersInv, Position
  <2> QED
    BY <2>1 DEF RobInv, RobWindowInv, PointersInv, EntriesInv, WindowMatchesPointers,
                LiveEntries, Position
<1> QED
  BY <1>1, RobInvariant, PTL

(* What retires is the oldest entries in program order, with a payload that    *)
(* was read after it had been written.                                        *)
THEOREM RobRetiresInOrder == BackendSpec => []RetirementInOrder
<1>1. RobInv => RetirementInOrder
  <2> SUFFICES ASSUME RobInv, NEW lane \in CommitLane, CanCommit(lane)
               PROVE  /\ candidatePointer[lane] = AdvanceRob(commitPointer, lane - 1)
                      /\ Candidate(lane).pointer = candidatePointer[lane]
                      /\ candidateFresh[lane]
    BY DEF RetirementInOrder
  <2>1. lane \in 1 .. occupancy /\ occupancy # 0
    <3>1. CommittedCount \in 0 .. occupancy
      BY CommittedWithinWindow DEF RobInv
    <3>2. lane <= CommittedCount
      BY CommittedPrefix
    <3>3. lane \in Nat \ {0} /\ occupancy \in Nat
      BY CoreConfigAssumption DEF RobInv, RobWindowInv, PointersInv, CommitLane
    <3> QED
      BY <3>1, <3>2, <3>3
  <2>2. candidatePointer[lane] = Position(lane - 1)
    BY <2>1 DEF RobInv, RobWindowInv, CandidatesInv
  <2>3. Candidate(lane).pointer = Position(lane - 1)
    <3>1. lane - 1 \in 0 .. occupancy - 1
      BY <2>1, CoreConfigAssumption DEF RobInv, RobWindowInv, PointersInv
    <3>2. entries[Index(Position(lane - 1))].pointer = Position(lane - 1)
      BY <3>1 DEF RobInv, RobWindowInv, EntriesInv
    <3> QED
      BY <2>2, <3>2 DEF Candidate
  <2>4. Candidate(lane).valid /\ Candidate(lane).payloadReady
    BY CoreConfigAssumption DEF CanCommit, Retirable, CommitLane
  <2> QED
    BY <2>2, <2>3, <2>4 DEF Position, Candidate, RobInv, FreshInv
<1> QED
  BY <1>1, RobInvariant, PTL


(***************************************************************************)
(* A cycle of the backend, taken apart once for all proofs below.             *)
(***************************************************************************)
EdgeOf(n, group, outcome, interrupt) ==
    /\ n <= RenameWidth /\ DOMAIN group = 1 .. n /\ Len(group) = n
    /\ \A i \in 1 .. n : group[i] \in Decoded
    /\ n # 0 => ~Flush /\ ResourcesReady(group)
    /\ DOMAIN outcome \subseteq {u \in executing : MayComplete(u)}
    /\ Cycle(group, outcome, interrupt)
Allocated(group) == [i \in DOMAIN group |-> RobLane(group, i)]
Completions(outcome) == {Result(u, outcome[u]) : u \in DOMAIN outcome}

LEMMA CycleIsEdge ==
  ASSUME BackendNext
  PROVE  \E n \in Nat, interrupt \in BOOLEAN : \E group, outcome :
            EdgeOf(n, group, outcome, interrupt)
<1>1. PICK group \in Groups, us \in Presentable, interrupt \in BOOLEAN :
        /\ group # <<>> => ResourcesReady(group)
        /\ \E outcome \in OutcomesOf(us) : Cycle(group, outcome, interrupt)
  BY DEF BackendNext
<1>2. PICK outcome \in OutcomesOf(us) : Cycle(group, outcome, interrupt)
  BY <1>1
<1>3. PICK n \in 0 .. RenameWidth : group \in [1 .. n -> Decoded]
  BY DEF Groups
<1>4. /\ n \in Nat /\ n <= RenameWidth /\ Len(group) = n /\ DOMAIN group = 1 .. n
      /\ \A i \in 1 .. n : group[i] \in Decoded
  BY <1>3, CoreConfigAssumption
<1>5. n # 0 => group # <<>>
  BY <1>3
<1>6. ResourcesReady(group) => ~Flush
  BY DEF ResourcesReady, RobReady
<1>7. DOMAIN outcome \subseteq {u \in executing : MayComplete(u)}
  BY <1>2 DEF OutcomesOf, Presentable
<1> QED
  BY <1>1, <1>2, <1>3, <1>4, <1>5, <1>6, <1>7 DEF EdgeOf

(* The part of an edge that is the reorder buffer's.                          *)
LEMMA EdgeOfRob ==
  ASSUME NEW n \in Nat, NEW group, NEW outcome, NEW interrupt,
         EdgeOf(n, group, outcome, interrupt)
  PROVE  /\ RobStep(Allocated(group), Completions(outcome), recoveryEpoch, Flush)
         /\ DOMAIN Allocated(group) = 1 .. n
         /\ Len(Allocated(group)) = n
         /\ n # 0 => RobReady(n, Flush)
<1>1. DOMAIN Allocated(group) = 1 .. n /\ Len(Allocated(group)) = n
  BY DEF EdgeOf, Allocated
<1>2. n # 0 => RobReady(n, Flush)
  BY DEF EdgeOf, ResourcesReady
<1>3. RobStep(Allocated(group), Completions(outcome), recoveryEpoch, Flush)
  BY DEF EdgeOf, Cycle, Allocated, Completions
<1> QED
  BY <1>1, <1>2, <1>3

(***************************************************************************)
(* Sleep.  Whatever the cycle that puts the core to sleep, it is a flush.      *)
(***************************************************************************)
LEMMA FlushEmpties ==
  ASSUME BackendNext, Flush
  PROVE  /\ occupancy' = 0
         /\ entries' = [i \in RobIndex |-> InvalidEntry]
         /\ stagedCompletion' = {}
         /\ \A u \in executing' : ~u.live /\ u.recoveryEpoch # recoveryEpoch'
<1>1. PICK n \in Nat, interrupt \in BOOLEAN : \E group, outcome :
        EdgeOf(n, group, outcome, interrupt)
  BY CycleIsEdge
<1>2. PICK group, outcome : EdgeOf(n, group, outcome, interrupt)
  BY <1>1
<1>3. RobStep(Allocated(group), Completions(outcome), recoveryEpoch, Flush)
  BY <1>2, EdgeOfRob
<1>4. /\ occupancy' = 0
      /\ entries' = [i \in RobIndex |-> InvalidEntry]
      /\ stagedCompletion' = {}
  BY <1>3 DEF RobStep
<1>5. ASSUME NEW u \in executing'
      PROVE  ~u.live /\ u.recoveryEpoch # recoveryEpoch'
  <2>1. executing' \subseteq Survivors(executing \ DOMAIN outcome)
    BY <1>2 DEF EdgeOf, Cycle, ExecutingStep
  <2>2. PICK v : /\ u = [v EXCEPT !.live = FALSE]
                 /\ v.recoveryEpoch # (recoveryEpoch + 1) % RecoveryEpochs
    BY <1>5, <2>1 DEF Survivors
  <2>3. recoveryEpoch' = (recoveryEpoch + 1) % RecoveryEpochs
    BY <1>2 DEF EdgeOf, Cycle, EpochStep
  <2> QED
    BY <2>2, <2>3
<1> QED
  BY <1>4, <1>5

(* A core that IDLE put to sleep holds no uop, whatever was renamed, retiring   *)
(* or executing in the cycles before: it falls asleep in a flush only, and      *)
(* stays asleep only by flushing again.                                        *)
THEOREM SleepsEmpty == BackendSpec => []AsleepMeansEmpty
<1>1. BackendInit => AsleepMeansEmpty
  BY DEF BackendInit, IdleInit, AsleepMeansEmpty
<1>2. AsleepMeansEmpty /\ [BackendNext]_backendVars => AsleepMeansEmpty'
  <2>1. CASE BackendNext
    <3>1. sleeping' => Flush
      <4>1. PICK n \in Nat, interrupt \in BOOLEAN : \E group, outcome :
              EdgeOf(n, group, outcome, interrupt)
        BY <2>1, CycleIsEdge
      <4> QED
        BY <4>1 DEF EdgeOf, Cycle, RedirectStep, IdleStep, Flush, ExternalRedirect, IdleRedirect
    <3>2. Flush => /\ occupancy' = 0
                   /\ \A i \in RobIndex : ~entries'[i].valid
                   /\ \A u \in executing' : ~u.live
      BY <2>1, FlushEmpties DEF InvalidEntry
    <3> QED
      BY <3>1, <3>2 DEF AsleepMeansEmpty, LiveEntries
  <2>2. ASSUME AsleepMeansEmpty, UNCHANGED backendVars
        PROVE  AsleepMeansEmpty'
    BY <2>2 DEF backendVars, robVars, idleVars, AsleepMeansEmpty, LiveEntries
  <2> QED
    BY <2>1, <2>2
<1> QED
  BY <1>1, <1>2, PTL DEF BackendSpec

(***************************************************************************)
(* What an edge without a flush does, told by positions of the window: it       *)
(* retires CommittedCount entries, updates the others in place and appends.    *)
(***************************************************************************)
EntryAt(k) == entries[Index(Position(k))]

LEMMA EdgeMovesWindow ==
  ASSUME RobInv, ~Flush,
         NEW n \in Nat, NEW group, NEW outcome, NEW interrupt,
         EdgeOf(n, group, outcome, interrupt)
  PROVE  /\ CommittedCount \in 0 .. occupancy
         /\ occupancy \in 0 .. RobEntries
         /\ occupancy + n \in 0 .. RobEntries
         /\ occupancy' = occupancy - CommittedCount + n
         /\ \A k \in 0 .. occupancy - CommittedCount - 1 :
               /\ Position(k)' = Position(CommittedCount + k)
               /\ EntryAt(k)' = UpdatedEntry(Index(Position(CommittedCount + k)))
         /\ \A k \in occupancy - CommittedCount .. occupancy' - 1 :
               \E l \in 1 .. n :
                  /\ l = k - (occupancy - CommittedCount) + 1
                  /\ AllocatedPointer(l) = Position(CommittedCount + k)
                  /\ Position(k)' = AllocatedPointer(l)
                  /\ EntryAt(k)' = NewEntry(RobLane(group, l), AllocatedPointer(l))
<1> DEFINE c == CommittedCount
<1>1. c \in 0 .. occupancy /\ occupancy \in 0 .. RobEntries /\ RobEntries \in Nat
  BY CommittedWithinWindow, CoreConfigAssumption DEF RobInv, RobWindowInv, PointersInv
<1>2. /\ occupancy + n \in 0 .. RobEntries
      /\ occupancy' = occupancy + n - c
      /\ \A k \in 0 .. RobEntries - c : Position(k)' = Position(c + k)
      /\ \A k \in c .. occupancy - 1 :
            entries'[Index(Position(k))] = UpdatedEntry(Index(Position(k)))
      /\ \A l \in 1 .. n :
            /\ AllocatedPointer(l) = Position(occupancy + l - 1)
            /\ entries'[Index(Position(occupancy + l - 1))] =
                  NewEntry(Allocated(group)[l], Position(occupancy + l - 1))
  BY EdgeOfRob, RobStepEntries DEF RobInv
<1>3. ASSUME NEW k \in 0 .. occupancy - c - 1
      PROVE  /\ Position(k)' = Position(c + k)
             /\ EntryAt(k)' = UpdatedEntry(Index(Position(c + k)))
  <2>1. k \in 0 .. RobEntries - c /\ c + k \in c .. occupancy - 1
    BY <1>1, <1>3
  <2>2. Position(k)' = Position(c + k)
    BY <1>2, <2>1
  <2> QED
    BY <1>2, <2>1, <2>2 DEF EntryAt
<1>4. ASSUME NEW k \in occupancy - c .. occupancy' - 1
      PROVE  \E l \in 1 .. n :
                /\ l = k - (occupancy - c) + 1
                /\ AllocatedPointer(l) = Position(c + k)
                /\ Position(k)' = AllocatedPointer(l)
                /\ EntryAt(k)' = NewEntry(RobLane(group, l), AllocatedPointer(l))
  <2> DEFINE l == k - (occupancy - c) + 1
  <2>1. l \in 1 .. n /\ occupancy + l - 1 = c + k /\ k \in 0 .. RobEntries - c
    BY <1>1, <1>2, <1>4
  <2>2. Position(k)' = Position(c + k) /\ AllocatedPointer(l) = Position(c + k)
    BY <1>2, <2>1
  <2>3. Allocated(group)[l] = RobLane(group, l)
    BY <2>1 DEF Allocated, EdgeOf
  <2>4. entries'[Index(Position(c + k))] =
           NewEntry(Allocated(group)[l], Position(c + k))
    <3> HIDE DEF l
    <3> QED
      BY <1>2, <2>1
  <2>5. EntryAt(k)' = NewEntry(RobLane(group, l), AllocatedPointer(l))
    BY <2>2, <2>3, <2>4 DEF EntryAt
  <2> QED
    BY <2>1, <2>2, <2>5
<1> QED
  BY <1>1, <1>2, <1>3, <1>4

(* What an entry keeps while its completion and payload bits change.           *)
LEMMA UpdatedKeeps ==
  ASSUME NEW i, entries[i].valid
  PROVE  /\ UpdatedEntry(i).pointer = entries[i].pointer
         /\ UpdatedEntry(i).payload = entries[i].payload
         /\ UpdatedEntry(i).serializing = entries[i].serializing
         /\ entries[i].complete =>
               /\ UpdatedEntry(i).complete
               /\ UpdatedEntry(i).exception = entries[i].exception
               /\ UpdatedEntry(i).mispredict = entries[i].mispredict
<1>1. entries[i].complete => {c \in stagedCompletion : Matches(i, c)} = {}
  BY DEF Matches
<1> QED
  BY <1>1 DEF UpdatedEntry

(* The window is valid, and what is valid carries its own position.            *)
LEMMA WindowValid ==
  ASSUME RobInv, NEW k \in 0 .. occupancy - 1
  PROVE  EntryAt(k).valid /\ EntryAt(k).pointer = Position(k)
BY DEF RobInv, RobWindowInv, EntriesInv, EntryAt

(* What retires is what stands at the first positions.                         *)
LEMMA CandidatesOfWindow ==
  ASSUME RobInv, NEW lane \in 1 .. CommittedCount
  PROVE  /\ lane \in CommitLane /\ lane - 1 \in 0 .. occupancy - 1
         /\ Candidate(lane) = EntryAt(lane - 1)
         /\ CanCommit(lane)
<1>1. CommittedCount \in 0 .. occupancy /\ CommittedCount \in 0 .. CommitWidth
  BY CommittedWithinWindow DEF RobInv
<1>2. lane \in CommitLane /\ CommitWidth \in Nat /\ occupancy \in Nat
  BY <1>1, CoreConfigAssumption DEF CommitLane, RobInv, RobWindowInv, PointersInv
<1>3. lane - 1 \in 0 .. occupancy - 1 /\ occupancy # 0
  BY <1>1, <1>2
<1>4. CanCommit(lane)
  BY <1>1, <1>2, CommittedPrefix
<1>5. candidatePointer[lane] = Position(lane - 1)
  BY <1>2, <1>3 DEF RobInv, RobWindowInv, CandidatesInv
<1> QED
  BY <1>2, <1>3, <1>4, <1>5 DEF Candidate, EntryAt

(* A serializing entry is known by its operation, so what refetches or sleeps   *)
(* retires alone.                                                             *)
SerializingInv ==
    \A k \in 0 .. occupancy - 1 :
        /\ EntryAt(k).serializing \in BOOLEAN
        /\ EntryAt(k).serializing <=> Serializing(EntryAt(k).payload.op)

LEMMA EdgeKeepsSerializing ==
  ASSUME RobInv, SerializingInv, BackendNext
  PROVE  SerializingInv'
<1>1. PICK n \in Nat, interrupt \in BOOLEAN : \E group, outcome :
        EdgeOf(n, group, outcome, interrupt)
  BY CycleIsEdge
<1>2. PICK group, outcome : EdgeOf(n, group, outcome, interrupt)
  BY <1>1
<1>3. CASE Flush
  BY <1>3, FlushEmpties DEF SerializingInv
<1>4. CASE ~Flush
  <2> DEFINE c == CommittedCount
  <2>1. /\ c \in 0 .. occupancy
        /\ occupancy \in 0 .. RobEntries
        /\ occupancy' = occupancy - c + n
        /\ \A k \in 0 .. occupancy - c - 1 :
              EntryAt(k)' = UpdatedEntry(Index(Position(c + k)))
        /\ \A k \in occupancy - c .. occupancy' - 1 : \E l \in 1 .. n :
              EntryAt(k)' = NewEntry(RobLane(group, l), AllocatedPointer(l))
    BY <1>2, <1>4, EdgeMovesWindow
  <2> SUFFICES ASSUME NEW k \in 0 .. occupancy' - 1
               PROVE  /\ EntryAt(k)'.serializing \in BOOLEAN
                      /\ EntryAt(k)'.serializing <=> Serializing(EntryAt(k)'.payload.op)
    BY DEF SerializingInv
  <2>2. CASE k < occupancy - c
    <3>1. c + k \in 0 .. occupancy - 1
      BY <2>1, <2>2
    <3>2. /\ EntryAt(k)'.serializing = EntryAt(c + k).serializing
          /\ EntryAt(k)'.payload = EntryAt(c + k).payload
      BY <2>1, <2>2, <3>1, WindowValid, UpdatedKeeps, CoreConfigAssumption DEF EntryAt
    <3> QED
      BY <3>1, <3>2 DEF SerializingInv
  <2>3. CASE k >= occupancy - c
    <3>1. PICK l \in 1 .. n :
            EntryAt(k)' = NewEntry(RobLane(group, l), AllocatedPointer(l))
      BY <2>1, <2>3
    <3>2. /\ EntryAt(k)'.serializing = Serializing(group[l].op)
          /\ EntryAt(k)'.payload.op = group[l].op
      BY <3>1 DEF NewEntry, RobLane
    <3> QED
      BY <3>2 DEF Serializing
  <2> QED
    BY <2>1, <2>2, <2>3
<1> QED
  BY <1>3, <1>4

(***************************************************************************)
(* In-order retirement.                                                      *)
(***************************************************************************)
LEMMA WindowEntries ==
  ASSUME RobInv
  PROVE  /\ occupancy \in Nat
         /\ Len(Window) = occupancy /\ DOMAIN Window = 1 .. occupancy
         /\ \A k \in 1 .. occupancy :
               Window[k] = [alone |-> EntryAt(k - 1).serializing,
                            outcome |-> Outcome(EntryAt(k - 1))]
BY CoreConfigAssumption DEF RobInv, RobWindowInv, PointersInv, Window, EntryAt, Position

(* A flush is asked for by the last uop of a group and by no other.            *)
LEMMA FlushIsAskedFor ==
  ASSUME RobInv, SerializingInv, ~Flush,
         NEW n \in Nat, NEW group, NEW outcome, NEW interrupt \in BOOLEAN,
         EdgeOf(n, group, outcome, interrupt)
  PROVE  LET c == CommittedCount
         IN  /\ Flush' \in BOOLEAN
             /\ c # 0 /\ Window[c].outcome = "recover" => Flush'
             /\ Flush' => c # 0 /\ (Window[c].outcome = "recover" \/ Window[c].alone)
<1> DEFINE c == CommittedCount
<1>1. c \in 0 .. occupancy /\ occupancy \in Nat /\ c \in 0 .. CommitWidth
  BY CommittedWithinWindow, WindowEntries DEF RobInv
<1>2. /\ recoveryPending' <=> RecoveryValid
      /\ privilegedPending' <=> RetiresOp("barrier")
      /\ enterPending' <=> RetiresOp("idle")
      /\ ~sleeping'
  BY DEF EdgeOf, Cycle, RedirectStep, IdleStep, Flush, ExternalRedirect, IdleRedirect
<1>3. Flush' <=> RecoveryValid \/ RetiresOp("barrier") \/ RetiresOp("idle")
  BY <1>2 DEF Flush, ExternalRedirect, IdleRedirect
<1>4. \A lane \in 1 .. c : lane < c => ~StopAfter(lane)
  <2>1. SUFFICES ASSUME NEW lane \in 1 .. c, lane < c PROVE ~StopAfter(lane)
    OBVIOUS
  <2>2. CanCommit(c) /\ lane \in 1 .. c - 1
    BY <1>1, <2>1, CandidatesOfWindow
  <2> QED
    BY <2>2 DEF CanCommit
<1>5. \A lane \in 1 .. c : Candidate(lane).complete
  BY CandidatesOfWindow, CoreConfigAssumption DEF CanCommit, Retirable, CommitLane
<1>6. c # 0 => Candidate(c) = EntryAt(c - 1)
  BY <1>1, CandidatesOfWindow
<1>7. c # 0 => Window[c] = [alone |-> EntryAt(c - 1).serializing,
                            outcome |-> Outcome(EntryAt(c - 1))]
  BY <1>1, WindowEntries
<1>8. RecoveryValid <=> c # 0 /\ (Candidate(c).exception \/ Candidate(c).mispredict)
  <2>1. ASSUME RecoveryValid
        PROVE  c # 0 /\ (Candidate(c).exception \/ Candidate(c).mispredict)
    <3>1. PICK lane \in CommitLane :
            CanCommit(lane) /\ (Candidate(lane).exception \/ Candidate(lane).mispredict)
      BY <2>1 DEF RecoveryValid
    <3>2. lane \in 1 .. c
      BY <1>1, <3>1, CommittedPrefix DEF CommitLane
    <3>3. lane = c
      BY <1>1, <1>4, <3>1, <3>2 DEF StopAfter
    <3> QED
      BY <3>1, <3>2, <3>3
  <2>2. ASSUME c # 0, Candidate(c).exception \/ Candidate(c).mispredict
        PROVE  RecoveryValid
    <3>1. c \in CommitLane /\ CanCommit(c)
      BY <1>1, <2>2, CandidatesOfWindow
    <3> QED
      BY <2>2, <3>1 DEF RecoveryValid
  <2> QED
    BY <2>1, <2>2
<1>9. ASSUME NEW op, Serializing(op), RetiresOp(op)
      PROVE  c # 0 /\ EntryAt(c - 1).serializing
  <2>1. PICK lane \in 1 .. c : Candidate(lane).payload.op = op
    BY <1>9 DEF RetiresOp, Commit
  <2>2. lane - 1 \in 0 .. occupancy - 1 /\ Candidate(lane) = EntryAt(lane - 1)
    BY CandidatesOfWindow
  <2>3. EntryAt(lane - 1).serializing
    BY <1>9, <2>1, <2>2 DEF SerializingInv
  <2>4. lane = c
    BY <1>1, <1>4, <2>1, <2>2, <2>3 DEF StopAfter
  <2> QED
    BY <1>1, <2>1, <2>3, <2>4
<1>10. Serializing("barrier") /\ Serializing("idle")
  BY DEF Serializing
<1>11. Flush' \in BOOLEAN
  BY DEF Flush
<1>12. c # 0 => (Window[c].outcome = "recover" <=>
                   Candidate(c).exception \/ Candidate(c).mispredict)
  BY <1>1, <1>5, <1>6, <1>7 DEF Outcome
<1>13. c # 0 => (Window[c].alone <=> EntryAt(c - 1).serializing)
  BY <1>7
<1> QED
  BY <1>3, <1>8, <1>9, <1>10, <1>11, <1>12, <1>13

(* What an entry shows to the specification: no outcome it has ever changes,    *)
(* and no entry is complete and good when it is allocated.                     *)
LEMMA OutcomeForms ==
  /\ \A e : Outcome(e) \in {"none", "good", "recover"}
  /\ \A lane, p : Outcome(NewEntry(lane, p)) # "good"
BY DEF Outcome, NewEntry

(* A cycle without a flush is one step of the specification.                   *)
LEMMA CycleProceeds ==
  ASSUME RobInv, SerializingInv, RobInv', SerializingInv', BackendNext, ~Flush
  PROVE  Retirement!Proceed
<1> DEFINE c == CommittedCount
           left == Len(Window) - c
<1>1. PICK n \in Nat, interrupt \in BOOLEAN : \E group, outcome :
        EdgeOf(n, group, outcome, interrupt)
  BY CycleIsEdge
<1>2. PICK group, outcome : EdgeOf(n, group, outcome, interrupt)
  BY <1>1
<1>3. /\ c \in 0 .. occupancy /\ c \in 0 .. CommitWidth
      /\ occupancy \in Nat /\ occupancy' \in Nat /\ n <= RenameWidth
      /\ RenameWidth \in Nat /\ CommitWidth \in Nat
  BY <1>2, CommittedWithinWindow, CoreConfigAssumption
     DEF RobInv, RobWindowInv, PointersInv, EdgeOf
<1>4. /\ occupancy' = occupancy - c + n
      /\ \A k \in 0 .. occupancy - c - 1 :
            EntryAt(k)' = UpdatedEntry(Index(Position(c + k)))
      /\ \A k \in occupancy - c .. occupancy' - 1 : \E l \in 1 .. n :
            EntryAt(k)' = NewEntry(RobLane(group, l), AllocatedPointer(l))
  BY <1>2, EdgeMovesWindow
<1>5. /\ Len(Window) = occupancy
      /\ \A k \in 1 .. occupancy :
            Window[k] = [alone |-> EntryAt(k - 1).serializing,
                         outcome |-> Outcome(EntryAt(k - 1))]
  BY WindowEntries
<1>6. /\ Len(Window') = occupancy' /\ DOMAIN Window' = 1 .. occupancy'
      /\ \A k \in 1 .. occupancy' :
            Window'[k] = [alone |-> EntryAt(k - 1)'.serializing,
                          outcome |-> Outcome(EntryAt(k - 1)')]
  BY CoreConfigAssumption
     DEF RobInv, RobWindowInv, PointersInv, Window, EntryAt, Position, Outcome
<1>7. Retirement!May(c, Window)
  <2>1. ASSUME NEW k \in 1 .. c
        PROVE  Window[k].outcome # "none"
    <3>1. CanCommit(k) /\ Candidate(k) = EntryAt(k - 1) /\ k \in 1 .. occupancy
      BY <1>3, <2>1, CandidatesOfWindow
    <3>2. EntryAt(k - 1).complete
      BY <2>1, <3>1, <1>3 DEF CanCommit, Retirable
    <3> QED
      BY <1>5, <3>1, <3>2 DEF Outcome
  <2>2. ASSUME NEW k \in 1 .. c - 1
        PROVE  Window[k].outcome = "good" /\ ~Window[k].alone
    <3>1. CanCommit(c) /\ k \in 1 .. c /\ k \in 1 .. occupancy
      BY <1>3, <2>2, CandidatesOfWindow
    <3>2. ~StopAfter(k) /\ Candidate(k) = EntryAt(k - 1)
      BY <2>2, <3>1, CandidatesOfWindow DEF CanCommit
    <3> QED
      BY <1>5, <2>1, <3>1, <3>2 DEF StopAfter, Outcome
  <2> QED
    BY <2>1, <2>2 DEF Retirement!May
<1>8. Window' \in Seq(Retirement!Uop)
  <2>1. \A k \in 1 .. occupancy' : Window'[k] \in Retirement!Uop
    <3> SUFFICES ASSUME NEW k \in 1 .. occupancy'
                 PROVE  Window'[k] \in Retirement!Uop
      OBVIOUS
    <3>1. EntryAt(k - 1)'.serializing \in BOOLEAN
      <4> DEFINE o == occupancy'
      <4>1. k \in 1 .. o => k - 1 \in 0 .. o - 1
        <5>1. o \in Nat
          BY <1>3
        <5> HIDE DEF o
        <5> QED
          BY <5>1
      <4> QED
        BY <4>1 DEF SerializingInv
    <3> QED
      BY <1>6, <3>1, OutcomeForms DEF Retirement!Uop
  <2>2. Window' = [k \in 1 .. occupancy' |-> Window'[k]]
    BY DEF Window
  <2> QED
    BY <1>3, <2>1, <2>2
<1>9. \A k \in 1 .. left : Retirement!Evolves(Window[c + k], Window'[k])
  <2> SUFFICES ASSUME NEW k \in 1 .. left
               PROVE  Retirement!Evolves(Window[c + k], Window'[k])
    OBVIOUS
  <2> DEFINE e == EntryAt(c + k - 1)
  <2>1. /\ k - 1 \in 0 .. occupancy - c - 1 /\ c + (k - 1) = c + k - 1
        /\ c + k - 1 \in 0 .. occupancy - 1
        /\ c + k \in 1 .. occupancy /\ k \in 1 .. occupancy'
    BY <1>3, <1>4, <1>5
  <2>2. EntryAt(k - 1)' = UpdatedEntry(Index(Position(c + k - 1)))
    <3>1. EntryAt(k - 1)' = UpdatedEntry(Index(Position(c + (k - 1))))
      BY <1>4, <2>1
    <3> QED
      BY <2>1, <3>1
  <2>3. /\ EntryAt(k - 1)'.serializing = e.serializing
        /\ e.complete => /\ EntryAt(k - 1)'.complete
                         /\ EntryAt(k - 1)'.exception = e.exception
                         /\ EntryAt(k - 1)'.mispredict = e.mispredict
    BY <2>1, <2>2, WindowValid, UpdatedKeeps DEF EntryAt
  <2>4. e.complete => Outcome(EntryAt(k - 1)') = Outcome(e)
    BY <2>3 DEF Outcome
  <2>5. ~e.complete => Outcome(e) = "none"
    BY DEF Outcome
  <2>6. Window[c + k] = [alone |-> e.serializing, outcome |-> Outcome(e)]
    <3> HIDE DEF c
    <3> QED
      BY <1>3, <1>5, <2>1
  <2>7. Window'[k] = [alone |-> EntryAt(k - 1)'.serializing,
                      outcome |-> Outcome(EntryAt(k - 1)')]
    BY <1>6, <2>1
  <2> HIDE DEF e
  <2> QED
    BY <2>3, <2>4, <2>5, <2>6, <2>7 DEF Retirement!Evolves
<1>10. \A k \in left + 1 .. Len(Window') : Window'[k].outcome # "good"
  <2> SUFFICES ASSUME NEW k \in left + 1 .. Len(Window')
               PROVE  Window'[k].outcome # "good"
    OBVIOUS
  <2>1. k - 1 \in occupancy - c .. occupancy' - 1 /\ k \in 1 .. occupancy'
    BY <1>3, <1>4, <1>5, <1>6
  <2> QED
    BY <1>4, <1>6, <2>1, OutcomeForms
<1>11. /\ Flush' \in BOOLEAN
       /\ c # 0 /\ Window[c].outcome = "recover" => Flush'
       /\ Flush' => c # 0 /\ (Window[c].outcome = "recover" \/ Window[c].alone)
  BY <1>2, FlushIsAskedFor
<1>12. Flush' \in IF c > 0 /\ Window[c].outcome = "recover" THEN {TRUE}
                  ELSE IF c > 0 /\ Window[c].alone THEN BOOLEAN
                  ELSE {FALSE}
  <2>1. c > 0 <=> c # 0
    BY <1>3
  <2>2. CASE c # 0 /\ Window[c].outcome = "recover"
    BY <1>11, <2>1, <2>2
  <2>3. CASE ~(c # 0 /\ Window[c].outcome = "recover")
    <3>1. Flush' => c # 0 /\ Window[c].alone
      BY <1>11, <2>3
    <3> QED
      BY <1>11, <2>1, <2>3, <3>1
  <2> QED
    BY <2>2, <2>3
<1>13. c \in 0 .. CommitWidth /\ c <= Len(Window) /\ Len(Window') \in left .. left + RenameWidth
  BY <1>3, <1>4, <1>5, <1>6
<1> QED
  BY <1>7, <1>8, <1>9, <1>10, <1>12, <1>13 DEF Retirement!Proceed

(* A flush discards the whole window.                                         *)
LEMMA FlushDiscards ==
  ASSUME BackendNext, Flush
  PROVE  Retirement!Discard
<1>1. occupancy' = 0
  BY FlushEmpties
<1>2. Window' = <<>>
  BY <1>1 DEF Window
<1>3. Flush' \in BOOLEAN
  BY DEF Flush
<1> QED
  BY <1>2, <1>3 DEF Retirement!Discard

(* Whatever retires, faults, is mispredicted or is flushed, the core leaves a    *)
(* queue in order: it never retires past a recovery, and discards at once.     *)
THEOREM RetirementRefines == BackendSpec => RetirementImplemented
<1>1. BackendInit => SerializingInv /\ Retirement!RetirementInit
  BY DEF BackendInit, RobInit, IdleInit, SerializingInv, Flush, ExternalRedirect,
         IdleRedirect, Window, Retirement!RetirementInit
<1>2. SerializingInv /\ RobInv /\ [BackendNext]_backendVars => SerializingInv'
  <2>1. CASE BackendNext
    BY <2>1, EdgeKeepsSerializing
  <2>2. CASE UNCHANGED backendVars
    BY <2>2 DEF SerializingInv, EntryAt, Position, backendVars, robVars
  <2> QED
    BY <2>1, <2>2
<1>3. RobInv /\ SerializingInv /\ RobInv' /\ SerializingInv' /\ [BackendNext]_backendVars
        => [Retirement!Proceed \/ Retirement!Discard]_Retirement!retirementVars
  <2>1. ASSUME RobInv, SerializingInv, RobInv', SerializingInv', BackendNext
        PROVE  Retirement!Proceed \/ Retirement!Discard
    BY <2>1, CycleProceeds, FlushDiscards
  <2>2. ASSUME UNCHANGED backendVars
        PROVE  UNCHANGED Retirement!retirementVars
    BY <2>2 DEF backendVars, robVars, idleVars, Window, Flush, ExternalRedirect,
                IdleRedirect, Outcome, Retirement!retirementVars
  <2> QED
    BY <2>1, <2>2
<1> QED
  BY <1>1, <1>2, <1>3, RobInvariant, PTL
     DEF BackendSpec, RetirementImplemented, Retirement!RetirementSpec

(***************************************************************************)
(* Results.  CompletedByOwnResult is not inductive: that no result of another   *)
(* uop completes an entry needs the live uops to stand at distinct positions    *)
(* of the window, and the registered results to be of positions nobody owes a   *)
(* result for any more.  A uop whose entry decoding already faulted may see it   *)
(* retire first; the flush that retirement asks for comes before the slot can   *)
(* be given away.                                                            *)
(***************************************************************************)
Placed(u) ==
    \/ \E k \in 0 .. occupancy - 1 :
          /\ u.robPointer = Position(k)
          /\ EntryAt(k).complete => EntryAt(k).exception
    \/ /\ Flush
       /\ ~entries[Index(u.robPointer)].valid
OwedInv ==
    \A u \in executing :
        /\ u.live <=> u.recoveryEpoch = recoveryEpoch
        /\ u.live => Placed(u)
        /\ \A v \in executing : u.live /\ v.live /\ u.robPointer = v.robPointer => u = v
StagedInv ==
    \A c \in stagedCompletion :
        /\ c.live /\ c.robPointer \in RobPointer
        /\ \A u \in executing : u.live => u.robPointer # c.robPointer
ResultsInv == OwedInv /\ StagedInv

(* Positions of one turn of the ring are distinct pointers.                    *)
LEMMA PositionsDistinct ==
  ASSUME RobInv, NEW a \in 0 .. RobEntries - 1, NEW b \in 0 .. RobEntries - 1
  PROVE  /\ Position(a) \in RobPointer
         /\ Index(Position(a)) = Index(Position(b)) => a = b
BY AdvanceRobType, SlotsDistinct, CoreConfigAssumption
   DEF RobInv, RobWindowInv, PointersInv, Position

(* Slot and wrap bit identify a pointer.                                      *)
LEMMA PointerOfIndex ==
  ASSUME NEW p \in RobPointer, NEW q \in RobPointer,
         Index(p) = Index(q), Msb(p) = Msb(q)
  PROVE  p = q
BY CoreConfigAssumption DEF RobPointer, Index, Msb

(* What execution owes after an edge without a flush.                          *)
LEMMA EdgeOfExecution ==
  ASSUME RobInv, ~Flush,
         NEW n \in Nat, NEW group, NEW outcome, NEW interrupt,
         EdgeOf(n, group, outcome, interrupt)
  PROVE  /\ recoveryEpoch' = recoveryEpoch
         /\ \A c \in stagedCompletion' : \E u \in DOMAIN outcome :
               /\ u \in executing /\ u.recoveryEpoch = recoveryEpoch
               /\ c.robPointer = u.robPointer /\ c.live = u.live /\ c.pdst = u.pdst
         /\ \A u \in executing' :
               \/ u \in executing /\ u \notin DOMAIN outcome
               \/ \E l \in 1 .. n :
                     /\ u = ExecutingLane(group, l)
                     /\ u.robPointer = Position(occupancy + l - 1)
                     /\ u.live /\ u.recoveryEpoch = recoveryEpoch
<1>1. recoveryEpoch' = recoveryEpoch
  BY DEF EdgeOf, Cycle, EpochStep
<1>2. stagedCompletion' = CurrentResults(Completions(outcome), recoveryEpoch)
  BY EdgeOfRob DEF RobStep
<1>3. executing' = (executing \ DOMAIN outcome)
                      \cup {ExecutingLane(group, i) : i \in 1 .. n}
  BY DEF EdgeOf, Cycle, ExecutingStep
<1>4. \A l \in 1 .. n : AllocatedPointer(l) = Position(occupancy + l - 1)
  BY EdgeOfRob, RobStepEntries DEF RobInv
<1>5. ASSUME NEW c \in stagedCompletion'
      PROVE  \E u \in DOMAIN outcome :
               /\ u \in executing /\ u.recoveryEpoch = recoveryEpoch
               /\ c.robPointer = u.robPointer /\ c.live = u.live /\ c.pdst = u.pdst
  <2>1. PICK u \in DOMAIN outcome : c = Result(u, outcome[u])
    BY <1>2, <1>5 DEF CurrentResults, Completions
  <2>2. c.recoveryEpoch = recoveryEpoch
    BY <1>2, <1>5 DEF CurrentResults
  <2>3. u \in executing
    BY DEF EdgeOf
  <2> QED
    BY <2>1, <2>2, <2>3 DEF Result
<1>6. ASSUME NEW l \in 1 .. n
      PROVE  /\ ExecutingLane(group, l).robPointer = Position(occupancy + l - 1)
             /\ ExecutingLane(group, l).live
             /\ ExecutingLane(group, l).recoveryEpoch = recoveryEpoch
  BY <1>4 DEF ExecutingLane
<1>7. ASSUME NEW u \in executing'
      PROVE  \/ u \in executing /\ u \notin DOMAIN outcome
             \/ \E l \in 1 .. n :
                   /\ u = ExecutingLane(group, l)
                   /\ u.robPointer = Position(occupancy + l - 1)
                   /\ u.live /\ u.recoveryEpoch = recoveryEpoch
  <2>1. CASE u \in executing \ DOMAIN outcome
    BY <2>1
  <2>2. CASE u \notin executing \ DOMAIN outcome
    <3>1. PICK l \in 1 .. n : u = ExecutingLane(group, l)
      BY <1>3, <1>7, <2>2
    <3> QED
      BY <1>6, <3>1
  <2> QED
    BY <2>1, <2>2
<1> QED
  BY <1>1, <1>5, <1>7

(* A uop still owed keeps its place over such an edge, or its entry retires     *)
(* with the exception of decoding and the next cycle is a flush.               *)
LEMMA EdgeKeepsPlace ==
  ASSUME RobInv, RobInv', ResultsInv, ~Flush,
         NEW n \in Nat, NEW group, NEW outcome, NEW interrupt,
         EdgeOf(n, group, outcome, interrupt),
         NEW u \in executing, u.live
  PROVE  Placed(u)'
<1> DEFINE c == CommittedCount
<1>1. PICK k \in 0 .. occupancy - 1 :
        /\ u.robPointer = Position(k)
        /\ EntryAt(k).complete => EntryAt(k).exception
  BY DEF ResultsInv, OwedInv, Placed
<1>2. /\ c \in 0 .. occupancy /\ occupancy \in 0 .. RobEntries
      /\ occupancy + n \in 0 .. RobEntries
      /\ occupancy' = occupancy - c + n
      /\ \A j \in 0 .. occupancy - c - 1 :
            /\ Position(j)' = Position(c + j)
            /\ EntryAt(j)' = UpdatedEntry(Index(Position(c + j)))
      /\ \A j \in occupancy - c .. occupancy' - 1 : Position(j)' = Position(c + j)
  BY EdgeMovesWindow
<1>3. RobEntries \in Nat
  BY CoreConfigAssumption
<1>4. EntryAt(k).valid /\ EntryAt(k).pointer = Position(k) /\ Position(k) \in RobPointer
  BY <1>2, <1>3, WindowValid, PositionsDistinct
<1>5. CASE k >= c
  <2>1. PICK j \in 0 .. occupancy - c - 1 : c + j = k /\ j \in 0 .. occupancy' - 1
    <3>1. k - c \in 0 .. occupancy - c - 1 /\ c + (k - c) = k /\ k - c \in 0 .. occupancy' - 1
      BY <1>2, <1>5
    <3> QED
      BY <3>1
  <2>2. Position(j)' = Position(k) /\ EntryAt(j)' = UpdatedEntry(Index(Position(k)))
    BY <1>2, <2>1
  <2>3. {hit \in stagedCompletion : Matches(Index(Position(k)), hit)} = {}
    <3> SUFFICES ASSUME NEW hit \in stagedCompletion,
                        Matches(Index(Position(k)), hit)
                 PROVE  FALSE
      OBVIOUS
    <3>1. hit.robPointer \in RobPointer /\ hit.robPointer # u.robPointer
      BY DEF ResultsInv, StagedInv
    <3>2. Index(hit.robPointer) = Index(Position(k)) /\ Msb(Position(k)) = Msb(hit.robPointer)
      BY <1>4 DEF Matches, EntryAt
    <3> QED
      BY <1>1, <1>4, <3>1, <3>2, PointerOfIndex
  <2>4. UpdatedEntry(Index(Position(k))).complete
           => UpdatedEntry(Index(Position(k))).exception
    BY <1>1, <1>4, <2>3 DEF UpdatedEntry, EntryAt
  <2> QED
    BY <1>1, <2>1, <2>2, <2>4 DEF Placed
<1>6. CASE k < c
  <2>1. k + 1 \in 1 .. c /\ (k + 1) - 1 = k
    BY <1>2, <1>6
  <2>2. /\ k + 1 \in CommitLane /\ CanCommit(k + 1)
        /\ Candidate(k + 1) = EntryAt(k)
    BY <2>1, CandidatesOfWindow
  <2>3. Candidate(k + 1).exception
    BY <1>1, <2>1, <2>2, CoreConfigAssumption DEF CanCommit, Retirable, CommitLane
  <2>4. RecoveryValid
    BY <2>2, <2>3 DEF RecoveryValid
  <2>5. Flush'
    BY <2>4 DEF EdgeOf, Cycle, RedirectStep, Flush
  <2>6. ~entries'[Index(Position(k))].valid
    <3> SUFFICES ASSUME entries'[Index(Position(k))].valid PROVE FALSE
      OBVIOUS
    <3>1. Index(Position(k)) \in RobIndex
      BY <1>4, IndexType
    <3>2. PICK j \in 0 .. occupancy' - 1 : Index(Position(k)) = Index(Position(j)')
      BY <3>1 DEF RobInv, RobWindowInv, EntriesInv
    <3>3. Position(j)' = Position(c + j)
      BY <1>2, <3>2
    <3>4. c + j \in 0 .. RobEntries - 1 /\ k \in 0 .. RobEntries - 1 /\ c + j # k
      BY <1>2, <1>3, <1>6, <3>2
    <3> QED
      BY <3>2, <3>3, <3>4, PositionsDistinct
  <2> QED
    BY <1>1, <2>5, <2>6 DEF Placed
<1> QED
  BY <1>2, <1>5, <1>6

LEMMA EdgeKeepsResults ==
  ASSUME RobInv, RobInv', ResultsInv, BackendNext
  PROVE  ResultsInv'
<1>1. PICK n \in Nat, interrupt \in BOOLEAN : \E group, outcome :
        EdgeOf(n, group, outcome, interrupt)
  BY CycleIsEdge
<1>2. PICK group, outcome : EdgeOf(n, group, outcome, interrupt)
  BY <1>1
<1>3. CASE Flush
  BY <1>3, FlushEmpties DEF ResultsInv, OwedInv, StagedInv
<1>4. CASE ~Flush
  <2> DEFINE c == CommittedCount
  <2>1. /\ recoveryEpoch' = recoveryEpoch
        /\ \A r \in stagedCompletion' : \E u \in DOMAIN outcome :
              /\ u \in executing /\ u.recoveryEpoch = recoveryEpoch
              /\ r.robPointer = u.robPointer /\ r.live = u.live
        /\ \A u \in executing' :
              \/ u \in executing /\ u \notin DOMAIN outcome
              \/ \E l \in 1 .. n :
                    /\ u = ExecutingLane(group, l)
                    /\ u.robPointer = Position(occupancy + l - 1)
                    /\ u.live /\ u.recoveryEpoch = recoveryEpoch
    BY <1>2, <1>4, EdgeOfExecution
  <2>2. /\ c \in 0 .. occupancy /\ occupancy \in 0 .. RobEntries
        /\ occupancy + n \in 0 .. RobEntries /\ RobEntries \in Nat
        /\ occupancy' = occupancy - c + n
        /\ \A k \in occupancy - c .. occupancy' - 1 :
              \E l \in 1 .. n :
                 /\ AllocatedPointer(l) = Position(c + k)
                 /\ Position(k)' = AllocatedPointer(l)
                 /\ EntryAt(k)' = NewEntry(RobLane(group, l), AllocatedPointer(l))
    BY <1>2, <1>4, EdgeMovesWindow, CoreConfigAssumption
  <2>3. \A u \in executing : u.live =>
          \E k \in 0 .. occupancy - 1 : u.robPointer = Position(k)
    BY <1>4 DEF ResultsInv, OwedInv, Placed
  <2>4. ASSUME NEW a \in 0 .. RobEntries - 1, NEW b \in 0 .. RobEntries - 1,
               Position(a) = Position(b)
        PROVE  a = b
    BY <2>4, PositionsDistinct
  <2>5. ASSUME NEW u \in executing, u.live, NEW l \in 1 .. n
        PROVE  u.robPointer # Position(occupancy + l - 1)
    <3>1. PICK k \in 0 .. occupancy - 1 : u.robPointer = Position(k)
      BY <2>3, <2>5
    <3>2. k \in 0 .. RobEntries - 1 /\ occupancy + l - 1 \in 0 .. RobEntries - 1
            /\ k # occupancy + l - 1
      BY <2>2
    <3> QED
      BY <2>4, <3>1, <3>2
  <2>6. ASSUME NEW u \in executing'
        PROVE  /\ u.live <=> u.recoveryEpoch = recoveryEpoch'
               /\ u.live => Placed(u)'
    <3>1. CASE u \in executing
      BY <1>2, <1>4, <2>1, <3>1, EdgeKeepsPlace DEF ResultsInv, OwedInv
    <3>2. CASE u \notin executing
      <4>1. PICK l \in 1 .. n : /\ u.robPointer = Position(occupancy + l - 1)
                               /\ u.live /\ u.recoveryEpoch = recoveryEpoch
        BY <2>1, <2>6, <3>2
      <4>2. PICK k \in occupancy - c .. occupancy' - 1 : c + k = occupancy + l - 1
        <5>1. /\ occupancy - c + l - 1 \in occupancy - c .. occupancy' - 1
              /\ c + (occupancy - c + l - 1) = occupancy + l - 1
          BY <2>2
        <5> QED
          BY <5>1
      <4>3. /\ Position(k)' = Position(occupancy + l - 1)
            /\ \E m, p : EntryAt(k)' = NewEntry(m, p)
        BY <2>2, <4>2
      <4>4. EntryAt(k)'.complete => EntryAt(k)'.exception
        BY <4>3 DEF NewEntry
      <4>5. k \in 0 .. occupancy' - 1
        BY <2>2, <4>2
      <4> QED
        BY <2>1, <4>1, <4>3, <4>4, <4>5 DEF Placed
    <3> QED
      BY <3>1, <3>2
  <2>7. ASSUME NEW u \in executing', NEW v \in executing', u.live, v.live,
               u.robPointer = v.robPointer
        PROVE  u = v
    <3>1. CASE u \in executing /\ v \in executing
      BY <2>7, <3>1 DEF ResultsInv, OwedInv
    <3>2. CASE u \in executing /\ v \notin executing
      BY <2>1, <2>5, <2>7, <3>2
    <3>3. CASE u \notin executing /\ v \in executing
      BY <2>1, <2>5, <2>7, <3>3
    <3>4. CASE u \notin executing /\ v \notin executing
      <4>1. PICK l \in 1 .. n : /\ u = ExecutingLane(group, l)
                               /\ u.robPointer = Position(occupancy + l - 1)
        BY <2>1, <3>4
      <4>2. PICK m \in 1 .. n : /\ v = ExecutingLane(group, m)
                               /\ v.robPointer = Position(occupancy + m - 1)
        BY <2>1, <3>4
      <4>3. /\ occupancy + l - 1 \in 0 .. RobEntries - 1
            /\ occupancy + m - 1 \in 0 .. RobEntries - 1
        BY <2>2
      <4>4. occupancy + l - 1 = occupancy + m - 1
        BY <2>4, <2>7, <4>1, <4>2, <4>3
      <4>5. l = m
        BY <2>2, <4>4
      <4> QED
        BY <4>1, <4>2, <4>5
    <3> QED
      BY <3>1, <3>2, <3>3, <3>4
  <2>8. ASSUME NEW r \in stagedCompletion'
        PROVE  /\ r.live /\ r.robPointer \in RobPointer
               /\ \A v \in executing' : v.live => v.robPointer # r.robPointer
    <3>1. PICK u \in DOMAIN outcome :
            /\ u \in executing /\ u.recoveryEpoch = recoveryEpoch
            /\ r.robPointer = u.robPointer /\ r.live = u.live
      BY <2>1, <2>8
    <3>2. u.live
      BY <3>1 DEF ResultsInv, OwedInv
    <3>3. PICK k \in 0 .. occupancy - 1 : u.robPointer = Position(k)
      BY <2>3, <3>1, <3>2
    <3>4. u.robPointer \in RobPointer
      <4>1. k \in 0 .. RobEntries - 1
        BY <2>2
      <4> QED
        BY <3>3, <4>1, PositionsDistinct
    <3>5. ASSUME NEW v \in executing', v.live PROVE v.robPointer # r.robPointer
      <4>1. CASE v \in executing /\ v \notin DOMAIN outcome
        BY <3>1, <3>2, <3>5, <4>1 DEF ResultsInv, OwedInv
      <4>2. CASE \E l \in 1 .. n : v.robPointer = Position(occupancy + l - 1)
        BY <2>5, <3>1, <3>2, <4>2
      <4> QED
        BY <2>1, <4>1, <4>2
    <3> QED
      BY <3>1, <3>2, <3>4, <3>5
  <2> QED
    BY <2>6, <2>7, <2>8 DEF ResultsInv, OwedInv, StagedInv
<1> QED
  BY <1>3, <1>4

(* So no result ever reaches another uop's entry.                              *)
THEOREM ResultsInvariant == BackendSpec => []ResultsInv
<1>1. BackendInit => ResultsInv
  BY DEF BackendInit, RobInit, ResultsInv, OwedInv, StagedInv
<1>2. RobInv /\ RobInv' /\ ResultsInv /\ [BackendNext]_backendVars => ResultsInv'
  <2>1. CASE BackendNext
    BY <2>1, EdgeKeepsResults
  <2>2. CASE UNCHANGED backendVars
    BY <2>2 DEF ResultsInv, OwedInv, StagedInv, Placed, EntryAt, Position, Flush,
                ExternalRedirect, IdleRedirect, backendVars, robVars, idleVars, epochVars
  <2> QED
    BY <2>1, <2>2
<1> QED
  BY <1>1, <1>2, RobInvariant, PTL DEF BackendSpec

(* An entry is completed by its own result only, whatever was flushed while it   *)
(* was executing: a result of a discarded uop never reaches the uop that took    *)
(* its slot, and no slot is taken from a uop that still owes its result.        *)
THEOREM CompletionIsOwn == BackendSpec => []CompletedByOwnResult
<1>1. RobInv /\ ResultsInv => CompletedByOwnResult
  <2> SUFFICES ASSUME RobInv, ResultsInv, NEW u \in executing, u.live
               PROVE  /\ entries[Index(u.robPointer)].valid =>
                            /\ entries[Index(u.robPointer)].pointer = u.robPointer
                            /\ entries[Index(u.robPointer)].complete =>
                                  entries[Index(u.robPointer)].exception
                      /\ ~entries[Index(u.robPointer)].valid => Flush
    BY DEF CompletedByOwnResult
  <2>1. Placed(u)
    BY DEF ResultsInv, OwedInv
  <2> QED
    BY <2>1, WindowValid DEF Placed, EntryAt
<1> QED
  BY <1>1, RobInvariant, ResultsInvariant, PTL

(***************************************************************************)
(* Memory epochs.                                                            *)
(***************************************************************************)
BarriersBelow(k) == {j \in 0 .. k - 1 : EntryAt(j).payload.op = "barrier"}
GroupBarriers(group, i) == {j \in 1 .. i - 1 : group[j].op = "barrier"}

LEMMA BarrierCounts ==
  /\ \A k : OlderBarriers(k) = Cardinality(BarriersBelow(k))
  /\ \A group, i : CountBefore(group, i, IsBarrier) = Cardinality(GroupBarriers(group, i))
  /\ \A k \in Nat : IsFiniteSet(BarriersBelow(k)) /\ Cardinality(BarriersBelow(k)) \in Nat
  /\ \A group : \A i \in Nat :
        IsFiniteSet(GroupBarriers(group, i)) /\ Cardinality(GroupBarriers(group, i)) \in Nat
<1>1. \A k : OlderBarriers(k) = Cardinality(BarriersBelow(k))
  BY DEF OlderBarriers, BarriersBelow, EntryAt, Position
<1>2. \A group, i : CountBefore(group, i, IsBarrier) = Cardinality(GroupBarriers(group, i))
  BY DEF CountBefore, IsBarrier, GroupBarriers
<1>3. ASSUME NEW k \in Nat
      PROVE  IsFiniteSet(BarriersBelow(k)) /\ Cardinality(BarriersBelow(k)) \in Nat
  <2>1. IsFiniteSet(0 .. k - 1) /\ BarriersBelow(k) \subseteq 0 .. k - 1
    BY FS_Interval DEF BarriersBelow
  <2> QED
    BY <2>1, FS_Subset, FS_CardinalityType
<1>4. ASSUME NEW group, NEW i \in Nat
      PROVE  IsFiniteSet(GroupBarriers(group, i)) /\ Cardinality(GroupBarriers(group, i)) \in Nat
  <2>1. IsFiniteSet(1 .. i - 1) /\ GroupBarriers(group, i) \subseteq 1 .. i - 1
    BY FS_Interval DEF GroupBarriers
  <2> QED
    BY <2>1, FS_Subset, FS_CardinalityType
<1> QED
  BY <1>1, <1>2, <1>3, <1>4

(* An edge without a flush, before a cycle without a flush, retired nothing      *)
(* that separates epochs: a retired barrier asks for a flush.                   *)
LEMMA NoBarrierRetires ==
  ASSUME RobInv, ~Flush, ~Flush',
         NEW n \in Nat, NEW group, NEW outcome, NEW interrupt,
         EdgeOf(n, group, outcome, interrupt)
  PROVE  /\ CommittedBarriers = 0
         /\ \A j \in 0 .. CommittedCount - 1 : EntryAt(j).payload.op # "barrier"
<1> DEFINE c == CommittedCount
<1>1. c \in 0 .. occupancy /\ occupancy \in Nat
  BY CommittedWithinWindow, WindowEntries DEF RobInv
<1>2. ~RecoveryValid /\ ~RetiresOp("barrier")
  BY DEF EdgeOf, Cycle, RedirectStep, Flush, ExternalRedirect
<1>3. CommittedBarriers = 0
  <2>1. {i \in DOMAIN Commit : Retires(Commit[i]) /\ Commit[i].payload.op = "barrier"} = {}
    BY <1>2 DEF RetiresOp
  <2> QED
    BY <2>1, FS_EmptySet DEF CommittedBarriers
<1>4. ASSUME NEW j \in 0 .. c - 1, EntryAt(j).payload.op = "barrier"
      PROVE  FALSE
  <2>1. j + 1 \in 1 .. c /\ (j + 1) - 1 = j
    BY <1>1, <1>4
  <2>2. /\ j + 1 \in CommitLane /\ CanCommit(j + 1) /\ Candidate(j + 1) = EntryAt(j)
    BY <2>1, CandidatesOfWindow
  <2>3. j + 1 \in DOMAIN Commit /\ Commit[j + 1] = EntryAt(j)
    BY <2>1, <2>2 DEF Commit
  <2>4. ~EntryAt(j).exception
    BY <1>2, <2>2 DEF RecoveryValid
  <2> QED
    BY <1>2, <1>4, <2>3, <2>4 DEF RetiresOp, Retires
<1> QED
  BY <1>3, <1>4

(* Payloads move with their entries and enter with their lanes.                  *)
WindowMoves(n, group, c, left) ==
    /\ occupancy' = left + n
    /\ \A k \in 0 .. left - 1 :
          /\ EntryAt(k)' = UpdatedEntry(Index(Position(c + k)))
          /\ EntryAt(k)'.payload = EntryAt(c + k).payload
    /\ \A i \in 1 .. n :
          /\ EntryAt(left + i - 1)' = NewEntry(RobLane(group, i), AllocatedPointer(i))
          /\ EntryAt(left + i - 1)'.payload = RobLane(group, i).payload

LEMMA PayloadsMove ==
  ASSUME RobInv, ~Flush,
         NEW n \in Nat, NEW group, NEW outcome, NEW interrupt,
         EdgeOf(n, group, outcome, interrupt),
         NEW c \in Nat, c = CommittedCount, NEW left \in Nat, c + left = occupancy
  PROVE  WindowMoves(n, group, c, left)
<1>1. /\ occupancy \in 0 .. RobEntries /\ RobEntries \in Nat
      /\ occupancy' = left + n
      /\ \A k \in 0 .. left - 1 : EntryAt(k)' = UpdatedEntry(Index(Position(c + k)))
      /\ \A k \in left .. left + n - 1 :
            \E l \in 1 .. n :
               /\ l = k - left + 1
               /\ EntryAt(k)' = NewEntry(RobLane(group, l), AllocatedPointer(l))
  <2>1. occupancy - CommittedCount = left /\ left + n = occupancy - CommittedCount + n
    BY EdgeMovesWindow
  <2> QED
    BY <2>1, EdgeMovesWindow, CoreConfigAssumption
<1>2. ASSUME NEW k \in 0 .. left - 1
      PROVE  EntryAt(k)'.payload = EntryAt(c + k).payload
  <2>1. c + k \in 0 .. occupancy - 1
    BY <1>1
  <2> QED
    BY <1>1, <2>1, WindowValid, UpdatedKeeps DEF EntryAt
<1>3. ASSUME NEW i \in 1 .. n
      PROVE  /\ EntryAt(left + i - 1)' = NewEntry(RobLane(group, i), AllocatedPointer(i))
             /\ EntryAt(left + i - 1)'.payload = RobLane(group, i).payload
  <2>1. left + i - 1 \in left .. left + n - 1 /\ i = (left + i - 1) - left + 1
    OBVIOUS
  <2>2. EntryAt(left + i - 1)' = NewEntry(RobLane(group, i), AllocatedPointer(i))
    BY <1>1, <2>1
  <2> QED
    BY <2>2 DEF NewEntry
<1> QED
  BY <1>1, <1>2, <1>3 DEF WindowMoves

LEMMA PayloadsKept ==
  ASSUME RobInv, ~Flush,
         NEW n \in Nat, NEW group, NEW outcome, NEW interrupt,
         EdgeOf(n, group, outcome, interrupt),
         NEW c \in Nat, c = CommittedCount, NEW left \in Nat, c + left = occupancy,
         NEW k \in 0 .. left - 1
  PROVE  EntryAt(k)'.payload = EntryAt(c + k).payload
<1>1. WindowMoves(n, group, c, left)
  BY PayloadsMove
<1> QED
  BY <1>1 DEF WindowMoves

(* So the barriers below a position are counted over the moved window.          *)
LEMMA BarriersMove ==
  ASSUME RobInv, ~Flush, ~Flush',
         NEW n \in Nat, NEW group, NEW outcome, NEW interrupt,
         EdgeOf(n, group, outcome, interrupt),
         NEW c \in Nat, c = CommittedCount, NEW left \in Nat, c + left = occupancy
  PROVE  /\ occupancy' = left + n
         /\ \A k \in 0 .. left :
               OlderBarriers(k)' = OlderBarriers(c + k)
         /\ \A i \in 0 .. n :
               OlderBarriers(left + i)' =
                  OlderBarriers(occupancy) + Cardinality(GroupBarriers(group, i + 1))
         /\ \A k \in 0 .. left - 1 :
               EntryAt(k)'.payload = EntryAt(c + k).payload
         /\ \A i \in 1 .. n :
               EntryAt(left + i - 1)'.payload = RobLane(group, i).payload
<1>1. occupancy \in 0 .. RobEntries /\ RobEntries \in Nat /\ occupancy' = left + n
  <2>1. WindowMoves(n, group, c, left)
    BY PayloadsMove
  <2> QED
    BY <2>1, CoreConfigAssumption DEF WindowMoves, RobInv, RobWindowInv, PointersInv
<1>2. \A k \in 0 .. left - 1 : EntryAt(k)'.payload = EntryAt(c + k).payload
  <2>1. WindowMoves(n, group, c, left)
    BY PayloadsMove
  <2> QED
    BY <2>1 DEF WindowMoves
<1>3. \A i \in 1 .. n : EntryAt(left + i - 1)'.payload = RobLane(group, i).payload
  <2>1. WindowMoves(n, group, c, left)
    BY PayloadsMove
  <2> QED
    BY <2>1 DEF WindowMoves
<1>0. \A k : OlderBarriers(k)' = Cardinality(BarriersBelow(k)')
  BY DEF OlderBarriers, BarriersBelow, EntryAt, Position
<1>4. ASSUME NEW k \in 0 .. left
      PROVE  OlderBarriers(k)' = OlderBarriers(c + k)
  <2>1. k \in Nat /\ k <= left
    OBVIOUS
  <2>2. IsFiniteSet(BarriersBelow(k)') /\ BarriersBelow(k)' \in SUBSET Int
    <3>1. IsFiniteSet(0 .. k - 1)
      BY <2>1, FS_Interval
    <3>2. BarriersBelow(k)' \subseteq 0 .. k - 1
      BY DEF BarriersBelow
    <3> QED
      BY <3>1, <3>2, FS_Subset
  <2>3. BarriersBelow(c + k) = {c + x : x \in BarriersBelow(k)'}
    <3>1. ASSUME NEW j \in 0 .. c + k - 1, EntryAt(j).payload.op = "barrier"
          PROVE  j - c \in BarriersBelow(k)' /\ c + (j - c) = j
      <4>1. j \notin 0 .. c - 1
        BY <3>1, NoBarrierRetires
      <4>2. j - c \in 0 .. left - 1 /\ j - c \in 0 .. k - 1 /\ c + (j - c) = j
        BY <2>1, <4>1
      <4>3. EntryAt(j - c)'.payload = EntryAt(j).payload
        BY <1>2, <4>2
      <4> QED
        BY <3>1, <4>2, <4>3 DEF BarriersBelow
    <3>2. ASSUME NEW x \in BarriersBelow(k)'
          PROVE  c + x \in BarriersBelow(c + k)
      <4>1. x \in 0 .. k - 1 /\ EntryAt(x)'.payload.op = "barrier"
        BY <3>2 DEF BarriersBelow
      <4>2. x \in 0 .. left - 1 /\ c + x \in 0 .. c + k - 1
        BY <2>1, <4>1
      <4> QED
        BY <1>2, <4>1, <4>2 DEF BarriersBelow
    <3> QED
      BY <3>1, <3>2 DEF BarriersBelow
  <2>4. c \in Int /\ k \in Nat
    OBVIOUS
  <2>5. Cardinality({c + x : x \in BarriersBelow(k)'}) = Cardinality(BarriersBelow(k)')
    BY <2>2, <2>4, CountShift
  <2> QED
    BY <1>0, <2>3, <2>5, BarrierCounts
<1>5. ASSUME NEW i \in 0 .. n
      PROVE  OlderBarriers(left + i)' =
                OlderBarriers(occupancy) + Cardinality(GroupBarriers(group, i + 1))
  <2> DEFINE G == GroupBarriers(group, i + 1)
             H == {(left - 1) + x : x \in G}
  <2>1. i \in Nat /\ i <= n /\ i + 1 \in Nat
    OBVIOUS
  <2>2. /\ IsFiniteSet(G) /\ G \in SUBSET Int
        /\ IsFiniteSet(H) /\ Cardinality(H) = Cardinality(G)
    <3>1. IsFiniteSet(G) /\ G \in SUBSET Int
      <4>1. IsFiniteSet(G)
        BY <2>1, BarrierCounts
      <4>2. G \in SUBSET Int
        BY DEF GroupBarriers
      <4> QED
        BY <4>1, <4>2
    <3>2. left - 1 \in Int
      OBVIOUS
    <3> HIDE DEF G
    <3> QED
      BY <3>1, <3>2, CountShift
  <2>3. IsFiniteSet(BarriersBelow(left)')
    <3>1. IsFiniteSet(0 .. left - 1) /\ BarriersBelow(left)' \subseteq 0 .. left - 1
      BY FS_Interval DEF BarriersBelow
    <3> QED
      BY <3>1, FS_Subset
  <2>4. BarriersBelow(left)' \cap H = {}
    BY DEF BarriersBelow, GroupBarriers
  <2>5. BarriersBelow(left + i)' = BarriersBelow(left)' \cup H
    <3>1. ASSUME NEW x \in 1 .. n
          PROVE  EntryAt((left - 1) + x)'.payload.op = group[x].op
      <4>1. (left - 1) + x = left + x - 1
        OBVIOUS
      <4>2. EntryAt(left + x - 1)'.payload = RobLane(group, x).payload
        BY <1>3
      <4>3. RobLane(group, x).payload.op = group[x].op
        BY DEF RobLane
      <4> QED
        BY <4>1, <4>2, <4>3
    <3>2. ASSUME NEW j \in BarriersBelow(left + i)', j \notin 0 .. left - 1
          PROVE  j \in H
      <4>1. j \in 0 .. left + i - 1 /\ EntryAt(j)'.payload.op = "barrier"
        BY <3>2 DEF BarriersBelow
      <4>2. PICK x \in Int : x = j - left + 1
        BY <4>1
      <4>3. x \in 1 .. i /\ x \in 1 .. n /\ (left - 1) + x = j
        BY <2>1, <3>2, <4>1, <4>2
      <4>4. group[x].op = "barrier"
        BY <3>1, <4>1, <4>3
      <4> QED
        BY <4>3, <4>4 DEF GroupBarriers
    <3>3. ASSUME NEW x \in G
          PROVE  (left - 1) + x \in BarriersBelow(left + i)'
      <4>1. x \in 1 .. i /\ x \in 1 .. n /\ group[x].op = "barrier"
        BY <2>1, <3>3 DEF GroupBarriers
      <4>2. (left - 1) + x \in 0 .. left + i - 1
        BY <4>1
      <4> QED
        BY <3>1, <4>1, <4>2 DEF BarriersBelow
    <3>4. BarriersBelow(left)' \subseteq BarriersBelow(left + i)'
      BY DEF BarriersBelow
    <3>5. \A j \in BarriersBelow(left + i)' : j \in 0 .. left - 1 => j \in BarriersBelow(left)'
      BY DEF BarriersBelow
    <3> QED
      BY <3>2, <3>3, <3>4, <3>5
  <2>6. /\ Cardinality(BarriersBelow(left)') = OlderBarriers(c + left)
        /\ Cardinality(BarriersBelow(left)') \in Nat /\ Cardinality(G) \in Nat
    BY <1>0, <1>4, <2>2, <2>3, FS_CardinalityType
  <2>7. Cardinality(BarriersBelow(left + i)') = OlderBarriers(c + left) + Cardinality(G)
    <3> HIDE DEF G, H
    <3> QED
      BY <2>2, <2>3, <2>4, <2>5, <2>6, FS_Union, FS_EmptySet
  <2> QED
    BY <1>0, <2>7, BarrierCounts
<1> QED
  BY <1>1, <1>2, <1>3, <1>4, <1>5

EpochInv ==
    /\ committedMemoryEpoch \in 0 .. MemoryEpochs - 1
    /\ MemoryEpochCountsBarriers

(* The epochs after an edge, with the number of barriers that retire in it.     *)
LEMMA CommittedBarriersFinite ==
  ASSUME RobInv
  PROVE  CommittedBarriers \in Nat
<1> DEFINE S == {i \in DOMAIN Commit : Retires(Commit[i]) /\ Commit[i].payload.op = "barrier"}
<1>1. CommittedCount \in Nat
  BY CommittedPrefix, CoreConfigAssumption
<1>2. IsFiniteSet(1 .. CommittedCount) /\ S \subseteq 1 .. CommittedCount
  BY <1>1, FS_Interval DEF Commit
<1> QED
  BY <1>2, FS_Subset, FS_CardinalityType DEF CommittedBarriers

LEMMA EdgeKeepsEpochs ==
  ASSUME RobInv, EpochInv, BackendNext
  PROVE  EpochInv'
<1>1. PICK n \in Nat, interrupt \in BOOLEAN : \E group, outcome :
        EdgeOf(n, group, outcome, interrupt)
  BY CycleIsEdge
<1>2. PICK group, outcome : EdgeOf(n, group, outcome, interrupt)
  BY <1>1
<1> DEFINE next == committedMemoryEpoch + CommittedBarriers
<1>3. MemoryEpochs \in Nat \ {0} /\ MemoryEpochs > RobEntries /\ RobEntries \in Nat
  BY CoreConfigAssumption
<1>4. committedMemoryEpoch \in Nat /\ committedMemoryEpoch < MemoryEpochs
        /\ CommittedBarriers \in Nat /\ next \in Nat
  BY <1>3, CommittedBarriersFinite DEF EpochInv
<1>5. /\ committedMemoryEpoch' = (next % MemoryEpochs)
      /\ speculativeMemoryEpoch' =
            IF Flush THEN (next % MemoryEpochs)
            ELSE ((speculativeMemoryEpoch + Cardinality(GroupBarriers(group, n + 1)))
                     % MemoryEpochs)
  <2>1. Len(group) = n
    BY <1>2 DEF EdgeOf
  <2> QED
    BY <1>2, <2>1, BarrierCounts DEF EdgeOf, Cycle, EpochStep
<1>6. committedMemoryEpoch' \in 0 .. MemoryEpochs - 1
  <2> HIDE DEF next
  <2> QED
    BY <1>3, <1>4, <1>5, Remainder
<1>7. CASE Flush
  <2>1. occupancy' = 0
    BY <1>7, FlushEmpties
  <2>2. OlderBarriers(0)' = 0
    <3>1. BarriersBelow(0)' = {}
      BY DEF BarriersBelow
    <3>2. OlderBarriers(0)' = Cardinality(BarriersBelow(0)')
      BY DEF OlderBarriers, BarriersBelow, EntryAt, Position
    <3> QED
      BY <3>1, <3>2, FS_EmptySet
  <2>3. speculativeMemoryEpoch' = ((committedMemoryEpoch' + 0) % MemoryEpochs)
    <3>1. PICK m \in 0 .. MemoryEpochs - 1 : m = committedMemoryEpoch'
      BY <1>6
    <3>2. ((m + 0) % MemoryEpochs) = m
      BY <1>3, RemainderOfSmall
    <3> QED
      BY <1>5, <1>7, <3>1, <3>2
  <2>4. OlderBarriers(occupancy)' = 0
    BY <2>1, <2>2 DEF OlderBarriers
  <2> QED
    BY <1>6, <2>1, <2>3, <2>4 DEF EpochInv, MemoryEpochCountsBarriers
<1>8. CASE ~Flush /\ Flush'
  BY <1>6, <1>8 DEF EpochInv, MemoryEpochCountsBarriers
<1>9. CASE ~Flush /\ ~Flush'
  <2>1. PICK c \in Nat, left \in Nat, o \in Nat, m \in Nat, B \in Nat :
          /\ c = CommittedCount /\ c + left = occupancy /\ o = occupancy
          /\ m = committedMemoryEpoch /\ B = OlderBarriers(o)
    <3>1. CommittedCount \in 0 .. occupancy /\ occupancy \in Nat
      BY CommittedWithinWindow, WindowEntries DEF RobInv
    <3>2. /\ occupancy - CommittedCount \in Nat /\ CommittedCount \in Nat
          /\ CommittedCount + (occupancy - CommittedCount) = occupancy
      BY <3>1
    <3>3. OlderBarriers(occupancy) \in Nat
      BY <3>1, BarrierCounts
    <3> QED
      BY <1>4, <3>1, <3>2, <3>3
  <2>2. /\ occupancy' = left + n
        /\ \A k \in 0 .. left : OlderBarriers(k)' = OlderBarriers(c + k)
        /\ \A i \in 0 .. n :
              OlderBarriers(left + i)' =
                 OlderBarriers(occupancy) + Cardinality(GroupBarriers(group, i + 1))
        /\ \A k \in 0 .. left - 1 : EntryAt(k)'.payload = EntryAt(c + k).payload
        /\ \A i \in 1 .. n : EntryAt(left + i - 1)'.payload = RobLane(group, i).payload
    <3>1. RobInv /\ ~Flush /\ ~Flush' /\ EdgeOf(n, group, outcome, interrupt)
      BY <1>2, <1>9
    <3>2. c = CommittedCount /\ c + left = occupancy
      BY <2>1
    <3>3. occupancy' = left + n
      <4>1. occupancy' = occupancy - CommittedCount + n
        BY <3>1, EdgeMovesWindow
      <4> QED
        BY <2>1, <4>1
    <3>4. \A k \in 0 .. left : OlderBarriers(k)' = OlderBarriers(c + k)
      BY <3>1, <3>2, BarriersMove
    <3>5. \A i \in 0 .. n :
              OlderBarriers(left + i)' =
                 OlderBarriers(occupancy) + Cardinality(GroupBarriers(group, i + 1))
      BY <3>1, <3>2, BarriersMove
    <3>6. \A k \in 0 .. left - 1 : EntryAt(k)'.payload = EntryAt(c + k).payload
      BY <3>1, <3>2, BarriersMove
    <3>7. \A i \in 1 .. n : EntryAt(left + i - 1)'.payload = RobLane(group, i).payload
      BY <3>1, <3>2, BarriersMove
    <3> QED
      BY <3>3, <3>4, <3>5, <3>6, <3>7
  <2>3. committedMemoryEpoch' = m
    <3>1. CommittedBarriers = 0
      BY <1>2, <1>9, NoBarrierRetires
    <3>2. ((m + 0) % MemoryEpochs) = m
      <4>1. m \in 0 .. MemoryEpochs - 1
        BY <2>1 DEF EpochInv
      <4> QED
        BY <1>3, <4>1, RemainderOfSmall
    <3> QED
      BY <1>5, <2>1, <3>1, <3>2
  <2>4. ASSUME NEW i \in 0 .. n
        PROVE  ((speculativeMemoryEpoch + Cardinality(GroupBarriers(group, i + 1)))
                   % MemoryEpochs)
                  = ((m + OlderBarriers(left + i)') % MemoryEpochs)
    <3>1. speculativeMemoryEpoch = ((m + B) % MemoryEpochs)
      BY <1>9, <2>1 DEF EpochInv, MemoryEpochCountsBarriers
    <3>2. PICK g \in Nat : g = Cardinality(GroupBarriers(group, i + 1))
      BY BarrierCounts
    <3>3. PICK a \in Nat : a = m + B
      OBVIOUS
    <3>4. (((a % MemoryEpochs) + g) % MemoryEpochs) = ((a + g) % MemoryEpochs)
      BY <1>3, AddToRemainder
    <3>5. a + g = m + OlderBarriers(left + i)'
      BY <2>1, <2>2, <3>2, <3>3
    <3> QED
      BY <3>1, <3>2, <3>3, <3>4, <3>5
  <2>5. speculativeMemoryEpoch' = ((m + OlderBarriers(left + n)') % MemoryEpochs)
    BY <1>5, <1>9, <2>4
  <2>6. ASSUME NEW k \in 0 .. left + n - 1
        PROVE  EntryAt(k)'.payload.memoryEpoch = ((m + OlderBarriers(k)') % MemoryEpochs)
    <3>1. CASE k < left
      <4>1. k \in 0 .. left /\ k \in 0 .. left - 1 /\ c + k \in 0 .. occupancy - 1
        BY <2>1, <3>1
      <4>2. EntryAt(c + k).payload.memoryEpoch = ((m + OlderBarriers(c + k)) % MemoryEpochs)
        BY <1>9, <2>1, <4>1 DEF EpochInv, MemoryEpochCountsBarriers, EntryAt, Position
      <4> QED
        BY <2>2, <4>1, <4>2
    <3>2. CASE k >= left
      <4>1. PICK i \in 1 .. n : i = k - left + 1
        BY <3>2
      <4>2. k = left + i - 1 /\ i - 1 \in 0 .. n /\ (i - 1) + 1 = i /\ left + (i - 1) = k
        BY <4>1
      <4>3. EntryAt(k)'.payload = RobLane(group, i).payload
        BY <2>2, <4>2
      <4>4. RobLane(group, i).payload.memoryEpoch =
               ((speculativeMemoryEpoch + Cardinality(GroupBarriers(group, i)))
                  % MemoryEpochs)
        BY BarrierCounts DEF RobLane, RenamedMemoryEpoch
      <4>5. ((speculativeMemoryEpoch + Cardinality(GroupBarriers(group, i)))
                % MemoryEpochs)
               = ((m + OlderBarriers(k)') % MemoryEpochs)
        BY <2>4, <4>2
      <4> QED
        BY <4>3, <4>4, <4>5
    <3> QED
      BY <3>1, <3>2
  <2>7. OlderBarriers(occupancy)' = OlderBarriers(left + n)'
    BY <2>2 DEF OlderBarriers
  <2>8. MemoryEpochCountsBarriers'
    BY <1>5, <2>2, <2>3, <2>5, <2>6, <2>7 DEF MemoryEpochCountsBarriers, EntryAt, Position
  <2> QED
    BY <1>6, <2>8 DEF EpochInv
<1> QED
  BY <1>7, <1>8, <1>9

(* Outside recovery the epoch of every live uop tells the number of barriers     *)
(* before it: the two counters, the retirements that advance one and the flush    *)
(* that copies it back never drift apart.                                       *)
THEOREM EpochsCountBarriers == BackendSpec => []MemoryEpochCountsBarriers
<1>1. BackendInit => EpochInv
  <2> SUFFICES ASSUME BackendInit PROVE EpochInv
    OBVIOUS
  <2>1. occupancy = 0 /\ committedMemoryEpoch = 0 /\ speculativeMemoryEpoch = 0
    BY DEF BackendInit, RobInit
  <2>2. BarriersBelow(0) = {}
    BY DEF BarriersBelow
  <2>3. OlderBarriers(0) = 0
    BY <2>2, BarrierCounts, FS_EmptySet
  <2>4. MemoryEpochs \in Nat \ {0} /\ ((0 + 0) % MemoryEpochs) = 0
    BY Remainder, CoreConfigAssumption
  <2> QED
    BY <2>1, <2>3, <2>4 DEF EpochInv, MemoryEpochCountsBarriers
<1>2. RobInv /\ EpochInv /\ [BackendNext]_backendVars => EpochInv'
  <2>1. CASE BackendNext
    BY <2>1, EdgeKeepsEpochs
  <2>2. CASE UNCHANGED backendVars
    BY <2>2 DEF EpochInv, MemoryEpochCountsBarriers, OlderBarriers, Flush, ExternalRedirect,
                IdleRedirect, backendVars, robVars, idleVars, epochVars
  <2> QED
    BY <2>1, <2>2
<1> QED
  BY <1>1, <1>2, RobInvariant, PTL DEF BackendSpec, EpochInv

=============================================================================
