-------------------------- MODULE OooRegisterProofs --------------------------
(***************************************************************************)
(* Proofs about the physical registers: rename, retirement, the registered    *)
(* batch of releases and the flush that restores the head of the free list    *)
(* never lose a register and never hand one out twice, and the value of an     *)
(* architectural register is always in the register file.                      *)
(***************************************************************************)
EXTENDS OooBackendProofs

(***************************************************************************)
(* The ring of the free list.                                                *)
(***************************************************************************)
LEMMA AdvanceFreeType ==
  ASSUME NEW p \in Phys, NEW a \in 0 .. PhysicalRegs
  PROVE  AdvanceFree(p, a) \in Phys
BY CoreConfigAssumption DEF AdvanceFree, Phys

LEMMA AdvanceFreeTwice ==
  ASSUME NEW p \in Phys, NEW a \in Nat, NEW b \in Nat, a + b <= PhysicalRegs
  PROVE  AdvanceFree(AdvanceFree(p, a), b) = AdvanceFree(p, a + b)
BY CoreConfigAssumption DEF AdvanceFree, Phys

LEMMA AdvanceFreeDistinct ==
  ASSUME NEW p \in Phys,
         NEW a \in 0 .. PhysicalRegs - 1, NEW b \in 0 .. PhysicalRegs - 1,
         AdvanceFree(p, a) = AdvanceFree(p, b)
  PROVE  a = b
BY CoreConfigAssumption DEF AdvanceFree, Phys

(***************************************************************************)
(* The inductive invariant of the registers.  The ring is read from the        *)
(* architectural head: the first ConfirmingCount slots are those of the        *)
(* registered batch, then come the destinations of the live writers in the      *)
(* order of the window, then what is free.                                    *)
(***************************************************************************)
Listed(k) == freeEntries[AdvanceFree(architecturalHeadPtr, k)]
Released == {lane \in DOMAIN retiredFree : retiredFree[lane] # 0}

RingInv ==
    /\ architecturalHeadPtr \in Phys
    /\ freeEntries \in [Phys -> Phys]
    /\ architecturalFreeCount \in Nat
    /\ architecturalFreeCount <= UsableCapacity
    /\ tailPtr = AdvanceFree(architecturalHeadPtr, architecturalFreeCount)
    /\ Within(DOMAIN retiredFree, 1, CommitWidth)
    /\ ConfirmingCount <= architecturalFreeCount
    /\ \A lane \in DOMAIN retiredFree : retiredFree[lane] \in Phys

(* Each register but p0 is listed once behind the confirmed slots, or mapped,   *)
(* or in the registered batch.                                               *)
InOnePlace ==
    /\ \A k \in ConfirmingCount .. architecturalFreeCount - 1 :
          /\ Listed(k) # 0
          /\ \A l \in ConfirmingCount .. architecturalFreeCount - 1 :
                Listed(k) = Listed(l) => k = l
          /\ \A a \in Arch : Listed(k) # architectural[a]
          /\ \A lane \in Released : Listed(k) # retiredFree[lane]
    /\ \A a, b \in Arch :
          architectural[a] # 0 /\ architectural[a] = architectural[b] => a = b
    /\ \A x, y \in Released : retiredFree[x] = retiredFree[y] => x = y
    /\ \A lane \in Released, a \in Arch : retiredFree[lane] # architectural[a]
    /\ \A p \in Phys \ {0} :
          \/ \E k \in ConfirmingCount .. architecturalFreeCount - 1 : Listed(k) = p
          \/ \E a \in Arch : architectural[a] = p
          \/ \E lane \in Released : retiredFree[lane] = p
PlacesInv ==
    /\ architectural \in [Arch -> Phys]
    /\ architectural[0] = 0
    /\ InOnePlace

(* Who wrote architectural register a last below position k of the window: the  *)
(* entry at position m, or with m = -1 none of them.                          *)
DestinationAt(k) == EntryAt(k).payload.rd
Writers == {k \in 0 .. occupancy - 1 : DestinationAt(k) # 0}
LastWriter(a, k, m) ==
    /\ m \in -1 .. k - 1
    /\ m # -1 => DestinationAt(m) = a
    /\ \A j \in m + 1 .. k - 1 : DestinationAt(j) # a
GivenTo(k) == Listed(ConfirmingCount + Rank(Writers, k))
MappingOf(a, m) == IF m = -1 THEN architectural[a] ELSE GivenTo(m)

DestinationsInv == \A k \in 0 .. occupancy - 1 : DestinationAt(k) \in Arch

(* The speculative view, which a flush drops.                                 *)
SpeculativeInv ==
    /\ ConfirmingCount + Cardinality(Writers) <= architecturalFreeCount
    /\ headPtr = AdvanceFree(architecturalHeadPtr, ConfirmingCount + Cardinality(Writers))
    /\ freeCount = architecturalFreeCount - ConfirmingCount - Cardinality(Writers)
    /\ \A k \in 0 .. occupancy - 1 :
          EntryAt(k).payload.pdst = IF DestinationAt(k) = 0 THEN 0 ELSE GivenTo(k)
    /\ \A k \in Writers : \A m \in -1 .. k - 1 :
          LastWriter(DestinationAt(k), k, m)
             => EntryAt(k).payload.oldPdst = MappingOf(DestinationAt(k), m)
    /\ speculative \in [Arch -> Phys]
    /\ speculative[0] = 0
    /\ \A a \in Arch \ {0} : \A m \in -1 .. occupancy - 1 :
          LastWriter(a, occupancy, m) => speculative[a] = MappingOf(a, m)

RegistersInv == RingInv /\ PlacesInv /\ DestinationsInv /\ (~Flush => SpeculativeInv)

(***************************************************************************)
(* Last writers.                                                             *)
(***************************************************************************)
(* There is always one, or the architectural mapping stands.                   *)
LEMMA LastWriterExists ==
  ASSUME NEW a, NEW n \in Nat
  PROVE  \E m \in -1 .. n - 1 : LastWriter(a, n, m)
<1> DEFINE S == {k \in Nat : \A m \in -1 .. k - 1 : ~LastWriter(a, k, m)}
<1> SUFFICES ASSUME S # {} PROVE FALSE
  OBVIOUS
<1>1. PICK k \in S : \A y \in S : k <= y
  BY LeastOf
<1>2. CASE k = 0
  <2>1. LastWriter(a, k, -1)
    BY <1>2 DEF LastWriter
  <2> QED
    BY <1>2, <2>1
<1>3. CASE k # 0
  <2>1. k - 1 \in Nat /\ k - 1 < k
    BY <1>3
  <2>2. PICK m \in -1 .. (k - 1) - 1 : LastWriter(a, k - 1, m)
    BY <1>1, <2>1
  <2>3. CASE DestinationAt(k - 1) = a
    <3>1. LastWriter(a, k, k - 1)
      BY <2>1, <2>3 DEF LastWriter
    <3> QED
      BY <2>1, <3>1
  <2>4. CASE DestinationAt(k - 1) # a
    <3>1. \A j \in m + 1 .. k - 1 : j = k - 1 \/ j \in m + 1 .. (k - 1) - 1
      BY <2>1
    <3>2. m \in -1 .. k - 1 /\ LastWriter(a, k, m)
      BY <2>1, <2>2, <2>4, <3>1 DEF LastWriter
    <3> QED
      BY <3>2
  <2> QED
    BY <2>3, <2>4
<1> QED
  BY <1>2, <1>3

LEMMA LastWriterAlways ==
  \A k \in Nat, b \in Arch : \E m \in -1 .. k - 1 : LastWriter(b, k, m)
BY LastWriterExists

(* A mapping is the last one below r, or a later writer below r replaced it.     *)
LEMMA NextWriter ==
  ASSUME NEW a, NEW r \in Nat, NEW m \in -1 .. r - 1,
         m # -1 => DestinationAt(m) = a, ~LastWriter(a, r, m)
  PROVE  \E k \in m + 1 .. r - 1 : DestinationAt(k) = a /\ LastWriter(a, k, m)
<1> DEFINE S == {k \in m + 1 .. r - 1 : DestinationAt(k) = a}
<1>1. S \subseteq Nat /\ S # {}
  BY DEF LastWriter
<1>2. PICK k \in S : \A y \in S : k <= y
  BY <1>1, LeastOf
<1>3. LastWriter(a, k, m)
  BY <1>2 DEF LastWriter
<1> QED
  BY <1>3

(* The last writer of a position is unique.                                    *)
LEMMA LastWriterUnique ==
  ASSUME NEW a, NEW r \in Nat, NEW m \in Int, NEW n \in Int,
         LastWriter(a, r, m), LastWriter(a, r, n)
  PROVE  m = n
BY DEF LastWriter

(***************************************************************************)
(* What the invariant says of the registers given out.                        *)
(***************************************************************************)
LEMMA WritersPositions ==
  ASSUME RobInv
  PROVE  /\ occupancy \in Nat
         /\ Positions(Writers) /\ Cardinality(Writers) \in Nat
<1>1. occupancy \in Nat
  BY WindowEntries
<1>2. Within(Writers, 0, occupancy - 1)
  BY <1>1 DEF Within, Writers
<1> QED
  BY <1>1, <1>2, IntervalPositions, SizeType

LEMMA BatchPositions ==
  ASSUME RingInv
  PROVE  /\ Positions(DOMAIN retiredFree) /\ ConfirmingCount \in Nat
         /\ Positions(Released) /\ Cardinality(Released) \in Nat
         /\ Cardinality(Released) <= ConfirmingCount
<1>1. Positions(DOMAIN retiredFree)
  BY IntervalPositions DEF RingInv
<1>2. Released \subseteq DOMAIN retiredFree
  BY DEF Released
<1> QED
  BY <1>1, <1>2, SubsetPositions, SizeType DEF ConfirmingCount

(* A writer's register stands in the ring, behind the confirmed slots.          *)
LEMMA GivenIsListed ==
  ASSUME RobInv, RingInv, SpeculativeInv, NEW k \in Writers
  PROVE  /\ Rank(Writers, k) \in Nat /\ Rank(Writers, k) < Cardinality(Writers)
         /\ ConfirmingCount + Rank(Writers, k)
               \in ConfirmingCount .. architecturalFreeCount - 1
<1>1. Positions(Writers) /\ Cardinality(Writers) \in Nat /\ ConfirmingCount \in Nat
  BY WritersPositions, BatchPositions
<1>2. Rank(Writers, k) \in Nat /\ Rank(Writers, k) < Cardinality(Writers)
  BY <1>1, RankType, RankLess
<1>3. ConfirmingCount + Cardinality(Writers) <= architecturalFreeCount
  BY DEF SpeculativeInv
<1>4. architecturalFreeCount \in Nat
  BY DEF RingInv
<1> QED
  BY <1>1, <1>2, <1>3, <1>4

(* No two last writers see the same register.                                  *)
LEMMA MappingsDistinct ==
  ASSUME RobInv, RingInv, PlacesInv, SpeculativeInv,
         NEW a \in Arch, NEW b \in Arch,
         NEW m \in {-1} \cup Writers, NEW n \in {-1} \cup Writers,
         m # -1 => DestinationAt(m) = a, n # -1 => DestinationAt(n) = b,
         MappingOf(a, m) # 0, MappingOf(a, m) = MappingOf(b, n)
  PROVE  a = b /\ m = n
<1>1. ASSUME NEW k \in Writers
      PROVE  \A c \in Arch : GivenTo(k) # architectural[c]
  BY GivenIsListed DEF GivenTo, PlacesInv, InOnePlace
<1>2. ASSUME NEW k \in Writers, NEW l \in Writers, GivenTo(k) = GivenTo(l)
      PROVE  k = l
  <2>1. ConfirmingCount + Rank(Writers, k) = ConfirmingCount + Rank(Writers, l)
    <3>1. /\ ConfirmingCount + Rank(Writers, k)
                \in ConfirmingCount .. architecturalFreeCount - 1
          /\ ConfirmingCount + Rank(Writers, l)
                \in ConfirmingCount .. architecturalFreeCount - 1
      BY GivenIsListed
    <3> QED
      BY <1>2, <3>1 DEF GivenTo, PlacesInv, InOnePlace
  <2>2. Rank(Writers, k) = Rank(Writers, l)
    BY <2>1, GivenIsListed, BatchPositions
  <2>3. k \in Int /\ l \in Int /\ Positions(Writers)
    BY WritersPositions DEF Positions
  <2>4. ~(k < l) /\ ~(l < k)
    BY <2>2, <2>3, RankStrict, RankType
  <2> QED
    BY <2>3, <2>4
<1>3. -1 \notin Writers
  BY WritersPositions DEF Writers
<1>4. CASE m = -1 /\ n = -1
  BY <1>4 DEF MappingOf, PlacesInv, InOnePlace
<1>5. CASE m = -1 /\ n # -1
  BY <1>1, <1>5 DEF MappingOf
<1>6. CASE m # -1 /\ n = -1
  BY <1>1, <1>6 DEF MappingOf
<1>7. CASE m # -1 /\ n # -1
  BY <1>2, <1>7 DEF MappingOf
<1> QED
  BY <1>4, <1>5, <1>6, <1>7

(* Pigeonhole: what is listed and what is released fit into the ring together.  *)
LEMMA ListedAndReleasedFit ==
  ASSUME RingInv, PlacesInv
  PROVE  architecturalFreeCount - ConfirmingCount + Cardinality(Released) <= UsableCapacity
<1> DEFINE I == ConfirmingCount .. architecturalFreeCount - 1
           f == [k \in I |-> Listed(k)]
           A == {f[k] : k \in I}
           B == {retiredFree[lane] : lane \in Released}
<1>1. /\ ConfirmingCount \in Nat /\ architecturalFreeCount \in Nat
      /\ ConfirmingCount <= architecturalFreeCount
      /\ IsFiniteSet(Released)
  BY BatchPositions DEF RingInv, Positions
<1>2. IsFiniteSet(I) /\ Cardinality(I) = architecturalFreeCount - ConfirmingCount
  BY <1>1, IntervalSize
<1>3. IsFiniteSet(A) /\ Cardinality(A) = Cardinality(I)
  <2>1. I \subseteq DOMAIN f /\ \A x, y \in I : f[x] = f[y] => x = y
    BY DEF PlacesInv, InOnePlace
  <2> HIDE DEF f, I
  <2> QED
    BY <1>2, <2>1, ImageSize
<1>4. IsFiniteSet(B) /\ Cardinality(B) = Cardinality(Released)
  <2>1. Released \subseteq DOMAIN retiredFree
          /\ \A x, y \in Released : retiredFree[x] = retiredFree[y] => x = y
    BY DEF PlacesInv, InOnePlace, Released
  <2> QED
    BY <1>1, <2>1, ImageSize
<1>5. A \cap B = {}
  BY DEF PlacesInv, InOnePlace
<1>6. A \cup B \subseteq 1 .. UsableCapacity
  <2>1. \A k \in I : Listed(k) \in Phys /\ Listed(k) # 0
    <3> SUFFICES ASSUME NEW k \in I PROVE Listed(k) \in Phys /\ Listed(k) # 0
      OBVIOUS
    <3>1. k \in 0 .. PhysicalRegs
      BY <1>1, CoreConfigAssumption DEF RingInv, UsableCapacity
    <3> QED
      BY <3>1, AdvanceFreeType DEF RingInv, Listed, PlacesInv, InOnePlace
  <2>2. \A lane \in Released : retiredFree[lane] \in Phys /\ retiredFree[lane] # 0
    BY DEF Released, RingInv
  <2> QED
    BY <2>1, <2>2, CoreConfigAssumption DEF Phys, UsableCapacity
<1>7. UsableCapacity \in Nat
  BY CoreConfigAssumption DEF UsableCapacity
<1>8. IsFiniteSet(1 .. UsableCapacity) /\ Cardinality(1 .. UsableCapacity) = UsableCapacity
  BY <1>7, FS_Interval
<1> HIDE DEF A, B, I
<1>9. Cardinality(A \cup B) = Cardinality(A) + Cardinality(B)
  BY <1>3, <1>4, <1>5, DisjointSum
<1>10. Cardinality(A \cup B) <= UsableCapacity
  BY <1>6, <1>8, FS_Subset
<1> QED
  BY <1>2, <1>3, <1>4, <1>9, <1>10

(***************************************************************************)
(* The edge of the free list: its slots move up by what the batch confirms,    *)
(* and the releases of the batch enter behind the last one.                    *)
(***************************************************************************)
LEMMA EdgeOfFreeList ==
  ASSUME RingInv, PlacesInv, NEW accepted, NEW flush,
         FreeListStep(accepted, retiredFree, flush),
         NEW R \in Nat, R = ConfirmingCount, NEW F \in Nat, R + F = architecturalFreeCount,
         NEW q \in Nat, q = Cardinality(Released)
  PROVE  /\ architecturalHeadPtr' = AdvanceFree(architecturalHeadPtr, R)
         /\ architecturalHeadPtr' \in Phys
         /\ architecturalFreeCount' = F + q
         /\ F + q <= UsableCapacity
         /\ tailPtr' = AdvanceFree(architecturalHeadPtr', F + q)
         /\ freeEntries' \in [Phys -> Phys]
         /\ \A k \in 0 .. F - 1 : Listed(k)' = Listed(R + k)
         /\ \A lane \in Released : \A s \in Nat :
               s = F + Rank(Released, lane) => Listed(s)' = retiredFree[lane]
<1> DEFINE h == AdvanceFree(architecturalHeadPtr, R)
<1>1. /\ PhysicalRegs \in Nat /\ UsableCapacity = PhysicalRegs - 1
      /\ R + F <= UsableCapacity /\ R + F \in 0 .. PhysicalRegs
      /\ architecturalHeadPtr \in Phys /\ freeEntries \in [Phys -> Phys]
      /\ tailPtr = AdvanceFree(architecturalHeadPtr, R + F)
  BY CoreConfigAssumption DEF RingInv, UsableCapacity
<1>2. F + q <= UsableCapacity
  <2>1. architecturalFreeCount - ConfirmingCount = F
    OBVIOUS
  <2> QED
    BY <2>1, ListedAndReleasedFit
<1>3. h \in Phys /\ tailPtr = AdvanceFree(h, F) /\ tailPtr \in Phys
  BY <1>1, AdvanceFreeType, AdvanceFreeTwice
<1>4. /\ architecturalHeadPtr' = h
      /\ architecturalFreeCount' = F + q
      /\ tailPtr' = AdvanceFree(tailPtr, q)
  <2>1. architecturalFreeCount - R + q = F + q
    OBVIOUS
  <2> QED
    BY <2>1 DEF FreeListStep, ConfirmedHead, ConfirmingCount, Released
<1>5. tailPtr' = AdvanceFree(h, F + q)
  BY <1>1, <1>2, <1>3, <1>4, AdvanceFreeTwice
<1>6. freeEntries' =
        [i \in Phys |->
           IF \E lane \in Released : ReleaseSlot(Released, lane) = i
           THEN retiredFree[CHOOSE lane \in Released : ReleaseSlot(Released, lane) = i]
           ELSE freeEntries[i]]
  BY DEF FreeListStep, Released
<1>7. freeEntries' \in [Phys -> Phys]
  <2>1. \A lane \in Released : retiredFree[lane] \in Phys
    BY DEF RingInv, Released
  <2> QED
    BY <1>1, <1>6, <2>1
<1>8. ASSUME NEW lane \in Released
      PROVE  /\ Rank(Released, lane) \in Nat /\ Rank(Released, lane) < q
             /\ F + Rank(Released, lane) \in 0 .. PhysicalRegs - 1
             /\ ReleaseSlot(Released, lane) = AdvanceFree(h, F + Rank(Released, lane))
             /\ ReleaseSlot(Released, lane) \in Phys
  <2>1. Positions(Released)
    BY BatchPositions
  <2>2. PICK r \in Nat : r = Rank(Released, lane) /\ r < q
    BY <2>1, RankType, RankLess
  <2>3. F + r \in 0 .. PhysicalRegs - 1 /\ F + r <= PhysicalRegs /\ F + r \in 0 .. PhysicalRegs
    BY <1>1, <1>2, <2>2
  <2>4. ReleaseSlot(Released, lane) = AdvanceFree(tailPtr, r)
    BY <2>2 DEF ReleaseSlot, Rank, Below
  <2>5. ReleaseSlot(Released, lane) = AdvanceFree(h, F + r)
    BY <1>3, <2>3, <2>4, AdvanceFreeTwice
  <2>6. AdvanceFree(h, F + r) \in Phys
    BY <1>3, <2>3, AdvanceFreeType
  <2> QED
    BY <2>2, <2>3, <2>5, <2>6
<1> HIDE DEF h
<1>9. ASSUME NEW k \in 0 .. F - 1
      PROVE  Listed(k)' = Listed(R + k)
  <2>1. k \in 0 .. PhysicalRegs - 1 /\ k \in 0 .. PhysicalRegs /\ k \in Nat
          /\ R + k <= PhysicalRegs
    BY <1>1
  <2>2. AdvanceFree(h, k) \in Phys
    BY <1>3, <2>1, AdvanceFreeType
  <2>3. AdvanceFree(h, k) = AdvanceFree(architecturalHeadPtr, R + k)
    BY <1>1, <2>1, AdvanceFreeTwice DEF h
  <2>4. \A lane \in Released : ReleaseSlot(Released, lane) # AdvanceFree(h, k)
    <3> SUFFICES ASSUME NEW lane \in Released,
                        ReleaseSlot(Released, lane) = AdvanceFree(h, k)
                 PROVE  FALSE
      OBVIOUS
    <3>1. PICK s \in 0 .. PhysicalRegs - 1 : s = F + Rank(Released, lane)
      BY <1>8
    <3>2. k = s
      BY <1>3, <1>8, <2>1, <3>1, AdvanceFreeDistinct
    <3> QED
      BY <1>8, <3>1, <3>2
  <2>5. freeEntries'[AdvanceFree(h, k)] = freeEntries[AdvanceFree(h, k)]
    BY <1>6, <2>2, <2>4
  <2> QED
    BY <1>4, <2>3, <2>5 DEF Listed
<1>10. ASSUME NEW lane \in Released, NEW s \in Nat, s = F + Rank(Released, lane)
       PROVE  Listed(s)' = retiredFree[lane]
  <2>1. s \in 0 .. PhysicalRegs - 1
    BY <1>8, <1>10
  <2>2. \A other \in Released : ReleaseSlot(Released, other) = AdvanceFree(h, s) => other = lane
    <3> SUFFICES ASSUME NEW other \in Released,
                        ReleaseSlot(Released, other) = AdvanceFree(h, s)
                 PROVE  other = lane
      OBVIOUS
    <3>1. PICK t \in 0 .. PhysicalRegs - 1 : t = F + Rank(Released, other)
      BY <1>8
    <3>2. t = s
      <4>1. AdvanceFree(h, t) = AdvanceFree(h, s)
        BY <1>8, <3>1
      <4> QED
        BY <1>3, <2>1, <4>1, AdvanceFreeDistinct
    <3>3. Rank(Released, other) = Rank(Released, lane)
      <4>1. Rank(Released, other) \in Nat /\ Rank(Released, lane) \in Nat
        BY <1>8
      <4>2. F + Rank(Released, other) = F + Rank(Released, lane)
        BY <1>10, <3>1, <3>2
      <4> QED
        BY <4>1, <4>2
    <3>4. Positions(Released) /\ other \in Int /\ lane \in Int
      BY BatchPositions DEF Positions
    <3>5. ~(other < lane) /\ ~(lane < other)
      BY <1>8, <3>3, <3>4, RankStrict
    <3> QED
      BY <3>4, <3>5
  <2>3. ReleaseSlot(Released, lane) = AdvanceFree(h, s) /\ AdvanceFree(h, s) \in Phys
    BY <1>8, <1>10
  <2>4. (CHOOSE other \in Released : ReleaseSlot(Released, other) = AdvanceFree(h, s)) = lane
    BY <2>2, <2>3
  <2>5. freeEntries'[AdvanceFree(h, s)] = retiredFree[lane]
    BY <1>6, <2>3, <2>4
  <2>6. \A x : Listed(x)' = freeEntries'[AdvanceFree(h, x)]
    BY <1>4 DEF Listed
  <2> QED
    BY <2>5, <2>6
<1> QED
  BY <1>2, <1>3, <1>4, <1>5, <1>7, <1>9, <1>10 DEF h

(***************************************************************************)
(* The map after a group: the youngest write of the register, if any.          *)
(***************************************************************************)
LEMMA MapAfterDomain ==
  ASSUME NEW map, NEW writes
  PROVE  /\ MapAfter(map, writes) = [a \in Arch |-> MapAfter(map, writes)[a]]
         /\ 0 \in Arch => MapAfter(map, writes)[0] = map[0]
BY DEF MapAfter

LEMMA MapAfterNone ==
  ASSUME NEW map, NEW writes, NEW a \in Arch,
         \A i \in DOMAIN writes : writes[i].rd # a
  PROVE  MapAfter(map, writes)[a] = map[a]
BY DEF MapAfter

LEMMA MapAfterLast ==
  ASSUME NEW map, NEW writes, DOMAIN writes \subseteq Int, NEW a \in Arch, a # 0,
         NEW i \in DOMAIN writes, writes[i].rd = a,
         \A j \in DOMAIN writes : writes[j].rd = a => j <= i
  PROVE  MapAfter(map, writes)[a] = writes[i].pdst
<1>1. \A k \in DOMAIN writes :
        writes[k].rd = a /\ (\A j \in DOMAIN writes : writes[j].rd = a => j <= k)
           => k = i
  OBVIOUS
<1>2. (CHOOSE k \in DOMAIN writes :
          writes[k].rd = a /\ \A j \in DOMAIN writes : writes[j].rd = a => j <= k) = i
  BY <1>1
<1> QED
  BY <1>2 DEF MapAfter

LEMMA MapAfterValue ==
  ASSUME NEW map, NEW writes, NEW n \in Nat, DOMAIN writes = 1 .. n, NEW a \in Arch
  PROVE  \/ MapAfter(map, writes)[a] = map[a]
         \/ \E i \in 1 .. n : MapAfter(map, writes)[a] = writes[i].pdst
<1>1. CASE a = 0 \/ \A i \in 1 .. n : writes[i].rd # a
  BY <1>1 DEF MapAfter
<1>2. CASE a # 0 /\ \E i \in 1 .. n : writes[i].rd = a
  <2> DEFINE S == {x \in 0 .. n : n - x \in 1 .. n /\ writes[n - x].rd = a}
  <2>1. S \subseteq Nat /\ S # {}
    <3>1. PICK i \in 1 .. n : writes[i].rd = a
      BY <1>2
    <3>2. n - i \in 0 .. n /\ n - (n - i) = i
      OBVIOUS
    <3>3. n - i \in S
      BY <3>1, <3>2
    <3>4. S \subseteq Nat
      OBVIOUS
    <3> QED
      BY <3>3, <3>4, Zenon
  <2>2. PICK x \in S : \A y \in S : x <= y
    BY <2>1, LeastOf
  <2>3. PICK i \in 1 .. n : i = n - x /\ writes[i].rd = a
    BY <2>2
  <2>4. ASSUME NEW j \in 1 .. n, writes[j].rd = a
        PROVE  j <= i
    <3>1. n - j \in 0 .. n /\ n - (n - j) = j
      OBVIOUS
    <3>2. n - j \in S
      BY <2>4, <3>1
    <3>3. x <= n - j
      BY <2>2, <3>2
    <3> QED
      BY <2>2, <2>3, <3>3
  <2>5. MapAfter(map, writes)[a] = writes[i].pdst
    <3>1. DOMAIN writes \subseteq Int /\ i \in DOMAIN writes
      OBVIOUS
    <3> QED
      BY <1>2, <2>3, <2>4, <3>1, MapAfterLast
  <2> QED
    BY <2>5
<1> QED
  BY <1>1, <1>2

(***************************************************************************)
(* What an edge retires, told by positions: the writers below r hand their      *)
(* previous mapping to the batch and theirs to the architectural map.  A flush   *)
(* retires nothing, and an entry with an exception ends the group and does not   *)
(* retire.                                                                  *)
(***************************************************************************)
Retiring(r) ==
    /\ r <= CommittedCount
    /\ Flush => r = 0
    /\ ~Flush /\ ~Flush' => r = CommittedCount
    /\ \A k \in 0 .. r - 1 : EntryAt(k).complete /\ ~EntryAt(k).exception
    /\ DOMAIN retiredFree' = {k + 1 : k \in Below(Writers, r)}
    /\ \A k \in Below(Writers, r) : retiredFree'[k + 1] = EntryAt(k).payload.oldPdst
    /\ architectural' = [a \in Arch |-> architectural'[a]]
    /\ architectural'[0] = architectural[0]
    /\ \A a \in Arch \ {0} : \A m \in -1 .. r - 1 :
          LastWriter(a, r, m) =>
             architectural'[a] = IF m = -1 THEN architectural[a]
                                 ELSE EntryAt(m).payload.pdst

LEMMA EdgeRetires ==
  ASSUME RobInv, DestinationsInv, architectural \in [Arch -> Phys],
         NEW n \in Nat, NEW group, NEW outcome, NEW interrupt,
         EdgeOf(n, group, outcome, interrupt)
  PROVE  \E r \in Nat : Retiring(r)
<1> DEFINE c == CommittedCount
<1>1. /\ c \in 0 .. occupancy /\ c \in Nat /\ occupancy \in Nat
      /\ ArchRegs \in Nat \ {0} /\ 0 \in Arch
  BY CommittedWithinWindow, WindowEntries, CoreConfigAssumption DEF RobInv, Arch
<1>2. /\ architectural' = ArchitecturalAfter(CommittedMappings, Flush)
      /\ RetireStep /\ recoveryPending' = (RecoveryValid /\ ~recoveryPending /\ ~ExternalRedirect)
  BY DEF EdgeOf, Cycle, RegisterMapStep, RedirectStep
<1>3. CASE Flush
  <2>1. architectural' = architectural /\ retiredFree' = <<>>
    BY <1>2, <1>3 DEF ArchitecturalAfter, RetireStep
  <2>2. Below(Writers, 0) = {}
    BY <1>1 DEF Below, Writers
  <2>3. Retiring(0)
    BY <1>1, <1>3, <2>1, <2>2 DEF Retiring
  <2> QED
    BY <2>3
<1>4. CASE ~Flush
  <2>1. \A lane \in 1 .. c :
          /\ lane - 1 \in 0 .. occupancy - 1
          /\ Commit[lane] = EntryAt(lane - 1)
          /\ EntryAt(lane - 1).complete
          /\ CanCommit(lane) /\ lane \in CommitLane
    BY CandidatesOfWindow, CoreConfigAssumption DEF Commit, CanCommit, Retirable, CommitLane
  <2>2. \A lane \in 1 .. c : lane < c => ~EntryAt(lane - 1).exception
    <3> SUFFICES ASSUME NEW lane \in 1 .. c, lane < c
                 PROVE  ~EntryAt(lane - 1).exception
      OBVIOUS
    <3>1. CanCommit(c) /\ lane \in 1 .. c - 1
      BY <1>1, <2>1
    <3>2. ~StopAfter(lane) /\ Candidate(lane) = EntryAt(lane - 1)
      BY <3>1, CandidatesOfWindow DEF CanCommit
    <3> QED
      BY <3>2 DEF StopAfter
  <2>3. PICK r \in Nat :
          /\ r <= c
          /\ ~Flush' => r = c
          /\ \A lane \in 1 .. c : Retires(Commit[lane]) <=> lane <= r
    <3>1. CASE c = 0 \/ ~EntryAt(c - 1).exception
      <4>1. \A lane \in 1 .. c : Retires(Commit[lane])
        BY <1>1, <2>1, <2>2, <3>1 DEF Retires
      <4> QED
        BY <1>1, <4>1
    <3>2. CASE c # 0 /\ EntryAt(c - 1).exception
      <4>1. c \in 1 .. c /\ c - 1 \in Nat
        BY <1>1, <3>2
      <4>2. \A lane \in 1 .. c : Retires(Commit[lane]) <=> lane <= c - 1
        BY <1>1, <2>1, <2>2, <3>2 DEF Retires
      <4>3. Candidate(c) = EntryAt(c - 1)
        BY <4>1, CandidatesOfWindow
      <4>4. RecoveryValid
        BY <2>1, <3>2, <4>1, <4>3 DEF RecoveryValid
      <4>5. Flush'
        BY <1>2, <1>4, <4>4 DEF Flush
      <4> QED
        BY <1>1, <4>1, <4>2, <4>5
    <3> QED
      BY <3>1, <3>2
  <2>4. DOMAIN Commit = 1 .. c
    BY DEF Commit
  <2>5. CommitsDestination = {k + 1 : k \in Below(Writers, r)}
    <3>1. ASSUME NEW lane \in CommitsDestination
          PROVE  lane - 1 \in Below(Writers, r) /\ lane = (lane - 1) + 1
      <4>1. lane \in 1 .. c /\ Retires(Commit[lane]) /\ Commit[lane].payload.rd # 0
        BY <2>4, <3>1 DEF CommitsDestination
      <4>2. lane <= r /\ DestinationAt(lane - 1) # 0 /\ lane - 1 \in 0 .. occupancy - 1
        BY <2>1, <2>3, <4>1 DEF DestinationAt
      <4> QED
        BY <1>1, <4>1, <4>2 DEF Below, Writers
    <3>2. ASSUME NEW k \in Below(Writers, r)
          PROVE  k + 1 \in CommitsDestination
      <4>1. k \in 0 .. occupancy - 1 /\ DestinationAt(k) # 0 /\ k < r
        BY <3>2 DEF Below, Writers
      <4>2. k + 1 \in 1 .. c /\ k + 1 <= r /\ (k + 1) - 1 = k
        BY <1>1, <2>3, <4>1
      <4>3. Retires(Commit[k + 1]) /\ Commit[k + 1] = EntryAt(k)
        BY <2>1, <2>3, <4>2
      <4> QED
        BY <2>4, <4>1, <4>2, <4>3 DEF CommitsDestination, DestinationAt
    <3> QED
      BY <3>1, <3>2
  <2>6. \A k \in Below(Writers, r) :
          k \in Int /\ k + 1 \in CommitsDestination /\ Commit[k + 1] = EntryAt(k)
    <3> SUFFICES ASSUME NEW k \in Below(Writers, r)
                 PROVE  k \in Int /\ k + 1 \in CommitsDestination /\ Commit[k + 1] = EntryAt(k)
      OBVIOUS
    <3>1. k \in 0 .. occupancy - 1 /\ k < r
      BY DEF Below, Writers
    <3>2. k + 1 \in 1 .. c /\ (k + 1) - 1 = k
      BY <1>1, <2>3, <3>1
    <3> QED
      BY <2>1, <2>5, <3>1, <3>2
  <2>7. /\ DOMAIN retiredFree' = {k + 1 : k \in Below(Writers, r)}
        /\ \A k \in Below(Writers, r) : retiredFree'[k + 1] = EntryAt(k).payload.oldPdst
    BY <1>2, <1>4, <2>5, <2>6 DEF RetireStep
  <2>8. \A k \in 0 .. r - 1 : EntryAt(k).complete /\ ~EntryAt(k).exception
    <3> SUFFICES ASSUME NEW k \in 0 .. r - 1
                 PROVE  EntryAt(k).complete /\ ~EntryAt(k).exception
      OBVIOUS
    <3>1. k + 1 \in 1 .. c /\ k + 1 <= r /\ (k + 1) - 1 = k
      BY <1>1, <2>3
    <3> QED
      BY <2>1, <2>3, <3>1 DEF Retires
  <2>9. architectural' = MapAfter(architectural, CommittedMappings)
    BY <1>2, <1>4 DEF ArchitecturalAfter
  <2>10. /\ DOMAIN CommittedMappings = CommitsDestination
         /\ CommitsDestination \subseteq Int
         /\ \A k \in Below(Writers, r) :
               /\ CommittedMappings[k + 1].rd = DestinationAt(k)
               /\ CommittedMappings[k + 1].pdst = EntryAt(k).payload.pdst
    BY <2>5, <2>6 DEF CommittedMappings, DestinationAt
  <2>11. /\ architectural' = [a \in Arch |-> architectural'[a]]
         /\ architectural'[0] = architectural[0]
    BY <1>1, <2>9, MapAfterDomain
  <2>12. ASSUME NEW a \in Arch \ {0}, NEW m \in -1 .. r - 1, LastWriter(a, r, m)
         PROVE  architectural'[a] = IF m = -1 THEN architectural[a]
                                    ELSE EntryAt(m).payload.pdst
    <3>1. CASE m = -1
      <4>1. \A k \in Below(Writers, r) : DestinationAt(k) # a
        BY <2>12, <3>1 DEF LastWriter, Below, Writers
      <4>2. \A i \in CommitsDestination : CommittedMappings[i].rd # a
        BY <2>5, <2>10, <4>1
      <4> QED
        BY <2>9, <2>10, <3>1, <4>2, MapAfterNone
    <3>2. CASE m # -1
      <4>1. DestinationAt(m) = a /\ m \in Below(Writers, r)
        BY <1>1, <2>3, <2>12, <3>2 DEF LastWriter, Below, Writers
      <4>2. \A k \in Below(Writers, r) : DestinationAt(k) = a => k <= m
        BY <1>1, <2>12, <3>2 DEF LastWriter, Below, Writers
      <4>3. /\ m + 1 \in CommitsDestination
            /\ CommittedMappings[m + 1].rd = a
            /\ CommittedMappings[m + 1].pdst = EntryAt(m).payload.pdst
        BY <2>6, <2>10, <4>1
      <4>4. \A i \in CommitsDestination : CommittedMappings[i].rd = a => i <= m + 1
        <5> SUFFICES ASSUME NEW i \in CommitsDestination, CommittedMappings[i].rd = a
                     PROVE  i <= m + 1
          OBVIOUS
        <5>1. PICK k \in Below(Writers, r) : i = k + 1
          BY <2>5
        <5>2. DestinationAt(k) = a /\ k \in Int
          BY <2>6, <2>10, <5>1
        <5> QED
          BY <4>2, <5>1, <5>2
      <4> QED
        <5> HIDE DEF c
        <5>1. a \in Arch /\ a # 0 /\ DOMAIN CommittedMappings \subseteq Int
                /\ m + 1 \in DOMAIN CommittedMappings
                /\ \A i \in DOMAIN CommittedMappings : CommittedMappings[i].rd = a => i <= m + 1
          BY <2>10, <4>3, <4>4
        <5>2. MapAfter(architectural, CommittedMappings)[a] = CommittedMappings[m + 1].pdst
          BY <4>3, <5>1, MapAfterLast
        <5> QED
          BY <2>9, <3>2, <4>3, <5>2
    <3> QED
      BY <3>1, <3>2
  <2>13. Retiring(r)
    BY <1>4, <2>3, <2>7, <2>8, <2>11, <2>12 DEF Retiring
  <2> QED
    BY <2>13
<1> QED
  BY <1>3, <1>4

(***************************************************************************)
(* An edge keeps every register in one place.                                  *)
(***************************************************************************)
(* A mapping seen below r: of a committed writer, or none.                     *)
SeenBelow(a, m, r) == m = -1 \/ (m \in Below(Writers, r) /\ DestinationAt(m) = a)

LEMMA SeenMappings ==
  ASSUME RobInv, RingInv, PlacesInv, NEW r \in Nat, r # 0 => SpeculativeInv,
         NEW R \in Nat, R = ConfirmingCount,
         NEW a \in Arch, NEW m, SeenBelow(a, m, r)
  PROVE  /\ MappingOf(a, m) \in Phys
         /\ \A i \in R + Cardinality(Below(Writers, r)) .. architecturalFreeCount - 1 :
               Listed(i) # MappingOf(a, m)
         /\ \A lane \in Released : retiredFree[lane] # MappingOf(a, m)
         /\ \A b \in Arch : \A n :
               /\ SeenBelow(b, n, r)
               /\ MappingOf(a, m) # 0
               /\ MappingOf(a, m) = MappingOf(b, n)
               => a = b /\ m = n
<1> DEFINE V == Below(Writers, r)
<1>1. /\ Positions(Writers) /\ Positions(V) /\ Cardinality(V) \in Nat
      /\ Cardinality(V) <= Cardinality(Writers) /\ V \subseteq Writers
      /\ Positions(Released)
  <2>1. V \subseteq Writers
    BY DEF Below
  <2> QED
    BY <2>1, WritersPositions, BatchPositions, SubsetPositions, SizeType
<1>2. ASSUME NEW k \in V
      PROVE  /\ SpeculativeInv
             /\ Rank(Writers, k) \in Nat /\ Rank(Writers, k) < Cardinality(V)
             /\ R + Rank(Writers, k) \in R .. architecturalFreeCount - 1
             /\ R + Rank(Writers, k) < R + Cardinality(V)
  <2>1. r # 0 /\ k \in Writers
    BY <1>1, WritersPositions DEF Below, Writers
  <2>2. \A y \in Writers : y <= k => y \in V
    BY <1>1, <2>1 DEF Below, Positions
  <2>3. Rank(Writers, k) < Cardinality(V)
    BY <1>1, <2>1, <2>2, RankBelow
  <2>4. Rank(Writers, k) \in Nat
    BY <1>1, RankType
  <2> QED
    BY <1>1, <2>1, <2>3, <2>4, GivenIsListed
<1>3. /\ architecturalFreeCount \in Nat /\ architecturalFreeCount <= PhysicalRegs
      /\ PhysicalRegs \in Nat
  BY CoreConfigAssumption DEF RingInv, UsableCapacity
<1>4. CASE m = -1
  <2>1. MappingOf(a, m) = architectural[a] /\ architectural[a] \in Phys
    BY <1>4 DEF MappingOf, PlacesInv
  <2>2. \A i \in R + Cardinality(V) .. architecturalFreeCount - 1 :
          i \in R .. architecturalFreeCount - 1
    BY <1>1, <1>3
  <2>3. ASSUME NEW b \in Arch, NEW n, SeenBelow(b, n, r),
               MappingOf(a, m) # 0, MappingOf(a, m) = MappingOf(b, n)
        PROVE  a = b /\ m = n
    <3>1. CASE n = -1
      BY <1>4, <2>1, <2>3, <3>1 DEF MappingOf, PlacesInv, InOnePlace
    <3>2. CASE n # -1
      <4>1. n \in V
        BY <2>3, <3>2 DEF SeenBelow
      <4>2. PICK j \in R .. architecturalFreeCount - 1 : j = R + Rank(Writers, n)
        BY <1>2, <4>1
      <4>3. MappingOf(b, n) = Listed(j)
        BY <3>2, <4>2 DEF MappingOf, GivenTo
      <4>4. Listed(j) # architectural[a]
        BY DEF PlacesInv, InOnePlace
      <4> QED
        BY <2>1, <2>3, <4>3, <4>4
    <3> QED
      BY <3>1, <3>2
  <2> HIDE DEF V
  <2> QED
    BY <2>1, <2>2, <2>3 DEF V, PlacesInv, InOnePlace
<1>5. CASE m # -1
  <2>1. m \in V /\ DestinationAt(m) = a
    BY <1>5 DEF SeenBelow
  <2>2. PICK j \in R .. architecturalFreeCount - 1 :
          j = R + Rank(Writers, m) /\ j < R + Cardinality(V)
    BY <1>2, <2>1
  <2>3. MappingOf(a, m) = Listed(j)
    BY <1>5, <2>2 DEF MappingOf, GivenTo
  <2>4. Listed(j) \in Phys
    <3>1. j \in 0 .. PhysicalRegs
      <4> HIDE DEF V
      <4> QED
        BY <1>3
    <3> QED
      BY <3>1, AdvanceFreeType DEF RingInv, Listed
  <2>5. \A i \in R + Cardinality(V) .. architecturalFreeCount - 1 : Listed(i) # Listed(j)
    <3>1. \A i \in R + Cardinality(V) .. architecturalFreeCount - 1 :
            i \in R .. architecturalFreeCount - 1 /\ i # j
      BY <1>1, <1>3, <2>2
    <3> QED
      BY <2>2, <3>1 DEF PlacesInv, InOnePlace
  <2>6. \A lane \in Released : retiredFree[lane] # Listed(j)
    BY <2>2 DEF PlacesInv, InOnePlace
  <2>7. ASSUME NEW b \in Arch, NEW n, SeenBelow(b, n, r),
               MappingOf(a, m) # 0, MappingOf(a, m) = MappingOf(b, n)
        PROVE  a = b /\ m = n
    <3>1. SpeculativeInv /\ m \in {-1} \cup Writers /\ n \in {-1} \cup Writers
      BY <1>1, <1>2, <2>1, <2>7 DEF SeenBelow
    <3>2. n # -1 => DestinationAt(n) = b
      BY <2>7 DEF SeenBelow
    <3> QED
      BY <2>1, <2>7, <3>1, <3>2, MappingsDistinct
  <2> HIDE DEF V
  <2> QED
    BY <2>3, <2>4, <2>5, <2>6, <2>7 DEF V
<1> QED
  BY <1>4, <1>5

(* What retirement shows afterwards is what was seen before.                   *)
LEMMA RetiredMappings ==
  ASSUME RobInv, RingInv, PlacesInv, DestinationsInv, NEW r \in Nat, r # 0 => SpeculativeInv,
         Retiring(r)
  PROVE  /\ \A a \in Arch \ {0} : \E m \in -1 .. r - 1 :
               /\ LastWriter(a, r, m) /\ SeenBelow(a, m, r)
               /\ architectural'[a] = MappingOf(a, m)
         /\ \A a \in Arch \ {0}, m \in -1 .. r - 1 :
               LastWriter(a, r, m) => architectural'[a] = MappingOf(a, m)
         /\ \A k \in Below(Writers, r) :
               /\ k \in 0 .. r - 1 /\ DestinationAt(k) \in Arch \ {0}
               /\ \E m \in -1 .. k - 1 :
                     /\ LastWriter(DestinationAt(k), k, m)
                     /\ SeenBelow(DestinationAt(k), m, r)
               /\ \A m \in -1 .. k - 1 :
                     LastWriter(DestinationAt(k), k, m) =>
                        retiredFree'[k + 1] = MappingOf(DestinationAt(k), m)
<1>1. r <= occupancy /\ occupancy \in Nat
  BY CommittedWithinWindow, WindowEntries DEF Retiring, RobInv
<1>2. ASSUME NEW a \in Arch \ {0}, NEW k \in 0 .. r, NEW m \in -1 .. k - 1, LastWriter(a, k, m)
      PROVE  /\ SeenBelow(a, m, r)
             /\ m # -1 => /\ SpeculativeInv
                          /\ EntryAt(m).payload.pdst = GivenTo(m)
  <2>1. CASE m = -1
    BY <2>1 DEF SeenBelow
  <2>2. CASE m # -1
    <3>1. m \in 0 .. occupancy - 1 /\ m < r /\ DestinationAt(m) = a /\ r # 0
      BY <1>1, <1>2, <2>2 DEF LastWriter
    <3>2. m \in Below(Writers, r)
      BY <3>1 DEF Below, Writers
    <3>3. EntryAt(m).payload.pdst = GivenTo(m)
      BY <3>1 DEF SpeculativeInv
    <3> QED
      BY <3>1, <3>2, <3>3 DEF SeenBelow
  <2> QED
    BY <2>1, <2>2
<1>3. ASSUME NEW a \in Arch \ {0}, NEW m \in -1 .. r - 1, LastWriter(a, r, m)
      PROVE  architectural'[a] = MappingOf(a, m) /\ SeenBelow(a, m, r)
  <2>1. r \in 0 .. r
    OBVIOUS
  <2> QED
    BY <1>2, <1>3, <2>1 DEF Retiring, MappingOf
<1>4. ASSUME NEW a \in Arch \ {0}
      PROVE  \E m \in -1 .. r - 1 :
               /\ LastWriter(a, r, m) /\ SeenBelow(a, m, r)
               /\ architectural'[a] = MappingOf(a, m)
  BY <1>3, LastWriterExists
<1>5. ASSUME NEW k \in Below(Writers, r)
      PROVE  /\ k \in 0 .. r - 1 /\ DestinationAt(k) \in Arch \ {0}
             /\ \E m \in -1 .. k - 1 :
                   /\ LastWriter(DestinationAt(k), k, m)
                   /\ SeenBelow(DestinationAt(k), m, r)
             /\ \A m \in -1 .. k - 1 :
                   LastWriter(DestinationAt(k), k, m) =>
                      retiredFree'[k + 1] = MappingOf(DestinationAt(k), m)
  <2>1. k \in 0 .. r - 1 /\ k \in Writers /\ k \in 0 .. occupancy - 1 /\ DestinationAt(k) # 0
    BY <1>1, <1>5 DEF Below, Writers
  <2>2. DestinationAt(k) \in Arch \ {0} /\ k \in Nat /\ k \in 0 .. r
    BY <2>1 DEF DestinationsInv
  <2>3. \E m \in -1 .. k - 1 : LastWriter(DestinationAt(k), k, m)
    BY <2>2, LastWriterExists
  <2>4. \A m \in -1 .. k - 1 :
          LastWriter(DestinationAt(k), k, m) => SeenBelow(DestinationAt(k), m, r)
    BY <1>2, <2>2
  <2>5. SpeculativeInv
    BY <2>1
  <2>6. \A m \in -1 .. k - 1 :
          LastWriter(DestinationAt(k), k, m) =>
             retiredFree'[k + 1] = MappingOf(DestinationAt(k), m)
    BY <1>5, <2>1, <2>5 DEF Retiring, SpeculativeInv
  <2> QED
    BY <2>1, <2>2, <2>3, <2>4, <2>6
<1> QED
  BY <1>3, <1>4, <1>5

LEMMA EdgeKeepsPlaces ==
  ASSUME RobInv, RingInv, PlacesInv, DestinationsInv, NEW r \in Nat, r # 0 => SpeculativeInv,
         Retiring(r), NEW accepted, NEW flush, FreeListStep(accepted, retiredFree, flush),
         NEW R \in Nat, R = ConfirmingCount, NEW F \in Nat, R + F = architecturalFreeCount,
         NEW q \in Nat, q = Cardinality(Released),
         NEW s \in Nat, s = Cardinality(Below(Writers, r))
  PROVE  ConfirmingCount' = s /\ RingInv' /\ PlacesInv'
<1> DEFINE V == Below(Writers, r)
<1>1. /\ architecturalHeadPtr' \in Phys
      /\ architecturalFreeCount' = F + q
      /\ F + q <= UsableCapacity
      /\ tailPtr' = AdvanceFree(architecturalHeadPtr', F + q)
      /\ freeEntries' \in [Phys -> Phys]
      /\ \A k \in 0 .. F - 1 : Listed(k)' = Listed(R + k)
      /\ \A lane \in Released : \A t \in Nat :
            t = F + Rank(Released, lane) => Listed(t)' = retiredFree[lane]
  BY EdgeOfFreeList
<1>2. /\ Positions(Writers) /\ Positions(V) /\ V \subseteq Writers
      /\ s <= Cardinality(Writers) /\ Cardinality(Writers) \in Nat
      /\ Positions(Released) /\ occupancy \in Nat
  <2>1. V \subseteq Writers
    BY DEF Below
  <2> QED
    BY <2>1, WritersPositions, BatchPositions, SubsetPositions
<1>3. /\ DOMAIN retiredFree' = {k + 1 : k \in V}
      /\ architectural' = [a \in Arch |-> architectural'[a]]
      /\ architectural'[0] = architectural[0]
      /\ r <= CommitWidth /\ CommitWidth \in Nat
  BY CommittedWithinWindow, CoreConfigAssumption DEF Retiring, RobInv
<1>4. /\ \A a \in Arch \ {0} : \E m \in -1 .. r - 1 :
            /\ LastWriter(a, r, m) /\ SeenBelow(a, m, r)
            /\ architectural'[a] = MappingOf(a, m)
      /\ \A a \in Arch \ {0}, m \in -1 .. r - 1 :
            LastWriter(a, r, m) => architectural'[a] = MappingOf(a, m)
      /\ \A k \in V :
            /\ k \in 0 .. r - 1 /\ DestinationAt(k) \in Arch \ {0}
            /\ \E m \in -1 .. k - 1 :
                  /\ LastWriter(DestinationAt(k), k, m)
                  /\ SeenBelow(DestinationAt(k), m, r)
            /\ \A m \in -1 .. k - 1 :
                  LastWriter(DestinationAt(k), k, m) =>
                     retiredFree'[k + 1] = MappingOf(DestinationAt(k), m)
  BY RetiredMappings
<1>5. ConfirmingCount' = s
  <2>0. PICK one \in Int : one = 1
    OBVIOUS
  <2>1. {k + 1 : k \in V} = {one + k : k \in V}
    BY <1>2, <2>0 DEF Positions
  <2>2. Cardinality({one + k : k \in V}) = Cardinality(V)
    <3>1. IsFiniteSet(V) /\ V \in SUBSET Int
      BY <1>2 DEF Positions
    <3> HIDE DEF V
    <3> QED
      BY <3>1, CountShift
  <2> QED
    BY <1>3, <2>1, <2>2 DEF ConfirmingCount
<1>6. s <= F
  <2>1. CASE r = 0
    <3>1. V = {}
      BY <1>2, <2>1 DEF Below, Writers
    <3> QED
      BY <3>1, FS_EmptySet
  <2>2. CASE r # 0
    <3>1. R + Cardinality(Writers) <= R + F
      BY <2>2 DEF SpeculativeInv
    <3> QED
      BY <1>2, <3>1
  <2> QED
    BY <2>1, <2>2
(* Where the registers are seen now, and that these places differ.             *)
<1>7. /\ \A a \in Arch : \A m : SeenBelow(a, m, r) =>
            /\ MappingOf(a, m) \in Phys
            /\ \A i \in R + s .. R + F - 1 : Listed(i) # MappingOf(a, m)
            /\ \A lane \in Released : retiredFree[lane] # MappingOf(a, m)
      /\ \A a, b \in Arch : \A m, n :
            /\ SeenBelow(a, m, r) /\ SeenBelow(b, n, r)
            /\ MappingOf(a, m) # 0 /\ MappingOf(a, m) = MappingOf(b, n)
            => a = b /\ m = n
  BY SeenMappings
<1>8. RingInv'
  <2>1. Within(DOMAIN retiredFree', 1, CommitWidth)
    <3>1. \A k \in V : k + 1 \in 1 .. CommitWidth
      BY <1>3, <1>4
    <3> QED
      BY <1>3, <3>1 DEF Within
  <2>2. \A lane \in DOMAIN retiredFree' : retiredFree'[lane] \in Phys
    <3> SUFFICES ASSUME NEW k \in V PROVE retiredFree'[k + 1] \in Phys
      BY <1>3
    <3>1. PICK m \in -1 .. k - 1 :
            LastWriter(DestinationAt(k), k, m) /\ SeenBelow(DestinationAt(k), m, r)
      BY <1>4
    <3> QED
      BY <1>4, <1>7, <3>1
  <2>3. ConfirmingCount' <= architecturalFreeCount' /\ architecturalFreeCount' \in Nat
    BY <1>1, <1>5, <1>6
  <2> HIDE DEF V
  <2> QED
    BY <1>1, <2>1, <2>2, <2>3 DEF RingInv, UsableCapacity
<1>9. architectural' \in [Arch -> Phys] /\ architectural'[0] = 0
  <2>1. architectural'[0] = 0 /\ 0 \in Phys
    BY <1>3, CoreConfigAssumption DEF PlacesInv, Phys
  <2>2. \A a \in Arch \ {0} : architectural'[a] \in Phys
    BY <1>4, <1>7
  <2> QED
    BY <1>3, <2>1, <2>2
<1>10. ASSUME NEW k \in s .. F + q - 1
       PROVE  \/ k < F /\ \E i \in R + s .. R + F - 1 : i = R + k /\ Listed(k)' = Listed(i)
              \/ k >= F /\ \E lane \in Released : /\ k = F + Rank(Released, lane)
                                                 /\ Listed(k)' = retiredFree[lane]
  <2>1. CASE k < F
    <3>1. PICK i \in R + s .. R + F - 1 : i = R + k
      BY <2>1
    <3>2. k \in 0 .. F - 1
      BY <2>1
    <3> QED
      BY <1>1, <2>1, <3>1, <3>2
  <2>2. CASE k >= F
    <3>1. PICK t \in 0 .. Cardinality(Released) - 1 : t = k - F
      BY <2>2
    <3>2. PICK lane \in Released : Rank(Released, lane) = t
      BY <1>2, RankOnto
    <3>3. k = F + Rank(Released, lane) /\ k \in Nat
      BY <3>1, <3>2
    <3> QED
      BY <1>1, <2>2, <3>3
  <2> QED
    BY <2>1, <2>2
<1>11. ASSUME NEW x \in DOMAIN retiredFree'
       PROVE  \E k \in V, m \in Int :
                 /\ x = k + 1 /\ DestinationAt(k) \in Arch \ {0} /\ k \in 0 .. r - 1
                 /\ m \in -1 .. k - 1
                 /\ LastWriter(DestinationAt(k), k, m) /\ SeenBelow(DestinationAt(k), m, r)
                 /\ retiredFree'[x] = MappingOf(DestinationAt(k), m)
  <2>1. PICK k \in V : x = k + 1
    BY <1>3, <1>11
  <2>2. PICK m \in -1 .. k - 1 :
          LastWriter(DestinationAt(k), k, m) /\ SeenBelow(DestinationAt(k), m, r)
    BY <1>4
  <2>3. retiredFree'[x] = MappingOf(DestinationAt(k), m)
    BY <1>4, <2>1, <2>2
  <2> QED
    BY <1>4, <2>1, <2>2, <2>3
<1>12. \A x : x \in Released' <=> x \in DOMAIN retiredFree' /\ retiredFree'[x] # 0
  BY DEF Released
<1> HIDE DEF V
(* Listed before and after.                                                   *)
<1>13. /\ \A i \in R .. R + F - 1 : Listed(i) # 0
       /\ \A i, j \in R .. R + F - 1 : Listed(i) = Listed(j) => i = j
       /\ \A i \in R .. R + F - 1, lane \in Released : Listed(i) # retiredFree[lane]
       /\ \A lane \in Released : retiredFree[lane] # 0
       /\ \A x, y \in Released : retiredFree[x] = retiredFree[y] => x = y
       /\ \A i \in R + s .. R + F - 1 : i \in R .. R + F - 1
  BY DEF PlacesInv, InOnePlace, Released
<1>14. ASSUME NEW k \in s .. F + q - 1
       PROVE  /\ Listed(k)' # 0
              /\ \A l \in s .. F + q - 1 : Listed(k)' = Listed(l)' => k = l
              /\ \A a \in Arch : \A m : SeenBelow(a, m, r) => Listed(k)' # MappingOf(a, m)
  <2>1. CASE k < F
    <3>1. PICK i \in R + s .. R + F - 1 : i = R + k /\ Listed(k)' = Listed(i)
      BY <1>10, <2>1
    <3>2. ASSUME NEW l \in s .. F + q - 1, Listed(k)' = Listed(l)'
          PROVE  k = l
      <4>1. CASE l < F
        <5>1. PICK j \in R + s .. R + F - 1 : j = R + l /\ Listed(l)' = Listed(j)
          BY <1>10, <4>1
        <5>2. i = j
          BY <1>13, <3>1, <3>2, <5>1
        <5> QED
          BY <3>1, <5>1, <5>2
      <4>2. CASE l >= F
        BY <1>10, <1>13, <3>1, <3>2, <4>2
      <4> QED
        BY <4>1, <4>2
    <3> QED
      BY <1>7, <1>13, <3>1, <3>2
  <2>2. CASE k >= F
    <3>1. PICK lane \in Released : k = F + Rank(Released, lane) /\ Listed(k)' = retiredFree[lane]
      BY <1>10, <2>2
    <3>2. ASSUME NEW l \in s .. F + q - 1, Listed(k)' = Listed(l)'
          PROVE  k = l
      <4>1. CASE l < F
        BY <1>10, <1>13, <3>1, <3>2, <4>1
      <4>2. CASE l >= F
        BY <1>10, <1>13, <3>1, <3>2, <4>2
      <4> QED
        BY <4>1, <4>2
    <3> QED
      BY <1>7, <1>13, <3>1, <3>2
  <2> QED
    BY <2>1, <2>2
<1>15. ASSUME NEW a \in Arch, architectural'[a] # 0
       PROVE  a # 0 /\ \E m \in -1 .. r - 1 :
                 /\ LastWriter(a, r, m) /\ SeenBelow(a, m, r)
                 /\ architectural'[a] = MappingOf(a, m)
  BY <1>4, <1>9, <1>15
<1>16. \A k \in s .. F + q - 1 :
         /\ \A a \in Arch : Listed(k)' # architectural'[a]
         /\ \A x \in Released' : Listed(k)' # retiredFree'[x]
  BY <1>11, <1>12, <1>14, <1>15
<1>17. ASSUME NEW a \in Arch, NEW b \in Arch, architectural'[a] # 0,
              architectural'[a] = architectural'[b]
       PROVE  a = b
  BY <1>7, <1>15, <1>17
<1>18. ASSUME NEW x \in Released', NEW y \in Released', retiredFree'[x] = retiredFree'[y]
       PROVE  x = y
  <2>1. PICK k \in V, m \in Int :
          /\ x = k + 1 /\ DestinationAt(k) \in Arch \ {0} /\ k \in 0 .. r - 1
          /\ m \in -1 .. k - 1
          /\ LastWriter(DestinationAt(k), k, m) /\ SeenBelow(DestinationAt(k), m, r)
          /\ retiredFree'[x] = MappingOf(DestinationAt(k), m)
    BY <1>11, <1>12
  <2>2. PICK l \in V, n \in Int :
          /\ y = l + 1 /\ DestinationAt(l) \in Arch \ {0} /\ l \in 0 .. r - 1
          /\ n \in -1 .. l - 1
          /\ LastWriter(DestinationAt(l), l, n) /\ SeenBelow(DestinationAt(l), n, r)
          /\ retiredFree'[y] = MappingOf(DestinationAt(l), n)
    BY <1>11, <1>12
  <2>3. DestinationAt(k) = DestinationAt(l) /\ m = n
    BY <1>7, <1>12, <1>18, <2>1, <2>2
  <2>4. ~(k < l) /\ ~(l < k)
    BY <2>1, <2>2, <2>3 DEF LastWriter
  <2> QED
    BY <2>1, <2>2, <2>4
<1>19. ASSUME NEW x \in Released', NEW a \in Arch
       PROVE  retiredFree'[x] # architectural'[a]
  <2> SUFFICES ASSUME retiredFree'[x] = architectural'[a] PROVE FALSE
    OBVIOUS
  <2>1. PICK k \in V, m \in Int :
          /\ x = k + 1 /\ DestinationAt(k) \in Arch \ {0} /\ k \in 0 .. r - 1
          /\ m \in -1 .. k - 1
          /\ LastWriter(DestinationAt(k), k, m) /\ SeenBelow(DestinationAt(k), m, r)
          /\ retiredFree'[x] = MappingOf(DestinationAt(k), m)
    BY <1>11, <1>12
  <2>2. PICK n \in -1 .. r - 1 :
          /\ LastWriter(a, r, n) /\ SeenBelow(a, n, r)
          /\ architectural'[a] = MappingOf(a, n)
    BY <1>12, <1>15
  <2>3. DestinationAt(k) = a /\ m = n
    BY <1>7, <1>12, <2>1, <2>2
  <2> QED
    BY <2>1, <2>2, <2>3 DEF LastWriter
(* Nothing is lost: a mapping seen below r stays or is handed to the batch.    *)
<1>20. ASSUME NEW a \in Arch \ {0}, NEW m \in -1 .. r - 1, SeenBelow(a, m, r),
              MappingOf(a, m) # 0
       PROVE  \/ \E b \in Arch : architectural'[b] = MappingOf(a, m)
              \/ \E x \in Released' : retiredFree'[x] = MappingOf(a, m)
  <2>1. CASE LastWriter(a, r, m)
    BY <1>4, <2>1
  <2>2. CASE ~LastWriter(a, r, m)
    <3>1. m # -1 => DestinationAt(m) = a
      BY <1>20 DEF SeenBelow
    <3>2. PICK k \in m + 1 .. r - 1 : DestinationAt(k) = a /\ LastWriter(a, k, m)
      BY <2>2, <3>1, NextWriter
    <3>3. k \in V /\ m \in -1 .. k - 1
      <4>1. CommittedCount \in 0 .. occupancy /\ r <= CommittedCount
        BY CommittedWithinWindow DEF Retiring, RobInv
      <4> QED
        BY <1>2, <3>2, <4>1 DEF V, Below, Writers
    <3>4. retiredFree'[k + 1] = MappingOf(a, m)
      BY <1>4, <3>2, <3>3
    <3>5. k + 1 \in Released'
      BY <1>3, <1>12, <1>20, <3>3, <3>4
    <3> QED
      BY <3>4, <3>5
  <2> QED
    BY <2>1, <2>2
<1>21. ASSUME NEW p \in Phys \ {0}
       PROVE  \/ \E k \in s .. F + q - 1 : Listed(k)' = p
              \/ \E a \in Arch : architectural'[a] = p
              \/ \E x \in Released' : retiredFree'[x] = p
  <2>1. \/ \E i \in R .. R + F - 1 : Listed(i) = p
        \/ \E a \in Arch : architectural[a] = p
        \/ \E lane \in Released : retiredFree[lane] = p
    BY DEF PlacesInv, InOnePlace
  <2>2. ASSUME NEW i \in R .. R + F - 1, Listed(i) = p, i >= R + s
        PROVE  \E k \in s .. F + q - 1 : Listed(k)' = p
    <3>1. PICK k \in s .. F + q - 1 : i = R + k /\ k \in 0 .. F - 1
      <4>1. i - R \in s .. F + q - 1 /\ i = R + (i - R) /\ i - R \in 0 .. F - 1
        BY <2>2
      <4> QED
        BY <4>1
    <3> QED
      BY <1>1, <2>2, <3>1
  <2>3. ASSUME NEW i \in R .. R + F - 1, Listed(i) = p, i < R + s
        PROVE  \E a \in Arch \ {0}, m \in -1 .. r - 1 : SeenBelow(a, m, r) /\ MappingOf(a, m) = p
    <3>1. PICK t \in 0 .. Cardinality(V) - 1 : i = R + t
      <4>1. i - R \in 0 .. s - 1 /\ i = R + (i - R)
        BY <2>3
      <4> QED
        BY <4>1 DEF V
    <3>2. PICK m \in V : Rank(V, m) = t
      BY <1>2, RankOnto
    <3>3. m \in 0 .. r - 1 /\ DestinationAt(m) \in Arch \ {0}
      BY <1>4
    <3>4. Below(V, m) = Below(Writers, m)
      <4>1. \A y \in Writers : y < m => y < r
        BY <1>2, <3>3 DEF Positions
      <4> QED
        BY <4>1 DEF V, Below
    <3>5. MappingOf(DestinationAt(m), m) = Listed(i)
      BY <3>1, <3>2, <3>3, <3>4 DEF MappingOf, GivenTo, Rank
    <3>6. SeenBelow(DestinationAt(m), m, r)
      BY <3>2 DEF SeenBelow, V
    <3> QED
      BY <2>3, <3>3, <3>5, <3>6
  <2>4. ASSUME NEW a \in Arch, architectural[a] = p
        PROVE  \E b \in Arch \ {0}, m \in -1 .. r - 1 : SeenBelow(b, m, r) /\ MappingOf(b, m) = p
    <3>1. a # 0 /\ -1 \in -1 .. r - 1 /\ SeenBelow(a, -1, r) /\ MappingOf(a, -1) = p
      BY <2>4 DEF PlacesInv, SeenBelow, MappingOf
    <3> QED
      BY <3>1
  <2>5. ASSUME NEW lane \in Released, retiredFree[lane] = p
        PROVE  \E k \in s .. F + q - 1 : Listed(k)' = p
    <3>1. Rank(Released, lane) \in Nat /\ Rank(Released, lane) < q
      BY <1>2, RankType, RankLess
    <3>2. PICK k \in s .. F + q - 1 : k = F + Rank(Released, lane)
      BY <1>6, <3>1
    <3> QED
      BY <1>1, <2>5, <3>2
  <2>6. ASSUME NEW a \in Arch \ {0}, NEW m \in -1 .. r - 1,
               SeenBelow(a, m, r), MappingOf(a, m) = p
        PROVE  \/ \E b \in Arch : architectural'[b] = p
               \/ \E x \in Released' : retiredFree'[x] = p
    BY <1>20, <2>6
  <2> QED
    BY <2>1, <2>2, <2>3, <2>4, <2>5, <2>6
<1>22. ConfirmingCount' = s /\ architecturalFreeCount' = F + q
  BY <1>1, <1>5
<1>23. InOnePlace'
  BY <1>14, <1>16, <1>17, <1>18, <1>19, <1>21, <1>22 DEF InOnePlace
<1> QED
  BY <1>5, <1>8, <1>9, <1>23 DEF PlacesInv

(***************************************************************************)
(* Rename.  The registers a group is given, counted as the hardware counts       *)
(* them: the lanes before that ask for one.                                    *)
(***************************************************************************)
Asking(n, group) == {i \in 1 .. n : group[i].rd # 0}
MapBefore(group, i) == MapAfter(speculative, [older \in 1 .. i - 1 |-> RenamedWrites(group)[older]])

LEMMA RenamedRegisters ==
  ASSUME NEW n \in Nat, NEW group, DOMAIN group = 1 .. n, Len(group) = n
  PROVE  /\ Positions(Asking(n, group))
         /\ Requested(group) = Cardinality(Asking(n, group))
         /\ DOMAIN RenamedWrites(group) = 1 .. n
         /\ \A i \in 1 .. n :
               /\ RenamedWrites(group)[i].rd = group[i].rd
               /\ RenamedWrites(group)[i].pdst =
                     IF group[i].rd = 0 THEN 0
                     ELSE freeEntries[AdvanceFree(headPtr, Rank(Asking(n, group), i))]
               /\ RobLane(group, i).payload.rd = group[i].rd
               /\ RobLane(group, i).payload.pdst = RenamedWrites(group)[i].pdst
               /\ RobLane(group, i).payload.oldPdst = MapBefore(group, i)[group[i].rd]
<1>1. Positions(Asking(n, group))
  <2>1. Within(Asking(n, group), 1, n)
    BY DEF Within, Asking
  <2> QED
    BY <2>1, IntervalPositions
<1>2. Requested(group) = Cardinality(Asking(n, group))
  <2>1. {j \in 1 .. (n + 1) - 1 : group[j].rd # 0} = Asking(n, group)
    BY DEF Asking
  <2> QED
    BY <2>1 DEF Requested, CountBefore, WritesRegister
<1>3. ASSUME NEW i \in 1 .. n
      PROVE  Cardinality({j \in 1 .. i - 1 : group[j].rd # 0}) = Rank(Asking(n, group), i)
  <2>1. {j \in 1 .. i - 1 : group[j].rd # 0} = Below(Asking(n, group), i)
    BY DEF Asking, Below
  <2> QED
    BY <2>1 DEF Rank
<1>4. ASSUME NEW i \in 1 .. n
      PROVE  /\ RenamedWrites(group)[i].rd = group[i].rd
             /\ RenamedWrites(group)[i].pdst =
                   IF group[i].rd = 0 THEN 0
                   ELSE freeEntries[AdvanceFree(headPtr, Rank(Asking(n, group), i))]
  BY <1>3 DEF RenamedWrites, WritesRegister, CountBefore, AllocatePdst
<1>5. ASSUME NEW i \in 1 .. n
      PROVE  /\ RobLane(group, i).payload.rd = group[i].rd
             /\ RobLane(group, i).payload.pdst = RenamedWrites(group)[i].pdst
             /\ RobLane(group, i).payload.oldPdst = MapBefore(group, i)[group[i].rd]
  BY DEF RobLane, RenamedSource, MapBefore
<1> QED
  BY <1>1, <1>2, <1>4, <1>5 DEF RenamedWrites

(* Destinations stay architectural registers.                                 *)
LEMMA EdgeKeepsDestinations ==
  ASSUME RobInv, DestinationsInv, BackendNext
  PROVE  DestinationsInv'
<1>1. PICK n \in Nat, interrupt \in BOOLEAN : \E group, outcome :
        EdgeOf(n, group, outcome, interrupt)
  BY CycleIsEdge
<1>2. PICK group, outcome : EdgeOf(n, group, outcome, interrupt)
  BY <1>1
<1>3. CASE Flush
  BY <1>3, FlushEmpties DEF DestinationsInv
<1>4. CASE ~Flush
  <2>1. PICK c \in Nat, left \in Nat : c = CommittedCount /\ c + left = occupancy
    <3>1. CommittedCount \in 0 .. occupancy /\ occupancy \in Nat
      BY CommittedWithinWindow, WindowEntries DEF RobInv
    <3>2. CommittedCount \in Nat /\ occupancy - CommittedCount \in Nat
            /\ CommittedCount + (occupancy - CommittedCount) = occupancy
      BY <3>1
    <3> QED
      BY <3>2
  <2>2. /\ occupancy' = left + n
        /\ \A k \in 0 .. left - 1 : EntryAt(k)'.payload = EntryAt(c + k).payload
        /\ \A i \in 1 .. n : EntryAt(left + i - 1)'.payload = RobLane(group, i).payload
    <3>1. occupancy' = left + n
      <4>1. WindowMoves(n, group, c, left)
        BY <1>2, <1>4, <2>1, PayloadsMove
      <4> QED
        BY <4>1 DEF WindowMoves
    <3>2. \A k \in 0 .. left - 1 : EntryAt(k)'.payload = EntryAt(c + k).payload
      <4>1. WindowMoves(n, group, c, left)
        BY <1>2, <1>4, <2>1, PayloadsMove
      <4> QED
        BY <4>1 DEF WindowMoves
    <3>3. \A i \in 1 .. n : EntryAt(left + i - 1)'.payload = RobLane(group, i).payload
      <4>1. WindowMoves(n, group, c, left)
        BY <1>2, <1>4, <2>1, PayloadsMove
      <4> QED
        BY <4>1 DEF WindowMoves
    <3> QED
      BY <3>1, <3>2, <3>3
  <2> SUFFICES ASSUME NEW k \in 0 .. left + n - 1
               PROVE  EntryAt(k)'.payload.rd \in Arch
    BY <2>2 DEF DestinationsInv, DestinationAt
  <2>3. CASE k < left
    <3>1. k \in 0 .. left - 1 /\ c + k \in 0 .. occupancy - 1
      BY <2>1, <2>3
    <3> QED
      BY <2>2, <3>1 DEF DestinationsInv, DestinationAt
  <2>4. CASE k >= left
    <3>1. PICK i \in 1 .. n : k = left + i - 1
      <4>1. k - left + 1 \in 1 .. n /\ k = left + (k - left + 1) - 1
        BY <2>4
      <4> QED
        BY <4>1
    <3>2. RobLane(group, i).payload.rd = group[i].rd /\ group[i] \in Decoded
      BY <1>2 DEF RobLane, EdgeOf
    <3> QED
      BY <2>2, <3>1, <3>2, DecodedAssumption
  <2> QED
    BY <2>3, <2>4
<1> QED
  BY <1>3, <1>4

LEMMA EdgeKeepsSpeculation ==
  ASSUME RobInv, RingInv, PlacesInv, DestinationsInv, SpeculativeInv,
         RingInv', PlacesInv', DestinationsInv', ~Flush, ~Flush',
         NEW n \in Nat, NEW group, NEW outcome, NEW interrupt,
         EdgeOf(n, group, outcome, interrupt),
         NEW c \in Nat, c = CommittedCount, NEW left \in Nat, c + left = occupancy,
         Retiring(c),
         NEW R \in Nat, R = ConfirmingCount, NEW F \in Nat, R + F = architecturalFreeCount,
         NEW q \in Nat, q = Cardinality(Released),
         NEW s \in Nat, s = Rank(Writers, c), ConfirmingCount' = s,
         NEW w \in Nat, w = Cardinality(Writers),
         NEW g \in Nat, g = Cardinality(Asking(n, group)),
         NEW T, T = Writers'
  PROVE  SpeculativeInv'
<1> DEFINE G == Asking(n, group)
           S == Writers
(* The edge of each component.                                                *)
<1>1. /\ DOMAIN group = 1 .. n /\ Len(group) = n
      /\ FreeListStep(g, retiredFree, FALSE)
      /\ speculative' = MapAfter(speculative, RenamedWrites(group))
      /\ n # 0 => freeCount >= g
  <2>1. DOMAIN group = 1 .. n /\ Len(group) = n
    BY DEF EdgeOf
  <2>2. Requested(group) = g
    BY <2>1, RenamedRegisters
  <2>3. FreeListStep(g, retiredFree, Flush) /\ Flush = FALSE
    BY <2>2 DEF EdgeOf, Cycle, Flush
  <2>4. speculative' = MapAfter(speculative, RenamedWrites(group))
    BY DEF EdgeOf, Cycle, RegisterMapStep
  <2>5. n # 0 => freeCount >= g
    BY <2>2 DEF EdgeOf, ResourcesReady, FreeListReady
  <2> QED
    BY <2>1, <2>3, <2>4, <2>5
<1>2. /\ architecturalHeadPtr' = AdvanceFree(architecturalHeadPtr, R)
      /\ architecturalHeadPtr' \in Phys
      /\ architecturalFreeCount' = F + q
      /\ F + q <= UsableCapacity
      /\ \A k \in 0 .. F - 1 : Listed(k)' = Listed(R + k)
  <2>1. architecturalHeadPtr' = AdvanceFree(architecturalHeadPtr, R)
          /\ architecturalHeadPtr' \in Phys
    BY <1>1, EdgeOfFreeList
  <2>2. architecturalFreeCount' = F + q /\ F + q <= UsableCapacity
    BY <1>1, EdgeOfFreeList
  <2>3. \A k \in 0 .. F - 1 : Listed(k)' = Listed(R + k)
    BY <1>1, EdgeOfFreeList
  <2> QED
    BY <2>1, <2>2, <2>3
<1>3. /\ R + w <= R + F
      /\ headPtr = AdvanceFree(architecturalHeadPtr, R + w)
      /\ freeCount = F - w
      /\ architecturalHeadPtr \in Phys
      /\ R + F <= UsableCapacity /\ UsableCapacity \in Nat /\ PhysicalRegs = UsableCapacity + 1
  BY CoreConfigAssumption DEF SpeculativeInv, RingInv, UsableCapacity
<1>4. w + g <= F
  <2>1. n = 0 => G = {}
    BY DEF Asking
  <2>2. Cardinality({}) = 0
    BY FS_EmptySet
  <2>3. ASSUME n = 0 PROVE g = 0
    <3>1. Asking(n, group) = {}
      BY <2>1, <2>3
    <3> QED
      BY <2>2, <3>1, Zenon
  <2>4. n # 0 => freeCount >= g
    BY <1>1
  <2>5. freeCount = F - w /\ R + w <= R + F
    BY <1>3
  <2> QED
    BY <2>3, <2>4, <2>5
(* The window.                                                               *)
<1>5. occupancy' = left + n
  <2>1. WindowMoves(n, group, c, left)
    BY PayloadsMove
  <2> QED
    BY <2>1 DEF WindowMoves
<1>6. \A k \in 0 .. left - 1 : EntryAt(k)'.payload = EntryAt(c + k).payload
  BY PayloadsKept
<1>7. \A i \in 1 .. n : EntryAt(left + i - 1)'.payload = RobLane(group, i).payload
  <2>1. WindowMoves(n, group, c, left)
    BY PayloadsMove
  <2> QED
    BY <2>1 DEF WindowMoves
<1>8. /\ Positions(G)
      /\ DOMAIN RenamedWrites(group) = 1 .. n
      /\ \A i \in 1 .. n :
            /\ RenamedWrites(group)[i].rd = group[i].rd
            /\ RenamedWrites(group)[i].pdst =
                  IF group[i].rd = 0 THEN 0
                  ELSE freeEntries[AdvanceFree(headPtr, Rank(G, i))]
            /\ RobLane(group, i).payload.rd = group[i].rd
            /\ RobLane(group, i).payload.pdst = RenamedWrites(group)[i].pdst
            /\ RobLane(group, i).payload.oldPdst = MapBefore(group, i)[group[i].rd]
  <2>1. DOMAIN group = 1 .. n /\ Len(group) = n
    BY <1>1
  <2> QED
    BY <2>1, RenamedRegisters, SMTT(30)
<1>9. /\ \A k \in 0 .. left - 1 : DestinationAt(k)' = DestinationAt(c + k)
      /\ \A i \in 1 .. n : DestinationAt(left + i - 1)' = group[i].rd
  BY <1>6, <1>7, <1>8 DEF DestinationAt
<1>10. ASSUME NEW k \in 0 .. left + n - 1, k >= left
       PROVE  \E i \in 1 .. n : k = left + i - 1 /\ i = k - left + 1
  BY <1>10
(* Ranks.                                                                    *)
<1>11. T = Moved(S, G, c, left, n)
  <2>1. T = {k \in 0 .. left + n - 1 : DestinationAt(k)' # 0}
    BY <1>5 DEF Writers
  <2>2. ASSUME NEW k \in 0 .. left + n - 1
        PROVE  DestinationAt(k)' # 0 <=> \/ k < left /\ c + k \in S
                                         \/ k >= left /\ k - left + 1 \in G
    <3>1. CASE k < left
      BY <1>9, <3>1 DEF Writers
    <3>2. CASE k >= left
      <4>1. PICK i \in 1 .. n : k = left + i - 1 /\ i = k - left + 1
        BY <1>10, <3>2
      <4> QED
        BY <1>9, <3>2, <4>1 DEF Asking
    <3> QED
      BY <3>1, <3>2
  <2> QED
    BY <2>1, <2>2 DEF Moved
<1>12. /\ \A k \in 0 .. left : Rank(S, c + k) = s + Rank(T, k)
       /\ \A i \in 1 .. n + 1 : s + Rank(T, left + i - 1) = w + Rank(G, i)
       /\ s + Cardinality(T) = w + g
       /\ Positions(T)
  <2>1. Within(S, 0, c + left - 1) /\ Within(G, 1, n)
    BY DEF Within, Writers, Asking
  <2>2. Within(T, 0, left + n - 1)
    BY <1>11 DEF Within, Moved
  <2>3. Positions(T)
    BY <2>2, IntervalPositions
  <2> HIDE DEF S, G
  <2>4. \A k \in 0 .. left : Rank(S, c + k) = Rank(S, c) + Rank(T, k)
    BY <1>11, <2>1, RankMoves
  <2>5. \A i \in 1 .. n + 1 :
          Rank(S, c) + Rank(T, left + i - 1) = Cardinality(S) + Rank(G, i)
    BY <1>11, <2>1, RankMoves, SMTT(30)
  <2>6. Rank(S, c) + Cardinality(T) = Cardinality(S) + Cardinality(G)
    BY <1>11, <2>1, RankMoves
  <2> QED
    BY <2>3, <2>4, <2>5, <2>6 DEF S, G
(* A destination keeps its register, or is given the next of the ring.         *)
<1>13. ASSUME NEW k \in Int, NEW t \in 0 .. F - 1, t = s + Rank(T, k)
       PROVE  GivenTo(k)' = Listed(R + t)
  <2>1. GivenTo(k)' = Listed(t)'
    BY <1>13 DEF GivenTo, Listed
  <2> QED
    BY <1>2, <2>1
<1>14. ASSUME NEW k \in 0 .. left - 1, DestinationAt(c + k) # 0
       PROVE  GivenTo(k)' = GivenTo(c + k)
  <2>1. c + k \in S
    BY <1>14 DEF Writers
  <2>2. PICK t \in Nat : t = Rank(S, c + k) /\ t < w
    BY <2>1, GivenIsListed
  <2>3. t = s + Rank(T, k) /\ t \in 0 .. F - 1
    BY <1>4, <1>12, <2>2
  <2>4. GivenTo(c + k) = Listed(R + t)
    BY <2>2 DEF GivenTo
  <2> QED
    BY <1>13, <2>3, <2>4
<1>15. ASSUME NEW i \in G
       PROVE  GivenTo(left + i - 1)' = RenamedWrites(group)[i].pdst
  <2>1. i \in 1 .. n /\ group[i].rd # 0
    BY <1>15 DEF Asking
  <2>2. Positions(G)
    BY <1>8
  <2> HIDE DEF G
  <2>3. Rank(G, i) \in Nat /\ Rank(G, i) < g
    BY <2>1, <2>2, RankType, RankLess DEF G
  <2>4. PICK u \in Nat : u = Rank(G, i)
    BY <2>3
  <2>5. w + u = s + Rank(T, left + i - 1) /\ w + u \in 0 .. F - 1
    BY <1>4, <1>12, <2>1, <2>3, <2>4
  <2>6. GivenTo(left + i - 1)' = Listed(R + (w + u))
    BY <1>13, <2>1, <2>5
  <2>7. AdvanceFree(headPtr, u) = AdvanceFree(architecturalHeadPtr, R + (w + u))
    <3>1. R + w \in Nat /\ (R + w) + u <= PhysicalRegs /\ R + (w + u) = (R + w) + u
      BY <1>3, <2>5
    <3> QED
      BY <1>3, <3>1, AdvanceFreeTwice
  <2> QED
    BY <1>8, <2>1, <2>4, <2>6, <2>7 DEF Listed, G
(* Last writers.                                                              *)
<1>16. ASSUME NEW a \in Arch \ {0}, NEW x \in 0 .. left, NEW m \in Int, LastWriter(a, x, m)'
       PROVE  \E l \in -1 .. c + x - 1 :
                 LastWriter(a, c + x, l) /\ MappingOf(a, l) = MappingOf(a, m)'
  <2>1. /\ m \in -1 .. x - 1
        /\ m # -1 => DestinationAt(m)' = a
        /\ \A j \in m + 1 .. x - 1 : DestinationAt(j)' # a
    BY <1>16 DEF LastWriter
  <2>2. ASSUME NEW j \in c + m + 1 .. c + x - 1, j >= c
        PROVE  DestinationAt(j) # a
    <3>1. j - c \in m + 1 .. x - 1 /\ j - c \in 0 .. left - 1 /\ c + (j - c) = j
      BY <2>1, <2>2
    <3> QED
      BY <1>9, <2>1, <3>1
  <2>3. CASE m # -1
    <3>1. m \in 0 .. left - 1 /\ c + m \in 0 .. c + x - 1
      BY <2>1, <2>3
    <3>2. DestinationAt(c + m) = a
      BY <1>9, <2>1, <2>3, <3>1
    <3>3. LastWriter(a, c + x, c + m)
      BY <2>2, <3>1, <3>2 DEF LastWriter
    <3>4. MappingOf(a, m)' = GivenTo(m)' /\ MappingOf(a, c + m) = GivenTo(c + m)
      BY <2>3, <3>1 DEF MappingOf
    <3> QED
      BY <1>14, <3>1, <3>2, <3>3, <3>4
  <2>4. CASE m = -1
    <3>1. PICK l \in -1 .. c - 1 : LastWriter(a, c, l) /\ architectural'[a] = MappingOf(a, l)
      BY RetiredMappings
    <3>2. LastWriter(a, c + x, l)
      BY <2>2, <2>4, <3>1 DEF LastWriter
    <3>3. MappingOf(a, m)' = architectural'[a]
      BY <2>4 DEF MappingOf
    <3> QED
      BY <3>1, <3>2, <3>3
  <2> QED
    BY <2>3, <2>4
<1>17. ASSUME NEW a \in Arch \ {0}, NEW i \in 1 .. n + 1, NEW m \in Int,
              LastWriter(a, left + i - 1, m)'
       PROVE  MapBefore(group, i)[a] = MappingOf(a, m)'
  <2> DEFINE W == [older \in 1 .. i - 1 |-> RenamedWrites(group)[older]]
  <2>1. /\ m \in -1 .. left + i - 2
        /\ m # -1 => DestinationAt(m)' = a
        /\ \A j \in m + 1 .. left + i - 2 : DestinationAt(j)' # a
    BY <1>17 DEF LastWriter
  <2>2. /\ DOMAIN W = 1 .. i - 1 /\ 1 .. i - 1 \subseteq 1 .. n
        /\ \A j \in 1 .. i - 1 : W[j] = RenamedWrites(group)[j] /\ W[j].rd = group[j].rd
    BY <1>8
  <2>3. MapBefore(group, i) = MapAfter(speculative, W)
    BY DEF MapBefore
  <2> HIDE DEF W
  <2>4. ASSUME NEW l \in 1 .. i - 1, left + l - 1 > m
        PROVE  group[l].rd # a
    <3>1. left + l - 1 \in m + 1 .. left + i - 2 /\ l \in 1 .. n
      BY <2>4
    <3> QED
      BY <1>9, <2>1, <3>1
  <2>5. CASE m >= left
    <3>1. PICK j \in 1 .. i - 1 : m = left + j - 1
      <4>1. m - left + 1 \in 1 .. i - 1 /\ m = left + (m - left + 1) - 1
        BY <2>1, <2>5
      <4> QED
        BY <4>1
    <3>2. j \in 1 .. n /\ group[j].rd = a /\ j \in G /\ m # -1
      <4>1. j \in 1 .. n /\ m # -1
        BY <2>5, <3>1
      <4>2. DestinationAt(left + j - 1)' = group[j].rd
        BY <1>9, <4>1
      <4>3. DestinationAt(m)' = a
        BY <2>1, <4>1
      <4>4. group[j].rd = a /\ a # 0
        BY <1>17, <3>1, <4>2, <4>3
      <4>5. j \in G
        BY <4>1, <4>4 DEF Asking
      <4> QED
        BY <4>1, <4>4, <4>5
    <3>3. \A l \in DOMAIN W : W[l].rd = a => l <= j
      BY <2>2, <2>4, <3>1
    <3>4. MapAfter(speculative, W)[a] = W[j].pdst
      <4>1. /\ DOMAIN W = 1 .. i - 1 /\ i - 1 \in Nat /\ j \in 1 .. i - 1
            /\ W[j].rd = a /\ a # 0
        <5>1. W[j].rd = group[j].rd /\ j \in 1 .. i - 1
          BY <2>2, <3>1
        <5>2. group[j].rd = a
          BY <3>2
        <5>3. a # 0 /\ i - 1 \in Nat
          BY <1>17
        <5>4. DOMAIN W = 1 .. i - 1
          BY <2>2
        <5> QED
          BY <5>1, <5>2, <5>3, <5>4
      <4>2. DOMAIN W \subseteq Int /\ j \in DOMAIN W
        BY <4>1
      <4>3. a \in Arch
        BY <1>17
      <4> HIDE DEF G, S
      <4> QED
        BY <3>3, <4>1, <4>2, <4>3, MapAfterLast, SMTT(30)
    <3>5. MappingOf(a, m)' = GivenTo(left + j - 1)'
      BY <3>1, <3>2 DEF MappingOf
    <3>6. GivenTo(left + j - 1)' = RenamedWrites(group)[j].pdst
      BY <1>15, <3>2
    <3>7. W[j].pdst = RenamedWrites(group)[j].pdst
      BY <2>2, <3>1
    <3> QED
      BY <2>3, <3>4, <3>5, <3>6, <3>7
  <2>6. CASE m < left
    <3>1. ASSUME NEW l \in DOMAIN W PROVE W[l].rd # a
      <4>1. l \in 1 .. i - 1 /\ W[l].rd = group[l].rd
        BY <2>2
      <4>2. left + l - 1 > m
        BY <2>1, <2>6, <4>1
      <4> QED
        BY <2>4, <4>1, <4>2
    <3>2. MapAfter(speculative, W)[a] = speculative[a]
      BY <3>1, MapAfterNone
    <3>3. LastWriter(a, left, m)'
      <4>1. m \in -1 .. left - 1 /\ \A j \in m + 1 .. left - 1 : DestinationAt(j)' # a
        BY <2>1, <2>6
      <4> QED
        BY <2>1, <4>1 DEF LastWriter
    <3>4. PICK l \in -1 .. c + left - 1 :
              LastWriter(a, c + left, l) /\ MappingOf(a, l) = MappingOf(a, m)'
      BY <1>16, <3>3
    <3>5. speculative[a] = MappingOf(a, l)
      BY <3>4 DEF SpeculativeInv
    <3> QED
      BY <2>3, <3>2, <3>4, <3>5
  <2> QED
    BY <2>1, <2>5, <2>6
(* The head of the speculative view.                                          *)
<1>18. /\ s + Cardinality(T) <= F + q
       /\ headPtr' = AdvanceFree(architecturalHeadPtr', s + Cardinality(T))
       /\ freeCount' = F + q - s - Cardinality(T)
  <2>1. headPtr' = AdvanceFree(headPtr, g) /\ freeCount' = freeCount - g + q
    BY <1>1 DEF FreeListStep, Released
  <2>2. AdvanceFree(headPtr, g) = AdvanceFree(architecturalHeadPtr, R + w + g)
    <3>1. R + w \in Nat /\ (R + w) + g <= PhysicalRegs
      BY <1>3, <1>4
    <3> QED
      BY <1>3, <3>1, AdvanceFreeTwice
  <2>3. AdvanceFree(architecturalHeadPtr', w + g) = AdvanceFree(architecturalHeadPtr, R + (w + g))
    <3>1. w + g \in Nat /\ R + (w + g) <= PhysicalRegs
      BY <1>3, <1>4
    <3> QED
      BY <1>2, <1>3, <3>1, AdvanceFreeTwice
  <2>4. Cardinality(T) \in Nat
    BY <1>12, SizeType
  <2> QED
    BY <1>3, <1>4, <1>12, <2>1, <2>2, <2>3, <2>4
<1>19. ASSUME NEW k \in 0 .. left + n - 1
       PROVE  EntryAt(k)'.payload.pdst = IF DestinationAt(k)' = 0 THEN 0 ELSE GivenTo(k)'
  <2>1. CASE k < left
    <3>1. k \in 0 .. left - 1 /\ c + k \in 0 .. occupancy - 1
      BY <2>1
    <3>2. EntryAt(c + k).payload.pdst = IF DestinationAt(c + k) = 0 THEN 0 ELSE GivenTo(c + k)
      BY <3>1 DEF SpeculativeInv
    <3> QED
      BY <1>6, <1>9, <1>14, <3>1, <3>2
  <2>2. CASE k >= left
    <3>1. PICK i \in 1 .. n : k = left + i - 1 /\ i = k - left + 1
      BY <1>10, <2>2
    <3>2. EntryAt(k)'.payload.pdst = RenamedWrites(group)[i].pdst
      BY <1>7, <1>8, <3>1
    <3>3. CASE group[i].rd = 0
      BY <1>8, <1>9, <3>1, <3>2, <3>3
    <3>4. CASE group[i].rd # 0
      <4>1. i \in G
        BY <3>4 DEF Asking
      <4> QED
        BY <1>9, <1>15, <3>1, <3>2, <3>4, <4>1
    <3> QED
      BY <3>3, <3>4
  <2> QED
    BY <2>1, <2>2
<1>20. ASSUME NEW k \in Writers', NEW m \in -1 .. k - 1, LastWriter(DestinationAt(k), k, m)'
       PROVE  EntryAt(k)'.payload.oldPdst = MappingOf(DestinationAt(k), m)'
  <2>1. k \in 0 .. left + n - 1 /\ DestinationAt(k)' # 0 /\ DestinationAt(k)' \in Arch
    BY <1>5 DEF Writers, DestinationsInv
  <2>2. CASE k < left
    <3>1. PICK a \in Arch \ {0} : a = DestinationAt(k)'
      BY <2>1
    <3>2. k \in 0 .. left - 1 /\ c + k \in 0 .. occupancy - 1 /\ a = DestinationAt(c + k)
      BY <1>9, <2>1, <2>2, <3>1
    <3>3. LastWriter(a, k, m)'
      BY <1>20, <3>1
    <3>4. PICK l \in -1 .. c + k - 1 :
              LastWriter(a, c + k, l) /\ MappingOf(a, l) = MappingOf(a, m)'
      BY <1>16, <3>2, <3>3
    <3>5. c + k \in Writers
      BY <3>2 DEF Writers
    <3>6. EntryAt(c + k).payload.oldPdst = MappingOf(a, l)
      BY <3>2, <3>4, <3>5 DEF SpeculativeInv
    <3> QED
      BY <1>6, <3>1, <3>2, <3>4, <3>6
  <2>3. CASE k >= left
    <3>1. PICK i \in 1 .. n : k = left + i - 1 /\ i = k - left + 1
      BY <1>10, <2>1, <2>3
    <3>2. PICK a \in Arch \ {0} : a = DestinationAt(k)' /\ a = group[i].rd
      BY <1>9, <2>1, <3>1
    <3>3. LastWriter(a, left + i - 1, m)'
      BY <1>20, <3>1, <3>2
    <3>4. MapBefore(group, i)[a] = MappingOf(a, m)'
      BY <1>17, <3>3
    <3> QED
      BY <1>7, <1>8, <3>1, <3>2, <3>4
  <2> QED
    BY <2>1, <2>2, <2>3
<1>21. ASSUME NEW a \in Arch \ {0}, NEW m \in Int, LastWriter(a, left + n, m)'
       PROVE  speculative'[a] = MappingOf(a, m)'
  <2>1. MapBefore(group, n + 1) = MapAfter(speculative, RenamedWrites(group))
    <3>1. (n + 1) - 1 = n
      OBVIOUS
    <3>2. RenamedWrites(group) = [j \in 1 .. n |-> RenamedWrites(group)[j]]
      BY <1>1 DEF RenamedWrites
    <3> QED
      BY <3>1, <3>2 DEF MapBefore
  <2>2. LastWriter(a, left + (n + 1) - 1, m)'
    BY <1>21
  <2>3. MapBefore(group, n + 1)[a] = MappingOf(a, m)'
    BY <1>17, <2>2
  <2> QED
    BY <1>1, <2>1, <2>3
<1>22. 0 \in Arch /\ speculative' \in [Arch -> Phys] /\ speculative'[0] = 0
  <2>1. 0 \in Arch
    BY CoreConfigAssumption DEF Arch
  <2>2. /\ speculative' = [a \in Arch |-> speculative'[a]]
        /\ speculative'[0] = 0
    BY <1>1, <2>1, MapAfterDomain DEF SpeculativeInv
  <2>3. 0 \in Phys
    BY CoreConfigAssumption DEF Phys
  <2>4. ASSUME NEW a \in Arch \ {0}
        PROVE  speculative'[a] \in Phys
    <3>1. PICK m \in -1 .. left + n - 1 : LastWriter(a, left + n, m)'
      <4>1. left + n \in Nat
        OBVIOUS
      <4>2. (\A k \in Nat, b \in Arch : \E m \in -1 .. k - 1 : LastWriter(b, k, m))'
        BY LastWriterAlways, PTL
      <4> QED
        BY <4>1, <4>2
    <3>2. speculative'[a] = MappingOf(a, m)'
      BY <1>21, <3>1
    <3>3. CASE m = -1
      <4>1. MappingOf(a, m)' = architectural'[a]
        BY <3>3 DEF MappingOf
      <4> QED
        BY <3>2, <4>1 DEF PlacesInv
    <3>4. CASE m # -1
      <4>1. m \in 0 .. left + n - 1 /\ DestinationAt(m)' = a
        BY <3>1, <3>4 DEF LastWriter
      <4>2. m \in T
        BY <1>5, <4>1 DEF Writers
      <4>3. Rank(T, m) \in Nat /\ Rank(T, m) < Cardinality(T) /\ Cardinality(T) \in Nat
        BY <1>12, <4>1, <4>2, RankType, RankLess, SizeType
      <4>4. PICK t \in 0 .. F - 1 : t = s + Rank(T, m)
        BY <1>4, <1>12, <4>3
      <4>5. MappingOf(a, m)' = Listed(R + t)
        BY <1>13, <3>4, <4>1, <4>4 DEF MappingOf
      <4>6. AdvanceFree(architecturalHeadPtr, R + t) \in Phys
        BY <1>3, AdvanceFreeType
      <4> QED
        BY <3>2, <4>5, <4>6 DEF Listed, RingInv
    <3> QED
      BY <3>3, <3>4
  <2> QED
    BY <2>1, <2>2, <2>3, <2>4
<1>23. ConfirmingCount' = s /\ architecturalFreeCount' = F + q /\ occupancy' = left + n
  BY <1>2, <1>5
<1>24. /\ \A k \in 0 .. occupancy' - 1 :
             EntryAt(k)'.payload.pdst = IF DestinationAt(k)' = 0 THEN 0 ELSE GivenTo(k)'
       /\ \A a \in Arch \ {0} : \A m \in -1 .. occupancy' - 1 :
             LastWriter(a, occupancy, m)' => speculative'[a] = MappingOf(a, m)'
  <2>1. ASSUME NEW a \in Arch \ {0}, NEW m \in -1 .. occupancy' - 1,
               LastWriter(a, occupancy, m)'
        PROVE  speculative'[a] = MappingOf(a, m)'
    <3>1. LastWriter(a, left + n, m)'
      BY <1>23, <2>1 DEF LastWriter
    <3> QED
      BY <1>21, <1>23, <3>1
  <2> QED
    BY <1>19, <1>23, <2>1
<1>25. (Cardinality(Writers))' = Cardinality(T)
  OBVIOUS
<1>26. (\A k \in 0 .. occupancy - 1 :
          EntryAt(k).payload.pdst = IF DestinationAt(k) = 0 THEN 0 ELSE GivenTo(k))'
  BY <1>24
<1>27. (\A k \in Writers : \A m \in -1 .. k - 1 :
          LastWriter(DestinationAt(k), k, m)
             => EntryAt(k).payload.oldPdst = MappingOf(DestinationAt(k), m))'
  BY <1>20
<1>28. (\A a \in Arch \ {0} : \A m \in -1 .. occupancy - 1 :
          LastWriter(a, occupancy, m) => speculative[a] = MappingOf(a, m))'
  BY <1>24
<1>29. (ConfirmingCount + Cardinality(Writers) <= architecturalFreeCount)'
  BY <1>18, <1>23, <1>25
<1>30. (headPtr = AdvanceFree(architecturalHeadPtr, ConfirmingCount + Cardinality(Writers)))'
  BY <1>18, <1>23, <1>25
<1>31. (freeCount = architecturalFreeCount - ConfirmingCount - Cardinality(Writers))'
  <2>1. PICK z \in Nat : z = Cardinality(T)
    BY <1>12, SizeType
  <2>2. freeCount' = F + q - s - z /\ (Cardinality(Writers))' = z
    BY <1>18, <1>25, <2>1
  <2> QED
    BY <1>23, <2>2
<1> QED
  BY <1>22, <1>26, <1>27, <1>28, <1>29, <1>30, <1>31 DEF SpeculativeInv

(* A flush drops what is in flight and restores the architectural view.         *)
LEMMA FlushRestoresRegisters ==
  ASSUME RobInv, RingInv', PlacesInv', Flush, BackendNext,
         NEW n \in Nat, NEW group, NEW outcome, NEW interrupt,
         EdgeOf(n, group, outcome, interrupt), ConfirmingCount' = 0
  PROVE  SpeculativeInv'
<1>1. occupancy' = 0
  BY FlushEmpties
<1>2. Writers' = {} /\ Cardinality({}) = 0
  BY <1>1, FS_EmptySet DEF Writers
<1>3. FreeListStep(Requested(group), retiredFree, TRUE)
  BY DEF EdgeOf, Cycle
<1>4. headPtr' = architecturalHeadPtr' /\ freeCount' = architecturalFreeCount'
  BY <1>3 DEF FreeListStep, RestoredHead
<1>5. speculative' = architectural /\ architectural' = architectural
  BY DEF EdgeOf, Cycle, RegisterMapStep, ArchitecturalAfter
<1>6. /\ architecturalHeadPtr' \in Phys /\ architecturalFreeCount' \in Nat
      /\ AdvanceFree(architecturalHeadPtr', 0) = architecturalHeadPtr'
  <2>1. \A p \in Phys : AdvanceFree(p, 0) = p
    BY CoreConfigAssumption DEF AdvanceFree, Phys
  <2> QED
    BY <2>1 DEF RingInv
<1>7. /\ (ConfirmingCount + Cardinality(Writers) <= architecturalFreeCount)'
      /\ (headPtr = AdvanceFree(architecturalHeadPtr, ConfirmingCount + Cardinality(Writers)))'
      /\ (freeCount = architecturalFreeCount - ConfirmingCount - Cardinality(Writers))'
  <2>1. (Cardinality(Writers))' = 0 /\ ConfirmingCount' = 0
    BY <1>2
  <2>2. ConfirmingCount' + (Cardinality(Writers))' = 0
    BY <2>1
  <2>3. (headPtr = AdvanceFree(architecturalHeadPtr, ConfirmingCount + Cardinality(Writers)))'
    BY <1>4, <1>6, <2>2
  <2>4. PICK z \in Nat, t \in Nat : z = ConfirmingCount' /\ t = (Cardinality(Writers))' /\ z = 0 /\ t = 0
    BY <2>1
  <2>5. (ConfirmingCount + Cardinality(Writers) <= architecturalFreeCount)'
    BY <1>6, <2>2
  <2>6. (freeCount = architecturalFreeCount - ConfirmingCount - Cardinality(Writers))'
    <3>1. z = 0 /\ t = 0
      BY <2>4
    <3>2. \A a \in Nat : a = a - z - t
      BY <3>1
    <3>3. architecturalFreeCount' = architecturalFreeCount' - z - t
      BY <1>6, <3>2
    <3> QED
      BY <1>4, <2>4, <3>3
  <2> QED
    BY <2>3, <2>5, <2>6
<1>8. /\ (\A k \in 0 .. occupancy - 1 :
             EntryAt(k).payload.pdst = IF DestinationAt(k) = 0 THEN 0 ELSE GivenTo(k))'
      /\ (\A k \in Writers : \A m \in -1 .. k - 1 :
             LastWriter(DestinationAt(k), k, m)
                => EntryAt(k).payload.oldPdst = MappingOf(DestinationAt(k), m))'
  BY <1>1, <1>2
<1>9. (\A a \in Arch \ {0} : \A m \in -1 .. occupancy - 1 :
          LastWriter(a, occupancy, m) => speculative[a] = MappingOf(a, m))'
  BY <1>1, <1>5 DEF MappingOf
<1>10. speculative' \in [Arch -> Phys] /\ speculative'[0] = 0
  BY <1>5 DEF PlacesInv
<1> QED
  BY <1>7, <1>8, <1>9, <1>10 DEF SpeculativeInv

LEMMA EdgeKeepsRegisters ==
  ASSUME RobInv, RegistersInv, BackendNext
  PROVE  RegistersInv'
<1>1. RingInv /\ PlacesInv /\ DestinationsInv /\ (~Flush => SpeculativeInv)
  BY DEF RegistersInv
<1>2. PICK n \in Nat, interrupt \in BOOLEAN : \E group, outcome :
        EdgeOf(n, group, outcome, interrupt)
  BY CycleIsEdge
<1>3. PICK group, outcome : EdgeOf(n, group, outcome, interrupt)
  BY <1>2
<1>4. PICK r \in Nat : Retiring(r)
  BY <1>1, <1>3, EdgeRetires DEF PlacesInv
<1>5. r # 0 => SpeculativeInv
  BY <1>1, <1>4 DEF Retiring
<1>6. FreeListStep(Requested(group), retiredFree, Flush)
  BY <1>3 DEF EdgeOf, Cycle
<1>7. /\ Positions(Writers) /\ Positions(Below(Writers, r))
      /\ Cardinality(Writers) \in Nat /\ Cardinality(Below(Writers, r)) \in Nat
      /\ ConfirmingCount \in Nat /\ Cardinality(Released) \in Nat
  <2>1. Below(Writers, r) \subseteq Writers
    BY DEF Below
  <2> QED
    BY <1>1, <2>1, WritersPositions, BatchPositions, SubsetPositions, SizeType
<1>8. PICK R \in Nat, F \in Nat : R = ConfirmingCount /\ R + F = architecturalFreeCount
  <2>1. architecturalFreeCount - ConfirmingCount \in Nat
          /\ ConfirmingCount + (architecturalFreeCount - ConfirmingCount) = architecturalFreeCount
    BY <1>1, <1>7 DEF RingInv
  <2> QED
    BY <1>7, <2>1
<1>9. PICK q \in Nat : q = Cardinality(Released)
  BY <1>7
<1>10. PICK s \in Nat : s = Cardinality(Below(Writers, r))
  BY <1>7
<1>11. ConfirmingCount' = s /\ RingInv' /\ PlacesInv'
  BY <1>1, <1>4, <1>5, <1>6, <1>8, <1>9, <1>10, EdgeKeepsPlaces
<1>12. DestinationsInv'
  BY <1>1, EdgeKeepsDestinations
<1>13. ASSUME ~Flush'
       PROVE  SpeculativeInv'
  <2>1. CASE Flush
    <3>1. r = 0
      BY <1>4, <2>1 DEF Retiring
    <3>2. Below(Writers, 0) = {}
      BY DEF Below, Writers
    <3>3. s = 0
      BY <1>10, <3>1, <3>2, FS_EmptySet
    <3> QED
      BY <1>3, <1>11, <2>1, <3>3, FlushRestoresRegisters
  <2>2. CASE ~Flush
    <3>1. r = CommittedCount
      BY <1>4, <1>13, <2>2 DEF Retiring
    <3>2. PICK left \in Nat : r + left = occupancy
      <4>1. CommittedCount \in 0 .. occupancy /\ occupancy \in Nat
        BY CommittedWithinWindow, WindowEntries DEF RobInv
      <4>2. occupancy - r \in Nat /\ r + (occupancy - r) = occupancy
        BY <3>1, <4>1
      <4> QED
        BY <4>2
    <3>3. PICK g \in Nat : g = Cardinality(Asking(n, group))
      <4>1. DOMAIN group = 1 .. n /\ Len(group) = n
        BY <1>3 DEF EdgeOf
      <4> QED
        BY <4>1, RenamedRegisters, SizeType
    <3>4. PICK w \in Nat : w = Cardinality(Writers)
      BY <1>7
    <3>5. s = Rank(Writers, r)
      BY <1>10 DEF Rank
    <3>6. SpeculativeInv
      BY <1>1, <2>2
    <3> QED
      BY <1>1, <1>3, <1>4, <1>8, <1>9, <1>11, <1>12, <1>13, <2>2,
         <3>1, <3>2, <3>3, <3>4, <3>5, <3>6, EdgeKeepsSpeculation
  <2> QED
    BY <2>1, <2>2
<1> QED
  BY <1>11, <1>12, <1>13 DEF RegistersInv

(***************************************************************************)
(* The invariant holds in every state, and says where each register is.         *)
(***************************************************************************)
LEMMA RegistersInit == BackendInit => RegistersInv
<1> SUFFICES ASSUME BackendInit PROVE RegistersInv
  OBVIOUS
<1>1. /\ freeEntries = [i \in Phys |-> IF i < UsableCapacity THEN i + 1 ELSE 0]
      /\ headPtr = 0 /\ architecturalHeadPtr = 0 /\ tailPtr = UsableCapacity
      /\ freeCount = UsableCapacity /\ architecturalFreeCount = UsableCapacity
      /\ speculative = [a \in Arch |-> 0] /\ architectural = [a \in Arch |-> 0]
      /\ occupancy = 0 /\ retiredFree = <<>>
  BY DEF BackendInit, FreeListInit, RegisterMapInit, RobInit
<1>2. /\ PhysicalRegs \in Nat /\ UsableCapacity = PhysicalRegs - 1 /\ UsableCapacity \in Nat
      /\ Phys = 0 .. PhysicalRegs - 1 /\ 0 \in Phys /\ 0 \in Arch /\ CommitWidth \in Nat
  BY CoreConfigAssumption DEF UsableCapacity, Phys, Arch
<1>3. DOMAIN retiredFree = {} /\ Released = {} /\ Writers = {} /\ Cardinality({}) = 0
  BY <1>1, FS_EmptySet DEF Released, Writers
<1>4. ConfirmingCount = 0 /\ Cardinality(Writers) = 0
  BY <1>3 DEF ConfirmingCount
<1>5. \A k \in 0 .. UsableCapacity : AdvanceFree(0, k) = k
  BY <1>2 DEF AdvanceFree
<1>6. ASSUME NEW k \in 0 .. UsableCapacity - 1
      PROVE  Listed(k) = k + 1
  <2>1. AdvanceFree(0, k) = k /\ k \in Phys /\ k < UsableCapacity
    BY <1>2, <1>5
  <2> QED
    BY <1>1, <2>1 DEF Listed
<1>7. RingInv
  <2>1. freeEntries \in [Phys -> Phys]
    BY <1>1, <1>2
  <2>2. tailPtr = AdvanceFree(architecturalHeadPtr, architecturalFreeCount)
    BY <1>1, <1>2, <1>5
  <2> QED
    BY <1>1, <1>2, <1>3, <1>4, <2>1, <2>2 DEF RingInv, Within
<1>8. InOnePlace
  <2>1. ASSUME NEW p \in Phys \ {0}
        PROVE  \E k \in 0 .. UsableCapacity - 1 : Listed(k) = p
    <3>1. p - 1 \in 0 .. UsableCapacity - 1 /\ p = (p - 1) + 1
      BY <1>2
    <3> QED
      BY <1>6, <3>1
  <2>2. \A a \in Arch : architectural[a] = 0
    BY <1>1
  <2>3. \A k \in 0 .. UsableCapacity - 1 : Listed(k) = k + 1 /\ k + 1 # 0
    BY <1>6
  <2> QED
    BY <1>1, <1>3, <1>4, <2>1, <2>2, <2>3 DEF InOnePlace
<1>9. PlacesInv
  BY <1>1, <1>2, <1>8 DEF PlacesInv
<1>10. SpeculativeInv
  <2>1. AdvanceFree(architecturalHeadPtr, 0) = 0
    BY <1>1, <1>2, <1>5
  <2>2. \A a \in Arch : MappingOf(a, -1) = 0
    BY <1>1 DEF MappingOf
  <2> QED
    BY <1>1, <1>2, <1>3, <1>4, <2>1, <2>2 DEF SpeculativeInv
<1> QED
  BY <1>1, <1>7, <1>9, <1>10 DEF RegistersInv, DestinationsInv

THEOREM RegistersInvariant == BackendSpec => []RegistersInv
<1>1. RobInv /\ RegistersInv /\ [BackendNext]_backendVars => RegistersInv'
  <2>1. CASE BackendNext
    BY <2>1, EdgeKeepsRegisters
  <2>2. CASE UNCHANGED backendVars
    <3> SUFFICES ASSUME RegistersInv, UNCHANGED backendVars PROVE RegistersInv'
      BY <2>2
    <3>1. /\ UNCHANGED <<freeEntries, headPtr, architecturalHeadPtr, tailPtr, freeCount,
                         architecturalFreeCount, speculative, architectural, entries,
                         commitPointer, occupancy, retiredFree>>
          /\ Flush' = Flush
      BY DEF Flush, ExternalRedirect, IdleRedirect, backendVars, freeListVars, registerMapVars,
             robVars, idleVars
    <3>2. RingInv'
      BY <3>1 DEF RegistersInv, RingInv, ConfirmingCount
    <3>3. PlacesInv'
      BY <3>1 DEF RegistersInv, PlacesInv, InOnePlace, Listed, Released, ConfirmingCount
    <3>4. DestinationsInv'
      BY <3>1 DEF RegistersInv, DestinationsInv, DestinationAt, EntryAt, Position
    <3>5. SpeculativeInv => SpeculativeInv'
      BY <3>1 DEF SpeculativeInv, Listed, DestinationAt, Writers, LastWriter, GivenTo, MappingOf,
                  Rank, Below, ConfirmingCount, EntryAt, Position
    <3> QED
      BY <3>1, <3>2, <3>3, <3>4, <3>5 DEF RegistersInv
  <2> QED
    BY <2>1, <2>2
<1> QED
  BY <1>1, RegistersInit, RobInvariant, PTL DEF BackendSpec

LEMMA PartitionOfTwo ==
  ASSUME NEW A, NEW B, NEW W, A \cup B = W, A \cap B = {}
  PROVE  Partition(<<A, B>>, W)
BY DEF Partition

LEMMA PartitionOfThree ==
  ASSUME NEW A, NEW B, NEW C, NEW W, A \cup B \cup C = W,
         A \cap B = {}, A \cap C = {}, B \cap C = {}
  PROVE  Partition(<<A, B, C>>, W)
BY DEF Partition

(* The slots behind the confirmed ones, the map and the batch share Phys.        *)
LEMMA ArchitecturalPartition ==
  ASSUME RingInv, PlacesInv
  PROVE  ArchitecturalFreeListExact
<1> DEFINE I == ConfirmingCount .. architecturalFreeCount - 1
           f == [k \in I |-> Listed(k)]
<1>1. /\ ConfirmingCount \in Nat /\ architecturalFreeCount \in Nat
      /\ ConfirmingCount <= architecturalFreeCount
      /\ architecturalFreeCount <= UsableCapacity /\ UsableCapacity = PhysicalRegs - 1
      /\ PhysicalRegs \in Nat
  BY BatchPositions, CoreConfigAssumption DEF RingInv, UsableCapacity
<1>2. \A k \in I : Listed(k) \in Phys
  <2> TAKE k \in I
  <2>1. k \in 0 .. PhysicalRegs
    BY <1>1
  <2>2. AdvanceFree(architecturalHeadPtr, k) \in Phys
    BY <2>1, AdvanceFreeType DEF RingInv
  <2> QED
    BY <2>2 DEF Listed, RingInv
<1>3. ConfirmedFreeRegs = {f[k] : k \in I}
  BY DEF ConfirmedFreeRegs, Listed
<1>4. Cardinality(ConfirmedFreeRegs) = architecturalFreeCount - ConfirmingCount
  <2>1. IsFiniteSet(I) /\ Cardinality(I) = architecturalFreeCount - ConfirmingCount
    BY <1>1, IntervalSize
  <2>2. I \subseteq DOMAIN f /\ \A x, y \in I : f[x] = f[y] => x = y
    BY DEF PlacesInv, InOnePlace
  <2> HIDE DEF I, f
  <2> QED
    BY <1>3, <2>1, <2>2, ImageSize
<1>5. ConfirmedFreeRegs = {Listed(k) : k \in I}
  BY <1>3
<1>6. RetiringRegs = {retiredFree[lane] : lane \in Released}
  BY DEF RetiringRegs, Released
<1>7. ConfirmedFreeRegs \cup MappedRegs \cup RetiringRegs = Phys \ {0}
  <2>1. ConfirmedFreeRegs \subseteq Phys \ {0}
    BY <1>2, <1>5 DEF PlacesInv, InOnePlace
  <2>2. MappedRegs \subseteq Phys \ {0}
    BY DEF MappedRegs, PlacesInv
  <2>3. RetiringRegs \subseteq Phys \ {0}
    BY <1>6 DEF RingInv, Released
  <2>4. ASSUME NEW p \in Phys \ {0}
        PROVE  p \in ConfirmedFreeRegs \cup MappedRegs \cup RetiringRegs
    BY <1>5, <1>6 DEF MappedRegs, PlacesInv, InOnePlace
  <2> QED
    BY <2>1, <2>2, <2>3, <2>4
<1>8. ConfirmedFreeRegs \cap MappedRegs = {} /\ ConfirmedFreeRegs \cap RetiringRegs = {}
  BY <1>5, <1>6 DEF MappedRegs, PlacesInv, InOnePlace
<1>9. MappedRegs \cap RetiringRegs = {}
  BY <1>6 DEF MappedRegs, PlacesInv, InOnePlace
<1>10. Partition(<<ConfirmedFreeRegs, MappedRegs, RetiringRegs>>, Phys \ {0})
  BY <1>7, <1>8, <1>9, PartitionOfThree
<1> QED
  BY <1>4, <1>10 DEF ArchitecturalFreeListExact

(* Of them the first ones are the destinations in flight, in their order.         *)
LEMMA SpeculativePartition ==
  ASSUME RobInv, RingInv, PlacesInv, SpeculativeInv
  PROVE  /\ Partition(<<FreeRegs, InFlightRegs>>, ConfirmedFreeRegs)
         /\ Cardinality(FreeRegs) = freeCount
         /\ \A i, j \in LiveEntries :
               i # j /\ entries[i].payload.pdst # 0 =>
                   entries[i].payload.pdst # entries[j].payload.pdst
<1>1. PICK R \in Nat, A \in Nat, w \in Nat :
        /\ R = ConfirmingCount /\ A = architecturalFreeCount /\ w = Cardinality(Writers)
  BY WritersPositions, BatchPositions DEF RingInv
<1>2. /\ R + w <= A /\ A <= UsableCapacity /\ UsableCapacity = PhysicalRegs - 1
      /\ PhysicalRegs \in Nat /\ architecturalHeadPtr \in Phys
      /\ headPtr = AdvanceFree(architecturalHeadPtr, R + w)
      /\ freeCount = A - R - w /\ freeCount = A - (R + w)
  BY <1>1, CoreConfigAssumption DEF RingInv, SpeculativeInv, UsableCapacity
<1> DEFINE I == R .. A - 1
           J == R + w .. A - 1
           f == [k \in J |-> Listed(k)]
<1>3. ConfirmedFreeRegs = {Listed(k) : k \in I}
  BY <1>1 DEF ConfirmedFreeRegs, Listed
<1>4. FreeRegs = {Listed(k) : k \in J}
  <2>1. ASSUME NEW k \in 0 .. freeCount - 1
        PROVE  R + w + k \in J /\ freeEntries[AdvanceFree(headPtr, k)] = Listed(R + w + k)
    <3>1. k \in Nat /\ R + w \in Nat /\ R + w + k <= A - 1 /\ (R + w) + k <= PhysicalRegs
      BY <1>2
    <3>2. AdvanceFree(headPtr, k) = AdvanceFree(architecturalHeadPtr, R + w + k)
      BY <1>2, <3>1, AdvanceFreeTwice
    <3> QED
      BY <3>1, <3>2 DEF Listed
  <2>2. ASSUME NEW k \in J
        PROVE  \E l \in 0 .. freeCount - 1 : Listed(k) = freeEntries[AdvanceFree(headPtr, l)]
    <3>1. k - (R + w) \in 0 .. freeCount - 1 /\ R + w + (k - (R + w)) = k
      BY <1>2
    <3> QED
      BY <2>1, <3>1
  <2> QED
    BY <2>1, <2>2 DEF FreeRegs, FreeSlots
<1>5. Cardinality(FreeRegs) = freeCount
  <2>1. IsFiniteSet(J) /\ Cardinality(J) = freeCount
    BY <1>2, IntervalSize
  <2>2. J \subseteq DOMAIN f /\ \A x, y \in J : f[x] = f[y] => x = y
    BY <1>1 DEF PlacesInv, InOnePlace
  <2>3. FreeRegs = {f[k] : k \in J}
    BY <1>4
  <2> HIDE DEF J, f
  <2> QED
    BY <2>1, <2>2, <2>3, ImageSize
(* The live entries stand at the positions of the window.                       *)
<1>6. /\ \A i \in LiveEntries : \E k \in 0 .. occupancy - 1 :
             i = Index(Position(k)) /\ entries[i] = EntryAt(k)
      /\ \A k \in 0 .. occupancy - 1 : Index(Position(k)) \in LiveEntries
  <2>1. \A k \in 0 .. occupancy - 1 : Index(Position(k)) \in RobIndex
    BY AdvanceRobType, IndexType, CoreConfigAssumption
       DEF RobInv, RobWindowInv, PointersInv, Position
  <2> QED
    BY <2>1 DEF RobInv, RobWindowInv, EntriesInv, LiveEntries, EntryAt
<1>7. ASSUME NEW k \in 0 .. occupancy - 1
      PROVE  EntryAt(k).payload.pdst = IF k \in Writers THEN GivenTo(k) ELSE 0
  BY DEF SpeculativeInv, Writers
<1>8. ASSUME NEW k \in Writers
      PROVE  /\ GivenTo(k) = Listed(R + Rank(Writers, k))
             /\ R + Rank(Writers, k) \in R .. R + w - 1
             /\ R + Rank(Writers, k) \in I
             /\ k \in 0 .. occupancy - 1
             /\ GivenTo(k) # 0
  <2>1. Rank(Writers, k) \in Nat /\ Rank(Writers, k) < w
    BY <1>1, GivenIsListed
  <2>2. R + Rank(Writers, k) \in R .. R + w - 1 /\ R + Rank(Writers, k) \in I
    BY <1>2, <2>1
  <2> QED
    BY <1>1, <2>2 DEF GivenTo, Writers, PlacesInv, InOnePlace
<1>9. InFlightRegs = {GivenTo(k) : k \in Writers}
  <2>1. ASSUME NEW i \in LiveEntries, entries[i].payload.pdst # 0
        PROVE  \E k \in Writers : entries[i].payload.pdst = GivenTo(k)
    BY <1>6, <1>7, <2>1
  <2>2. ASSUME NEW k \in Writers
        PROVE  GivenTo(k) # 0 /\ \E i \in LiveEntries : entries[i].payload.pdst = GivenTo(k)
    BY <1>6, <1>7, <1>8 DEF EntryAt
  <2> QED
    BY <2>1, <2>2 DEF InFlightRegs
<1>10. FreeRegs \cup InFlightRegs = ConfirmedFreeRegs
  <2>1. ASSUME NEW k \in I, k \notin J
        PROVE  Listed(k) \in InFlightRegs
    <3>1. k - R \in 0 .. w - 1 /\ R + (k - R) = k
      BY <1>2, <2>1
    <3>2. PICK x \in Writers : Rank(Writers, x) = k - R
      BY <1>1, <3>1, WritersPositions, RankOnto
    <3> QED
      BY <1>8, <1>9, <3>1, <3>2
  <2>2. J \subseteq I
    BY <1>2
  <2> QED
    BY <1>3, <1>4, <1>8, <1>9, <2>1, <2>2
<1>11. FreeRegs \cap InFlightRegs = {}
  <2>1. ASSUME NEW k \in J, NEW x \in Writers
        PROVE  Listed(k) # GivenTo(x)
    <3>1. k \in I /\ k # R + Rank(Writers, x)
      BY <1>2, <1>8
    <3> QED
      BY <1>1, <1>8, <3>1 DEF PlacesInv, InOnePlace
  <2> QED
    BY <1>4, <1>9, <2>1
<1>12. ASSUME NEW i \in LiveEntries, NEW j \in LiveEntries, i # j,
              entries[i].payload.pdst # 0
       PROVE  entries[i].payload.pdst # entries[j].payload.pdst
  <2>1. PICK k \in 0 .. occupancy - 1 : i = Index(Position(k)) /\ entries[i] = EntryAt(k)
    BY <1>6
  <2>2. PICK l \in 0 .. occupancy - 1 : j = Index(Position(l)) /\ entries[j] = EntryAt(l)
    BY <1>6
  <2>3. k \in Writers /\ entries[i].payload.pdst = GivenTo(k) /\ k # l
    BY <1>7, <1>12, <2>1, <2>2
  <2>4. CASE l \in Writers
    <3>1. k \in Int /\ l \in Int /\ Positions(Writers)
      BY WritersPositions DEF Positions
    <3>2. Rank(Writers, k) \in Nat /\ Rank(Writers, l) \in Nat
      BY <3>1, RankType
    <3>3. Rank(Writers, k) # Rank(Writers, l)
      <4>1. k < l => Rank(Writers, k) < Rank(Writers, l)
        BY <2>3, <3>1, RankStrict
      <4>2. l < k => Rank(Writers, l) < Rank(Writers, k)
        BY <2>4, <3>1, RankStrict
      <4> QED
        BY <2>3, <3>1, <3>2, <4>1, <4>2
    <3>4. R + Rank(Writers, k) # R + Rank(Writers, l)
      BY <3>2, <3>3
    <3>5. GivenTo(k) # GivenTo(l)
      BY <1>1, <1>8, <2>3, <2>4, <3>4 DEF PlacesInv, InOnePlace
    <3> QED
      BY <1>7, <2>2, <2>3, <2>4, <3>5
  <2>5. CASE l \notin Writers
    BY <1>7, <1>8, <2>2, <2>3, <2>5
  <2> QED
    BY <2>4, <2>5
<1>13. Partition(<<FreeRegs, InFlightRegs>>, ConfirmedFreeRegs)
  BY <1>10, <1>11, PartitionOfTwo
<1> QED
  BY <1>5, <1>12, <1>13

(* No physical register is lost or shared, in the architectural view always and    *)
(* in the speculative one outside recovery: rename, retirement, the registered     *)
(* batch and the flush that restores the head agree for every size of the core.    *)
THEOREM RegistersExact == BackendSpec => []NoRegisterLostOrShared
<1>1. RobInv /\ RegistersInv => NoRegisterLostOrShared
  BY ArchitecturalPartition, SpeculativePartition
     DEF RegistersInv, NoRegisterLostOrShared, SpeculativeFreeListExact
<1> QED
  BY <1>1, RobInvariant, RegistersInvariant, PTL

(***************************************************************************)
(* What the registers hold.  The two invariants of the runs are not inductive:    *)
(* that a retired mapping holds its result needs the complete entries of the      *)
(* window to hold theirs, and that needs a registered result to carry the         *)
(* destination of the entry it completes.                                      *)
(***************************************************************************)
Held(p) == registers[p] = "result"
OwnResultsInv ==
    /\ \A c \in stagedCompletion : \A k \in 0 .. occupancy - 1 :
          c.robPointer = Position(k) => c.pdst = EntryAt(k).payload.pdst
    /\ \A u \in executing : \A k \in 0 .. occupancy - 1 :
          u.live /\ u.robPointer = Position(k) => u.pdst = EntryAt(k).payload.pdst
CompleteHeldInv ==
    \A k \in 0 .. occupancy - 1 :
        /\ EntryAt(k).complete
        /\ ~EntryAt(k).exception
        /\ EntryAt(k).payload.pdst # 0
        => Held(EntryAt(k).payload.pdst)
ContentsInv ==
    /\ Held(0)
    /\ OwnResultsInv
    /\ CompleteHeldInv
    /\ ArchitecturalStatePreserved
    /\ ReadySourcesHoldResults

(* A register just given out is neither mapped nor another uop's.                *)
LEMMA NewRegisters ==
  ASSUME RobInv, RegistersInv, ~Flush,
         NEW n \in Nat, NEW group, NEW outcome, NEW interrupt,
         EdgeOf(n, group, outcome, interrupt),
         NEW i \in 1 .. n, RenamedWrites(group)[i].pdst # 0
  PROVE  /\ RenamedWrites(group)[i].pdst \in Phys
         /\ \A a \in Arch : RenamedWrites(group)[i].pdst # architectural[a]
         /\ \A k \in Writers : RenamedWrites(group)[i].pdst # GivenTo(k)
<1> DEFINE G == Asking(n, group)
<1>1. /\ DOMAIN group = 1 .. n /\ Len(group) = n /\ ResourcesReady(group)
      /\ RingInv /\ PlacesInv /\ SpeculativeInv
  BY DEF EdgeOf, RegistersInv
<1>2. /\ Positions(G) /\ Requested(group) = Cardinality(G) /\ i \in G
      /\ RenamedWrites(group)[i].pdst = freeEntries[AdvanceFree(headPtr, Rank(G, i))]
  <2>1. Positions(G) /\ Requested(group) = Cardinality(G)
    BY <1>1, RenamedRegisters
  <2>2. RenamedWrites(group)[i].pdst =
           IF group[i].rd = 0 THEN 0 ELSE freeEntries[AdvanceFree(headPtr, Rank(G, i))]
    BY <1>1, RenamedRegisters
  <2>3. group[i].rd # 0
    BY <2>2
  <2> QED
    BY <2>1, <2>2, <2>3 DEF Asking
<1>3. PICK R \in Nat, A \in Nat, w \in Nat :
        /\ R = ConfirmingCount /\ A = architecturalFreeCount /\ w = Cardinality(Writers)
  BY <1>1, WritersPositions, BatchPositions DEF RingInv
<1>4. /\ A <= UsableCapacity /\ UsableCapacity = PhysicalRegs - 1
      /\ PhysicalRegs \in Nat /\ architecturalHeadPtr \in Phys
      /\ headPtr = AdvanceFree(architecturalHeadPtr, R + w)
      /\ freeCount = A - (R + w)
      /\ freeCount >= Cardinality(G)
  BY <1>1, <1>2, <1>3, CoreConfigAssumption
     DEF RingInv, SpeculativeInv, UsableCapacity, ResourcesReady, FreeListReady
<1> HIDE DEF G
<1>5. PICK u \in Nat : u = Rank(G, i) /\ u < Cardinality(G) /\ Cardinality(G) \in Nat
  BY <1>2, RankType, RankLess, SizeType
<1>6. R + w + u \in R .. A - 1 /\ (R + w) + u <= PhysicalRegs /\ R + w \in Nat
  BY <1>4, <1>5
<1>7. RenamedWrites(group)[i].pdst = Listed(R + w + u)
  <2>1. AdvanceFree(headPtr, u) = AdvanceFree(architecturalHeadPtr, R + w + u)
    BY <1>4, <1>6, AdvanceFreeTwice
  <2> QED
    BY <1>2, <1>5, <2>1 DEF Listed
<1>8. ASSUME NEW k \in Writers
      PROVE  Listed(R + w + u) # GivenTo(k)
  <2>1. PICK t \in Nat : t = Rank(Writers, k) /\ t < w
    BY <1>1, <1>3, GivenIsListed
  <2>2. R + t \in R .. A - 1 /\ R + t # R + w + u
    BY <1>5, <1>6, <2>1
  <2>3. GivenTo(k) = Listed(R + t)
    BY <1>3, <2>1 DEF GivenTo
  <2> QED
    BY <1>1, <1>3, <1>6, <2>2, <2>3 DEF PlacesInv, InOnePlace
<1>9. Listed(R + w + u) \in Phys
  <2>1. AdvanceFree(architecturalHeadPtr, R + w + u) \in Phys
    BY <1>4, <1>6, AdvanceFreeType
  <2> QED
    BY <1>1, <2>1 DEF Listed, RingInv
<1> QED
  BY <1>1, <1>3, <1>6, <1>7, <1>8, <1>9 DEF PlacesInv, InOnePlace

(* Outside a flush a held register stays held until it is given out again, and    *)
(* one with a registered result becomes held.                                   *)
LEMMA HeldStays ==
  ASSUME StagedInv, ~Flush,
         NEW n \in Nat, NEW group, NEW outcome, NEW interrupt,
         EdgeOf(n, group, outcome, interrupt),
         NEW p \in Phys, Held(p) \/ p \in WakeupCandidates,
         p = 0 \/ \A i \in 1 .. n : RenamedWrites(group)[i].pdst # p
  PROVE  Held(p)'
<1>1. RegistersStep(group) /\ DOMAIN group = 1 .. n
  BY DEF EdgeOf, Cycle
<1>2. ~ \E c \in stagedCompletion : c.pdst = p /\ ~c.live
  BY DEF StagedInv
<1>3. Wakeups(Flush) = WakeupCandidates
  BY DEF Wakeups
<1> QED
  BY <1>1, <1>2, <1>3 DEF RegistersStep, Held

(* A result keeps the destination of the entry it stands for.                    *)
LEMMA EdgeKeepsOwnResults ==
  ASSUME RobInv, ResultsInv, OwnResultsInv, BackendNext
  PROVE  OwnResultsInv'
<1>1. PICK n \in Nat, interrupt \in BOOLEAN : \E group, outcome :
        EdgeOf(n, group, outcome, interrupt)
  BY CycleIsEdge
<1>2. PICK group, outcome : EdgeOf(n, group, outcome, interrupt)
  BY <1>1
<1>3. CASE Flush
  BY <1>3, FlushEmpties DEF OwnResultsInv
<1>4. CASE ~Flush
  <2>1. PICK c \in Nat, left \in Nat : c = CommittedCount /\ c + left = occupancy
    <3>1. CommittedCount \in 0 .. occupancy /\ occupancy \in Nat
      BY CommittedWithinWindow, WindowEntries DEF RobInv
    <3>2. CommittedCount \in Nat /\ occupancy - CommittedCount \in Nat
            /\ CommittedCount + (occupancy - CommittedCount) = occupancy
      BY <3>1
    <3> QED
      BY <3>2
  <2>2. /\ c + left + n \in 0 .. RobEntries /\ RobEntries \in Nat
        /\ occupancy' = left + n
        /\ \A k \in 0 .. left + n - 1 : Position(k)' = Position(c + k)
    <3>1. /\ occupancy + n \in 0 .. RobEntries /\ RobEntries \in Nat
          /\ occupancy' = occupancy - CommittedCount + n
          /\ \A k \in 0 .. occupancy - CommittedCount - 1 :
                Position(k)' = Position(CommittedCount + k)
          /\ \A k \in occupancy - CommittedCount .. occupancy' - 1 :
                Position(k)' = Position(CommittedCount + k)
      BY <1>2, <1>4, EdgeMovesWindow, CoreConfigAssumption
    <3>2. occupancy - CommittedCount = left /\ occupancy' = left + n
      BY <2>1, <3>1
    <3> QED
      BY <2>1, <3>1, <3>2
  <2>3. ASSUME NEW k \in 0 .. left + n - 1, NEW j \in 0 .. RobEntries - 1,
               Position(k)' = Position(j)
        PROVE  j = c + k
    <3>1. c + k \in 0 .. RobEntries - 1 /\ Position(c + k) = Position(j)
      BY <2>2, <2>3
    <3> QED
      BY <3>1, PositionsDistinct
  <2>4. ASSUME NEW u \in executing, u.live, NEW k \in 0 .. left + n - 1,
               u.robPointer = Position(k)'
        PROVE  u.pdst = EntryAt(k)'.payload.pdst
    <3>1. PICK j \in 0 .. occupancy - 1 : u.robPointer = Position(j)
      BY <1>4, <2>4 DEF ResultsInv, OwedInv, Placed
    <3>2. j \in 0 .. RobEntries - 1 /\ occupancy = c + left
      BY <2>1, <2>2, <3>1
    <3>3. j = c + k
      BY <2>3, <2>4, <3>1, <3>2
    <3>4. k \in 0 .. left - 1
      BY <3>1, <3>2, <3>3
    <3>5. EntryAt(k)'.payload = EntryAt(c + k).payload
      BY <1>2, <1>4, <2>1, <3>4, PayloadsKept
    <3> QED
      BY <2>4, <3>1, <3>3, <3>5 DEF OwnResultsInv
  <2>5. ASSUME NEW k \in 0 .. left + n - 1, NEW l \in 1 .. n,
               ExecutingLane(group, l).robPointer = Position(k)',
               ExecutingLane(group, l).robPointer = Position(occupancy + l - 1)
        PROVE  ExecutingLane(group, l).pdst = EntryAt(k)'.payload.pdst
    <3>1. occupancy + l - 1 \in 0 .. RobEntries - 1 /\ occupancy = c + left
      BY <2>1, <2>2
    <3>2. occupancy + l - 1 = c + k
      BY <2>3, <2>5, <3>1
    <3>3. k = left + l - 1
      BY <3>1, <3>2
    <3>4. EntryAt(left + l - 1)'.payload = RobLane(group, l).payload
      <4>1. WindowMoves(n, group, c, left)
        BY <1>2, <1>4, <2>1, PayloadsMove
      <4> QED
        BY <4>1 DEF WindowMoves
    <3> QED
      BY <3>3, <3>4 DEF ExecutingLane, RobLane
  <2>6. /\ \A r \in stagedCompletion' : \E u \in executing :
              u.live /\ r.robPointer = u.robPointer /\ r.pdst = u.pdst
        /\ \A u \in executing' :
              \/ u \in executing
              \/ \E l \in 1 .. n : /\ u = ExecutingLane(group, l)
                                   /\ u.robPointer = Position(occupancy + l - 1)
    <3>1. /\ \A r \in stagedCompletion' : \E u \in DOMAIN outcome :
                /\ u \in executing /\ u.recoveryEpoch = recoveryEpoch
                /\ r.robPointer = u.robPointer /\ r.live = u.live /\ r.pdst = u.pdst
          /\ \A u \in executing' :
                \/ u \in executing /\ u \notin DOMAIN outcome
                \/ \E l \in 1 .. n :
                      /\ u = ExecutingLane(group, l)
                      /\ u.robPointer = Position(occupancy + l - 1)
                      /\ u.live /\ u.recoveryEpoch = recoveryEpoch
      BY <1>2, <1>4, EdgeOfExecution
    <3> QED
      BY <3>1 DEF ResultsInv, OwedInv
  <2>7. ASSUME NEW r \in stagedCompletion', NEW k \in 0 .. occupancy' - 1,
               r.robPointer = Position(k)'
        PROVE  r.pdst = EntryAt(k)'.payload.pdst
    BY <2>2, <2>4, <2>6, <2>7
  <2>8. ASSUME NEW u \in executing', NEW k \in 0 .. occupancy' - 1, u.live,
               u.robPointer = Position(k)'
        PROVE  u.pdst = EntryAt(k)'.payload.pdst
    BY <2>2, <2>4, <2>5, <2>6, <2>8
  <2> QED
    BY <2>7, <2>8 DEF OwnResultsInv
<1> QED
  BY <1>3, <1>4

(* What is complete holds its result: it did, or its own result arrives.          *)
LEMMA EdgeKeepsCompleteHeld ==
  ASSUME RobInv, RegistersInv, ResultsInv, ContentsInv, BackendNext
  PROVE  CompleteHeldInv'
<1>1. PICK n \in Nat, interrupt \in BOOLEAN : \E group, outcome :
        EdgeOf(n, group, outcome, interrupt)
  BY CycleIsEdge
<1>2. PICK group, outcome : EdgeOf(n, group, outcome, interrupt)
  BY <1>1
<1>3. CASE Flush
  BY <1>3, FlushEmpties DEF CompleteHeldInv
<1>4. CASE ~Flush
  <2>1. PICK c \in Nat, left \in Nat : c = CommittedCount /\ c + left = occupancy
    <3>1. CommittedCount \in 0 .. occupancy /\ occupancy \in Nat
      BY CommittedWithinWindow, WindowEntries DEF RobInv
    <3>2. CommittedCount \in Nat /\ occupancy - CommittedCount \in Nat
            /\ CommittedCount + (occupancy - CommittedCount) = occupancy
      BY <3>1
    <3> QED
      BY <3>2
  <2>2. occupancy' = left + n
    <3>1. WindowMoves(n, group, c, left)
      BY <1>2, <1>4, <2>1, PayloadsMove
    <3> QED
      BY <3>1 DEF WindowMoves
  <2>3. ASSUME NEW k \in 0 .. left - 1, EntryAt(k)'.complete, ~EntryAt(k)'.exception,
               EntryAt(k)'.payload.pdst # 0
        PROVE  (Held(EntryAt(k).payload.pdst))'
    <3>1. /\ EntryAt(k)' = UpdatedEntry(Index(Position(c + k)))
          /\ EntryAt(k)'.payload = EntryAt(c + k).payload
      <4>1. WindowMoves(n, group, c, left)
        BY <1>2, <1>4, <2>1, PayloadsMove
      <4> QED
        BY <4>1 DEF WindowMoves
    <3>2. c + k \in 0 .. occupancy - 1 /\ occupancy \in 0 .. RobEntries /\ RobEntries \in Nat
      BY <2>1, CoreConfigAssumption DEF RobInv, RobWindowInv, PointersInv
    <3>3. /\ EntryAt(c + k).valid /\ EntryAt(c + k).pointer = Position(c + k)
          /\ Position(c + k) \in RobPointer
      BY <3>2, WindowValid, PositionsDistinct
    <3>4. PICK p : p = EntryAt(c + k).payload.pdst /\ p # 0
      BY <2>3, <3>1
    <3>5. c + k \in Writers /\ p = GivenTo(c + k) /\ p \in Phys
      <4>1. p = IF DestinationAt(c + k) = 0 THEN 0 ELSE GivenTo(c + k)
        BY <1>4, <3>2, <3>4 DEF RegistersInv, SpeculativeInv
      <4>2. c + k \in Writers /\ p = GivenTo(c + k)
        BY <3>2, <3>4, <4>1 DEF Writers
      <4>3. PICK i \in Nat : i = ConfirmingCount + Rank(Writers, c + k)
                               /\ i \in 0 .. PhysicalRegs
        BY <1>4, <4>2, GivenIsListed, BatchPositions, CoreConfigAssumption
           DEF RegistersInv, RingInv, UsableCapacity
      <4>4. AdvanceFree(architecturalHeadPtr, i) \in Phys
        BY <4>3, AdvanceFreeType DEF RegistersInv, RingInv
      <4> QED
        BY <4>2, <4>3, <4>4 DEF GivenTo, Listed, RegistersInv, RingInv
    <3>6. \A i \in 1 .. n : RenamedWrites(group)[i].pdst # p
      BY <1>2, <1>4, <3>4, <3>5, NewRegisters
    <3>7. Held(p) \/ p \in WakeupCandidates
      <4>1. CASE EntryAt(c + k).complete
        <5>1. ~EntryAt(c + k).exception
          BY <2>3, <3>1, <3>3, <4>1, UpdatedKeeps DEF EntryAt
        <5> QED
          BY <3>2, <3>4, <4>1, <5>1 DEF ContentsInv, CompleteHeldInv
      <4>2. CASE ~EntryAt(c + k).complete
        <5>1. PICK hit \in stagedCompletion : Matches(Index(Position(c + k)), hit)
          <6>1. UpdatedEntry(Index(Position(c + k))).complete
            BY <2>3, <3>1
          <6> QED
            BY <3>3, <4>2, <6>1 DEF UpdatedEntry, EntryAt
        <5>2. hit.robPointer \in RobPointer
          BY DEF ResultsInv, StagedInv
        <5>3. hit.robPointer = Position(c + k)
          BY <3>3, <5>1, <5>2, PointerOfIndex DEF Matches, EntryAt
        <5>4. hit.pdst = p
          BY <3>2, <3>4, <5>3 DEF ContentsInv, OwnResultsInv
        <5> QED
          BY <3>4, <5>4 DEF WakeupCandidates
      <4> QED
        BY <4>1, <4>2
    <3>8. Held(p)'
      BY <1>2, <1>4, <3>5, <3>6, <3>7, HeldStays DEF ResultsInv
    <3> QED
      BY <3>1, <3>4, <3>8 DEF Held
  <2>4. ASSUME NEW i \in 1 .. n, EntryAt(left + i - 1)'.complete
        PROVE  EntryAt(left + i - 1)'.exception
    <3>0. \A l \in 1 .. n :
             /\ EntryAt(left + l - 1)' = NewEntry(RobLane(group, l), AllocatedPointer(l))
             /\ EntryAt(left + l - 1)'.payload = RobLane(group, l).payload
      <4>1. WindowMoves(n, group, c, left)
        BY <1>2, <1>4, <2>1, PayloadsMove
      <4> QED
        BY <4>1 DEF WindowMoves
    <3>1. \A l \in 1 .. n :
             EntryAt(left + l - 1)' = NewEntry(RobLane(group, l), AllocatedPointer(l))
      BY <3>0
    <3>2. EntryAt(left + i - 1)' = NewEntry(RobLane(group, i), AllocatedPointer(i))
      BY <3>1
    <3> QED
      BY <2>4, <3>2 DEF NewEntry
  <2>5. ASSUME NEW k \in 0 .. left + n - 1, k >= left
        PROVE  \E i \in 1 .. n : k = left + i - 1
    <3>1. k - left + 1 \in 1 .. n /\ k = left + (k - left + 1) - 1
      BY <2>5
    <3> QED
      BY <3>1
  <2>6. ASSUME NEW k \in 0 .. left + n - 1, EntryAt(k)'.complete, ~EntryAt(k)'.exception,
               EntryAt(k)'.payload.pdst # 0
        PROVE  (Held(EntryAt(k).payload.pdst))'
    <3>1. CASE k < left
      BY <2>3, <2>6, <3>1
    <3>2. CASE k >= left
      BY <2>4, <2>5, <2>6, <3>2
    <3> QED
      BY <3>1, <3>2
  <2> QED
    BY <2>2, <2>6 DEF CompleteHeldInv
<1> QED
  BY <1>3, <1>4

(* A retired mapping holds its result, since its entry was complete.              *)
LEMMA EdgeKeepsMappingsHeld ==
  ASSUME RobInv, RegistersInv, ResultsInv, ContentsInv, BackendNext
  PROVE  Held(0)' /\ ArchitecturalStatePreserved' /\ ReadySourcesHoldResults'
<1>0. /\ RingInv /\ PlacesInv /\ DestinationsInv /\ (~Flush => SpeculativeInv)
      /\ 0 \in Phys /\ 0 \in Arch /\ architectural \in [Arch -> Phys]
  BY CoreConfigAssumption DEF RegistersInv, PlacesInv, Phys, Arch
<1>1. PICK n \in Nat, interrupt \in BOOLEAN : \E group, outcome :
        EdgeOf(n, group, outcome, interrupt)
  BY CycleIsEdge
<1>2. PICK group, outcome : EdgeOf(n, group, outcome, interrupt)
  BY <1>1
<1>3. PICK r \in Nat : Retiring(r)
  BY <1>0, <1>2, EdgeRetires
<1>4. RegisterMapStep(RenamedWrites(group), Wakeups(Flush), CommittedMappings, Flush)
  BY <1>2 DEF EdgeOf, Cycle
<1>5. CASE Flush
  <2>1. n = 0 /\ DOMAIN group = {} /\ RegistersStep(group)
    <3>1. n = 0 /\ DOMAIN group = 1 .. n /\ RegistersStep(group)
      BY <1>2, <1>5 DEF EdgeOf, Cycle
    <3> QED
      BY <3>1
  <2>2. \A p \in Phys : registers'[p] = registers[p]
    BY <1>5, <2>1 DEF RegistersStep, Wakeups
  <2>3. speculative' = architectural /\ architectural' = architectural
    BY <1>4, <1>5 DEF RegisterMapStep, ArchitecturalAfter
  <2>4. \A a \in Arch : Held(architectural[a])
    BY DEF ContentsInv, ArchitecturalStatePreserved, Held
  <2> QED
    BY <1>0, <2>2, <2>3, <2>4 DEF ContentsInv, Held, ArchitecturalStatePreserved,
                                  ReadySourcesHoldResults
<1>6. CASE ~Flush
  <2>1. StagedInv /\ SpeculativeInv /\ DOMAIN group = 1 .. n
    BY <1>0, <1>2, <1>6 DEF ResultsInv, EdgeOf
  <2>2. Held(0)'
    BY <1>0, <1>2, <1>6, <2>1, HeldStays DEF ContentsInv
  <2>3. ASSUME NEW a \in Arch, architectural'[a] # 0
        PROVE  Held(architectural[a])'
    <3>1. a # 0
      BY <1>0, <1>3, <2>3 DEF Retiring, PlacesInv
    <3>2. PICK m \in -1 .. r - 1 : /\ LastWriter(a, r, m) /\ SeenBelow(a, m, r)
                                  /\ architectural'[a] = MappingOf(a, m)
      BY <1>0, <1>3, <2>1, <3>1, RetiredMappings
    <3>3. PICK p : p = MappingOf(a, m) /\ p # 0
      BY <2>3, <3>2
    <3>4. CASE m = -1
      <4>1. p = architectural[a] /\ p \in Phys /\ Held(p)
        BY <1>0, <3>3, <3>4 DEF MappingOf, ContentsInv, ArchitecturalStatePreserved, Held
      <4>2. ASSUME NEW i \in 1 .. n, RenamedWrites(group)[i].pdst = p
            PROVE  FALSE
        <5>1. RenamedWrites(group)[i].pdst # 0
          BY <3>3, <4>2
        <5>2. RenamedWrites(group)[i].pdst # architectural[a]
          BY <1>2, <1>6, <5>1, NewRegisters
        <5> QED
          BY <4>1, <4>2, <5>2
      <4>3. Held(p)'
        BY <1>2, <1>6, <2>1, <4>1, <4>2, HeldStays
      <4> QED
        BY <3>2, <3>3, <4>3 DEF Held
    <3>5. CASE m # -1
      <4>1. m \in Writers /\ m \in 0 .. r - 1 /\ p = GivenTo(m)
        BY <3>2, <3>3, <3>5 DEF SeenBelow, Below, MappingOf
      <4>2. EntryAt(m).complete /\ ~EntryAt(m).exception
        BY <1>3, <4>1 DEF Retiring
      <4>3. m \in 0 .. occupancy - 1 /\ EntryAt(m).payload.pdst = p
        BY <2>1, <4>1 DEF SpeculativeInv, Writers
      <4>4. Held(p)
        BY <3>3, <4>2, <4>3 DEF ContentsInv, CompleteHeldInv
      <4>5. p \in Phys
        <5>1. PICK R \in Nat : R = ConfirmingCount
          BY <1>0, BatchPositions
        <5>2. MappingOf(a, m) \in Phys
          BY <1>0, <2>1, <3>2, <5>1, SeenMappings
        <5> QED
          BY <3>3, <5>2
      <4>6. \A i \in 1 .. n : RenamedWrites(group)[i].pdst # p
        BY <1>2, <1>6, <3>3, <4>1, NewRegisters
      <4>7. Held(p)'
        BY <1>2, <1>6, <2>1, <4>4, <4>5, <4>6, HeldStays
      <4> QED
        BY <3>2, <3>3, <4>7 DEF Held
    <3> QED
      BY <3>4, <3>5
  <2>4. ASSUME NEW a \in Arch, ready'[speculative'[a]]
        PROVE  Held(speculative[a])'
    <3>1. PICK p : p = speculative'[a]
      OBVIOUS
    <3>2. /\ speculative' = MapAfter(speculative, RenamedWrites(group))
          /\ \A q \in Phys \ {0} :
                ready'[q] = IF \E i \in DOMAIN RenamedWrites(group) :
                                  /\ RenamedWrites(group)[i].rd # 0
                                  /\ RenamedWrites(group)[i].pdst = q
                            THEN FALSE ELSE ready[q] \/ q \in WakeupCandidates
      BY <1>4, <1>6 DEF RegisterMapStep, Wakeups
    <3>3. /\ DOMAIN RenamedWrites(group) = 1 .. n
          /\ \A i \in 1 .. n : RenamedWrites(group)[i].pdst # 0
                                => RenamedWrites(group)[i].rd # 0
      BY <2>1 DEF RenamedWrites, WritesRegister
    <3>4. CASE p = 0
      BY <2>2, <3>1, <3>4 DEF Held
    <3>5. CASE p # 0 /\ \E i \in 1 .. n : RenamedWrites(group)[i].pdst = p
      <4>1. PICK i \in 1 .. n : RenamedWrites(group)[i].pdst = p
        BY <3>5
      <4>2. p \in Phys \ {0}
        BY <1>2, <1>6, <3>5, <4>1, NewRegisters
      <4>3. ready'[p] = FALSE
        BY <3>2, <3>3, <3>5, <4>1, <4>2
      <4> QED
        BY <2>4, <3>1, <4>3
    <3>6. CASE p # 0 /\ \A i \in 1 .. n : RenamedWrites(group)[i].pdst # p
      <4>1. p = speculative[a]
        BY <3>1, <3>2, <3>3, <3>6, MapAfterValue
      <4>2. p \in Phys \ {0}
        BY <2>1, <3>6, <4>1 DEF SpeculativeInv
      <4>3. ready[p] \/ p \in WakeupCandidates
        BY <2>4, <3>1, <3>2, <3>3, <3>6, <4>2
      <4>4. Held(p) \/ p \in WakeupCandidates
        BY <4>1, <4>3 DEF ContentsInv, ReadySourcesHoldResults, Held
      <4>5. Held(p)'
        BY <1>2, <1>6, <2>1, <3>6, <4>2, <4>4, HeldStays
      <4> QED
        BY <3>1, <4>5 DEF Held
    <3> QED
      BY <3>4, <3>5, <3>6
  <2> QED
    BY <2>2, <2>3, <2>4 DEF ArchitecturalStatePreserved, ReadySourcesHoldResults, Held
<1> QED
  BY <1>5, <1>6

(* The register file always holds what the invariant says.                       *)
THEOREM ContentsInvariant == BackendSpec => []ContentsInv
<1>1. BackendInit => ContentsInv
  <2> SUFFICES ASSUME BackendInit PROVE ContentsInv
    OBVIOUS
  <2>1. /\ occupancy = 0 /\ stagedCompletion = {} /\ executing = {}
        /\ speculative = [a \in Arch |-> 0] /\ architectural = [a \in Arch |-> 0]
        /\ \A p \in Phys : registers[p] = "result"
    BY DEF BackendInit, RegisterMapInit, RobInit
  <2>2. 0 \in Phys
    BY CoreConfigAssumption DEF Phys
  <2> QED
    BY <2>1, <2>2 DEF ContentsInv, Held, OwnResultsInv, CompleteHeldInv,
                      ArchitecturalStatePreserved, ReadySourcesHoldResults
<1>2. RobInv /\ RegistersInv /\ ResultsInv /\ ContentsInv /\ [BackendNext]_backendVars
        => ContentsInv'
  <2>1. CASE BackendNext
    BY <2>1, EdgeKeepsOwnResults, EdgeKeepsCompleteHeld, EdgeKeepsMappingsHeld DEF ContentsInv
  <2>2. ASSUME ContentsInv, UNCHANGED backendVars PROVE ContentsInv'
    <3>1. UNCHANGED <<registers, speculative, architectural, ready, stagedCompletion, executing,
                      occupancy, entries, commitPointer>>
      BY <2>2 DEF backendVars, registerMapVars, robVars
    <3> QED
      BY <2>2, <3>1 DEF ContentsInv, Held, OwnResultsInv, CompleteHeldInv, EntryAt, Position,
                        ArchitecturalStatePreserved, ReadySourcesHoldResults
  <2> QED
    BY <2>1, <2>2
<1> QED
  BY <1>1, <1>2, RobInvariant, RegistersInvariant, ResultsInvariant, PTL DEF BackendSpec

(* The value of an architectural register is always in the register file, also      *)
(* right after a flush that dropped every registered result and set every ready     *)
(* bit.                                                                          *)
THEOREM ArchitecturalStateHeld == BackendSpec => []ArchitecturalStatePreserved
BY ContentsInvariant, PTL DEF ContentsInv

(* And no source that rename would mark ready is read before its result is there.   *)
THEOREM ReadySourcesHeld == BackendSpec => []ReadySourcesHoldResults
BY ContentsInvariant, PTL DEF ContentsInv
===============================================================================
