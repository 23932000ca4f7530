-------------------------- MODULE OooDispatchProofs --------------------------
(***************************************************************************)
(* Proofs about the path from rename to completion, for every geometry, every  *)
(* set of ports and every mix of uops: no uop and no store's data is lost or    *)
(* duplicated, the queues hold program order within their bounds, no wakeup is   *)
(* missed, a uop that was woken early finds its operands, and what has left its  *)
(* issue queue and serializes is the oldest.                                  *)
(***************************************************************************)
EXTENDS OooDispatchProperties, CountingLemmas

(***************************************************************************)
(* Numbers.                                                                  *)
(***************************************************************************)
(* LowestOf picks the least member.                                          *)
LEMMA LowestOfType ==
  ASSUME NEW S, S \subseteq Nat, S # {}
  PROVE  LowestOf(S) \in S /\ \A y \in S : LowestOf(S) <= y
<1>1. \E x \in S : \A y \in S : x <= y
  BY LeastOf
<1> QED
  BY <1>1 DEF LowestOf

(* The parameters the proofs count with.                                      *)
LEMMA Geometry ==
  /\ RobEntries \in Nat /\ RobEntries > 0 /\ PointerModulus = 2 * RobEntries
  /\ RobEntries >= RenameWidth /\ RenameWidth \in Nat /\ CommitWidth \in Nat
  /\ DispatchQueueEntries \in Nat /\ DispatchWidth \in Nat
BY CoreConfigAssumption, DispatchAssumption DEF PointerModulus

(* Positions of the ring: less than two turns ahead wraps once.                *)
Ring(x) == x % PointerModulus
LEMMA WrapOnce ==
  ASSUME NEW x \in Nat, x < 2 * PointerModulus
  PROVE  Ring(x) = IF x < PointerModulus THEN x ELSE x - PointerModulus
BY Geometry DEF Ring

(***************************************************************************)
(* The router.                                                               *)
(***************************************************************************)
RouteStep(uops, portReady, before, k) ==
    LET free == {p \in portReady : /\ uops[k].kind \in Capabilities[p]
                                   /\ \A j \in DOMAIN before : before[j] # p}
    IN  IF Len(before) < k - 1 \/ free = {} THEN before
        ELSE Append(before, LowestOf(free))

(* RoutePrefix is the last of a chain of routes, each made from the one before.  *)
LEMMA RouteChain ==
  ASSUME NEW uops, NEW portReady, NEW n \in Nat, Len(uops) = n
  PROVE  \E f : /\ f[0] = <<>>
                /\ \A k \in 1 .. n : f[k] = RouteStep(uops, portReady, f[k - 1], k)
                /\ RoutePrefix(uops, portReady) = f[n]
<1> DEFINE Body(f, k) == IF k = 0 THEN <<>> ELSE RouteStep(uops, portReady, f[k - 1], k)
           Chain(f, m) == f = [k \in 0 .. m |-> Body(f, k)]
<1>1. \A m \in Nat : \E f : Chain(f, m)
  <2> DEFINE bad == {m \in Nat : ~ \E f : Chain(f, m)}
  <2> HIDE DEF Chain
  <2> SUFFICES ASSUME bad # {} PROVE FALSE
    OBVIOUS
  <2>1. PICK m \in bad : \A y \in bad : m <= y
    BY LeastOf
  <2>2. CASE m = 0
    <3> DEFINE f == [k \in 0 .. 0 |-> <<>>]
    <3>1. Chain(f, 0)
      BY DEF Chain
    <3> QED
      BY <2>2, <3>1
  <2>3. CASE m # 0
    <3>1. m - 1 \in Nat /\ m - 1 \notin bad
      BY <2>1, <2>3
    <3>2. PICK f : Chain(f, m - 1)
      BY <3>1
    <3> DEFINE g == [k \in 0 .. m |-> IF k < m THEN f[k]
                                     ELSE RouteStep(uops, portReady, f[m - 1], m)]
    <3>3. DOMAIN f = 0 .. m - 1 /\ \A k \in 0 .. m - 1 : f[k] = Body(f, k)
      BY <3>2 DEF Chain
    <3> HIDE DEF Body
    <3>4. \A k \in 0 .. m - 1 : g[k] = f[k]
      BY <2>1
    <3>5. \A k \in 0 .. m - 1 : Body(g, k) = Body(f, k)
      <4> SUFFICES ASSUME NEW k \in 0 .. m - 1, k # 0 PROVE Body(g, k) = Body(f, k)
        BY DEF Body
      <4>1. k - 1 \in 0 .. m - 1
        BY <3>1
      <4> HIDE DEF g
      <4> QED
        BY <3>4, <4>1 DEF Body
    <3>6. g[m] = Body(g, m)
      <4>1. m - 1 \in 0 .. m - 1 /\ g[m] = RouteStep(uops, portReady, f[m - 1], m)
        BY <3>1, <2>1
      <4> HIDE DEF g
      <4> QED
        BY <4>1, <3>4, <2>3 DEF Body
    <3>7. \A k \in 0 .. m : g[k] = Body(g, k)
      <4> SUFFICES ASSUME NEW k \in 0 .. m PROVE g[k] = Body(g, k)
        OBVIOUS
      <4>1. k = m \/ k \in 0 .. m - 1
        BY <2>1
      <4> HIDE DEF g
      <4> QED
        BY <4>1, <3>3, <3>4, <3>5, <3>6
    <3>8. DOMAIN g = 0 .. m /\ g = [k \in 0 .. m |-> g[k]]
      OBVIOUS
    <3>9. Chain(g, m)
      <4> HIDE DEF g
      <4> QED
        BY <3>7, <3>8 DEF Chain
    <3> HIDE DEF g
    <3> QED
      BY <3>9, <2>1
  <2> QED
    BY <2>2, <2>3
<1>2. PICK f : Chain(f, n)
  BY <1>1
<1> DEFINE route == CHOOSE r : r = [k \in 0 .. Len(uops) |-> Body(r, k)]
<1>3. route = [k \in 0 .. Len(uops) |-> Body(route, k)]
  BY <1>2
<1>4. RoutePrefix(uops, portReady) = route[Len(uops)]
  BY Zenon DEF RoutePrefix, RouteStep
<1> HIDE DEF route
<1>5. \A k \in 0 .. n : route[k] = Body(route, k)
  BY <1>3
<1>6. route[0] = <<>> /\ \A k \in 1 .. n : route[k] = RouteStep(uops, portReady, route[k - 1], k)
  BY <1>5
<1> QED
  BY <1>4, <1>6

(* What a route never loses: its uops are a prefix of the window, each on a port   *)
(* of its own that was ready and can execute it.                              *)
Routes(uops, portReady, route, k) ==
    /\ route \in Seq(portReady) /\ Len(route) <= k
    /\ \A j \in DOMAIN route : uops[j].kind \in Capabilities[route[j]]
    /\ \A i, j \in DOMAIN route : route[i] = route[j] => i = j

LEMMA RouteStepRoutes ==
  ASSUME NEW uops, NEW portReady, portReady \subseteq Nat, NEW k \in Nat, k > 0,
         NEW route, Routes(uops, portReady, route, k - 1)
  PROVE  Routes(uops, portReady, RouteStep(uops, portReady, route, k), k)
<1> DEFINE free == {p \in portReady : /\ uops[k].kind \in Capabilities[p]
                                      /\ \A j \in DOMAIN route : route[j] # p}
<1>1. CASE Len(route) < k - 1 \/ free = {}
  BY <1>1 DEF RouteStep, Routes
<1>2. CASE ~(Len(route) < k - 1 \/ free = {})
  <2>1. LowestOf(free) \in free
    BY <1>2, LowestOfType
  <2> DEFINE port == LowestOf(free)
  <2>2. /\ port \in portReady /\ uops[k].kind \in Capabilities[port]
        /\ \A j \in DOMAIN route : route[j] # port
    BY <2>1
  <2>3. RouteStep(uops, portReady, route, k) = Append(route, port)
    BY <1>2, Zenon DEF RouteStep
  <2>4. Len(route) = k - 1 /\ route \in Seq(portReady)
    BY <1>2 DEF Routes
  <2> HIDE DEF port, free
  <2>5. /\ Append(route, port) \in Seq(portReady) /\ Len(Append(route, port)) = k
        /\ DOMAIN Append(route, port) = 1 .. k
        /\ \A j \in 1 .. k : Append(route, port)[j] = IF j = k THEN port ELSE route[j]
        /\ DOMAIN route = 1 .. k - 1
    BY <2>2, <2>4
  <2>6. \A j \in 1 .. k : j = k \/ j \in 1 .. k - 1
    OBVIOUS
  <2> QED
    BY <2>2, <2>3, <2>5, <2>6 DEF Routes
<1> QED
  BY <1>1, <1>2

LEMMA RoutePrefixRoutes ==
  ASSUME NEW uops, NEW portReady, portReady \subseteq Nat, Len(uops) \in Nat
  PROVE  Routes(uops, portReady, RoutePrefix(uops, portReady), Len(uops))
<1> DEFINE n == Len(uops)
<1>1. PICK f : /\ f[0] = <<>>
               /\ \A k \in 1 .. n : f[k] = RouteStep(uops, portReady, f[k - 1], k)
               /\ RoutePrefix(uops, portReady) = f[n]
  BY RouteChain
<1> DEFINE bad == {k \in 0 .. n : ~Routes(uops, portReady, f[k], k)}
<1>2. bad = {}
  <2> SUFFICES ASSUME bad # {} PROVE FALSE
    OBVIOUS
  <2>1. bad \subseteq Nat
    OBVIOUS
  <2> HIDE DEF bad
  <2>2. PICK k \in bad : \A y \in bad : k <= y
    BY <2>1, LeastOf
  <2>3. k \in 0 .. n /\ ~Routes(uops, portReady, f[k], k)
    BY <2>2 DEF bad
  <2>4. Routes(uops, portReady, <<>>, 0)
    BY DEF Routes
  <2>5. k # 0
    BY <1>1, <2>3, <2>4
  <2>6. k \in Nat /\ k > 0 /\ k \in 1 .. n /\ k - 1 \in 0 .. n /\ k - 1 \notin bad
    BY <2>1, <2>2, <2>3, <2>5
  <2>7. Routes(uops, portReady, f[k - 1], k - 1)
    BY <2>6 DEF bad
  <2>8. Routes(uops, portReady, RouteStep(uops, portReady, f[k - 1], k), k)
    BY <2>6, <2>7, RouteStepRoutes
  <2> QED
    BY <1>1, <2>3, <2>6, <2>8
<1> QED
  BY <1>1, <1>2

(***************************************************************************)
(* Types, and the uops of the reorder buffer.                                 *)
(***************************************************************************)
Pointers == 0 .. PointerModulus - 1
Kinds == {shape.kind : shape \in Shapes}
Uops == [kind : Kinds, robPointer : Pointers, pdst : Registers,
         psrc1 : Registers, psrc2 : Registers]
Entries == [kind : Kinds, robPointer : Pointers, pdst : Registers,
            psrc1 : Registers, psrc2 : Registers,
            source1Ready : BOOLEAN, source2Ready : BOOLEAN]
StoreData == [robPointer : Pointers, psrc : Registers, ready : BOOLEAN]

DispatchTypeOK ==
    /\ live \in Seq(Uops) /\ head \in Pointers
    /\ done \subseteq Pointers /\ ready \subseteq Registers
    /\ window \in Seq(Uops) /\ dispatchQueue \in Seq(Uops)
    /\ queue \in [Ports -> Seq(Entries)] /\ enqueueReady \in [Ports -> BOOLEAN]
    /\ output \in Seq(Entries) /\ outputReady \in BOOLEAN
    /\ address \in [OrdinaryPorts -> SUBSET Uops] /\ operand \in [Ports -> SUBSET Uops]
    /\ {multiplying, dividing, divided, barrier, memory} \subseteq SUBSET Uops
    /\ barrierDropping \in BOOLEAN
    /\ dataSent \subseteq Pointers
    /\ staged \in [Lanes -> SUBSET Uops]
    /\ slots \in [Slot -> SUBSET StoreData]
    /\ dataEnqueueReady \in BOOLEAN /\ dataOutput \subseteq StoreData

(* Sources a uop can have: nothing, or the destination of one of the uops that    *)
(* were in the reorder buffer before it when it entered.                       *)
Sources(pointer) ==
    {0} \cup {Ring(pointer + e) + 1 : e \in RobEntries + 1 .. PointerModulus - 1}

LiveInv ==
    /\ Len(live) <= RobEntries
    /\ \A k \in DOMAIN live : live[k].robPointer = Ring(head + k - 1)
    /\ \A k \in DOMAIN live : {live[k].psrc1, live[k].psrc2} \subseteq Sources(live[k].robPointer)
    /\ \A pointer \in done : \E k \in DOMAIN live : live[k].robPointer = pointer

(* The inputs of an edge without a flush.                                     *)
Accepted(in) ==
    /\ in.flush = FALSE
    /\ in.group \in Seq(Shapes) /\ Len(in.group) <= RenameWidth
    /\ in.group # <<>> => Accepts(in.group)
    /\ in.retire \in 0 .. CommitWidth /\ Retirable(in.retire)
    /\ in.memory \subseteq MemoryCompletes
    /\ in.divideEnds \in BOOLEAN /\ (in.divideEnds => DivideMayEnd)
    /\ in.barrierEnds \in BOOLEAN /\ (in.barrierEnds => BarrierMayEnd)
    /\ in.dataReady \in BOOLEAN

LEMMA QuietEdgeIsEdge ==
  ASSUME QuietEdge
  PROVE  \E in : Accepted(in) /\ Edge(in)
<1>1. PICK group \in Groups, retire \in 0 .. CommitWidth :
      /\ group # <<>> => Accepts(group)
      /\ Retirable(retire)
      /\ \E aguReady \in {FALSE, \E uop \in operand[LoadStorePort] : UsesAgu(uop)},
            completes \in AtMostOne(MemoryCompletes), dataReady \in {FALSE, dataOutput # {}},
            divideEnds \in {FALSE, DivideMayEnd}, barrierEnds \in {FALSE, BarrierMayEnd} :
           Edge(Inputs(FALSE, group, retire, aguReady, completes, dataReady,
                       divideEnds, barrierEnds))
  BY DEF QuietEdge
<1>2. PICK aguReady \in {FALSE, \E uop \in operand[LoadStorePort] : UsesAgu(uop)},
            completes \in AtMostOne(MemoryCompletes), dataReady \in {FALSE, dataOutput # {}},
            divideEnds \in {FALSE, DivideMayEnd}, barrierEnds \in {FALSE, BarrierMayEnd} :
           Edge(Inputs(FALSE, group, retire, aguReady, completes, dataReady,
                       divideEnds, barrierEnds))
  BY <1>1
<1> DEFINE in == Inputs(FALSE, group, retire, aguReady, completes, dataReady,
                        divideEnds, barrierEnds)
<1>3. /\ in.flush = FALSE /\ in.group = group /\ in.retire = retire
      /\ in.memory = completes /\ in.divideEnds = divideEnds
      /\ in.barrierEnds = barrierEnds /\ in.dataReady = dataReady
  BY DEF Inputs
<1>4. group \in Seq(Shapes) /\ Len(group) <= RenameWidth
  BY <1>1, Geometry DEF Groups
<1>5. completes \subseteq MemoryCompletes
  BY <1>2 DEF AtMostOne
<1>6. /\ divideEnds \in BOOLEAN /\ (divideEnds => DivideMayEnd)
      /\ barrierEnds \in BOOLEAN /\ (barrierEnds => BarrierMayEnd)
      /\ dataReady \in BOOLEAN
  BY <1>2, Zenon DEF DivideMayEnd, BarrierMayEnd
<1> HIDE DEF in
<1> QED
  BY <1>1, <1>2, <1>3, <1>4, <1>5, <1>6 DEF Accepted, in

LEMMA FlushEdgeIsEdge ==
  ASSUME FlushEdge
  PROVE  \E in : in.flush = TRUE /\ in.group = <<>> /\ Edge(in)
<1>1. PICK barrierEnds \in {FALSE, BarrierMayEnd} :
        Edge(Inputs(TRUE, <<>>, 0, FALSE, {}, FALSE, FALSE, barrierEnds))
  BY DEF FlushEdge
<1> DEFINE in == Inputs(TRUE, <<>>, 0, FALSE, {}, FALSE, FALSE, barrierEnds)
<1>2. in.flush = TRUE /\ in.group = <<>>
  BY DEF Inputs
<1> QED
  BY <1>1, <1>2

LEMMA Places ==
  /\ LoadStorePort \in Ports /\ Ports \subseteq Nat
  /\ {CsrPort, DividePort, MultiplyPort} \subseteq OrdinaryPorts
  /\ CsrPort # DividePort /\ CsrPort # MultiplyPort /\ DividePort # MultiplyPort
  /\ OrdinaryPorts = Ports \ {LoadStorePort} /\ Lanes = Ports \cup {MultiplyLane}
  /\ MultiplyLane \notin Ports
<1>1. PICK last \in Ports : Ports = 0 .. last
  BY IssueQueueAssumption
<1>2. last \in Nat
  BY <1>1, IssueQueueAssumption
<1>3. Cardinality(0 .. last) = last - 0 + 1
  BY <1>2, FS_Interval
<1> QED
  BY <1>1, <1>2, <1>3, IssueQueueAssumption, PortsAssumption DEF OrdinaryPorts, Lanes, MultiplyLane

(* Pointers of the reorder buffer are distinct.                               *)
LEMMA LiveDistinct ==
  ASSUME DispatchTypeOK, LiveInv, NEW i \in DOMAIN live, NEW j \in DOMAIN live,
         live[i].robPointer = live[j].robPointer
  PROVE  i = j
<1>1. /\ Ring(head + i - 1) = Ring(head + j - 1)
      /\ head \in 0 .. PointerModulus - 1 /\ Len(live) \in Nat /\ Len(live) <= RobEntries
      /\ i \in 1 .. Len(live) /\ j \in 1 .. Len(live)
  BY DEF DispatchTypeOK, LiveInv, Pointers
<1> DEFINE a == head + i - 1
           b == head + j - 1
<1>2. /\ a \in Nat /\ a < 2 * PointerModulus
      /\ b \in Nat /\ b < 2 * PointerModulus
  BY <1>1, Geometry
<1>3. /\ PointerModulus \in Nat /\ a - b < PointerModulus /\ b - a < PointerModulus
      /\ (a = b => i = j)
  <2>1. /\ head \in Nat /\ i \in Nat /\ j \in Nat /\ i - j < RobEntries /\ j - i < RobEntries
        /\ RobEntries \in Nat /\ PointerModulus \in Nat /\ RobEntries <= PointerModulus
    BY <1>1, Geometry
  <2> QED
    BY <2>1
<1>4. Ring(a) = Ring(b)
  BY <1>1, Zenon
<1> HIDE DEF a, b
<1>5. /\ Ring(a) = IF a < PointerModulus THEN a ELSE a - PointerModulus
      /\ Ring(b) = IF b < PointerModulus THEN b ELSE b - PointerModulus
  BY <1>2, WrapOnce
<1>6. a = b
  <2>1. CASE a < PointerModulus /\ b < PointerModulus
    BY <1>4, <1>5, <2>1
  <2>2. CASE ~(a < PointerModulus) /\ ~(b < PointerModulus)
    <3>1. a - PointerModulus = b - PointerModulus
      BY <1>4, <1>5, <2>2
    <3> QED
      BY <1>2, <1>3, <3>1
  <2>3. CASE a < PointerModulus /\ ~(b < PointerModulus)
    <3>1. a = b - PointerModulus
      BY <1>4, <1>5, <2>3
    <3> QED
      BY <1>2, <1>3, <3>1
  <2>4. CASE ~(a < PointerModulus) /\ b < PointerModulus
    <3>1. a - PointerModulus = b
      BY <1>4, <1>5, <2>4
    <3> QED
      BY <1>2, <1>3, <3>1
  <2> QED
    BY <2>1, <2>2, <2>3, <2>4
<1> QED
  BY <1>3, <1>6

(***************************************************************************)
(* The uops of a new group.                                                  *)
(***************************************************************************)
(* A source that is produced at a distance is the destination of that uop.      *)
LEMMA SourceAtDistance ==
  ASSUME NEW a \in Nat, a < 2 * PointerModulus, NEW back \in 1 .. RobEntries - 1, back <= a
  PROVE  Ring(a - back) + 1 \in Sources(Ring(a))
<1> DEFINE e == PointerModulus - back
<1>1. e \in RobEntries + 1 .. PointerModulus - 1
  BY Geometry
<1>2. Ring(a) = (IF a < PointerModulus THEN a ELSE a - PointerModulus)
  BY WrapOnce
<1>3. Ring(a - back) = (IF a - back < PointerModulus THEN a - back ELSE a - back - PointerModulus)
  <2>1. a - back \in Nat /\ a - back < 2 * PointerModulus
    BY Geometry
  <2> QED
    BY <2>1, WrapOnce
<1>4. Ring(a) + e \in Nat /\ Ring(a) + e < 2 * PointerModulus
  BY <1>1, <1>2, Geometry
<1> DEFINE x == Ring(a) + e
<1> HIDE DEF e
<1>0. x \in Nat /\ x < 2 * PointerModulus
  BY <1>4
<1>5. Ring(x) = (IF x < PointerModulus THEN x ELSE x - PointerModulus)
  <2> HIDE DEF x
  <2> QED
    BY <1>0, WrapOnce
<1>6. Ring(x) = Ring(a - back)
  BY <1>1, <1>2, <1>3, <1>4, <1>5, Geometry DEF e
<1> QED
  BY <1>1, <1>6 DEF Sources

LEMMA RingType ==
  ASSUME NEW a \in Nat, a < 2 * PointerModulus
  PROVE  Ring(a) \in Pointers
BY WrapOnce, Geometry DEF Pointers

LEMMA SourcesType ==
  ASSUME NEW pointer \in Pointers, NEW r \in Sources(pointer)
  PROVE  r \in Registers
<1>1. CASE r = 0
  BY <1>1, Geometry DEF Registers
<1>2. ASSUME NEW e \in RobEntries + 1 .. PointerModulus - 1, r = Ring(pointer + e) + 1
      PROVE  r \in Registers
  <2>1. pointer + e \in Nat /\ pointer + e < 2 * PointerModulus
    BY Geometry DEF Pointers
  <2>2. Ring(pointer + e) \in Pointers
    BY <2>1, RingType
  <2> QED
    BY <1>2, <2>2, Geometry DEF Pointers, Registers
<1> QED
  BY <1>1, <1>2 DEF Sources

(* A group of new uops: the next pointers, destinations named by them.          *)
NewGroup(uops) ==
    /\ uops \in Seq(Uops)
    /\ \A k \in DOMAIN uops :
          /\ uops[k].robPointer = Ring(head + Len(live) + k - 1)
          /\ uops[k].pdst \in {0, uops[k].robPointer + 1}
          /\ uops[k].psrc1 \in Sources(uops[k].robPointer)
          /\ uops[k].psrc2 \in Sources(uops[k].robPointer)

LEMMA NewUopsForm ==
  ASSUME DispatchTypeOK, NEW group \in Seq(Shapes), Len(live) + Len(group) <= RobEntries
  PROVE  NewGroup(NewUops(group)) /\ Len(NewUops(group)) = Len(group)
<1> DEFINE pointer(i) == (head + Len(live) + i - 1) % PointerModulus
           kindAt(i) == IF i > 0 THEN group[i].kind ELSE live[Len(live) + i].kind
           register(k, back) == IF back = 0 \/ Len(live) + k - back < 1 THEN 0
                                ELSE IF Writes(kindAt(k - back)) THEN pointer(k - back) + 1 ELSE 0
<1>1. ASSUME NEW k \in 1 .. Len(group)
      PROVE  NewUop(group, k) = [kind |-> group[k].kind, robPointer |-> pointer(k),
         pdst |-> IF Writes(group[k].kind) THEN pointer(k) + 1 ELSE 0,
         psrc1 |-> register(k, group[k].back1), psrc2 |-> register(k, group[k].back2)]
  BY Zenon DEF NewUop
<1>2. \A i : pointer(i) = Ring(head + Len(live) + i - 1)
  BY DEF Ring
<1> HIDE DEF pointer, kindAt
<1>3. head \in 0 .. PointerModulus - 1 /\ Len(live) \in Nat /\ Len(group) \in Nat
  BY DEF DispatchTypeOK, Pointers
<1>4. ASSUME NEW k \in 1 .. Len(group), NEW back \in Nat
      PROVE  register(k, back) \in Sources(pointer(k))
  <2>1. register(k, back) = 0 \/ (back # 0 /\ Len(live) + k - back >= 1 /\ register(k, back) = pointer(k - back) + 1)
    BY <1>3
  <2>2. CASE register(k, back) = 0
    BY <2>2 DEF Sources
  <2>3. CASE back # 0 /\ Len(live) + k - back >= 1 /\ register(k, back) = pointer(k - back) + 1
    <3> DEFINE a == head + Len(live) + k - 1
    <3>1. a \in Nat /\ a < 2 * PointerModulus /\ back \in 1 .. RobEntries - 1 /\ back <= a
      BY <1>3, <2>3, Geometry
    <3>2. Ring(a - back) + 1 \in Sources(Ring(a))
      BY <3>1, SourceAtDistance
    <3>3. head + Len(live) + (k - back) - 1 = a - back
      BY <1>3
    <3>4. pointer(k - back) = Ring(a - back) /\ pointer(k) = Ring(a)
      BY <1>2, <3>3, Zenon
    <3> QED
      BY <2>3, <3>2, <3>4
  <2> QED
    BY <2>1, <2>2, <2>3
<1> HIDE DEF register
<1>5. ASSUME NEW k \in 1 .. Len(group)
      PROVE  /\ pointer(k) \in Pointers /\ pointer(k) = Ring(head + Len(live) + k - 1)
             /\ group[k] \in Shapes /\ group[k].kind \in Kinds
             /\ group[k].back1 \in Nat /\ group[k].back2 \in Nat
  <2>1. head + Len(live) + k - 1 \in Nat /\ head + Len(live) + k - 1 < 2 * PointerModulus
    BY <1>3, Geometry
  <2>2. pointer(k) \in Pointers /\ pointer(k) = Ring(head + Len(live) + k - 1)
    BY <1>2, <2>1, RingType
  <2>3. group[k] \in Shapes
    OBVIOUS
  <2> QED
    BY <2>2, <2>3, ShapesAssumption DEF Kinds
<1>6. ASSUME NEW k \in 1 .. Len(group)
      PROVE  /\ NewUop(group, k) \in Uops
             /\ NewUop(group, k).robPointer = Ring(head + Len(live) + k - 1)
             /\ NewUop(group, k).pdst \in {0, NewUop(group, k).robPointer + 1}
             /\ NewUop(group, k).psrc1 \in Sources(NewUop(group, k).robPointer)
             /\ NewUop(group, k).psrc2 \in Sources(NewUop(group, k).robPointer)
  <2> DEFINE r1 == register(k, group[k].back1)
             r2 == register(k, group[k].back2)
             d == IF Writes(group[k].kind) THEN pointer(k) + 1 ELSE 0
             u == [kind |-> group[k].kind, robPointer |-> pointer(k), pdst |-> d, psrc1 |-> r1, psrc2 |-> r2]
  <2>1. /\ pointer(k) \in Pointers /\ group[k].kind \in Kinds
        /\ pointer(k) = Ring(head + Len(live) + k - 1)
    BY <1>5
  <2>2. r1 \in Sources(pointer(k)) /\ r2 \in Sources(pointer(k))
    BY <1>4, <1>5
  <2>3. r1 \in Registers /\ r2 \in Registers
    BY <2>1, <2>2, SourcesType
  <2>4. d \in {0, pointer(k) + 1} /\ d \in Registers
    BY <2>1, Geometry DEF Registers, Pointers
  <2>5. NewUop(group, k) = u
    BY <1>1, Zenon
  <2> HIDE DEF r1, r2, d
  <2>6. u \in Uops
    BY <2>1, <2>3, <2>4 DEF Uops
  <2>7. u.robPointer = pointer(k) /\ u.pdst = d /\ u.psrc1 = r1 /\ u.psrc2 = r2
    OBVIOUS
  <2> HIDE DEF u
  <2> QED
    BY <2>1, <2>2, <2>4, <2>5, <2>6, <2>7
<1>7. DOMAIN NewUops(group) = 1 .. Len(group) /\ \A k \in 1 .. Len(group) : NewUops(group)[k] = NewUop(group, k)
  BY DEF NewUops
<1>8. NewUops(group) \in Seq(Uops) /\ Len(NewUops(group)) = Len(group)
  <2>1. NewUops(group) = [k \in 1 .. Len(group) |-> NewUop(group, k)]
    BY DEF NewUops
  <2> QED
    BY <1>3, <1>6, <2>1
<1> QED
  BY <1>6, <1>7, <1>8 DEF NewGroup

(***************************************************************************)
(* What one edge moves.                                                      *)
(***************************************************************************)
(* Routing: a prefix of the window, each uop to a ready port of its own.        *)
LEMMA RoutedForm ==
  ASSUME DispatchTypeOK
  PROVE  /\ Routed \in Seq(PortReady) /\ PortReady \subseteq Ports
         /\ Len(Routed) \in Nat /\ Len(Routed) <= Len(window)
         /\ DOMAIN Routed = 1 .. Len(Routed) /\ DOMAIN Routed \subseteq DOMAIN window
         /\ \A j \in DOMAIN Routed : window[j].kind \in Capabilities[Routed[j]]
         /\ \A i, j \in DOMAIN Routed : Routed[i] = Routed[j] => i = j
<1>1. PortReady \subseteq Ports /\ PortReady \subseteq Nat
  BY Places DEF PortReady
<1>2. window \in Seq(Uops) /\ Len(window) \in Nat
  BY DEF DispatchTypeOK
<1>3. Routes(window, PortReady, Routed, Len(window))
  BY <1>1, <1>2, RoutePrefixRoutes DEF Routed
<1>4. Routed \in Seq(PortReady) /\ Len(Routed) <= Len(window)
  BY <1>3 DEF Routes
<1>5. Len(Routed) \in Nat /\ DOMAIN Routed = 1 .. Len(Routed) /\ DOMAIN window = 1 .. Len(window)
  BY <1>2, <1>4
<1>6. DOMAIN Routed \subseteq DOMAIN window
  BY <1>2, <1>4, <1>5
<1> QED
  BY <1>1, <1>3, <1>4, <1>5, <1>6 DEF Routes

(* Selection: at most one uop of a queue, ready to issue.                      *)
LEMMA DequeuedForm ==
  ASSUME DispatchTypeOK, NEW in, NEW p \in Ports
  PROVE  \/ Dequeued(in, p) = {} /\ Cardinality(Dequeued(in, p)) = 0
         \/ \E k \in DOMAIN queue[p] :
               /\ Dequeued(in, p) = {k} /\ Cardinality(Dequeued(in, p)) = 1
               /\ ReadyToIssue(p, queue[p][k], EarlyWakeups(in), head)
               /\ IF p = LoadStorePort THEN outputReady ELSE AddressReady(in, p)
<1> DEFINE tags == EarlyWakeups(in)
           able == {k \in DOMAIN queue[p] : ReadyToIssue(p, queue[p][k], tags, head)}
           open == IF p = LoadStorePort THEN outputReady ELSE AddressReady(in, p)
<1>0. Cardinality({}) = 0 /\ \A k : Cardinality({k}) = 1
  BY FS_EmptySet, FS_Singleton
<1>1. queue[p] \in Seq(Entries) /\ DOMAIN queue[p] \subseteq Nat
  BY DEF DispatchTypeOK
<1>2. Dequeued(in, p) = IF open THEN IF able = {} THEN {} ELSE {LowestOf(able)} ELSE {}
  BY Zenon DEF Dequeued, Selected
<1>3. able # {} => LowestOf(able) \in able
  BY <1>1, LowestOfType
<1>4. CASE open /\ able # {}
  <2> DEFINE k == LowestOf(able)
  <2>1. k \in able
    BY <1>3, <1>4
  <2>2. k \in DOMAIN queue[p] /\ ReadyToIssue(p, queue[p][k], tags, head)
    BY <2>1
  <2>3. Dequeued(in, p) = {k} /\ Cardinality({k}) = 1
    BY <1>0, <1>2, <1>4
  <2> HIDE DEF k, tags, able
  <2> QED
    BY <1>4, <2>2, <2>3 DEF tags
<1>5. CASE ~(open /\ able # {})
  <2>1. Dequeued(in, p) = {}
    BY <1>2, <1>5
  <2> QED
    BY <1>0, <2>1
<1> QED
  BY <1>4, <1>5

LEMMA DequeuedIn ==
  ASSUME DispatchTypeOK, NEW in, NEW p \in Ports, NEW k \in Dequeued(in, p)
  PROVE  k \in DOMAIN queue[p] /\ queue[p][k] \in Entries
<1>1. k \in DOMAIN queue[p]
  BY DequeuedForm
<1>2. queue[p] \in Seq(Entries)
  BY DEF DispatchTypeOK
<1> QED
  BY <1>1, <1>2

(* Entering: the uop routed to the port, or nothing.                          *)
LEMMA EntersForm ==
  ASSUME DispatchTypeOK, NEW p \in Ports
  PROVE  \/ Enters(p) = <<>> /\ \A j \in DOMAIN Routed : Routed[j] # p
         \/ \E j \in DOMAIN Routed : Routed[j] = p /\ Enters(p) = <<EntryOf(window[j])>>
<1> DEFINE lanes == {j \in DOMAIN Routed :
                    /\ Routed[j] = p
                    /\ (p = LoadStorePort /\ IsStore(window[j])) => dataEnqueueReady}
<1>1. Enters(p) = IF lanes = {} THEN <<>> ELSE <<EntryOf(window[LowestOf(lanes)])>>
  BY Zenon DEF Enters
<1>2. lanes \subseteq Nat
  BY RoutedForm
<1>3. ASSUME NEW j \in DOMAIN Routed, Routed[j] = p PROVE j \in lanes
  <2>1. p \in PortReady
    BY <1>3, RoutedForm
  <2> QED
    BY <1>3, <2>1 DEF PortReady
<1>4. CASE lanes = {}
  BY <1>1, <1>3, <1>4
<1>5. CASE lanes # {}
  <2> DEFINE j == LowestOf(lanes)
  <2>1. j \in lanes
    BY <1>2, <1>5, LowestOfType
  <2>2. j \in DOMAIN Routed /\ Routed[j] = p
    BY <2>1
  <2>3. Enters(p) = <<EntryOf(window[j])>>
    BY <1>1, <1>5
  <2> HIDE DEF j
  <2> QED
    BY <2>2, <2>3
<1> QED
  BY <1>4, <1>5

LEMMA WokenForm ==
  ASSUME NEW e \in Entries, NEW tags
  PROVE  /\ Woken(e, tags) \in Entries /\ Bare(Woken(e, tags)) = Bare(e)
         /\ Woken(e, tags).kind = e.kind /\ Woken(e, tags).robPointer = e.robPointer
         /\ Woken(e, tags).psrc1 = e.psrc1 /\ Woken(e, tags).psrc2 = e.psrc2
         /\ Woken(e, tags).source1Ready = (e.source1Ready \/ e.psrc1 \in tags)
         /\ Woken(e, tags).source2Ready = (e.source2Ready \/ e.psrc2 \in tags)
BY DEF Woken, Bare, Entries

LEMMA BareForm ==
  ASSUME NEW e \in Entries
  PROVE  /\ Bare(e) \in Uops /\ Bare(e).kind = e.kind /\ Bare(e).robPointer = e.robPointer
         /\ Bare(e).psrc1 = e.psrc1 /\ Bare(e).psrc2 = e.psrc2
BY DEF Bare, Entries, Uops

LEMMA EntryOfForm ==
  ASSUME NEW u \in Uops
  PROVE  /\ EntryOf(u) \in Entries /\ Bare(EntryOf(u)) = u
         /\ EntryOf(u).kind = u.kind /\ EntryOf(u).robPointer = u.robPointer
         /\ EntryOf(u).psrc1 = u.psrc1 /\ EntryOf(u).psrc2 = u.psrc2
         /\ EntryOf(u).source1Ready = (u.psrc1 \in ready \cup RegisteredTags)
         /\ EntryOf(u).source2Ready = (u.psrc2 \in ready \cup RegisteredTags)
BY DEF EntryOf, Bare, Entries, Uops

(* Bounds of the queues, and what a registered ready promises about them.       *)
CapacityInv ==
    /\ Len(dispatchQueue) <= DispatchQueueEntries /\ Len(window) <= DispatchWidth
    /\ \A p \in Ports : /\ Len(queue[p]) <= IssueQueueEntries
                        /\ enqueueReady[p] => Len(queue[p]) < IssueQueueEntries
    /\ Len(output) <= 2 /\ (outputReady => Len(output) < 2)
    /\ dataEnqueueReady => \E s \in Slot : slots[s] = {}
    /\ \A s \in Slot : \A d, e \in slots[s] : d = e

(* A queue that loses its first n members and gains those of t.                 *)
Joined(s, n, t) == SubSeq(s, n + 1, Len(s)) \o t
IsJoined(r, S, s, n, t) ==
    /\ r \in Seq(S) /\ Len(r) = Len(s) - n + Len(t)
    /\ \A k \in 1 .. Len(s) - n : r[k] = s[k + n]
    /\ \A k \in Len(s) - n + 1 .. Len(s) - n + Len(t) : r[k] = t[k - (Len(s) - n)]
LEMMA JoinedForm ==
  ASSUME NEW S, NEW s \in Seq(S), NEW t \in Seq(S), NEW n \in Nat, n <= Len(s)
  PROVE  IsJoined(Joined(s, n, t), S, s, n, t)
BY DEF Joined, IsJoined

LEMMA RefillForm ==
  ASSUME DispatchTypeOK, CapacityInv, NEW out \in Nat, out <= Len(window)
  PROVE  /\ Refill(out) \in Nat /\ Refill(out) <= Len(dispatchQueue)
         /\ Len(window) - out + Refill(out) <= DispatchWidth
         /\ Refill(out) < Len(dispatchQueue) => Len(window) - out + Refill(out) = DispatchWidth
BY Geometry DEF Refill, DispatchTypeOK, CapacityInv

(* What a group needs is there, also for no group at all.                      *)
LEMMA RoomForGroup ==
  ASSUME DispatchTypeOK, LiveInv, CapacityInv, NEW in, Accepted(in)
  PROVE  /\ Len(live) + Len(in.group) <= RobEntries
         /\ Len(dispatchQueue) + Len(in.group) <= DispatchQueueEntries
         /\ NewGroup(NewUops(in.group)) /\ Len(NewUops(in.group)) = Len(in.group)
<1>1. in.group \in Seq(Shapes)
  BY DEF Accepted
<1>2. /\ Len(live) + Len(in.group) <= RobEntries
      /\ Len(dispatchQueue) + Len(in.group) <= DispatchQueueEntries
  <2>1. CASE in.group = <<>>
    <3>1. Len(in.group) = 0
      BY <2>1
    <3> QED
      BY <3>1 DEF LiveInv, CapacityInv, DispatchTypeOK
  <2>2. CASE in.group # <<>>
    BY <2>2 DEF Accepted, Accepts, DispatchQueueReady
  <2> QED
    BY <2>1, <2>2
<1> QED
  BY <1>1, <1>2, NewUopsForm

LEMMA DispatchEdge ==
  ASSUME DispatchTypeOK, LiveInv, CapacityInv, NEW in, Accepted(in), Edge(in),
         NEW out, out = Len(Routed), NEW take, take = Refill(out),
         NEW group, group = NewUops(in.group)
  PROVE  /\ window' \in Seq(Uops) /\ dispatchQueue' \in Seq(Uops)
         /\ Len(window') = Len(window) - out + take
         /\ \A k \in 1 .. Len(window) - out : window'[k] = window[k + out]
         /\ \A k \in Len(window) - out + 1 .. Len(window') :
               window'[k] = dispatchQueue[k - (Len(window) - out)]
         /\ Len(dispatchQueue') = Len(dispatchQueue) - take + Len(group)
         /\ \A k \in 1 .. Len(dispatchQueue) - take : dispatchQueue'[k] = dispatchQueue[k + take]
         /\ \A k \in Len(dispatchQueue) - take + 1 .. Len(dispatchQueue') :
               dispatchQueue'[k] = group[k - (Len(dispatchQueue) - take)]
<1>1. out \in Nat /\ out <= Len(window) /\ window \in Seq(Uops) /\ dispatchQueue \in Seq(Uops)
  BY RoutedForm DEF DispatchTypeOK
<1>2. /\ take \in Nat /\ take <= Len(dispatchQueue) /\ Len(window) - out + take <= DispatchWidth
      /\ take < Len(dispatchQueue) => Len(window) - out + take = DispatchWidth
  BY <1>1, RefillForm
<1>3. group \in Seq(Uops) /\ Len(group) \in Nat
  BY RoomForGroup DEF NewGroup
<1> DEFINE offered == Joined(window, out, dispatchQueue)
           size == IF Len(offered) < DispatchWidth THEN Len(offered) ELSE DispatchWidth
<1>4. /\ window' = SubSeq(offered, 1, size)
      /\ dispatchQueue' = Joined(dispatchQueue, take, group)
  BY DEF Edge, DispatchStep, Accepted, Joined
<1>5. /\ offered \in Seq(Uops) /\ Len(offered) = Len(window) - out + Len(dispatchQueue)
      /\ \A k \in 1 .. Len(window) - out : offered[k] = window[k + out]
      /\ \A k \in Len(window) - out + 1 .. Len(window) - out + Len(dispatchQueue) :
            offered[k] = dispatchQueue[k - (Len(window) - out)]
  <2>1. IsJoined(offered, Uops, window, out, dispatchQueue)
    BY <1>1, JoinedForm
  <2> HIDE DEF offered
  <2> QED
    BY <2>1 DEF IsJoined
<1> HIDE DEF offered
<1>6. size = Len(window) - out + take /\ size \in Nat /\ size <= Len(offered)
  <2> HIDE DEF offered
  <2>1. Len(window) \in Nat /\ Len(dispatchQueue) \in Nat /\ DispatchWidth \in Nat
    BY <1>1, Geometry
  <2> QED
    BY <1>1, <1>2, <1>5, <2>1
<1> HIDE DEF size
<1>20. Len(window) \in Nat /\ Len(dispatchQueue) \in Nat
  BY <1>1
<1>7. /\ window' \in Seq(Uops) /\ Len(window') = size
      /\ \A k \in 1 .. size : window'[k] = offered[k]
  BY <1>4, <1>5, <1>6
<1>8. /\ dispatchQueue' \in Seq(Uops)
      /\ Len(dispatchQueue') = Len(dispatchQueue) - take + Len(group)
      /\ \A k \in 1 .. Len(dispatchQueue) - take : dispatchQueue'[k] = dispatchQueue[k + take]
      /\ \A k \in Len(dispatchQueue) - take + 1 .. Len(dispatchQueue') :
            dispatchQueue'[k] = group[k - (Len(dispatchQueue) - take)]
  <2> DEFINE r == Joined(dispatchQueue, take, group)
  <2>1. IsJoined(r, Uops, dispatchQueue, take, group)
    BY <1>1, <1>2, <1>3, JoinedForm
  <2> HIDE DEF r
  <2>2. dispatchQueue' = r
    BY <1>4 DEF r
  <2> QED
    BY <2>1, <2>2 DEF IsJoined
<1>9. ASSUME NEW k \in 1 .. Len(window) - out PROVE window'[k] = window[k + out]
  BY <1>1, <1>20, <1>2, <1>5, <1>6, <1>7
<1>10. ASSUME NEW k \in Len(window) - out + 1 .. Len(window')
       PROVE  window'[k] = dispatchQueue[k - (Len(window) - out)]
  <2>1. /\ k \in 1 .. size
        /\ k \in Len(window) - out + 1 .. Len(window) - out + Len(dispatchQueue)
    <3>1. /\ Len(window) \in Nat /\ Len(dispatchQueue) \in Nat /\ out \in Nat /\ take \in Nat
          /\ out <= Len(window) /\ take <= Len(dispatchQueue)
      BY <1>1, <1>20, <1>2
    <3>2. Len(window') = size /\ size = Len(window) - out + take
      BY <1>6, <1>7
    <3> QED
      BY <3>1, <3>2
  <2> QED
    BY <1>5, <1>7, <2>1
<1> QED
  BY <1>6, <1>7, <1>8, <1>9, <1>10

(* One issue queue: the selected uop leaves, what is behind it moves up, the      *)
(* routed one enters behind them, and the tags of the cycle wake all of them.     *)
QueueFrom(in, p, k) == IF \E i \in Dequeued(in, p) : i <= k THEN k + 1 ELSE k
QueueKept(in, p) == Len(queue[p]) - Cardinality(Dequeued(in, p))
Entered(p) == {j \in DOMAIN Routed : Routed[j] = p}

LEMMA KeptForm ==
  ASSUME DispatchTypeOK, NEW in, NEW p \in Ports
  PROVE  /\ QueueKept(in, p) \in Nat /\ QueueKept(in, p) <= Len(queue[p])
         /\ Len(queue[p]) \in Nat /\ Len(queue[p]) <= QueueKept(in, p) + 1
         /\ \A k \in 1 .. QueueKept(in, p) :
               /\ QueueFrom(in, p, k) \in DOMAIN queue[p] \ Dequeued(in, p)
               /\ k <= QueueFrom(in, p, k)
         /\ \A j, k \in 1 .. QueueKept(in, p) :
               j < k => QueueFrom(in, p, j) < QueueFrom(in, p, k)
<1>1. queue[p] \in Seq(Entries) /\ Len(queue[p]) \in Nat /\ DOMAIN queue[p] = 1 .. Len(queue[p])
  BY DEF DispatchTypeOK
<1>2. CASE Dequeued(in, p) = {} /\ Cardinality(Dequeued(in, p)) = 0
  <2>1. \A k : QueueFrom(in, p, k) = k
    BY <1>2 DEF QueueFrom
  <2> QED
    BY <1>1, <1>2, <2>1 DEF QueueKept
<1>3. ASSUME NEW i \in DOMAIN queue[p], Dequeued(in, p) = {i}, Cardinality(Dequeued(in, p)) = 1
      PROVE  /\ QueueKept(in, p) \in Nat /\ QueueKept(in, p) <= Len(queue[p])
             /\ Len(queue[p]) \in Nat /\ Len(queue[p]) <= QueueKept(in, p) + 1
             /\ \A k \in 1 .. QueueKept(in, p) :
                   /\ QueueFrom(in, p, k) \in DOMAIN queue[p] \ Dequeued(in, p)
                   /\ k <= QueueFrom(in, p, k)
             /\ \A j, k \in 1 .. QueueKept(in, p) :
                   j < k => QueueFrom(in, p, j) < QueueFrom(in, p, k)
  <2>1. \A k : QueueFrom(in, p, k) = IF i <= k THEN k + 1 ELSE k
    BY <1>3 DEF QueueFrom
  <2>2. QueueKept(in, p) = Len(queue[p]) - 1
    BY <1>3 DEF QueueKept
  <2> QED
    BY <1>1, <1>3, <2>1, <2>2
<1> QED
  BY <1>2, <1>3, DequeuedForm

(* Every uop that stays has a place.                                          *)
LEMMA KeptOnto ==
  ASSUME DispatchTypeOK, NEW in, NEW p \in Ports, NEW i \in DOMAIN queue[p] \ Dequeued(in, p),
         NEW k, k = IF \E d \in Dequeued(in, p) : d <= i THEN i - 1 ELSE i
  PROVE  k \in 1 .. QueueKept(in, p) /\ QueueFrom(in, p, k) = i
<1>1. queue[p] \in Seq(Entries) /\ Len(queue[p]) \in Nat /\ DOMAIN queue[p] = 1 .. Len(queue[p])
  BY DEF DispatchTypeOK
<1>2. CASE Dequeued(in, p) = {} /\ Cardinality(Dequeued(in, p)) = 0
  BY <1>1, <1>2 DEF QueueKept, QueueFrom
<1>3. ASSUME NEW d \in DOMAIN queue[p], Dequeued(in, p) = {d}, Cardinality(Dequeued(in, p)) = 1
      PROVE  k \in 1 .. QueueKept(in, p) /\ QueueFrom(in, p, k) = i
  <2>1. QueueFrom(in, p, k) = IF d <= k THEN k + 1 ELSE k
    BY <1>3 DEF QueueFrom
  <2>2. QueueKept(in, p) = Len(queue[p]) - 1
    BY <1>3 DEF QueueKept
  <2>3. k = IF d <= i THEN i - 1 ELSE i
    BY <1>3
  <2> QED
    BY <1>1, <1>3, <2>1, <2>2, <2>3
<1> QED
  BY <1>2, <1>3, DequeuedForm

QueueMoved(in, p) ==
    /\ queue'[p] \in Seq(Entries)
    /\ \A k \in 1 .. QueueKept(in, p) :
          /\ k \in DOMAIN queue'[p]
          /\ queue'[p][k] = Woken(queue[p][QueueFrom(in, p, k)], EarlyWakeups(in))
    /\ \/ Entered(p) = {} /\ Len(queue'[p]) = QueueKept(in, p)
       \/ \E j \in DOMAIN Routed :
             /\ Routed[j] = p /\ Entered(p) = {j}
             /\ Len(queue'[p]) = QueueKept(in, p) + 1
             /\ queue'[p][QueueKept(in, p) + 1] = Woken(EntryOf(window[j]), EarlyWakeups(in))

LEMMA QueueEdge ==
  ASSUME DispatchTypeOK, NEW in, Accepted(in), Edge(in), NEW p \in Ports
  PROVE  QueueMoved(in, p)
<1> DEFINE tags == EarlyWakeups(in)
           n == QueueKept(in, p)
           kept == [k \in 1 .. n |-> Woken(queue[p][QueueFrom(in, p, k)], tags)]
           entering == Enters(p)
           entered == [k \in DOMAIN entering |-> Woken(entering[k], tags)]
<1>1. queue[p] \in Seq(Entries) /\ DOMAIN queue[p] = 1 .. Len(queue[p])
  BY DEF DispatchTypeOK
<1>2. queue'[p] = kept \o entered
  <2>1. queue' = [q \in Ports |-> AfterEdge(q, [r \in Ports |-> Dequeued(in, r)][q],
                                            [r \in Ports |-> Enters(r)][q], tags)]
    BY DEF Edge, IssueQueueStep, Accepted
  <2>2. queue'[p] = AfterEdge(p, Dequeued(in, p), Enters(p), tags)
    BY <2>1
  <2>3. AfterEdge(p, Dequeued(in, p), Enters(p), tags) = kept \o entered
    BY Zenon DEF AfterEdge, Staying, QueueFrom, QueueKept
  <2> QED
    BY <2>2, <2>3
<1>3. ASSUME NEW k \in 1 .. n
      PROVE  Woken(queue[p][QueueFrom(in, p, k)], tags) \in Entries
  <2>1. QueueFrom(in, p, k) \in DOMAIN queue[p]
    BY KeptForm
  <2>2. queue[p][QueueFrom(in, p, k)] \in Entries
    BY <1>1, <2>1
  <2> QED
    BY <2>2, WokenForm
<1>4. n \in Nat
  BY KeptForm
<1> HIDE DEF n
<1>5. /\ kept \in Seq(Entries) /\ Len(kept) = n
      /\ \A k \in 1 .. n : kept[k] = Woken(queue[p][QueueFrom(in, p, k)], tags)
  BY <1>3, <1>4
<1> HIDE DEF kept
<1>6. CASE Enters(p) = <<>> /\ \A j \in DOMAIN Routed : Routed[j] # p
  <2>1. entered = <<>>
    BY <1>6
  <2>2. queue'[p] = kept
    BY <1>2, <1>5, <2>1
  <2>3. Entered(p) = {}
    BY <1>6 DEF Entered
  <2> QED
    BY <1>4, <1>5, <2>2, <2>3 DEF QueueMoved, n
<1>7. ASSUME NEW j \in DOMAIN Routed, Routed[j] = p, Enters(p) = <<EntryOf(window[j])>>
      PROVE  QueueMoved(in, p)
  <2> DEFINE last == Woken(EntryOf(window[j]), tags)
  <2>1. window[j] \in Uops
    BY RoutedForm DEF DispatchTypeOK
  <2>2. last \in Entries
    BY <2>1, EntryOfForm, WokenForm
  <2>3. entered = <<last>>
    <3>1. DOMAIN entering = {1} /\ entering[1] = EntryOf(window[j])
      BY <1>7
    <3> HIDE DEF entering
    <3> QED
      BY <3>1
  <2> HIDE DEF last, entered
  <2>4. queue'[p] = kept \o <<last>>
    BY <1>2, <2>3
  <2>5. /\ queue'[p] \in Seq(Entries) /\ Len(queue'[p]) = n + 1
        /\ \A k \in 1 .. n : k \in DOMAIN queue'[p] /\ queue'[p][k] = kept[k]
        /\ queue'[p][n + 1] = last
    BY <1>4, <1>5, <2>2, <2>4
  <2>6. Entered(p) = {j}
    BY <1>7, RoutedForm DEF Entered
  <2> QED
    BY <1>5, <1>7, <2>5, <2>6 DEF QueueMoved, n, last
<1> QED
  BY <1>6, <1>7, EntersForm

(* The output slots behind the load/store queue.                               *)
Taken(in) == IF OutputTaken(in) THEN 1 ELSE 0
OutputMoved(in) ==
    /\ output' \in Seq(Entries) /\ Taken(in) <= Len(output)
    /\ \A k \in 1 .. Len(output) - Taken(in) : output'[k] = output[k + Taken(in)]
    /\ \/ Dequeued(in, LoadStorePort) = {} /\ Len(output') = Len(output) - Taken(in)
       \/ \E i \in DOMAIN queue[LoadStorePort] :
             /\ Dequeued(in, LoadStorePort) = {i}
             /\ Len(output') = Len(output) - Taken(in) + 1
             /\ output'[Len(output) - Taken(in) + 1] = queue[LoadStorePort][i]
    /\ outputReady' = (Len(output') < 2)

LEMMA OutputEdge ==
  ASSUME DispatchTypeOK, NEW in, Accepted(in), Edge(in)
  PROVE  OutputMoved(in)
<1> DEFINE pushed == Dequeued(in, LoadStorePort)
           rest == IF OutputTaken(in) THEN Tail(output) ELSE output
           pushing == [k \in 1 .. Cardinality(pushed) |->
                          queue[LoadStorePort][CHOOSE i \in pushed : TRUE]]
           n == Len(output) - Taken(in)
<1>1. output' = rest \o pushing /\ outputReady' = (Len(rest) + Cardinality(pushed) < 2)
  <2> DEFINE dequeued == [p \in Ports |-> Dequeued(in, p)]
  <2>1. dequeued[LoadStorePort] = pushed
    BY Places
  <2>2. IssueQueueStep(dequeued, [p \in Ports |-> Enters(p)],
                       EarlyWakeups(in), OutputTaken(in), in.flush)
    BY DEF Edge
  <2>3. ~in.flush
    BY DEF Accepted
  <2> HIDE DEF dequeued, pushed
  <2>4. output' = (IF OutputTaken(in) THEN Tail(output) ELSE output)
                    \o [k \in 1 .. Cardinality(dequeued[LoadStorePort]) |->
                          queue[LoadStorePort][CHOOSE i \in dequeued[LoadStorePort] : TRUE]]
    BY <2>2, <2>3, Zenon DEF IssueQueueStep
  <2>5. outputReady' = (Len(IF OutputTaken(in) THEN Tail(output) ELSE output)
                          + Cardinality(dequeued[LoadStorePort]) < 2)
    BY <2>2, <2>3, Zenon DEF IssueQueueStep
  <2>6. output' = rest \o pushing
    BY <2>1, <2>4
  <2>7. outputReady' = (Len(rest) + Cardinality(pushed) < 2)
    BY <2>1, <2>5, Zenon
  <2> QED
    BY <2>6, <2>7
<1>2. output \in Seq(Entries) /\ Len(output) \in Nat /\ queue[LoadStorePort] \in Seq(Entries)
  BY Places DEF DispatchTypeOK
<1>3. OutputTaken(in) => output # <<>>
  BY DEF OutputTaken
<1>4. /\ rest \in Seq(Entries) /\ Len(rest) = n /\ n \in Nat /\ Taken(in) <= Len(output)
      /\ \A k \in 1 .. n : rest[k] = output[k + Taken(in)]
  BY <1>2, <1>3 DEF Taken
<1> HIDE DEF rest, n
<1>5. CASE pushed = {} /\ Cardinality(pushed) = 0
  <2>1. pushing = <<>>
    BY <1>5
  <2>2. output' = rest /\ outputReady' = (Len(rest) < 2)
    BY <1>1, <1>4, <1>5, <2>1
  <2> QED
    BY <1>4, <1>5, <2>2 DEF OutputMoved, n
<1>6. ASSUME NEW i \in DOMAIN queue[LoadStorePort], pushed = {i}, Cardinality(pushed) = 1
      PROVE  OutputMoved(in)
  <2> DEFINE last == queue[LoadStorePort][i]
  <2>1. last \in Entries
    BY <1>2
  <2>2. pushing = <<last>>
    <3>1. (CHOOSE d \in pushed : TRUE) = i
      BY <1>6
    <3> QED
      BY <1>6, <3>1
  <2> HIDE DEF pushing, last
  <2>3. output' = rest \o <<last>> /\ outputReady' = (Len(rest) + 1 < 2)
    BY <1>1, <1>6, <2>2
  <2>4. /\ output' \in Seq(Entries) /\ Len(output') = n + 1 /\ output'[n + 1] = last
        /\ \A k \in 1 .. n : output'[k] = rest[k]
    BY <1>4, <2>1, <2>3
  <2>5. outputReady' = (Len(output') < 2)
    BY <1>4, <2>3, <2>4
  <2> QED
    BY <1>4, <1>6, <2>4, <2>5 DEF OutputMoved, n, last
<1> QED
  BY <1>5, <1>6, DequeuedForm, Places

(* The registers between the queues and the units, and the units.              *)
LEMMA IssueEdge ==
  ASSUME NEW in, Accepted(in), Edge(in)
  PROVE  /\ address' = [p \in OrdinaryPorts |->
                IF AddressReady(in, p) THEN {Bare(queue[p][k]) : k \in Dequeued(in, p)}
                ELSE address[p]]
         /\ operand' = [p \in Ports |-> NextOperand(in, p)]
BY DEF Edge, IssueStep, Accepted

LEMMA ExecuteEdge ==
  ASSUME NEW in, Accepted(in), Edge(in), NEW starts, starts = FiredOfKind(in, {"divide"})
  PROVE  /\ multiplying' = FiredOfKind(in, {"multiply"})
         /\ dividing' = (IF dividing # {} THEN IF in.divideEnds THEN {} ELSE dividing
                         ELSE IF in.divideEnds THEN {} ELSE starts)
         /\ divided' = (IF ~in.divideEnds THEN {}
                        ELSE IF dividing # {} THEN dividing ELSE starts)
         /\ barrier' = (IF in.barrierEnds THEN {} ELSE barrier \cup FiredOfKind(in, {"barrier"}))
         /\ barrierDropping' = (barrierDropping /\ ~in.barrierEnds)
         /\ memory' = (memory \ in.memory) \cup {u \in Fires(in, LoadStorePort) : UsesAgu(u)}
         /\ dataSent' = (dataSent \ {u.robPointer : u \in in.memory})
                    \cup {d.robPointer : d \in IF in.dataReady THEN dataOutput ELSE {}}
         /\ staged' = [l \in Lanes |-> Completing(in, l)]
<1>1. ExecuteStep(in) /\ ~in.flush
  BY DEF Edge, Accepted
<1> QED
  BY <1>1 DEF ExecuteStep

LEMMA ReorderEdge ==
  ASSUME DispatchTypeOK, LiveInv, CapacityInv, NEW in, Accepted(in), Edge(in)
  PROVE  /\ in.retire \in Nat /\ in.retire <= Len(live)
         /\ head' = Ring(head + in.retire)
         /\ IsJoined(live', Uops, live, in.retire, NewUops(in.group))
         /\ done' = (done \cup {u.robPointer : u \in UNION {staged[l] : l \in Lanes}})
                      \ {live[k].robPointer : k \in 1 .. in.retire}
         /\ ready' = (ready \cup RegisteredTags)
                       \ Tags({NewUops(in.group)[k] : k \in DOMAIN NewUops(in.group)})
         /\ \A k \in 1 .. in.retire : live[k].robPointer \in done
<1>1. in.retire \in Nat /\ in.retire <= Len(live) /\ \A k \in 1 .. in.retire : live[k].robPointer \in done
  BY Geometry DEF Accepted, Retirable
<1>2. ReorderStep(in) /\ ~in.flush
  BY DEF Edge, Accepted
<1>3. live' = Joined(live, in.retire, NewUops(in.group))
  BY <1>2 DEF ReorderStep, Joined
<1>4. IsJoined(live', Uops, live, in.retire, NewUops(in.group))
  <2>1. NewUops(in.group) \in Seq(Uops) /\ live \in Seq(Uops)
    BY RoomForGroup DEF NewGroup, DispatchTypeOK
  <2>2. IsJoined(Joined(live, in.retire, NewUops(in.group)), Uops, live, in.retire, NewUops(in.group))
    BY <1>1, <2>1, JoinedForm
  <2> QED
    BY <1>3, <2>2, Zenon
<1>5. head' = Ring(head + in.retire)
  BY <1>2 DEF ReorderStep, Ring
<1>6. /\ done' = (done \cup {u.robPointer : u \in UNION {staged[l] : l \in Lanes}})
                      \ {live[k].robPointer : k \in 1 .. in.retire}
      /\ ready' = (ready \cup RegisteredTags)
                       \ Tags({NewUops(in.group)[k] : k \in DOMAIN NewUops(in.group)})
  BY <1>2, Zenon DEF ReorderStep
<1> QED
  BY <1>1, <1>4, <1>5, <1>6

(* The store-data queue.                                                      *)
StoreDataMoved(in, free, leaving) ==
    /\ dataEnqueueReady' = (Cardinality(Occupied) < DataSlots - 1)
    /\ dataOutput' = (IF dataOutput = {} \/ in.dataReady THEN UNION {slots[s] : s \in leaving}
                      ELSE dataOutput)
    /\ slots' = [s \in Slot |->
           IF EntersStoreData # {} /\ s = free
           THEN {NewSlot(u, RegisteredTags) : u \in EntersStoreData}
           ELSE IF s \in leaving THEN {}
           ELSE {[d EXCEPT !.ready = @ \/ (d.psrc # 0 /\ d.psrc \in RegisteredTags)] :
                    d \in slots[s]}]
FreeSlot == FirstSlot(Slot \ Occupied)
Leaving(in) ==
    IF (dataOutput = {} \/ in.dataReady) /\ ReadySlots(RegisteredTags) # {}
    THEN {FirstSlot(ReadySlots(RegisteredTags))} ELSE {}

LEMMA StoreDataEdge ==
  ASSUME NEW in, Accepted(in), Edge(in)
  PROVE  StoreDataMoved(in, FreeSlot, Leaving(in))
<1>1. StoreDataStep(EntersStoreData, RegisteredTags, in.dataReady, in.flush) /\ ~in.flush
  BY DEF Edge, Accepted
<1> QED
  BY <1>1, Zenon DEF StoreDataStep, StoreDataMoved, FreeSlot, Leaving

LEMMA LeavingForm ==
  ASSUME NEW in, NEW s \in Leaving(in)
  PROVE  s \in Slot /\ s \in ReadySlots(RegisteredTags) /\ (dataOutput = {} \/ in.dataReady)
<1> DEFINE able == ReadySlots(RegisteredTags)
<1>1. able \subseteq Slot /\ Slot \subseteq Nat
  BY DEF ReadySlots, Occupied, Slot
<1>2. able # {} => FirstSlot(able) = LowestOf(able)
  BY DEF FirstSlot, LowestOf
<1>3. able # {} /\ s = FirstSlot(able) /\ (dataOutput = {} \/ in.dataReady)
  BY DEF Leaving
<1> HIDE DEF able
<1> QED
  BY <1>1, <1>2, <1>3, LowestOfType DEF able

(***************************************************************************)
(* Types.                                                                    *)
(***************************************************************************)
LEMMA FiresType ==
  ASSUME DispatchTypeOK, NEW in
  PROVE  /\ \A p \in Ports : Fires(in, p) \subseteq operand[p] /\ Fires(in, p) \subseteq Uops
         /\ \A kinds : FiredOfKind(in, kinds) \subseteq Uops
<1>1. ASSUME NEW p \in Ports PROVE Fires(in, p) \subseteq operand[p] /\ Fires(in, p) \subseteq Uops
  BY DEF Fires, DispatchTypeOK
<1>2. ASSUME NEW kinds, NEW u \in FiredOfKind(in, kinds) PROVE u \in Uops
  BY <1>1, <1>2 DEF FiredOfKind
<1> QED
  BY <1>1, <1>2

LEMMA CompletingType ==
  ASSUME DispatchTypeOK, NEW in, in.memory \subseteq memory, NEW l \in Lanes
  PROVE  Completing(in, l) \subseteq Uops
<1>1. Completing(in, l) \subseteq multiplying \cup divided \cup memory \cup barrier
           \/ (l \in Ports /\ Completing(in, l) \subseteq Fires(in, l)) \/ Completing(in, l) = {}
  BY DEF Completing
<1> QED
  BY <1>1, FiresType DEF DispatchTypeOK

LEMMA TagsType ==
  ASSUME DispatchTypeOK
  PROVE  RegisteredTags \subseteq Registers
BY DEF RegisteredTags, Tags, DispatchTypeOK, Uops

LEMMA EntersStoreDataForm ==
  ASSUME DispatchTypeOK
  PROVE  /\ EntersStoreData = {EntryOf(window[j]) : j \in {k \in DOMAIN Routed :
                                  Routed[k] = LoadStorePort /\ IsStore(window[k])}}
         /\ EntersStoreData \subseteq Entries
         /\ EntersStoreData # {} => dataEnqueueReady
<1>1. ASSUME NEW k \in DOMAIN Routed, Routed[k] = LoadStorePort PROVE dataEnqueueReady
  <2>1. Routed[k] \in PortReady
    BY RoutedForm
  <2> QED
    BY <1>1, <2>1 DEF PortReady
<1>2. {k \in DOMAIN Routed : Routed[k] = LoadStorePort /\ IsStore(window[k])}
        = {j \in DOMAIN Routed : Routed[j] = LoadStorePort /\ IsStore(window[j]) /\ dataEnqueueReady}
  BY <1>1
<1>3. EntersStoreData = {EntryOf(window[j]) : j \in {k \in DOMAIN Routed :
                                  Routed[k] = LoadStorePort /\ IsStore(window[k])}}
  BY <1>2, Zenon DEF EntersStoreData
<1>4. ASSUME NEW k \in DOMAIN Routed PROVE EntryOf(window[k]) \in Entries
  <2>1. window[k] \in Uops
    BY RoutedForm DEF DispatchTypeOK
  <2> QED
    BY <2>1, EntryOfForm
<1> QED
  BY <1>1, <1>3, <1>4

LEMMA DataType ==
  ASSUME DispatchTypeOK
  PROVE  /\ \A u \in Entries : NewSlot(u, RegisteredTags) \in StoreData
         /\ \A d \in StoreData : [d EXCEPT !.ready = @ \/ (d.psrc # 0 /\ d.psrc \in RegisteredTags)] \in StoreData
BY DEF NewSlot, StoreData, Entries

LEMMA TypeEdge ==
  ASSUME DispatchTypeOK, LiveInv, CapacityInv, NEW in, Accepted(in), Edge(in)
  PROVE  DispatchTypeOK'
<1>1. in.memory \subseteq memory
  BY DEF Accepted, MemoryCompletes
<1>2. live' \in Seq(Uops) /\ head' \in Pointers
  <2>1. head + in.retire \in Nat /\ head + in.retire < 2 * PointerModulus
    BY ReorderEdge, Geometry DEF DispatchTypeOK, Pointers, LiveInv
  <2> QED
    BY <2>1, ReorderEdge, RingType DEF IsJoined
<1>3. done' \subseteq Pointers /\ ready' \subseteq Registers
  <2>1. \A l \in Lanes : \A u \in staged[l] : u.robPointer \in Pointers
    BY DEF DispatchTypeOK, Uops
  <2>2. done \cup {u.robPointer : u \in UNION {staged[l] : l \in Lanes}} \subseteq Pointers
    BY <2>1 DEF DispatchTypeOK
  <2>3. ready \cup RegisteredTags \subseteq Registers
    BY TagsType DEF DispatchTypeOK
  <2> QED
    BY <2>2, <2>3, ReorderEdge
<1>4. window' \in Seq(Uops) /\ dispatchQueue' \in Seq(Uops)
  BY DispatchEdge
<1>5. queue' \in [Ports -> Seq(Entries)] /\ enqueueReady' \in [Ports -> BOOLEAN]
  <2>1. IssueQueueStep([p \in Ports |-> Dequeued(in, p)], [p \in Ports |-> Enters(p)],
                       EarlyWakeups(in), OutputTaken(in), in.flush) /\ ~in.flush
    BY DEF Edge, Accepted
  <2>2. enqueueReady' = [p \in Ports |-> ReadyNextCycle(p)]
    BY <2>1 DEF IssueQueueStep
  <2>3. \A p \in Ports : ReadyNextCycle(p) \in BOOLEAN
    BY DEF ReadyNextCycle
  <2>4. queue' = [p \in Ports |-> queue'[p]]
    BY <2>1 DEF IssueQueueStep
  <2>5. \A p \in Ports : queue'[p] \in Seq(Entries)
    BY QueueEdge DEF QueueMoved
  <2> QED
    BY <2>2, <2>3, <2>4, <2>5
<1>6. output' \in Seq(Entries) /\ outputReady' \in BOOLEAN
  <2>1. OutputMoved(in)
    BY OutputEdge
  <2>2. outputReady' = (Len(output') < 2)
    BY <2>1, Zenon DEF OutputMoved
  <2>3. (Len(output') < 2) \in BOOLEAN
    OBVIOUS
  <2>4. outputReady' \in BOOLEAN
    BY <2>2, <2>3, Zenon
  <2> QED
    BY <2>1, <2>4 DEF OutputMoved
<1>7. address' \in [OrdinaryPorts -> SUBSET Uops]
  <2>1. ASSUME NEW p \in OrdinaryPorts, NEW k \in Dequeued(in, p) PROVE Bare(queue[p][k]) \in Uops
    <3>1. p \in Ports
      BY Places
    <3>2. k \in DOMAIN queue[p] /\ queue[p][k] \in Entries
      BY <3>1, DequeuedIn
    <3> QED
      BY <3>2, BareForm
  <2>2. address \in [OrdinaryPorts -> SUBSET Uops]
    BY DEF DispatchTypeOK
  <2>3. \A p \in OrdinaryPorts : {Bare(queue[p][k]) : k \in Dequeued(in, p)} \subseteq Uops
    BY <2>1
  <2> QED
    BY <2>2, <2>3, IssueEdge
<1>8. operand' \in [Ports -> SUBSET Uops]
  <2>1. ASSUME NEW p \in Ports PROVE NextOperand(in, p) \subseteq Uops
    <3>1. CASE p = LoadStorePort /\ OutputTaken(in)
      <4>1. Head(output) \in Entries
        BY <3>1 DEF DispatchTypeOK, OutputTaken
      <4> QED
        BY <3>1, <4>1, BareForm DEF NextOperand
    <3>2. CASE p = LoadStorePort /\ ~OutputTaken(in)
      BY <3>2 DEF NextOperand, DispatchTypeOK
    <3>3. CASE p # LoadStorePort
      <4>1. p \in OrdinaryPorts
        BY <3>3, Places
      <4> QED
        BY <3>3, <4>1 DEF NextOperand, DispatchTypeOK
    <3> QED
      BY <3>1, <3>2, <3>3
  <2> QED
    BY <2>1, IssueEdge
<1>9. {multiplying', dividing', divided', barrier', memory'} \subseteq SUBSET Uops
  <2>1. \A kinds : FiredOfKind(in, kinds) \subseteq Uops
    BY FiresType
  <2>2. {multiplying, dividing, divided, barrier, memory} \subseteq SUBSET Uops
    BY DEF DispatchTypeOK
  <2>3. {u \in Fires(in, LoadStorePort) : UsesAgu(u)} \subseteq Uops
    BY FiresType, Places
  <2> QED
    BY <2>1, <2>2, <2>3, ExecuteEdge
<1>10. barrierDropping' \in BOOLEAN
  BY ExecuteEdge DEF DispatchTypeOK
<1>11. dataSent' \subseteq Pointers
  <2>1. \A d \in dataOutput : d.robPointer \in Pointers
    BY DEF DispatchTypeOK, StoreData
  <2>2. dataSent' \subseteq dataSent \cup {d.robPointer : d \in dataOutput}
    BY ExecuteEdge
  <2> QED
    BY <2>1, <2>2 DEF DispatchTypeOK
<1>12. staged' \in [Lanes -> SUBSET Uops]
  BY <1>1, CompletingType, ExecuteEdge
<1>13. /\ slots' \in [Slot -> SUBSET StoreData] /\ dataEnqueueReady' \in BOOLEAN
       /\ dataOutput' \subseteq StoreData
  <2>1. StoreDataMoved(in, FreeSlot, Leaving(in))
    BY StoreDataEdge
  <2>2. \A s \in Slot : slots[s] \subseteq StoreData
    BY DEF DispatchTypeOK
  <2>3. Leaving(in) \subseteq Slot
    BY LeavingForm
  <2>4. dataOutput' \subseteq StoreData
    BY <2>1, <2>2, <2>3 DEF DispatchTypeOK, StoreDataMoved
  <2>5. {NewSlot(u, RegisteredTags) : u \in EntersStoreData} \subseteq StoreData
    BY DataType, EntersStoreDataForm
  <2>6. ASSUME NEW s \in Slot
        PROVE {[d EXCEPT !.ready = @ \/ (d.psrc # 0 /\ d.psrc \in RegisteredTags)] : d \in slots[s]} \subseteq StoreData
    BY <2>2, DataType
  <2>7. slots' \in [Slot -> SUBSET StoreData]
    BY <2>1, <2>5, <2>6 DEF StoreDataMoved
  <2>8. dataEnqueueReady' = (Cardinality(Occupied) < DataSlots - 1)
    BY <2>1, Zenon DEF StoreDataMoved
  <2>9. (Cardinality(Occupied) < DataSlots - 1) \in BOOLEAN
    OBVIOUS
  <2>10. dataEnqueueReady' \in BOOLEAN
    BY <2>8, <2>9, Zenon
  <2> QED
    BY <2>4, <2>7, <2>10
<1> QED
  BY <1>2, <1>3, <1>4, <1>5, <1>6, <1>7, <1>8, <1>9, <1>10, <1>11, <1>12, <1>13 DEF DispatchTypeOK

(***************************************************************************)
(* Where a uop is, and where an edge takes it.                                *)
(***************************************************************************)
(* The places of Whereabouts: the uop u is at position k of the place <<tag, p>>. *)
Sits(tag, p, k, u) ==
    \/ tag = "queue" /\ p = 0 /\ k \in DOMAIN dispatchQueue /\ u = dispatchQueue[k]
    \/ tag = "window" /\ p = 0 /\ k \in DOMAIN window /\ u = window[k]
    \/ tag = "issue" /\ p \in Ports /\ k \in DOMAIN queue[p] /\ u = Bare(queue[p][k])
    \/ tag = "output" /\ p = 0 /\ k \in DOMAIN output /\ u = Bare(output[k])
    \/ tag = "address" /\ p \in OrdinaryPorts /\ k = 0 /\ u \in address[p]
    \/ tag = "operand" /\ p \in Ports /\ k = 0 /\ u \in operand[p]
    \/ tag = "multiply" /\ p = 0 /\ k = 0 /\ u \in multiplying
    \/ tag = "divide" /\ p = 0 /\ k = 0 /\ u \in dividing
    \/ tag = "divided" /\ p = 0 /\ k = 0 /\ u \in divided
    \/ tag = "barrier" /\ p = 0 /\ k = 0 /\ u \in barrier
    \/ tag = "memory" /\ p = 0 /\ k = 0 /\ u \in memory
    \/ tag = "staged" /\ p \in Lanes /\ k = 0 /\ u \in staged[p]

LEMMA SitsAt ==
  ASSUME NEW p, NEW k, NEW u
  PROVE  /\ Sits("queue", p, k, u) <=> p = 0 /\ k \in DOMAIN dispatchQueue /\ u = dispatchQueue[k]
         /\ Sits("window", p, k, u) <=> p = 0 /\ k \in DOMAIN window /\ u = window[k]
         /\ Sits("issue", p, k, u) <=> p \in Ports /\ k \in DOMAIN queue[p] /\ u = Bare(queue[p][k])
         /\ Sits("output", p, k, u) <=> p = 0 /\ k \in DOMAIN output /\ u = Bare(output[k])
         /\ Sits("address", p, k, u) <=> p \in OrdinaryPorts /\ k = 0 /\ u \in address[p]
         /\ Sits("operand", p, k, u) <=> p \in Ports /\ k = 0 /\ u \in operand[p]
         /\ Sits("multiply", p, k, u) <=> p = 0 /\ k = 0 /\ u \in multiplying
         /\ Sits("divide", p, k, u) <=> p = 0 /\ k = 0 /\ u \in dividing
         /\ Sits("divided", p, k, u) <=> p = 0 /\ k = 0 /\ u \in divided
         /\ Sits("barrier", p, k, u) <=> p = 0 /\ k = 0 /\ u \in barrier
         /\ Sits("memory", p, k, u) <=> p = 0 /\ k = 0 /\ u \in memory
         /\ Sits("staged", p, k, u) <=> p \in Lanes /\ k = 0 /\ u \in staged[p]
BY DEF Sits

(* The place an edge without a flush takes it to; from "staged" it is done.      *)
FromQueue(k) ==
    IF k <= Refill(Len(Routed)) THEN <<"window", 0, Len(window) - Len(Routed) + k>>
    ELSE <<"queue", 0, k - Refill(Len(Routed))>>
FromWindow(in, k) ==
    IF k \in DOMAIN Routed THEN <<"issue", Routed[k], QueueKept(in, Routed[k]) + 1>>
    ELSE <<"window", 0, k - Len(Routed)>>
FromIssue(in, p, k) ==
    IF k \notin Dequeued(in, p)
    THEN <<"issue", p, IF \E d \in Dequeued(in, p) : d <= k THEN k - 1 ELSE k>>
    ELSE IF p = LoadStorePort THEN <<"output", 0, Len(output) - Taken(in) + 1>>
    ELSE <<"address", p, 0>>
FromOutput(in, k) ==
    IF OutputTaken(in) /\ k = 1 THEN <<"operand", LoadStorePort, 0>>
    ELSE <<"output", 0, k - Taken(in)>>
FromAddress(in, p) == <<IF OperandReady(in, p) THEN "operand" ELSE "address", p, 0>>
FromOperand(in, p, u) ==
    IF ~IssueReady(in, p, u) THEN <<"operand", p, 0>>
    ELSE IF Direct(u) THEN <<"staged", p, 0>>
    ELSE IF u.kind = "multiply" THEN <<"multiply", 0, 0>>
    ELSE IF u.kind = "divide" THEN <<IF in.divideEnds THEN "divided" ELSE "divide", 0, 0>>
    ELSE IF u.kind = "barrier" THEN <<"barrier", 0, 0>>
    ELSE <<"memory", 0, 0>>
FromDivide(in) == <<IF in.divideEnds THEN "divided" ELSE "divide", 0, 0>>
FromBarrier(in) == IF in.barrierEnds THEN <<"staged", CsrPort, 0>> ELSE <<"barrier", 0, 0>>
FromMemory(in, u) == IF u \in in.memory THEN <<"staged", LoadStorePort, 0>> ELSE <<"memory", 0, 0>>

Goes(in, tag, p, k, u) ==
    CASE tag = "queue" -> FromQueue(k)
      [] tag = "window" -> FromWindow(in, k)
      [] tag = "issue" -> FromIssue(in, p, k)
      [] tag = "output" -> FromOutput(in, k)
      [] tag = "address" -> FromAddress(in, p)
      [] tag = "operand" -> FromOperand(in, p, u)
      [] tag = "multiply" -> <<"staged", MultiplyLane, 0>>
      [] tag = "divide" -> FromDivide(in)
      [] tag = "divided" -> <<"staged", DividePort, 0>>
      [] tag = "barrier" -> FromBarrier(in)
      [] tag = "memory" -> FromMemory(in, u)
      [] OTHER -> <<"done", 0, 0>>

LEMMA GoesAt ==
  ASSUME NEW in, NEW p, NEW k, NEW u
  PROVE  /\ Goes(in, "queue", p, k, u) = FromQueue(k)
         /\ Goes(in, "window", p, k, u) = FromWindow(in, k)
         /\ Goes(in, "issue", p, k, u) = FromIssue(in, p, k)
         /\ Goes(in, "output", p, k, u) = FromOutput(in, k)
         /\ Goes(in, "address", p, k, u) = FromAddress(in, p)
         /\ Goes(in, "operand", p, k, u) = FromOperand(in, p, u)
         /\ Goes(in, "multiply", p, k, u) = <<"staged", MultiplyLane, 0>>
         /\ Goes(in, "divide", p, k, u) = FromDivide(in)
         /\ Goes(in, "divided", p, k, u) = <<"staged", DividePort, 0>>
         /\ Goes(in, "barrier", p, k, u) = FromBarrier(in)
         /\ Goes(in, "memory", p, k, u) = FromMemory(in, u)
BY DEF Goes

(* What a port holds it can execute, its two issue registers hold at most one uop, *)
(* and only loads and stores wait for memory.                                 *)
CapableInv ==
    /\ \A p \in Ports : \A k \in DOMAIN queue[p] : queue[p][k].kind \in Capabilities[p]
    /\ \A k \in DOMAIN output : output[k].kind \in Capabilities[LoadStorePort]
    /\ \A p \in OrdinaryPorts : \A u, v \in address[p] : u = v /\ u.kind \in Capabilities[p]
    /\ \A p \in Ports : \A u, v \in operand[p] : u = v /\ u.kind \in Capabilities[p]

(***************************************************************************)
(* Where the uops of the next state come from, place by place.                 *)
(***************************************************************************)
CameFrom(in, tag, p, k, u) ==
    \E t, q, j : t # "staged" /\ Sits(t, q, j, u) /\ Goes(in, t, q, j, u) = <<tag, p, k>>

LEMMA CameFromWitness ==
  ASSUME NEW in, NEW tag, NEW p, NEW k, NEW u, NEW t, NEW q, NEW j,
         t # "staged", Sits(t, q, j, u), Goes(in, t, q, j, u) = <<tag, p, k>>
  PROVE  CameFrom(in, tag, p, k, u)
BY DEF CameFrom

LEMMA BackToQueue ==
  ASSUME DispatchTypeOK, LiveInv, CapacityInv, NEW in, Accepted(in), Edge(in),
         NEW k \in DOMAIN dispatchQueue', NEW u, u = dispatchQueue'[k]
  PROVE  \/ CameFrom(in, "queue", 0, k, u)
         \/ \E i \in DOMAIN NewUops(in.group) :
               /\ u = NewUops(in.group)[i]
               /\ k = Len(dispatchQueue) - Refill(Len(Routed)) + i
<1> DEFINE take == Refill(Len(Routed))
           group == NewUops(in.group)
<1>1. /\ dispatchQueue \in Seq(Uops) /\ Len(dispatchQueue) \in Nat
      /\ take \in Nat /\ take <= Len(dispatchQueue)
      /\ group \in Seq(Uops) /\ Len(group) \in Nat
  BY RoutedForm, RefillForm, RoomForGroup DEF DispatchTypeOK, NewGroup
<1>2. /\ Len(dispatchQueue') = Len(dispatchQueue) - take + Len(group)
      /\ dispatchQueue' \in Seq(Uops)
      /\ \A i \in 1 .. Len(dispatchQueue) - take : dispatchQueue'[i] = dispatchQueue[i + take]
      /\ \A i \in Len(dispatchQueue) - take + 1 .. Len(dispatchQueue') :
            dispatchQueue'[i] = group[i - (Len(dispatchQueue) - take)]
  BY DispatchEdge
<1> HIDE DEF take, group
<1>3. CASE k <= Len(dispatchQueue) - take
  <2> DEFINE i == k + take
  <2>1. i \in DOMAIN dispatchQueue /\ u = dispatchQueue[i] /\ ~(i <= take) /\ i - take = k
    BY <1>1, <1>2, <1>3
  <2> HIDE DEF i
  <2>2. Sits("queue", 0, i, u)
    BY <2>1, SitsAt
  <2>3. FromQueue(i) = <<"queue", 0, k>>
    BY <2>1 DEF FromQueue, take
  <2>4. Goes(in, "queue", 0, i, u) = <<"queue", 0, k>>
    BY <2>3, GoesAt
  <2> QED
    BY <2>2, <2>4, CameFromWitness
<1>4. CASE k > Len(dispatchQueue) - take
  <2> DEFINE i == k - (Len(dispatchQueue) - take)
  <2>1. i \in DOMAIN group /\ u = group[i] /\ k = Len(dispatchQueue) - take + i
    <3>1. /\ Len(dispatchQueue) \in Nat /\ take \in Nat /\ take <= Len(dispatchQueue)
          /\ Len(group) \in Nat
          /\ k \in 1 .. Len(dispatchQueue) - take + Len(group)
      BY <1>1, <1>2
    <3>2. /\ k \in Len(dispatchQueue) - take + 1 .. Len(dispatchQueue) - take + Len(group)
          /\ i \in 1 .. Len(group) /\ k = Len(dispatchQueue) - take + i
      BY <1>4, <3>1
    <3>3. u = group[i]
      BY <1>2, <3>2
    <3> HIDE DEF i
    <3> QED
      BY <1>1, <3>2, <3>3
  <2> QED
    BY <2>1 DEF group, take
<1> QED
  BY <1>1, <1>2, <1>3, <1>4

LEMMA BackToWindow ==
  ASSUME DispatchTypeOK, LiveInv, CapacityInv, NEW in, Accepted(in), Edge(in),
         NEW k \in DOMAIN window', NEW u, u = window'[k]
  PROVE  CameFrom(in, "window", 0, k, u)
<1> DEFINE take == Refill(Len(Routed))
           out == Len(Routed)
<1>1. /\ dispatchQueue \in Seq(Uops) /\ window \in Seq(Uops)
      /\ Len(dispatchQueue) \in Nat /\ Len(window) \in Nat
      /\ take \in Nat /\ take <= Len(dispatchQueue)
      /\ out \in Nat /\ out <= Len(window) /\ DOMAIN Routed = 1 .. out
  BY RoutedForm, RefillForm DEF DispatchTypeOK
<1>2. /\ Len(window') = Len(window) - out + take /\ window' \in Seq(Uops)
      /\ \A i \in 1 .. Len(window) - out : window'[i] = window[i + out]
      /\ \A i \in Len(window) - out + 1 .. Len(window') :
            window'[i] = dispatchQueue[i - (Len(window) - out)]
  BY DispatchEdge
<1> HIDE DEF take, out
<1>3. CASE k <= Len(window) - out
  <2> DEFINE i == k + out
  <2>1. i \in DOMAIN window /\ u = window[i] /\ i \notin DOMAIN Routed /\ i - out = k
    <3>1. /\ Len(window) \in Nat /\ out \in Nat /\ out <= Len(window) /\ take \in Nat
          /\ k \in 1 .. Len(window) - out + take
      BY <1>1, <1>2
    <3>2. k \in 1 .. Len(window) - out /\ i \in 1 .. Len(window) /\ i > out /\ i - out = k
      <4>1. k \in Nat /\ k >= 1 /\ k <= Len(window) - out
        BY <1>3, <3>1
      <4>2. i \in 1 .. Len(window)
        BY <3>1, <4>1
      <4>3. i > out /\ i - out = k
        BY <3>1, <4>1
      <4> HIDE DEF i
      <4> QED
        BY <3>1, <4>1, <4>2, <4>3
    <3>3. u = window[i]
      BY <1>2, <3>2
    <3> HIDE DEF i
    <3>4. i \notin 1 .. out
      <4>1. i \in Nat /\ out \in Nat /\ i > out
        BY <3>1, <3>2
      <4> QED
        BY <4>1
    <3> QED
      BY <1>1, <3>2, <3>3, <3>4
  <2> HIDE DEF i
  <2>2. Sits("window", 0, i, u)
    BY <2>1, SitsAt
  <2>3. FromWindow(in, i) = <<"window", 0, k>>
    BY <2>1 DEF FromWindow, out
  <2>4. Goes(in, "window", 0, i, u) = <<"window", 0, k>>
    BY <2>3, GoesAt
  <2> QED
    BY <2>2, <2>4, CameFromWitness
<1>4. CASE k > Len(window) - out
  <2> DEFINE i == k - (Len(window) - out)
  <2>0. /\ k \in Len(window) - out + 1 .. Len(window') /\ i \in 1 .. take
        /\ Len(window) - out + i = k
    BY <1>1, <1>2, <1>4
  <2>1. /\ i \in DOMAIN dispatchQueue /\ u = dispatchQueue[i] /\ i <= take
        /\ Len(window) - out + i = k
    <3>1. i \in DOMAIN dispatchQueue /\ i <= take
      <4> HIDE DEF i
      <4> QED
        BY <1>1, <2>0
    <3>2. u = dispatchQueue[i]
      BY <1>2, <2>0
    <3> QED
      BY <2>0, <3>1, <3>2
  <2> HIDE DEF i
  <2>2. Sits("queue", 0, i, u)
    BY <2>1, SitsAt
  <2>3. Goes(in, "queue", 0, i, u) = <<"window", 0, k>>
    <3>1. FromQueue(i) = <<"window", 0, k>>
      BY <2>1 DEF FromQueue, take, out
    <3> QED
      BY <3>1, GoesAt
  <2> QED
    BY <2>2, <2>3, CameFromWitness
<1> QED
  BY <1>1, <1>2, <1>3, <1>4

LEMMA BackToIssue ==
  ASSUME DispatchTypeOK, NEW in, Accepted(in), Edge(in),
         NEW p \in Ports, NEW k \in DOMAIN queue'[p], NEW u, u = Bare(queue'[p][k])
  PROVE  CameFrom(in, "issue", p, k, u)
<1> DEFINE n == QueueKept(in, p)
           tags == EarlyWakeups(in)
<1>1. QueueMoved(in, p)
  BY QueueEdge
<1>2. n \in Nat /\ queue[p] \in Seq(Entries) /\ queue'[p] \in Seq(Entries)
  BY <1>1, KeptForm DEF DispatchTypeOK, QueueMoved
<1>3. CASE k \in 1 .. n
  <2> DEFINE i == QueueFrom(in, p, k)
  <2>1. i \in DOMAIN queue[p] \ Dequeued(in, p) /\ queue'[p][k] = Woken(queue[p][i], tags)
    BY <1>1, <1>3, KeptForm DEF QueueMoved
  <2>2. queue[p][i] \in Entries
    BY <1>2, <2>1
  <2>3. u = Bare(queue[p][i])
    BY <2>1, <2>2, WokenForm
  <2>4. Sits("issue", p, i, u)
    BY <2>1, <2>3, SitsAt
  <2>5. (IF \E d \in Dequeued(in, p) : d <= i THEN i - 1 ELSE i) = k
    <3>1. CASE Dequeued(in, p) = {}
      BY <1>3, <3>1 DEF QueueFrom
    <3>2. ASSUME NEW d \in DOMAIN queue[p], Dequeued(in, p) = {d}
          PROVE  (IF \E e \in Dequeued(in, p) : e <= i THEN i - 1 ELSE i) = k
      <4>1. d \in Nat
        BY <1>2
      <4> QED
        BY <1>3, <3>2, <4>1 DEF QueueFrom
    <3> QED
      BY <3>1, <3>2, DequeuedForm
  <2>6. FromIssue(in, p, i) = <<"issue", p, k>>
    BY <2>1, <2>5, Zenon DEF FromIssue
  <2>7. Goes(in, "issue", p, i, u) = <<"issue", p, k>>
    BY <2>6, GoesAt
  <2> HIDE DEF i
  <2> QED
    BY <2>4, <2>7, CameFromWitness
<1>4. ASSUME NEW j \in DOMAIN Routed, Routed[j] = p, k = n + 1,
             queue'[p][k] = Woken(EntryOf(window[j]), tags)
      PROVE  CameFrom(in, "issue", p, k, u)
  <2>1. j \in DOMAIN window /\ window[j] \in Uops
    BY RoutedForm DEF DispatchTypeOK
  <2>2. u = window[j]
    BY <1>4, <2>1, EntryOfForm, WokenForm
  <2>3. Sits("window", 0, j, u)
    BY <2>1, <2>2, SitsAt
  <2>4. FromWindow(in, j) = <<"issue", p, k>>
    BY <1>4 DEF FromWindow
  <2>5. Goes(in, "window", 0, j, u) = <<"issue", p, k>>
    BY <2>4, GoesAt
  <2> QED
    BY <2>3, <2>5, CameFromWitness
<1>5. k \in 1 .. n \/ \E j \in DOMAIN Routed : Routed[j] = p /\ k = n + 1
                        /\ queue'[p][k] = Woken(EntryOf(window[j]), tags)
  BY <1>1, <1>2 DEF QueueMoved
<1> QED
  BY <1>3, <1>4, <1>5

LEMMA BackToOutput ==
  ASSUME DispatchTypeOK, NEW in, Accepted(in), Edge(in),
         NEW k \in DOMAIN output', NEW u, u = Bare(output'[k])
  PROVE  CameFrom(in, "output", 0, k, u)
<1> DEFINE n == Len(output) - Taken(in)
<1>1. OutputMoved(in)
  BY OutputEdge
<1>2. /\ Taken(in) \in {0, 1} /\ (OutputTaken(in) <=> Taken(in) = 1) /\ n \in Nat
      /\ output \in Seq(Entries) /\ output' \in Seq(Entries) /\ Len(output) \in Nat
  BY <1>1 DEF Taken, DispatchTypeOK, OutputMoved
<1>3. CASE k \in 1 .. n
  <2> DEFINE i == k + Taken(in)
  <2>1. i \in DOMAIN output /\ i - Taken(in) = k /\ ~(OutputTaken(in) /\ i = 1)
    BY <1>2, <1>3
  <2>2. output'[k] = output[i]
    BY <1>1, <1>3 DEF OutputMoved
  <2> HIDE DEF i
  <2>3. Sits("output", 0, i, u)
    BY <2>1, <2>2, SitsAt
  <2>4. FromOutput(in, i) = <<"output", 0, k>>
    BY <2>1 DEF FromOutput
  <2>5. Goes(in, "output", 0, i, u) = <<"output", 0, k>>
    BY <2>4, GoesAt
  <2> QED
    BY <2>3, <2>5, CameFromWitness
<1>4. ASSUME NEW i \in DOMAIN queue[LoadStorePort], Dequeued(in, LoadStorePort) = {i},
             k = n + 1, output'[n + 1] = queue[LoadStorePort][i]
      PROVE  CameFrom(in, "output", 0, k, u)
  <2>1. u = Bare(queue[LoadStorePort][i])
    BY <1>4
  <2>2. Sits("issue", LoadStorePort, i, u)
    BY <2>1, SitsAt, Places
  <2>3. FromIssue(in, LoadStorePort, i) = <<"output", 0, k>>
    BY <1>4 DEF FromIssue
  <2>4. Goes(in, "issue", LoadStorePort, i, u) = <<"output", 0, k>>
    BY <2>3, GoesAt
  <2> QED
    BY <2>2, <2>4, CameFromWitness
<1>5. k \in 1 .. n \/ \E i \in DOMAIN queue[LoadStorePort] :
             Dequeued(in, LoadStorePort) = {i} /\ k = n + 1
                /\ output'[n + 1] = queue[LoadStorePort][i]
  BY <1>1, <1>2 DEF OutputMoved
<1> QED
  BY <1>3, <1>4, <1>5

LEMMA BackToAddress ==
  ASSUME DispatchTypeOK, NEW in, Accepted(in), Edge(in),
         NEW p \in OrdinaryPorts, NEW u \in address'[p]
  PROVE  CameFrom(in, "address", p, 0, u)
<1>0. p \in Ports /\ p # LoadStorePort
  BY Places
<1>1. address'[p] = IF AddressReady(in, p) THEN {Bare(queue[p][k]) : k \in Dequeued(in, p)}
                    ELSE address[p]
  BY IssueEdge
<1>2. CASE AddressReady(in, p)
  <2>1. PICK i \in Dequeued(in, p) : u = Bare(queue[p][i])
    BY <1>1, <1>2
  <2>2. i \in DOMAIN queue[p]
    BY <1>0, DequeuedIn
  <2>3. Sits("issue", p, i, u)
    BY <1>0, <2>1, <2>2, SitsAt
  <2>4. FromIssue(in, p, i) = <<"address", p, 0>>
    BY <1>0, <2>1 DEF FromIssue
  <2>5. Goes(in, "issue", p, i, u) = <<"address", p, 0>>
    BY <2>4, GoesAt
  <2> QED
    BY <2>3, <2>5, CameFromWitness
<1>3. CASE ~AddressReady(in, p)
  <2>1. Sits("address", p, 0, u)
    BY <1>1, <1>3, SitsAt
  <2>2. ~OperandReady(in, p)
    BY <1>3 DEF AddressReady
  <2>3. Goes(in, "address", p, 0, u) = <<"address", p, 0>>
    BY <2>2, GoesAt DEF FromAddress
  <2> QED
    BY <2>1, <2>3, CameFromWitness
<1> QED
  BY <1>2, <1>3

LEMMA BackToOperand ==
  ASSUME DispatchTypeOK, NEW in, Accepted(in), Edge(in),
         NEW p \in Ports, NEW u \in operand'[p]
  PROVE  CameFrom(in, "operand", p, 0, u)
<1>1. operand'[p] = NextOperand(in, p)
  BY IssueEdge
<1>2. ASSUME u \in operand[p], u \notin Fires(in, p) PROVE CameFrom(in, "operand", p, 0, u)
  <2>1. ~IssueReady(in, p, u) /\ Sits("operand", p, 0, u)
    BY <1>2, SitsAt DEF Fires
  <2>2. Goes(in, "operand", p, 0, u) = <<"operand", p, 0>>
    BY <2>1, GoesAt DEF FromOperand
  <2> QED
    BY <2>1, <2>2, CameFromWitness
<1>3. CASE p = LoadStorePort /\ OutputTaken(in)
  <2>1. u = Bare(output[1]) /\ 1 \in DOMAIN output
    BY <1>1, <1>3 DEF NextOperand, OutputTaken, DispatchTypeOK
  <2>2. Sits("output", 0, 1, u)
    BY <2>1, SitsAt
  <2>3. Goes(in, "output", 0, 1, u) = <<"operand", p, 0>>
    BY <1>3, GoesAt DEF FromOutput
  <2> QED
    BY <2>2, <2>3, CameFromWitness
<1>4. CASE p = LoadStorePort /\ ~OutputTaken(in)
  BY <1>1, <1>2, <1>4 DEF NextOperand
<1>5. CASE p # LoadStorePort /\ OperandReady(in, p)
  <2>1. u \in address[p] /\ p \in OrdinaryPorts
    BY <1>1, <1>5, Places DEF NextOperand
  <2>2. Sits("address", p, 0, u)
    BY <2>1, SitsAt
  <2>3. Goes(in, "address", p, 0, u) = <<"operand", p, 0>>
    BY <1>5, GoesAt DEF FromAddress
  <2> QED
    BY <2>2, <2>3, CameFromWitness
<1>6. CASE p # LoadStorePort /\ ~OperandReady(in, p)
  <2>1. u \in operand[p] /\ u \notin Fires(in, p)
    BY <1>1, <1>6 DEF NextOperand, OperandReady
  <2> QED
    BY <1>2, <2>1
<1> QED
  BY <1>3, <1>4, <1>5, <1>6

(* A uop that fires leaves the operand register of a port that can execute it.   *)
LEMMA FiredForm ==
  ASSUME NEW in, NEW kind, NEW u
  PROVE  /\ u \in FiredOfKind(in, {kind}) <=>
              \E p \in Ports : u \in operand[p] /\ IssueReady(in, p, u) /\ u.kind = kind
         /\ \A p : u \in Fires(in, p) <=> u \in operand[p] /\ IssueReady(in, p, u)
BY DEF FiredOfKind, Fires

LEMMA OperandGoes ==
  ASSUME NEW in, NEW p \in Ports, NEW u \in operand[p], IssueReady(in, p, u)
  PROVE  /\ Sits("operand", p, 0, u)
         /\ Direct(u) => Goes(in, "operand", p, 0, u) = <<"staged", p, 0>>
         /\ u.kind = "multiply" => Goes(in, "operand", p, 0, u) = <<"multiply", 0, 0>>
         /\ u.kind = "divide" =>
              Goes(in, "operand", p, 0, u) = <<IF in.divideEnds THEN "divided" ELSE "divide", 0, 0>>
         /\ u.kind = "barrier" => Goes(in, "operand", p, 0, u) = <<"barrier", 0, 0>>
         /\ UsesAgu(u) => Goes(in, "operand", p, 0, u) = <<"memory", 0, 0>>
<1>1. Goes(in, "operand", p, 0, u) = FromOperand(in, p, u)
  BY GoesAt
<1> QED
  BY <1>1, SitsAt DEF FromOperand, Direct, UsesAgu

LEMMA BackToMultiply ==
  ASSUME NEW in, Accepted(in), Edge(in), NEW u \in multiplying'
  PROVE  CameFrom(in, "multiply", 0, 0, u)
<1>0. u \in FiredOfKind(in, {"multiply"})
  BY ExecuteEdge
<1>1. PICK p \in Ports : u \in operand[p] /\ IssueReady(in, p, u) /\ u.kind = "multiply"
  BY <1>0, FiredForm
<1>2. Sits("operand", p, 0, u) /\ Goes(in, "operand", p, 0, u) = <<"multiply", 0, 0>>
  BY <1>1, OperandGoes
<1> QED
  BY <1>2, CameFromWitness

LEMMA BackToDivide ==
  ASSUME CapableInv, NEW in, Accepted(in), Edge(in), NEW u
  PROVE  /\ u \in dividing' => CameFrom(in, "divide", 0, 0, u)
         /\ u \in divided' => CameFrom(in, "divided", 0, 0, u)
<1> DEFINE starts == FiredOfKind(in, {"divide"})
           place == IF in.divideEnds THEN "divided" ELSE "divide"
<1>1. ASSUME u \in starts PROVE CameFrom(in, place, 0, 0, u)
  <2>1. PICK p \in Ports : u \in operand[p] /\ IssueReady(in, p, u) /\ u.kind = "divide"
    BY <1>1, FiredForm
  <2>2. Sits("operand", p, 0, u) /\ Goes(in, "operand", p, 0, u) = <<place, 0, 0>>
    BY <2>1, OperandGoes
  <2> QED
    BY <2>2, CameFromWitness
<1>2. ASSUME u \in dividing PROVE CameFrom(in, place, 0, 0, u)
  <2>1. Sits("divide", 0, 0, u) /\ Goes(in, "divide", 0, 0, u) = <<place, 0, 0>>
    BY <1>2, SitsAt, GoesAt DEF FromDivide
  <2> QED
    BY <2>1, CameFromWitness
<1> HIDE DEF starts
<1>3. /\ dividing' = (IF dividing # {} THEN IF in.divideEnds THEN {} ELSE dividing
                         ELSE IF in.divideEnds THEN {} ELSE starts)
      /\ divided' = (IF ~in.divideEnds THEN {}
                        ELSE IF dividing # {} THEN dividing ELSE starts)
  BY ExecuteEdge DEF starts
<1> QED
  BY <1>1, <1>2, <1>3

LEMMA BackToBarrier ==
  ASSUME NEW in, Accepted(in), Edge(in), NEW u \in barrier'
  PROVE  CameFrom(in, "barrier", 0, 0, u)
<1>1. ~in.barrierEnds /\ (u \in barrier \/ u \in FiredOfKind(in, {"barrier"}))
  BY ExecuteEdge
<1>2. CASE u \in barrier
  <2>1. Sits("barrier", 0, 0, u)
    BY <1>2, SitsAt
  <2>2. Goes(in, "barrier", 0, 0, u) = <<"barrier", 0, 0>>
    BY <1>1, GoesAt DEF FromBarrier
  <2> QED
    BY <2>1, <2>2, CameFromWitness
<1>3. CASE u \in FiredOfKind(in, {"barrier"})
  <2>1. PICK p \in Ports : u \in operand[p] /\ IssueReady(in, p, u) /\ u.kind = "barrier"
    BY <1>3, FiredForm
  <2> QED
    BY <2>1, OperandGoes, CameFromWitness
<1> QED
  BY <1>1, <1>2, <1>3

LEMMA BackToMemory ==
  ASSUME NEW in, Accepted(in), Edge(in), NEW u \in memory'
  PROVE  CameFrom(in, "memory", 0, 0, u)
<1>1. (u \in memory /\ u \notin in.memory) \/ (u \in Fires(in, LoadStorePort) /\ UsesAgu(u))
  BY ExecuteEdge
<1>2. CASE u \in memory /\ u \notin in.memory
  <2>1. Sits("memory", 0, 0, u) /\ Goes(in, "memory", 0, 0, u) = <<"memory", 0, 0>>
    BY <1>2, SitsAt, GoesAt DEF FromMemory
  <2> QED
    BY <2>1, CameFromWitness
<1>3. CASE u \in Fires(in, LoadStorePort) /\ UsesAgu(u)
  <2>1. u \in operand[LoadStorePort] /\ IssueReady(in, LoadStorePort, u)
    BY <1>3, FiredForm
  <2> QED
    BY <1>3, <2>1, Places, OperandGoes, CameFromWitness
<1> QED
  BY <1>1, <1>2, <1>3

LEMMA BackToStaged ==
  ASSUME NEW in, Accepted(in), Edge(in), NEW l \in Lanes, NEW u \in staged'[l]
  PROVE  CameFrom(in, "staged", l, 0, u)
<1>1. u \in Completing(in, l)
  BY ExecuteEdge
<1>2. CASE l = MultiplyLane /\ u \in multiplying
  <2>1. Sits("multiply", 0, 0, u) /\ Goes(in, "multiply", 0, 0, u) = <<"staged", l, 0>>
    BY <1>2, SitsAt, GoesAt
  <2> QED
    BY <2>1, CameFromWitness
<1>3. CASE l = DividePort /\ u \in divided
  <2>1. Sits("divided", 0, 0, u) /\ Goes(in, "divided", 0, 0, u) = <<"staged", l, 0>>
    BY <1>3, SitsAt, GoesAt
  <2> QED
    BY <2>1, CameFromWitness
<1>4. CASE l = LoadStorePort /\ u \in in.memory
  <2>1. Sits("memory", 0, 0, u)
    BY <1>4, SitsAt DEF Accepted, MemoryCompletes
  <2>2. Goes(in, "memory", 0, 0, u) = <<"staged", l, 0>>
    BY <1>4, GoesAt DEF FromMemory
  <2> QED
    BY <2>1, <2>2, CameFromWitness
<1>5. CASE l = CsrPort /\ in.barrierEnds /\ u \in barrier
  <2>1. Sits("barrier", 0, 0, u) /\ Goes(in, "barrier", 0, 0, u) = <<"staged", l, 0>>
    BY <1>5, SitsAt, GoesAt DEF FromBarrier
  <2> QED
    BY <2>1, CameFromWitness
<1>6. CASE l \in Ports /\ u \in Fires(in, l) /\ Direct(u)
  <2>1. u \in operand[l] /\ IssueReady(in, l, u)
    BY <1>6, FiredForm
  <2> QED
    BY <1>6, <2>1, OperandGoes, CameFromWitness
<1>7. \/ l = MultiplyLane /\ u \in multiplying
      \/ l = DividePort /\ u \in divided
      \/ l = LoadStorePort /\ u \in in.memory
      \/ l = CsrPort /\ in.barrierEnds /\ u \in barrier
      \/ l \in Ports /\ u \in Fires(in, l) /\ Direct(u)
  BY <1>1 DEF Completing
<1> QED
  BY <1>2, <1>3, <1>4, <1>5, <1>6, <1>7

(* Every uop of the next state comes from a place of its own or is renamed in.   *)
NewInQueue(in, k, u) ==
    \E i \in DOMAIN NewUops(in.group) :
       u = NewUops(in.group)[i] /\ k = Len(dispatchQueue) - Refill(Len(Routed)) + i

LEMMA BackTo ==
  ASSUME DispatchTypeOK, LiveInv, CapacityInv, CapableInv, NEW in, Accepted(in), Edge(in),
         NEW tag, NEW p, NEW k, NEW u, Sits(tag, p, k, u)'
  PROVE  CameFrom(in, tag, p, k, u) \/ (tag = "queue" /\ p = 0 /\ NewInQueue(in, k, u))
<1>1. \/ tag = "queue" /\ p = 0 /\ k \in DOMAIN dispatchQueue' /\ u = dispatchQueue'[k]
      \/ tag = "window" /\ p = 0 /\ k \in DOMAIN window' /\ u = window'[k]
      \/ tag = "issue" /\ p \in Ports /\ k \in DOMAIN queue'[p] /\ u = Bare(queue'[p][k])
      \/ tag = "output" /\ p = 0 /\ k \in DOMAIN output' /\ u = Bare(output'[k])
      \/ tag = "address" /\ p \in OrdinaryPorts /\ k = 0 /\ u \in address'[p]
      \/ tag = "operand" /\ p \in Ports /\ k = 0 /\ u \in operand'[p]
      \/ tag = "multiply" /\ p = 0 /\ k = 0 /\ u \in multiplying'
      \/ tag = "divide" /\ p = 0 /\ k = 0 /\ u \in dividing'
      \/ tag = "divided" /\ p = 0 /\ k = 0 /\ u \in divided'
      \/ tag = "barrier" /\ p = 0 /\ k = 0 /\ u \in barrier'
      \/ tag = "memory" /\ p = 0 /\ k = 0 /\ u \in memory'
      \/ tag = "staged" /\ p \in Lanes /\ k = 0 /\ u \in staged'[p]
  BY DEF Sits, Bare, OrdinaryPorts, Lanes, MultiplyLane
<1>2. CASE tag = "queue" /\ p = 0 /\ k \in DOMAIN dispatchQueue' /\ u = dispatchQueue'[k]
  BY <1>2, BackToQueue DEF NewInQueue
<1>3. CASE tag = "window" /\ p = 0 /\ k \in DOMAIN window' /\ u = window'[k]
  BY <1>3, BackToWindow
<1>4. CASE tag = "issue" /\ p \in Ports /\ k \in DOMAIN queue'[p] /\ u = Bare(queue'[p][k])
  BY <1>4, BackToIssue
<1>5. CASE tag = "output" /\ p = 0 /\ k \in DOMAIN output' /\ u = Bare(output'[k])
  BY <1>5, BackToOutput
<1>6. CASE tag = "address" /\ p \in OrdinaryPorts /\ k = 0 /\ u \in address'[p]
  BY <1>6, BackToAddress
<1>7. CASE tag = "operand" /\ p \in Ports /\ k = 0 /\ u \in operand'[p]
  BY <1>7, BackToOperand
<1>8. CASE tag = "multiply" /\ p = 0 /\ k = 0 /\ u \in multiplying'
  BY <1>8, BackToMultiply
<1>9. CASE tag = "divide" /\ p = 0 /\ k = 0 /\ u \in dividing'
  BY <1>9, BackToDivide
<1>10. CASE tag = "divided" /\ p = 0 /\ k = 0 /\ u \in divided'
  BY <1>10, BackToDivide
<1>11. CASE tag = "barrier" /\ p = 0 /\ k = 0 /\ u \in barrier'
  BY <1>11, BackToBarrier
<1>12. CASE tag = "memory" /\ p = 0 /\ k = 0 /\ u \in memory'
  BY <1>12, BackToMemory
<1>13. CASE tag = "staged" /\ p \in Lanes /\ k = 0 /\ u \in staged'[p]
  BY <1>13, BackToStaged
<1> QED
  BY <1>1, <1>2, <1>3, <1>4, <1>5, <1>6, <1>7, <1>8, <1>9, <1>10, <1>11, <1>12, <1>13

(***************************************************************************)
(* Where the uops of this state go, place by place: none is dropped.           *)
(***************************************************************************)
Somewhere(u) == \E tag, p, k : Sits(tag, p, k, u)

LEMMA SitsNext ==
  ASSUME NEW p, NEW k, NEW u
  PROVE  /\ (p = 0 /\ k \in DOMAIN dispatchQueue' /\ u = dispatchQueue'[k]) => Somewhere(u)'
         /\ (p = 0 /\ k \in DOMAIN window' /\ u = window'[k]) => Somewhere(u)'
         /\ (p \in Ports /\ k \in DOMAIN queue'[p] /\ u = Bare(queue'[p][k])) => Somewhere(u)'
         /\ (p = 0 /\ k \in DOMAIN output' /\ u = Bare(output'[k])) => Somewhere(u)'
         /\ (p \in OrdinaryPorts /\ u \in address'[p]) => Somewhere(u)'
         /\ (p \in Ports /\ u \in operand'[p]) => Somewhere(u)'
         /\ u \in multiplying' => Somewhere(u)'
         /\ u \in dividing' => Somewhere(u)'
         /\ u \in divided' => Somewhere(u)'
         /\ u \in barrier' => Somewhere(u)'
         /\ u \in memory' => Somewhere(u)'
         /\ (p \in Lanes /\ u \in staged'[p]) => Somewhere(u)'
<1>1. ASSUME NEW tag, NEW q, NEW j, Sits(tag, q, j, u)' PROVE Somewhere(u)'
  BY <1>1 DEF Somewhere
<1>2. /\ Sits("queue", p, k, u)' <=> p = 0 /\ k \in DOMAIN dispatchQueue' /\ u = dispatchQueue'[k]
      /\ Sits("window", p, k, u)' <=> p = 0 /\ k \in DOMAIN window' /\ u = window'[k]
      /\ Sits("issue", p, k, u)' <=> p \in Ports /\ k \in DOMAIN queue'[p] /\ u = Bare(queue'[p][k])
      /\ Sits("output", p, k, u)' <=> p = 0 /\ k \in DOMAIN output' /\ u = Bare(output'[k])
      /\ Sits("address", p, 0, u)' <=> p \in OrdinaryPorts /\ u \in address'[p]
      /\ Sits("operand", p, 0, u)' <=> p \in Ports /\ u \in operand'[p]
      /\ Sits("staged", p, 0, u)' <=> p \in Lanes /\ u \in staged'[p]
  BY DEF Sits, Bare, OrdinaryPorts, Lanes, MultiplyLane
<1>3. /\ Sits("multiply", 0, 0, u)' <=> u \in multiplying'
      /\ Sits("divide", 0, 0, u)' <=> u \in dividing'
      /\ Sits("divided", 0, 0, u)' <=> u \in divided'
      /\ Sits("barrier", 0, 0, u)' <=> u \in barrier'
      /\ Sits("memory", 0, 0, u)' <=> u \in memory'
  BY DEF Sits
<1> QED
  BY <1>1, <1>2, <1>3

LEMMA ForthFromQueue ==
  ASSUME DispatchTypeOK, LiveInv, CapacityInv, NEW in, Accepted(in), Edge(in),
         NEW k \in DOMAIN dispatchQueue, NEW u, u = dispatchQueue[k]
  PROVE  Somewhere(u)'
<1> DEFINE take == Refill(Len(Routed))
           out == Len(Routed)
           group == NewUops(in.group)
<1>0. dispatchQueue \in Seq(Uops) /\ window \in Seq(Uops)
  BY DEF DispatchTypeOK
<1>1. /\ Len(dispatchQueue) \in Nat /\ Len(window) \in Nat
      /\ take \in Nat /\ take <= Len(dispatchQueue)
      /\ out \in Nat /\ out <= Len(window)
  BY <1>0, RoutedForm, RefillForm
<1>20. group \in Seq(Uops) /\ Len(group) \in Nat
  BY RoomForGroup DEF NewGroup
<1>21. /\ window' \in Seq(Uops)
       /\ Len(window') = Len(window) - out + take
       /\ \A i \in Len(window) - out + 1 .. Len(window') :
             window'[i] = dispatchQueue[i - (Len(window) - out)]
  BY DispatchEdge
<1>22. /\ dispatchQueue' \in Seq(Uops)
       /\ Len(dispatchQueue') = Len(dispatchQueue) - take + Len(group)
       /\ \A i \in 1 .. Len(dispatchQueue) - take : dispatchQueue'[i] = dispatchQueue[i + take]
  BY DispatchEdge
<1> HIDE DEF take, out, group
<1>3. CASE k <= take
  <2> DEFINE i == Len(window) - out + k
  <2>1. /\ i \in DOMAIN window' /\ i \in Len(window) - out + 1 .. Len(window')
        /\ i - (Len(window) - out) = k
    BY <1>1, <1>20, <1>21, <1>22, <1>3
  <2>2. window'[i] = dispatchQueue[k]
    BY <1>21, <1>22, <2>1
  <2> HIDE DEF i
  <2> QED
    BY <2>1, <2>2, SitsNext
<1>4. CASE k > take
  <2> DEFINE i == k - take
  <2>1. i \in DOMAIN dispatchQueue' /\ i \in 1 .. Len(dispatchQueue) - take /\ i + take = k
    BY <1>1, <1>20, <1>21, <1>22, <1>4
  <2>2. dispatchQueue'[i] = dispatchQueue[k]
    BY <1>21, <1>22, <2>1
  <2> HIDE DEF i
  <2> QED
    BY <2>1, <2>2, SitsNext
<1> QED
  BY <1>1, <1>3, <1>4

LEMMA ForthFromWindow ==
  ASSUME DispatchTypeOK, LiveInv, CapacityInv, NEW in, Accepted(in), Edge(in),
         NEW k \in DOMAIN window, NEW u, u = window[k]
  PROVE  Somewhere(u)'
<1> DEFINE take == Refill(Len(Routed))
           out == Len(Routed)
<1>1. /\ window \in Seq(Uops) /\ Len(window) \in Nat
      /\ take \in Nat /\ out \in Nat /\ out <= Len(window) /\ DOMAIN Routed = 1 .. out
  BY RoutedForm, RefillForm DEF DispatchTypeOK
<1>2. /\ window' \in Seq(Uops)
      /\ Len(window') = Len(window) - out + take
      /\ \A i \in 1 .. Len(window) - out : window'[i] = window[i + out]
  BY DispatchEdge
<1> HIDE DEF take, out
<1>3. CASE k \notin DOMAIN Routed
  <2> DEFINE i == k - out
  <2>1. i \in DOMAIN window' /\ i \in 1 .. Len(window) - out /\ i + out = k
    BY <1>1, <1>2, <1>3
  <2>2. window'[i] = window[k]
    BY <1>2, <2>1
  <2> HIDE DEF i
  <2> QED
    BY <2>1, <2>2, SitsNext
<1>4. CASE k \in DOMAIN Routed
  <2> DEFINE p == Routed[k]
             n == QueueKept(in, p) + 1
  <2>1. p \in Ports
    BY <1>4, RoutedForm
  <2>2. QueueMoved(in, p) /\ k \in Entered(p) /\ QueueKept(in, p) \in Nat
    BY <1>4, <2>1, QueueEdge, KeptForm DEF Entered
  <2> HIDE DEF p
  <2>3. /\ queue'[p] \in Seq(Entries) /\ Len(queue'[p]) = n
        /\ queue'[p][n] = Woken(EntryOf(window[k]), EarlyWakeups(in))
    BY <2>2 DEF QueueMoved
  <2>4. n \in DOMAIN queue'[p]
    BY <2>2, <2>3
  <2>5. window[k] \in Uops
    BY <1>1
  <2>6. u = Bare(queue'[p][n])
    BY <2>3, <2>5, EntryOfForm, WokenForm
  <2> HIDE DEF n
  <2> QED
    BY <2>1, <2>4, <2>6, SitsNext
<1> QED
  BY <1>3, <1>4

LEMMA ForthFromIssue ==
  ASSUME DispatchTypeOK, NEW in, Accepted(in), Edge(in),
         NEW p \in Ports, NEW k \in DOMAIN queue[p], NEW u, u = Bare(queue[p][k])
  PROVE  Somewhere(u)'
<1>1. CASE k \notin Dequeued(in, p)
  <2> DEFINE i == IF \E d \in Dequeued(in, p) : d <= k THEN k - 1 ELSE k
  <2>1. i \in 1 .. QueueKept(in, p) /\ QueueFrom(in, p, i) = k
    BY <1>1, KeptOnto
  <2> HIDE DEF i
  <2>2. QueueMoved(in, p)
    BY QueueEdge
  <2>3. i \in DOMAIN queue'[p] /\ queue'[p][i] = Woken(queue[p][k], EarlyWakeups(in))
    BY <2>1, <2>2 DEF QueueMoved
  <2>4. queue[p][k] \in Entries
    BY DEF DispatchTypeOK
  <2>5. u = Bare(queue'[p][i])
    BY <2>3, <2>4, WokenForm
  <2> QED
    BY <2>3, <2>5, SitsNext
<1>2. CASE k \in Dequeued(in, p) /\ p = LoadStorePort
  <2> DEFINE n == Len(output) - Taken(in) + 1
  <2>1. OutputMoved(in)
    BY OutputEdge
  <2>2. Len(output') = n /\ output'[n] = queue[LoadStorePort][k] /\ output' \in Seq(Entries)
    BY <1>2, <2>1 DEF OutputMoved
  <2>3. n \in Nat /\ n >= 1
    BY <2>1 DEF OutputMoved, Taken, DispatchTypeOK
  <2>4. n \in DOMAIN output'
    BY <2>2, <2>3
  <2> HIDE DEF n
  <2> QED
    BY <1>2, <2>2, <2>4, SitsNext
<1>3. CASE k \in Dequeued(in, p) /\ p # LoadStorePort
  <2>1. p \in OrdinaryPorts /\ AddressReady(in, p)
    BY <1>3, Places, DequeuedForm
  <2>2. u \in address'[p]
    BY <1>3, <2>1, IssueEdge
  <2> QED
    BY <2>1, <2>2, SitsNext
<1> QED
  BY <1>1, <1>2, <1>3

LEMMA ForthFromOutput ==
  ASSUME DispatchTypeOK, NEW in, Accepted(in), Edge(in),
         NEW k \in DOMAIN output, NEW u, u = Bare(output[k])
  PROVE  Somewhere(u)'
<1>0. output \in Seq(Entries) /\ OutputMoved(in) /\ Len(output) \in Nat
  BY OutputEdge DEF DispatchTypeOK
<1>1. CASE OutputTaken(in) /\ k = 1
  <2>1. operand'[LoadStorePort] = {Bare(Head(output))}
    BY <1>1, Places, IssueEdge DEF NextOperand
  <2>2. Head(output) = output[1]
    BY <1>0
  <2> QED
    BY <1>1, <2>1, <2>2, Places, SitsNext
<1>2. CASE ~(OutputTaken(in) /\ k = 1)
  <2> DEFINE i == k - Taken(in)
  <2>1. i \in 1 .. Len(output) - Taken(in) /\ i + Taken(in) = k
    BY <1>0, <1>2 DEF Taken
  <2>2. output'[i] = output[k]
    BY <1>0, <2>1 DEF OutputMoved
  <2>3. i \in DOMAIN output'
    BY <1>0, <2>1 DEF OutputMoved, Taken
  <2> HIDE DEF i
  <2> QED
    BY <2>2, <2>3, SitsNext
<1> QED
  BY <1>1, <1>2

LEMMA ForthFromAddress ==
  ASSUME NEW in, Accepted(in), Edge(in), NEW p \in OrdinaryPorts, NEW u \in address[p]
  PROVE  Somewhere(u)'
<1>1. p \in Ports /\ p # LoadStorePort
  BY Places
<1>2. CASE OperandReady(in, p)
  <2>1. u \in operand'[p]
    BY <1>1, <1>2, IssueEdge DEF NextOperand
  <2> QED
    BY <1>1, <2>1, SitsNext
<1>3. CASE ~OperandReady(in, p)
  <2>1. u \in address'[p]
    BY <1>3, IssueEdge DEF AddressReady
  <2> QED
    BY <2>1, SitsNext
<1> QED
  BY <1>2, <1>3

(* The units a kind of uop goes through sit at one port each.                   *)
LEMMA KindsAtPorts ==
  ASSUME NEW p \in Ports, NEW u, u.kind \in Capabilities[p]
  PROVE  /\ u.kind = "barrier" => p = CsrPort
         /\ u.kind = "divide" => p = DividePort
         /\ u.kind = "multiply" => p = MultiplyPort
         /\ UsesAgu(u) => p = LoadStorePort
         /\ IsStore(u) => p = LoadStorePort
<1>1. UsesAgu(u) => {"load", "ll", "store", "sc"} \cap Capabilities[p] # {}
  BY DEF UsesAgu
<1>2. IsStore(u) => UsesAgu(u)
  BY DEF IsStore, UsesAgu
<1> QED
  BY <1>1, <1>2, PortsAssumption

LEMMA ForthFromOperand ==
  ASSUME CapableInv, NEW in, Accepted(in), Edge(in), NEW p \in Ports, NEW u \in operand[p]
  PROVE  Somewhere(u)'
<1>1. u.kind \in Capabilities[p] /\ operand[p] = {u}
  BY DEF CapableInv
<1>2. CASE ~IssueReady(in, p, u)
  <2>1. Fires(in, p) = {}
    BY <1>1, <1>2 DEF Fires
  <2>2. ~OperandReady(in, p)
    BY <1>1, <2>1 DEF OperandReady
  <2>3. u \in operand'[p]
    BY <2>1, <2>2, IssueEdge DEF NextOperand, OutputTaken
  <2> QED
    BY <2>3, SitsNext
<1>3. CASE IssueReady(in, p, u) /\ Direct(u)
  <2>1. u \in {v \in Fires(in, p) : Direct(v)}
    BY <1>3, FiredForm
  <2>2. /\ p = DividePort => divided = {}
        /\ p = LoadStorePort => in.memory = {}
        /\ p = CsrPort => ~in.barrierEnds
    BY <1>3 DEF IssueReady, Direct, Accepted, BarrierMayEnd
  <2>3. p \in Lanes /\ p # MultiplyLane
    BY Places
  <2>4. Completing(in, p) = {v \in Fires(in, p) : Direct(v)}
    BY <2>2, <2>3 DEF Completing
  <2>5. u \in staged'[p]
    BY <2>1, <2>3, <2>4, ExecuteEdge
  <2> QED
    BY <2>3, <2>5, SitsNext
<1>4. CASE IssueReady(in, p, u) /\ u.kind = "multiply"
  <2>1. u \in FiredOfKind(in, {"multiply"})
    BY <1>4, FiredForm
  <2>2. u \in multiplying'
    BY <2>1, ExecuteEdge
  <2> QED
    BY <2>2, SitsNext
<1>5. CASE IssueReady(in, p, u) /\ u.kind = "divide"
  <2> DEFINE starts == FiredOfKind(in, {"divide"})
  <2>1. u \in starts
    BY <1>5, FiredForm
  <2>2. dividing = {}
    BY <1>1, <1>5, KindsAtPorts DEF IssueReady
  <2> HIDE DEF starts
  <2>3. /\ dividing' = (IF dividing # {} THEN IF in.divideEnds THEN {} ELSE dividing
                         ELSE IF in.divideEnds THEN {} ELSE starts)
        /\ divided' = (IF ~in.divideEnds THEN {}
                        ELSE IF dividing # {} THEN dividing ELSE starts)
    BY ExecuteEdge DEF starts
  <2>4. u \in dividing' \/ u \in divided'
    BY <2>1, <2>2, <2>3
  <2> QED
    BY <2>4, SitsNext
<1>6. CASE IssueReady(in, p, u) /\ u.kind = "barrier"
  <2>1. u \in FiredOfKind(in, {"barrier"})
    BY <1>6, FiredForm
  <2>2. ~in.barrierEnds
    BY <1>1, <1>6, KindsAtPorts DEF IssueReady, Accepted, BarrierMayEnd
  <2>3. u \in barrier'
    BY <2>1, <2>2, ExecuteEdge
  <2> QED
    BY <2>3, SitsNext
<1>7. CASE IssueReady(in, p, u) /\ UsesAgu(u)
  <2>1. p = LoadStorePort /\ u \in Fires(in, p)
    BY <1>1, <1>7, KindsAtPorts, FiredForm
  <2>2. u \in memory'
    BY <1>7, <2>1, ExecuteEdge
  <2> QED
    BY <2>2, SitsNext
<1> QED
  BY <1>2, <1>3, <1>4, <1>5, <1>6, <1>7 DEF Direct

LEMMA ForthFromUnits ==
  ASSUME NEW in, Accepted(in), Edge(in), NEW u
  PROVE  /\ u \in multiplying => Somewhere(u)'
         /\ u \in dividing => Somewhere(u)'
         /\ u \in divided => Somewhere(u)'
         /\ u \in barrier => Somewhere(u)'
         /\ u \in memory => Somewhere(u)'
<1>0. /\ {MultiplyLane, DividePort, CsrPort, LoadStorePort} \subseteq Lanes
      /\ MultiplyLane \notin {DividePort, CsrPort, LoadStorePort}
      /\ DividePort # CsrPort /\ DividePort # LoadStorePort /\ CsrPort # LoadStorePort
  BY Places
<1>1. \A l \in Lanes : staged'[l] = Completing(in, l)
  BY ExecuteEdge
<1>2. CASE u \in multiplying
  <2>1. Completing(in, MultiplyLane) = multiplying
    BY <1>0 DEF Completing
  <2> QED
    BY <1>0, <1>1, <1>2, <2>1, SitsNext
<1>3. CASE u \in dividing
  <2>1. u \in dividing' \/ u \in divided'
    BY <1>3, ExecuteEdge
  <2> QED
    BY <2>1, SitsNext
<1>4. CASE u \in divided
  <2>1. Completing(in, DividePort) = divided
    BY <1>0, <1>4 DEF Completing
  <2> QED
    BY <1>0, <1>1, <1>4, <2>1, SitsNext
<1>5. CASE u \in barrier
  <2>1. CASE in.barrierEnds
    <3>1. Completing(in, CsrPort) = barrier
      BY <1>0, <2>1 DEF Completing
    <3> QED
      BY <1>0, <1>1, <1>5, <3>1, SitsNext
  <2>2. CASE ~in.barrierEnds
    <3>1. u \in barrier'
      BY <1>5, <2>2, ExecuteEdge
    <3> QED
      BY <3>1, SitsNext
  <2> QED
    BY <2>1, <2>2
<1>6. CASE u \in memory
  <2>1. CASE u \in in.memory
    <3>1. Completing(in, LoadStorePort) = in.memory
      BY <1>0, <2>1 DEF Completing
    <3> QED
      BY <1>0, <1>1, <2>1, <3>1, SitsNext
  <2>2. CASE u \notin in.memory
    <3>1. u \in memory'
      BY <1>6, <2>2, ExecuteEdge
    <3> QED
      BY <3>1, SitsNext
  <2> QED
    BY <2>1, <2>2
<1> QED
  BY <1>2, <1>3, <1>4, <1>5, <1>6

LEMMA ForthTo ==
  ASSUME DispatchTypeOK, LiveInv, CapacityInv, CapableInv, NEW in, Accepted(in), Edge(in),
         NEW tag, NEW p, NEW k, NEW u, Sits(tag, p, k, u), tag # "staged"
  PROVE  Somewhere(u)'
<1>1. CASE tag = "queue" /\ p = 0 /\ k \in DOMAIN dispatchQueue /\ u = dispatchQueue[k]
  BY <1>1, ForthFromQueue
<1>2. CASE tag = "window" /\ p = 0 /\ k \in DOMAIN window /\ u = window[k]
  BY <1>2, ForthFromWindow
<1>3. CASE tag = "issue" /\ p \in Ports /\ k \in DOMAIN queue[p] /\ u = Bare(queue[p][k])
  BY <1>3, ForthFromIssue
<1>4. CASE tag = "output" /\ p = 0 /\ k \in DOMAIN output /\ u = Bare(output[k])
  BY <1>4, ForthFromOutput
<1>5. CASE tag = "address" /\ p \in OrdinaryPorts /\ k = 0 /\ u \in address[p]
  BY <1>5, ForthFromAddress
<1>6. CASE tag = "operand" /\ p \in Ports /\ k = 0 /\ u \in operand[p]
  BY <1>6, ForthFromOperand
<1> QED
  BY <1>1, <1>2, <1>3, <1>4, <1>5, <1>6, ForthFromUnits DEF Sits

(***************************************************************************)
(* The reorder buffer after an edge.                                         *)
(***************************************************************************)
LEMMA RingShift ==
  ASSUME NEW a \in Nat, NEW b \in Nat, a + b < 2 * PointerModulus
  PROVE  Ring(Ring(a) + b) = Ring(a + b)
<1>1. Ring(a) = IF a < PointerModulus THEN a ELSE a - PointerModulus
  BY Geometry, WrapOnce
<1> DEFINE x == Ring(a) + b
           y == a + b
<1>2. /\ x \in Nat /\ x < 2 * PointerModulus /\ y \in Nat /\ y < 2 * PointerModulus
      /\ x = y \/ (x = y - PointerModulus /\ y >= PointerModulus)
  BY <1>1, Geometry
<1> HIDE DEF x, y
<1>3. /\ Ring(x) = IF x < PointerModulus THEN x ELSE x - PointerModulus
      /\ Ring(y) = IF y < PointerModulus THEN y ELSE y - PointerModulus
  BY <1>2, WrapOnce
<1>4. Ring(x) = Ring(y)
  BY <1>2, <1>3, Geometry
<1> QED
  BY <1>4 DEF x, y

(* Less than a turn ahead of the head, positions are distinct.                 *)
LEMMA RingDistinct ==
  ASSUME NEW a \in Pointers, NEW i \in 0 .. PointerModulus - 1, NEW j \in 0 .. PointerModulus - 1,
         Ring(a + i) = Ring(a + j)
  PROVE  i = j
<1> DEFINE x == a + i
           y == a + j
<1>0. Ring(x) = Ring(y)
  OBVIOUS
<1>1. /\ x \in Nat /\ x < 2 * PointerModulus /\ y \in Nat /\ y < 2 * PointerModulus
      /\ x - y < PointerModulus /\ y - x < PointerModulus
  BY Geometry DEF Pointers
<1> HIDE DEF x, y
<1>2. /\ x < PointerModulus => Ring(x) = x
      /\ x >= PointerModulus => Ring(x) = x - PointerModulus
      /\ y < PointerModulus => Ring(y) = y
      /\ y >= PointerModulus => Ring(y) = y - PointerModulus
  BY <1>1, WrapOnce, Geometry
<1>3. x = y
  <2> DEFINE m == PointerModulus
             r == Ring(x)
  <2>1. /\ x < m => r = x
        /\ x >= m => r = x - m
        /\ y < m => r = y
        /\ y >= m => r = y - m
    BY <1>0, <1>2
  <2>2. m \in Nat /\ x \in Nat /\ y \in Nat /\ x - y < m /\ y - x < m
    BY <1>1, Geometry
  <2> HIDE DEF m, r
  <2> QED
    BY <2>1, <2>2
<1> QED
  BY <1>3, Geometry DEF x, y, Pointers

(* The new group takes pointers nothing in the reorder buffer has.              *)
LEMMA NewPointers ==
  ASSUME DispatchTypeOK, LiveInv, CapacityInv, NEW in, Accepted(in),
         NEW group, group = NewUops(in.group), NEW i \in DOMAIN group
  PROVE  /\ group[i] \in Uops
         /\ \A j \in DOMAIN live : group[i].robPointer # live[j].robPointer
         /\ \A j \in DOMAIN group : group[i].robPointer = group[j].robPointer => i = j
<1>1. /\ NewGroup(group) /\ Len(live) + Len(group) <= RobEntries
  BY RoomForGroup
<1>2. /\ group \in Seq(Uops) /\ Len(live) \in Nat /\ Len(group) \in Nat
      /\ DOMAIN live = 1 .. Len(live) /\ DOMAIN group = 1 .. Len(group) /\ head \in Pointers
  BY <1>1 DEF NewGroup, DispatchTypeOK
<1> DEFINE at(j) == Len(live) + j - 1
<1>3. \A j \in DOMAIN group : group[j].robPointer = Ring(head + at(j))
  <2>1. \A j \in DOMAIN group : head + Len(live) + j - 1 = head + at(j)
    BY <1>2 DEF Pointers
  <2> QED
    BY <1>1, <2>1 DEF NewGroup
<1>4. \A j \in DOMAIN live : live[j].robPointer = Ring(head + (j - 1))
  <2>1. \A j \in DOMAIN live : head + j - 1 = head + (j - 1)
    BY <1>2 DEF Pointers
  <2> QED
    BY <2>1 DEF LiveInv
<1>5. \A j \in DOMAIN group : at(j) \in 0 .. PointerModulus - 1
  BY <1>1, <1>2, Geometry
<1>6. \A j \in DOMAIN live : (j - 1) \in 0 .. PointerModulus - 1 /\ j - 1 # at(i)
  BY <1>1, <1>2, Geometry
<1>7. \A j \in DOMAIN group : at(i) = at(j) => i = j
  BY <1>2
<1> HIDE DEF at
<1>8. ASSUME NEW j \in DOMAIN live, group[i].robPointer = live[j].robPointer PROVE FALSE
  <2> DEFINE x == j - 1
  <2>1. x \in 0 .. PointerModulus - 1 /\ x # at(i) /\ Ring(head + x) = Ring(head + at(i))
    BY <1>3, <1>4, <1>6, <1>8
  <2> HIDE DEF x
  <2> QED
    BY <1>2, <1>5, <2>1, RingDistinct
<1>9. ASSUME NEW j \in DOMAIN group, group[i].robPointer = group[j].robPointer PROVE i = j
  BY <1>2, <1>3, <1>5, <1>7, <1>9, RingDistinct
<1>10. group[i] \in Uops
  BY <1>2
<1> QED
  BY <1>8, <1>9, <1>10

LiveMoved(group, retire) ==
    /\ retire \in Nat /\ retire <= Len(live) /\ Len(live) \in Nat /\ Len(group) \in Nat
    /\ live' \in Seq(Uops) /\ Len(live') = Len(live) - retire + Len(group)
    /\ Len(live') <= RobEntries
    /\ DOMAIN live' = 1 .. Len(live') /\ DOMAIN live = 1 .. Len(live)
    /\ DOMAIN group = 1 .. Len(group)
    /\ \A j \in retire + 1 .. Len(live) : (j - retire) \in DOMAIN live' /\ live'[j - retire] = live[j]
    /\ \A i \in DOMAIN group : \E k \in DOMAIN live' :
          k = Len(live) - retire + i /\ live'[k] = group[i]
    /\ \A k \in DOMAIN live' :
          \/ (k + retire) \in retire + 1 .. Len(live) /\ live'[k] = live[k + retire]
          \/ \E i \in DOMAIN group : k = Len(live) - retire + i /\ live'[k] = group[i]

LEMMA LiveNext ==
  ASSUME DispatchTypeOK, LiveInv, CapacityInv, NEW in, Accepted(in), Edge(in)
  PROVE  LiveMoved(NewUops(in.group), in.retire)
<1> DEFINE group == NewUops(in.group)
           retire == in.retire
<1>1. group \in Seq(Uops) /\ live \in Seq(Uops) /\ Len(live) + Len(group) <= RobEntries
  BY RoomForGroup DEF NewGroup, DispatchTypeOK
<1>2. /\ Len(live) \in Nat /\ Len(group) \in Nat /\ DOMAIN live = 1 .. Len(live)
      /\ DOMAIN group = 1 .. Len(group)
  BY <1>1
<1>3. retire \in Nat /\ retire <= Len(live) /\ IsJoined(live', Uops, live, retire, group)
  BY ReorderEdge
<1> DEFINE n == Len(live) - retire
<1>4. /\ live' \in Seq(Uops) /\ Len(live') = n + Len(group)
      /\ \A k \in 1 .. n : live'[k] = live[k + retire]
      /\ \A k \in n + 1 .. n + Len(group) : live'[k] = group[k - n]
  BY <1>3 DEF IsJoined
<1>5. n \in Nat /\ DOMAIN live' = 1 .. n + Len(group)
  BY <1>2, <1>3, <1>4
<1>6. ASSUME NEW j \in retire + 1 .. Len(live)
      PROVE  (j - retire) \in DOMAIN live' /\ live'[j - retire] = live[j]
  <2> DEFINE k == j - retire
  <2>1. k \in 1 .. n /\ k + retire = j /\ k \in DOMAIN live'
    BY <1>2, <1>3, <1>5
  <2>2. live'[k] = live[j]
    <3> HIDE DEF k, n
    <3> QED
      BY <1>4, <2>1
  <2> QED
    BY <2>1, <2>2
<1>7. ASSUME NEW i \in DOMAIN group
      PROVE  n + i \in DOMAIN live' /\ live'[n + i] = group[i]
  <2> DEFINE k == n + i
  <2>1. k \in n + 1 .. n + Len(group) /\ k - n = i /\ k \in DOMAIN live'
    BY <1>2, <1>5
  <2>2. live'[k] = group[i]
    <3> HIDE DEF k, n
    <3> QED
      BY <1>4, <2>1
  <2> QED
    BY <2>1, <2>2
<1>8. ASSUME NEW k \in DOMAIN live'
      PROVE  \/ (k + retire) \in retire + 1 .. Len(live) /\ live'[k] = live[k + retire]
             \/ \E i \in DOMAIN group : k = n + i /\ live'[k] = group[i]
  <2>1. CASE k \in 1 .. n
    BY <1>2, <1>3, <1>4, <2>1
  <2>2. CASE k \in n + 1 .. n + Len(group)
    <3> DEFINE i == k - n
    <3>1. i \in DOMAIN group /\ k = n + i
      BY <1>2, <1>5, <2>2
    <3>2. live'[k] = group[i]
      BY <1>4, <2>2
    <3> HIDE DEF i, n
    <3> QED
      BY <3>1, <3>2
  <2> QED
    BY <1>2, <1>5, <2>1, <2>2
<1>9. n + Len(group) <= RobEntries
  BY <1>1, <1>2, <1>3, Geometry
<1> HIDE DEF group, retire
<1>10. LiveMoved(group, retire)
  BY <1>2, <1>3, <1>4, <1>5, <1>6, <1>7, <1>8, <1>9 DEF LiveMoved
<1> QED
  BY <1>10 DEF group, retire

(***************************************************************************)
(* Bounds and capabilities after an edge.                                    *)
(***************************************************************************)
LEMMA CapableEdge ==
  ASSUME DispatchTypeOK, CapableInv, NEW in, Accepted(in), Edge(in)
  PROVE  CapableInv'
<1>1. ASSUME NEW p \in Ports, NEW k \in DOMAIN queue'[p]
      PROVE  queue'[p][k].kind \in Capabilities[p]
  <2>1. QueueMoved(in, p) /\ QueueKept(in, p) \in Nat
    BY QueueEdge, KeptForm
  <2>2. CASE k \in 1 .. QueueKept(in, p)
    <3> DEFINE i == QueueFrom(in, p, k)
    <3>1. i \in DOMAIN queue[p] /\ queue'[p][k] = Woken(queue[p][i], EarlyWakeups(in))
      BY <2>1, <2>2, KeptForm DEF QueueMoved
    <3>2. queue[p][i] \in Entries /\ queue[p][i].kind \in Capabilities[p]
      BY <3>1 DEF CapableInv, DispatchTypeOK
    <3> QED
      BY <3>1, <3>2, WokenForm
  <2>3. ASSUME NEW j \in DOMAIN Routed, Routed[j] = p,
               queue'[p][k] = Woken(EntryOf(window[j]), EarlyWakeups(in))
        PROVE  queue'[p][k].kind \in Capabilities[p]
    <3>1. window[j] \in Uops /\ window[j].kind \in Capabilities[p]
      BY <2>3, RoutedForm DEF DispatchTypeOK
    <3> QED
      BY <2>3, <3>1, EntryOfForm, WokenForm
  <2>4. k \in 1 .. QueueKept(in, p) \/ \E j \in DOMAIN Routed :
            Routed[j] = p /\ queue'[p][k] = Woken(EntryOf(window[j]), EarlyWakeups(in))
    BY <2>1 DEF QueueMoved
  <2> QED
    BY <2>2, <2>3, <2>4
<1>2. ASSUME NEW k \in DOMAIN output' PROVE output'[k].kind \in Capabilities[LoadStorePort]
  <2> DEFINE n == Len(output) - Taken(in)
  <2>1. OutputMoved(in) /\ output \in Seq(Entries)
    BY OutputEdge DEF DispatchTypeOK
  <2>2. n \in Nat /\ output' \in Seq(Entries) /\ Len(output') \in {n, n + 1}
        /\ \A i \in 1 .. n : i + Taken(in) \in DOMAIN output
    BY <2>1 DEF OutputMoved, Taken
  <2>3. CASE k \in 1 .. n
    <3>1. output'[k] = output[k + Taken(in)]
      BY <2>1, <2>3 DEF OutputMoved
    <3> QED
      BY <2>2, <2>3, <3>1 DEF CapableInv
  <2>4. CASE k \notin 1 .. n
    <3>1. k = n + 1 /\ Len(output') = n + 1
      BY <2>2, <2>4
    <3>2. \E i \in DOMAIN queue[LoadStorePort] : output'[n + 1] = queue[LoadStorePort][i]
      BY <2>1, <2>2, <3>1 DEF OutputMoved
    <3> QED
      BY <3>1, <3>2, Places DEF CapableInv
  <2> QED
    BY <2>3, <2>4
<1>3. ASSUME NEW p \in OrdinaryPorts, NEW u \in address'[p], NEW v \in address'[p]
      PROVE  u = v /\ u.kind \in Capabilities[p]
  <2>1. p \in Ports
    BY Places
  <2>2. CASE AddressReady(in, p)
    <3>1. address'[p] = {Bare(queue[p][k]) : k \in Dequeued(in, p)}
      BY <2>2, IssueEdge
    <3>2. PICK i \in Dequeued(in, p) : u = Bare(queue[p][i])
      BY <3>1
    <3>3. PICK j \in Dequeued(in, p) : v = Bare(queue[p][j])
      BY <3>1
    <3>4. i = j
      BY <2>1, DequeuedForm
    <3>5. i \in DOMAIN queue[p] /\ queue[p][i] \in Entries
      BY <2>1, DequeuedIn
    <3>6. u.kind = queue[p][i].kind
      BY <3>2, <3>5, BareForm
    <3> QED
      BY <2>1, <3>2, <3>3, <3>4, <3>5, <3>6 DEF CapableInv
  <2>3. CASE ~AddressReady(in, p)
    BY <2>3, IssueEdge DEF CapableInv
  <2> QED
    BY <2>2, <2>3
<1>4. ASSUME NEW p \in Ports, NEW u \in operand'[p], NEW v \in operand'[p]
      PROVE  u = v /\ u.kind \in Capabilities[p]
  <2>1. operand'[p] = NextOperand(in, p)
    BY IssueEdge
  <2>2. CASE p = LoadStorePort /\ OutputTaken(in)
    <3>1. u = Bare(Head(output)) /\ v = Bare(Head(output))
      BY <2>1, <2>2 DEF NextOperand
    <3>2. Head(output) \in Entries /\ Head(output) = output[1] /\ 1 \in DOMAIN output
      BY <2>2 DEF OutputTaken, DispatchTypeOK
    <3>3. u.kind = output[1].kind
      BY <3>1, <3>2, BareForm
    <3> QED
      BY <2>2, <3>1, <3>2, <3>3 DEF CapableInv
  <2>3. CASE p = LoadStorePort /\ ~OutputTaken(in)
    BY <2>1, <2>3 DEF NextOperand, CapableInv
  <2>4. CASE p # LoadStorePort
    <3>1. p \in OrdinaryPorts
      BY <2>4, Places
    <3> QED
      BY <2>1, <2>4, <3>1 DEF NextOperand, CapableInv
  <2> QED
    BY <2>2, <2>3, <2>4
<1>5. /\ \A p \in Ports : \A k \in DOMAIN queue'[p] : queue'[p][k].kind \in Capabilities[p]
      /\ \A k \in DOMAIN output' : output'[k].kind \in Capabilities[LoadStorePort]
      /\ \A p \in OrdinaryPorts : \A u, v \in address'[p] : u = v /\ u.kind \in Capabilities[p]
      /\ \A p \in Ports : \A u, v \in operand'[p] : u = v /\ u.kind \in Capabilities[p]
  BY <1>1, <1>2, <1>3, <1>4
<1> QED
  BY <1>5 DEF CapableInv, OrdinaryPorts

LEMMA SlotsFinite == IsFiniteSet(Slot) /\ Cardinality(Slot) = DataSlots /\ Slot \subseteq Nat
<1>1. DataSlots - 1 \in Nat /\ 0 \in Nat
  BY DataSlotsAssumption
<1>2. IsFiniteSet(0 .. DataSlots - 1) /\ Cardinality(0 .. DataSlots - 1) = DataSlots - 1 - 0 + 1
  BY <1>1, FS_Interval
<1> QED
  BY <1>2, DataSlotsAssumption DEF Slot

(* The slot a store takes is one of the free ones.                             *)
LEMMA FreeSlotForm ==
  ASSUME CapacityInv, DispatchTypeOK, EntersStoreData # {}
  PROVE  FreeSlot \in Slot /\ slots[FreeSlot] = {}
<1> DEFINE open == Slot \ Occupied
<1>1. open # {} /\ open \subseteq Nat
  BY EntersStoreDataForm, SlotsFinite DEF CapacityInv, Occupied
<1>2. FreeSlot = LowestOf(open)
  BY <1>1 DEF FreeSlot, FirstSlot, LowestOf
<1>3. FreeSlot \in open
  BY <1>1, <1>2, LowestOfType
<1> QED
  BY <1>3 DEF Occupied

(* At most one store enters.                                                  *)
LEMMA OneEntersStoreData ==
  ASSUME DispatchTypeOK, NEW e \in EntersStoreData, NEW f \in EntersStoreData
  PROVE  e = f
<1>1. PICK i \in DOMAIN Routed : Routed[i] = LoadStorePort /\ e = EntryOf(window[i])
  BY EntersStoreDataForm
<1>2. PICK j \in DOMAIN Routed : Routed[j] = LoadStorePort /\ f = EntryOf(window[j])
  BY EntersStoreDataForm
<1>3. i = j
  BY <1>1, <1>2, RoutedForm
<1> QED
  BY <1>1, <1>2, <1>3

LEMMA CapacityEdge ==
  ASSUME DispatchTypeOK, LiveInv, CapacityInv, NEW in, Accepted(in), Edge(in)
  PROVE  CapacityInv'
<1>1. Len(dispatchQueue') <= DispatchQueueEntries /\ Len(window') <= DispatchWidth
  <2> DEFINE take == Refill(Len(Routed))
             out == Len(Routed)
             group == NewUops(in.group)
  <2>1. /\ Len(window') = Len(window) - out + take
        /\ Len(dispatchQueue') = Len(dispatchQueue) - take + Len(group)
    BY DispatchEdge
  <2>2. /\ take \in Nat /\ Len(window) - out + take <= DispatchWidth
        /\ Len(dispatchQueue) \in Nat /\ Len(group) \in Nat
    BY RoutedForm, RefillForm, RoomForGroup DEF DispatchTypeOK, NewGroup
  <2>3. Len(dispatchQueue) + Len(group) <= DispatchQueueEntries
    BY RoomForGroup
  <2> HIDE DEF take, out, group
  <2> QED
    BY <2>1, <2>2, <2>3, Geometry
<1>2. ASSUME NEW p \in Ports
      PROVE  Len(queue'[p]) <= IssueQueueEntries /\ (enqueueReady'[p] => Len(queue'[p]) < IssueQueueEntries)
  <2>1. /\ QueueMoved(in, p) /\ QueueKept(in, p) \in Nat
        /\ QueueKept(in, p) <= Len(queue[p]) /\ Len(queue[p]) \in Nat
    BY QueueEdge, KeptForm
  <2>2. enqueueReady'[p] = (Len(queue[p]) < IssueQueueEntries - 1)
    <3>1. IssueQueueStep([r \in Ports |-> Dequeued(in, r)], [r \in Ports |-> Enters(r)],
                       EarlyWakeups(in), OutputTaken(in), in.flush)
      BY DEF Edge
    <3>2. enqueueReady' = [r \in Ports |-> ReadyNextCycle(r)]
      BY <3>1 DEF IssueQueueStep
    <3> QED
      BY <3>2, Zenon DEF ReadyNextCycle
  <2>3. Entered(p) # {} => enqueueReady[p]
    BY RoutedForm DEF Entered, PortReady
  <2>4. Len(queue'[p]) <= IF enqueueReady[p] THEN Len(queue[p]) + 1 ELSE Len(queue[p])
    <3>1. CASE Entered(p) = {} /\ Len(queue'[p]) = QueueKept(in, p)
      BY <2>1, <3>1
    <3>2. CASE Entered(p) # {} /\ Len(queue'[p]) = QueueKept(in, p) + 1
      BY <2>1, <2>3, <3>2
    <3> QED
      BY <2>1, <3>1, <3>2 DEF QueueMoved
  <2>5. /\ Len(queue[p]) <= IssueQueueEntries
        /\ enqueueReady[p] => Len(queue[p]) < IssueQueueEntries
    BY DEF CapacityInv
  <2>6. Len(queue'[p]) \in Nat
    BY <2>1 DEF QueueMoved
  <2>7. Len(queue'[p]) <= IssueQueueEntries
    BY <2>1, <2>4, <2>5, <2>6, IssueQueueAssumption
  <2>8. ASSUME enqueueReady'[p] PROVE Len(queue'[p]) < IssueQueueEntries
    <3>1. Len(queue[p]) < IssueQueueEntries - 1
      BY <2>2, <2>8
    <3>2. Len(queue'[p]) <= Len(queue[p]) + 1
      BY <2>1, <2>4, <2>6
    <3> QED
      BY <2>1, <2>6, <3>1, <3>2, IssueQueueAssumption
  <2> QED
    BY <2>7, <2>8
<1>3. Len(output') <= 2 /\ (outputReady' => Len(output') < 2)
  <2>1. OutputMoved(in) /\ Len(output) \in Nat /\ Len(output') \in Nat /\ Taken(in) \in Nat
    BY OutputEdge DEF DispatchTypeOK, OutputMoved, Taken
  <2>2. Dequeued(in, LoadStorePort) # {} => outputReady
    BY DequeuedForm, Places
  <2>3. Len(output) <= 2 /\ (outputReady => Len(output) < 2)
    BY DEF CapacityInv
  <2>4. Len(output') <= 2
    <3>1. CASE Len(output') = Len(output) - Taken(in)
      BY <2>1, <2>3, <3>1
    <3>2. CASE Dequeued(in, LoadStorePort) # {} /\ Len(output') = Len(output) - Taken(in) + 1
      BY <2>1, <2>2, <2>3, <3>2
    <3> QED
      BY <2>1, <3>1, <3>2 DEF OutputMoved
  <2>5. outputReady' = (Len(output') < 2)
    BY <2>1, Zenon DEF OutputMoved
  <2> QED
    BY <2>4, <2>5
<1>4. StoreDataMoved(in, FreeSlot, Leaving(in))
  BY StoreDataEdge
<1>5. ASSUME dataEnqueueReady' PROVE \E s \in Slot : slots'[s] = {}
  <2>1. Cardinality(Occupied) < DataSlots - 1
    BY <1>4, <1>5 DEF StoreDataMoved
  <2> SUFFICES ASSUME \A s \in Slot : slots'[s] # {} PROVE FALSE
    OBVIOUS
  <2>2. ASSUME NEW s \in Slot PROVE s \in Occupied \cup {FreeSlot}
    <3> SUFFICES ASSUME s # FreeSlot, slots[s] = {} PROVE FALSE
      BY DEF Occupied
    <3>1. slots'[s] = {}
      BY <1>4 DEF StoreDataMoved
    <3> QED
      BY <3>1
  <2>3. Occupied \subseteq Slot /\ IsFiniteSet(Occupied)
    BY SlotsFinite, FS_Subset DEF Occupied
  <2>4. /\ IsFiniteSet(Occupied \cup {FreeSlot})
        /\ Cardinality(Occupied \cup {FreeSlot}) <= Cardinality(Occupied) + 1
        /\ Cardinality(Occupied) \in Nat
    <3>1. /\ IsFiniteSet(Occupied \cup {FreeSlot})
          /\ Cardinality(Occupied \cup {FreeSlot}) =
               IF FreeSlot \in Occupied THEN Cardinality(Occupied) ELSE Cardinality(Occupied) + 1
      BY <2>3, FS_AddElement
    <3>2. Cardinality(Occupied) \in Nat
      BY <2>3, FS_CardinalityType
    <3> QED
      BY <3>1, <3>2
  <2>5. Slot \subseteq Occupied \cup {FreeSlot}
    BY <2>2
  <2>6. DataSlots <= Cardinality(Occupied \cup {FreeSlot})
    BY <2>4, <2>5, SlotsFinite, FS_Subset
  <2>7. Cardinality(Occupied \cup {FreeSlot}) \in Nat
    BY <2>4, FS_CardinalityType
  <2> QED
    BY <2>1, <2>4, <2>6, <2>7, DataSlotsAssumption
<1>6. ASSUME NEW s \in Slot, NEW d \in slots'[s], NEW e \in slots'[s] PROVE d = e
  <2>1. CASE EntersStoreData # {} /\ s = FreeSlot
    <3>1. slots'[s] = {NewSlot(u, RegisteredTags) : u \in EntersStoreData}
      BY <1>4, <2>1 DEF StoreDataMoved
    <3> QED
      BY <3>1, OneEntersStoreData
  <2>2. CASE ~(EntersStoreData # {} /\ s = FreeSlot)
    <3>1. s \notin Leaving(in)
      BY <1>4, <1>6, <2>2 DEF StoreDataMoved
    <3>2. slots'[s] = {[f EXCEPT !.ready = @ \/ (f.psrc # 0 /\ f.psrc \in RegisteredTags)] : f \in slots[s]}
      BY <1>4, <2>2, <3>1 DEF StoreDataMoved
    <3>3. \A f, g \in slots[s] : f = g
      BY DEF CapacityInv
    <3> QED
      BY <3>2, <3>3
  <2> QED
    BY <2>1, <2>2
<1>7. \A s \in Slot : \A d, e \in slots'[s] : d = e
  BY <1>6
<1>8. dataEnqueueReady' => \E s \in Slot : slots'[s] = {}
  BY <1>5
<1> QED
  BY <1>1, <1>2, <1>3, <1>7, <1>8 DEF CapacityInv, Slot

(***************************************************************************)
(* Every unfinished uop is in one place, and what is in a place is one of them.  *)
(***************************************************************************)
IsLive(u) == \E j \in DOMAIN live : u = live[j]
SitAliveInv == \A tag, p, k, u : Sits(tag, p, k, u) => IsLive(u) /\ u.robPointer \notin done
SitOnceInv ==
    \A tag, p, k, t, q, j, u :
       Sits(tag, p, k, u) /\ Sits(t, q, j, u) => tag = t /\ p = q /\ k = j
SitAllInv == \A u : IsLive(u) /\ u.robPointer \notin done => Somewhere(u)
PlacesInv == SitAliveInv /\ SitOnceInv /\ SitAllInv

LEMMA LiveOne ==
  ASSUME DispatchTypeOK, LiveInv, NEW u, NEW v, IsLive(u), IsLive(v),
         u.robPointer = v.robPointer
  PROVE  u = v
BY LiveDistinct DEF IsLive

LEMMA StagedAlive ==
  ASSUME SitAliveInv, NEW l \in Lanes, NEW u \in staged[l]
  PROVE  IsLive(u) /\ u.robPointer \notin done
BY SitsAt DEF SitAliveInv

LEMMA LiveEdge ==
  ASSUME DispatchTypeOK, LiveInv, CapacityInv, PlacesInv, NEW in, Accepted(in), Edge(in)
  PROVE  LiveInv'
<1> DEFINE group == NewUops(in.group)
           retire == in.retire
           n == Len(live) - retire
<1>1. NewGroup(group) /\ Len(live) + Len(group) <= RobEntries
  BY RoomForGroup
<1>2. /\ retire \in Nat /\ retire <= Len(live) /\ Len(live) \in Nat /\ Len(group) \in Nat
      /\ Len(live') <= RobEntries
      /\ DOMAIN live = 1 .. Len(live) /\ DOMAIN group = 1 .. Len(group)
  BY LiveNext DEF LiveMoved
<1>3. \A j \in retire + 1 .. Len(live) : (j - retire) \in DOMAIN live' /\ live'[j - retire] = live[j]
  BY LiveNext DEF LiveMoved
<1>4. \A k \in DOMAIN live' :
         \/ (k + retire) \in retire + 1 .. Len(live) /\ live'[k] = live[k + retire]
         \/ \E i \in DOMAIN group : k = n + i /\ live'[k] = group[i]
  BY LiveNext DEF LiveMoved
<1>5. head' = Ring(head + retire) /\ head \in Pointers
  BY ReorderEdge DEF DispatchTypeOK
<1> HIDE DEF group, retire
<1>6. ASSUME NEW k \in DOMAIN live' PROVE live'[k].robPointer = Ring(head' + k - 1)
  <2>1. ASSUME k \in Nat, k >= 1, k + retire <= Len(live) + Len(group)
        PROVE  Ring(head' + k - 1) = Ring(head + (retire + k - 1))
    <3> DEFINE a == head + retire
               b == k - 1
    <3>1. a \in Nat /\ b \in Nat /\ a + b < 2 * PointerModulus
      BY <1>1, <1>2, <1>5, <2>1, Geometry DEF Pointers
    <3>2. head' = Ring(a)
      BY <1>5
    <3>3. a + b = head + (retire + k - 1)
      BY <1>2, <1>5, <2>1 DEF Pointers
    <3> HIDE DEF a, b
    <3>4. Ring(Ring(a) + b) = Ring(a + b)
      BY <3>1, RingShift
    <3>5. Ring(a) \in Int
      BY <3>1, Geometry DEF Ring
    <3>6. Ring(a) + b = Ring(a) + k - 1
      BY <2>1, <3>5 DEF b
    <3> QED
      BY <3>2, <3>3, <3>4, <3>6
  <2>2. CASE (k + retire) \in retire + 1 .. Len(live) /\ live'[k] = live[k + retire]
    <3> DEFINE i == k + retire
    <3>1. /\ k \in Nat /\ k >= 1 /\ k + retire <= Len(live) + Len(group)
          /\ i \in DOMAIN live /\ head + i - 1 = head + (retire + k - 1) /\ live'[k] = live[i]
      BY <1>2, <1>5, <2>2 DEF Pointers
    <3> HIDE DEF i
    <3>2. live[i].robPointer = Ring(head + i - 1)
      BY <3>1 DEF LiveInv
    <3> QED
      BY <2>1, <3>1, <3>2
  <2>3. ASSUME NEW i \in DOMAIN group, k = n + i, live'[k] = group[i]
        PROVE  live'[k].robPointer = Ring(head' + k - 1)
    <3>1. k \in Nat /\ k >= 1 /\ k + retire <= Len(live) + Len(group)
          /\ head + Len(live) + i - 1 = head + (retire + k - 1)
      <4>1. /\ retire \in Nat /\ retire <= Len(live) /\ Len(live) \in Nat /\ Len(group) \in Nat
            /\ i \in 1 .. Len(group) /\ k = Len(live) - retire + i
        BY <1>2, <2>3
      <4>2. head \in Int
        BY <1>5 DEF Pointers
      <4>3. k \in Nat /\ k >= 1 /\ k + retire = Len(live) + i
        BY <4>1
      <4>4. i \in Nat /\ i <= Len(group)
        BY <4>1
      <4>5. head + Len(live) + i - 1 = head + (retire + k - 1)
        BY <4>1, <4>2, <4>3, <4>4
      <4> QED
        BY <4>1, <4>3, <4>4, <4>5
    <3>2. group[i].robPointer = Ring(head + Len(live) + i - 1)
      BY <1>1 DEF NewGroup
    <3> QED
      BY <2>1, <2>3, <3>1, <3>2
  <2> QED
    BY <1>4, <2>2, <2>3
<1>7. ASSUME NEW k \in DOMAIN live'
      PROVE  {live'[k].psrc1, live'[k].psrc2} \subseteq Sources(live'[k].robPointer)
  <2>1. CASE (k + retire) \in retire + 1 .. Len(live) /\ live'[k] = live[k + retire]
    <3>1. (k + retire) \in DOMAIN live
      BY <1>2, <2>1
    <3> QED
      BY <2>1, <3>1 DEF LiveInv
  <2>2. ASSUME NEW i \in DOMAIN group, live'[k] = group[i]
        PROVE  {live'[k].psrc1, live'[k].psrc2} \subseteq Sources(live'[k].robPointer)
    BY <1>1, <2>2 DEF NewGroup
  <2> QED
    BY <1>4, <2>1, <2>2
<1>8. ASSUME NEW pointer \in done' PROVE \E k \in DOMAIN live' : live'[k].robPointer = pointer
  <2>1. PICK j \in DOMAIN live : live[j].robPointer = pointer
    <3>1. CASE pointer \in done
      BY <3>1 DEF LiveInv
    <3>2. CASE pointer \in {u.robPointer : u \in UNION {staged[l] : l \in Lanes}}
      <4>1. PICK l \in Lanes : \E u \in staged[l] : pointer = u.robPointer
        BY <3>2
      <4>2. PICK u \in staged[l] : pointer = u.robPointer
        BY <4>1
      <4> QED
        BY <4>2, StagedAlive DEF PlacesInv, IsLive
    <3> QED
      BY <1>8, <3>1, <3>2, ReorderEdge
  <2>2. j \notin 1 .. retire
    BY <1>8, <2>1, ReorderEdge DEF retire
  <2>3. j \in retire + 1 .. Len(live)
    BY <1>2, <2>2
  <2>4. (j - retire) \in DOMAIN live' /\ live'[j - retire] = live[j]
    BY <1>3, <2>3
  <2> QED
    BY <2>1, <2>4
<1> QED
  BY <1>2, <1>6, <1>7, <1>8 DEF LiveInv, Ring, Sources, PointerModulus

(* A uop that is not staged stays in the reorder buffer, unfinished.             *)
LEMMA StaysAlive ==
  ASSUME DispatchTypeOK, LiveInv, CapacityInv, PlacesInv, NEW in, Accepted(in), Edge(in),
         NEW t, NEW q, NEW j, NEW u, t # "staged", Sits(t, q, j, u)
  PROVE  IsLive(u)' /\ u.robPointer \notin done'
<1>1. IsLive(u) /\ u.robPointer \notin done
  BY DEF PlacesInv, SitAliveInv
<1>2. PICK i \in DOMAIN live : u = live[i]
  BY <1>1 DEF IsLive
<1>3. i \notin 1 .. in.retire
  BY <1>1, <1>2, ReorderEdge
<1>4. i \in in.retire + 1 .. Len(live)
  <2>1. Len(live) \in Nat /\ DOMAIN live = 1 .. Len(live) /\ in.retire \in Nat
    BY LiveNext DEF LiveMoved
  <2> QED
    BY <1>3, <2>1
<1>5. (i - in.retire) \in DOMAIN live' /\ live'[i - in.retire] = u
  BY <1>2, <1>4, LiveNext DEF LiveMoved
<1>6. ASSUME NEW l \in Lanes, NEW v \in staged[l], v.robPointer = u.robPointer PROVE FALSE
  <2>1. IsLive(v)
    BY StagedAlive DEF PlacesInv
  <2>2. u = v
    BY <1>1, <1>6, <2>1, LiveOne
  <2>3. Sits("staged", l, 0, u)
    BY <2>2, SitsAt
  <2> QED
    BY <2>3 DEF PlacesInv, SitOnceInv
<1>7. u.robPointer \notin {v.robPointer : v \in UNION {staged[l] : l \in Lanes}}
  <2> SUFFICES ASSUME NEW v \in UNION {staged[l] : l \in Lanes}, v.robPointer = u.robPointer
               PROVE  FALSE
    OBVIOUS
  <2>1. PICK l \in Lanes : v \in staged[l]
    OBVIOUS
  <2> QED
    BY <1>6, <2>1
<1>8. u.robPointer \notin done'
  BY <1>1, <1>7, ReorderEdge
<1> QED
  BY <1>5, <1>8 DEF IsLive

LEMMA LiveHasNew ==
  ASSUME DispatchTypeOK, LiveInv, CapacityInv, NEW in, Accepted(in), Edge(in),
         NEW group, group = NewUops(in.group), NEW i \in DOMAIN group
  PROVE  \E j \in DOMAIN live' : live'[j] = group[i]
<1> DEFINE retire == in.retire
<1>1. LiveMoved(group, retire)
  BY LiveNext
<1> HIDE DEF retire
<1> QED
  BY <1>1 DEF LiveMoved

(* A new uop is in the dispatch queue alone, unfinished.                        *)
LEMMA NewAlive ==
  ASSUME DispatchTypeOK, LiveInv, CapacityInv, PlacesInv, NEW in, Accepted(in), Edge(in),
         NEW i \in DOMAIN NewUops(in.group), NEW u, u = NewUops(in.group)[i]
  PROVE  /\ IsLive(u)' /\ u.robPointer \notin done' /\ ~IsLive(u)
         /\ Somewhere(u)'
<1> DEFINE group == NewUops(in.group)
<1>1. \E j \in DOMAIN live' : live'[j] = u
  BY LiveHasNew
<1>2. \A j \in DOMAIN live : u.robPointer # live[j].robPointer
  BY NewPointers
<1>3. ~IsLive(u)
  BY <1>2 DEF IsLive
<1>4. ASSUME u.robPointer \in done' PROVE FALSE
  <2>1. CASE u.robPointer \in done
    BY <1>2, <2>1 DEF LiveInv
  <2>2. CASE u.robPointer \in {v.robPointer : v \in UNION {staged[l] : l \in Lanes}}
    <3>1. PICK l \in Lanes : \E v \in staged[l] : v.robPointer = u.robPointer
      BY <2>2
    <3>2. PICK v \in staged[l] : v.robPointer = u.robPointer
      BY <3>1
    <3>3. IsLive(v)
      BY StagedAlive DEF PlacesInv
    <3> QED
      BY <1>2, <3>2, <3>3 DEF IsLive
  <2> QED
    BY <1>4, <2>1, <2>2, ReorderEdge
<1>5. Somewhere(u)'
  <2> DEFINE take == Refill(Len(Routed))
             n == Len(dispatchQueue) - take
             k == n + i
  <2>1. /\ Len(dispatchQueue') = n + Len(group)
        /\ \A m \in n + 1 .. Len(dispatchQueue') : dispatchQueue'[m] = group[m - n]
    BY DispatchEdge
  <2>2. n \in Nat /\ group \in Seq(Uops) /\ dispatchQueue' \in Seq(Uops)
    <3>1. /\ Len(Routed) \in Nat /\ Len(Routed) <= Len(window)
          /\ Len(dispatchQueue) \in Nat
      BY RoutedForm DEF DispatchTypeOK
    <3>2. take \in Nat /\ take <= Len(dispatchQueue)
      BY <3>1, RefillForm
    <3>3. group \in Seq(Uops)
      BY RoomForGroup DEF NewGroup
    <3>4. dispatchQueue' \in Seq(Uops)
      BY DispatchEdge
    <3>5. n \in Nat
      <4> HIDE DEF take
      <4> QED
        BY <3>1, <3>2
    <3> QED
      BY <3>3, <3>4, <3>5
  <2>3. i \in 1 .. Len(group) /\ Len(group) \in Nat
    BY <2>2
  <2> HIDE DEF take, n, group
  <2>4. k \in DOMAIN dispatchQueue' /\ k \in n + 1 .. Len(dispatchQueue') /\ k - n = i
    BY <2>1, <2>2, <2>3
  <2>5. dispatchQueue'[k] = group[i]
    BY <2>1, <2>4
  <2> HIDE DEF k
  <2> QED
    BY <2>4, <2>5, SitsNext DEF group
<1> QED
  BY <1>1, <1>3, <1>4, <1>5 DEF IsLive

LEMMA PlacesEdge ==
  ASSUME DispatchTypeOK, LiveInv, CapacityInv, CapableInv, PlacesInv,
         NEW in, Accepted(in), Edge(in)
  PROVE  PlacesInv'
<1>1. ASSUME NEW tag, NEW p, NEW k, NEW u, Sits(tag, p, k, u)'
      PROVE  IsLive(u)' /\ u.robPointer \notin done'
  <2>1. CASE CameFrom(in, tag, p, k, u)
    BY <2>1, StaysAlive DEF CameFrom
  <2>2. CASE NewInQueue(in, k, u)
    BY <2>2, NewAlive DEF NewInQueue
  <2> QED
    BY <1>1, <2>1, <2>2, BackTo
<1>2. ASSUME NEW tag, NEW p, NEW k, NEW t, NEW q, NEW j, NEW u,
             Sits(tag, p, k, u)', Sits(t, q, j, u)'
      PROVE  tag = t /\ p = q /\ k = j
  <2>1. CameFrom(in, tag, p, k, u) \/ (tag = "queue" /\ p = 0 /\ NewInQueue(in, k, u))
    BY <1>2, BackTo
  <2>2. CameFrom(in, t, q, j, u) \/ (t = "queue" /\ q = 0 /\ NewInQueue(in, j, u))
    BY <1>2, BackTo
  <2>3. ASSUME NEW a, NEW b, NEW c, CameFrom(in, a, b, c, u) PROVE IsLive(u)
    BY <2>3 DEF CameFrom, PlacesInv, SitAliveInv
  <2>4. ASSUME NEW a, NewInQueue(in, a, u) PROVE ~IsLive(u)
    BY <2>4, NewAlive DEF NewInQueue
  <2>5. CASE CameFrom(in, tag, p, k, u) /\ CameFrom(in, t, q, j, u)
    <3>1. PICK t1, q1, j1 : Sits(t1, q1, j1, u) /\ Goes(in, t1, q1, j1, u) = <<tag, p, k>>
      BY <2>5 DEF CameFrom
    <3>2. PICK t2, q2, j2 : Sits(t2, q2, j2, u) /\ Goes(in, t2, q2, j2, u) = <<t, q, j>>
      BY <2>5 DEF CameFrom
    <3>3. t1 = t2 /\ q1 = q2 /\ j1 = j2
      BY <3>1, <3>2 DEF PlacesInv, SitOnceInv
    <3> QED
      BY <3>1, <3>2, <3>3
  <2>6. CASE tag = "queue" /\ p = 0 /\ NewInQueue(in, k, u) /\ t = "queue" /\ q = 0 /\ NewInQueue(in, j, u)
    <3>1. PICK a \in DOMAIN NewUops(in.group) :
            u = NewUops(in.group)[a] /\ k = Len(dispatchQueue) - Refill(Len(Routed)) + a
      BY <2>6 DEF NewInQueue
    <3>2. PICK b \in DOMAIN NewUops(in.group) :
            u = NewUops(in.group)[b] /\ j = Len(dispatchQueue) - Refill(Len(Routed)) + b
      BY <2>6 DEF NewInQueue
    <3>3. a = b
      BY <3>1, <3>2, NewPointers
    <3> QED
      BY <2>6, <3>1, <3>2, <3>3
  <2> QED
    BY <2>1, <2>2, <2>3, <2>4, <2>5, <2>6
<1>3. ASSUME NEW u, IsLive(u)', u.robPointer \notin done'
      PROVE  Somewhere(u)'
  <2>0. PICK j \in DOMAIN live' : u = live'[j]
    BY <1>3 DEF IsLive
  <2>1. \/ (j + in.retire) \in in.retire + 1 .. Len(live) /\ live'[j] = live[j + in.retire]
        \/ \E i \in DOMAIN NewUops(in.group) : live'[j] = NewUops(in.group)[i]
    BY LiveNext DEF LiveMoved
  <2>2. ASSUME NEW i \in in.retire + 1 .. Len(live), u = live[i]
        PROVE  Somewhere(u)'
    <3>0. i \in DOMAIN live /\ i \notin 1 .. in.retire
      BY LiveNext DEF LiveMoved
    <3>1. u.robPointer \notin {live[k].robPointer : k \in 1 .. in.retire}
      <4> SUFFICES ASSUME NEW k \in 1 .. in.retire, live[k].robPointer = u.robPointer
                   PROVE  FALSE
        OBVIOUS
      <4>1. k \in DOMAIN live
        BY LiveNext DEF LiveMoved
      <4> QED
        BY <2>2, <3>0, <4>1, LiveDistinct
    <3>2. /\ u.robPointer \notin done
          /\ u.robPointer \notin {v.robPointer : v \in UNION {staged[l] : l \in Lanes}}
      BY <1>3, <3>1, ReorderEdge
    <3>3. IsLive(u)
      BY <2>2, <3>0 DEF IsLive
    <3>4. PICK tag, p, k : Sits(tag, p, k, u)
      BY <3>2, <3>3 DEF PlacesInv, SitAllInv, Somewhere
    <3>5. tag # "staged"
      <4> SUFFICES ASSUME tag = "staged" PROVE FALSE
        OBVIOUS
      <4>1. p \in Lanes /\ u \in staged[p]
        BY <3>4, SitsAt
      <4>2. u \in UNION {staged[l] : l \in Lanes}
        BY <4>1
      <4> QED
        BY <3>2, <4>2
    <3> QED
      BY <3>4, <3>5, ForthTo
  <2>3. ASSUME NEW i \in DOMAIN NewUops(in.group), u = NewUops(in.group)[i]
        PROVE  Somewhere(u)'
    BY <2>3, NewAlive
  <2> QED
    BY <2>0, <2>1, <2>2, <2>3
<1>4. SitAliveInv' /\ SitOnceInv'
  BY <1>1, <1>2 DEF SitAliveInv, SitOnceInv
<1>5. SitAllInv'
  BY <1>3 DEF SitAllInv
<1> QED
  BY <1>4, <1>5 DEF PlacesInv

(***************************************************************************)
(* From the uops to the places the properties count.                          *)
(***************************************************************************)
(* Places that name each of some uops by its pointer once are as many.          *)
LEMMA CountByPointer ==
  ASSUME NEW W, NEW U, IsFiniteSet(U),
         \A x \in W : \E u \in U : u.robPointer = x[3],
         \A u \in U : \E x \in W : u.robPointer = x[3],
         \A x, y \in W : x[3] = y[3] => x = y,
         \A u, v \in U : u.robPointer = v.robPointer => u = v
  PROVE  /\ {x[3] : x \in W} = {u.robPointer : u \in U}
         /\ Cardinality(W) = Cardinality(U)
<1>1. {x[3] : x \in W} = {u.robPointer : u \in U}
  OBVIOUS
<1> DEFINE f == [x \in W |-> CHOOSE u \in U : u.robPointer = x[3]]
<1>2. \A x \in W : f[x] \in U /\ f[x].robPointer = x[3]
  OBVIOUS
<1>3. f \in [W -> U]
  BY <1>2
<1> HIDE DEF f
<1>4. \A x, y \in W : f[x] = f[y] => x = y
  BY <1>2
<1>5. f \in Injection(W, U)
  BY <1>3, <1>4 DEF Injection, IsInjective
<1>6. \A u \in U : \E x \in W : f[x] = u
  BY <1>2
<1>7. f \in Surjection(W, U)
  BY <1>3, <1>6 DEF Surjection
<1>8. Cardinality(W) = Cardinality(U)
  BY <1>5, <1>7, FS_Injection
<1> QED
  BY <1>1, <1>8

LEMMA LiveFinite ==
  ASSUME DispatchTypeOK
  PROVE  IsFiniteSet(Range(live)) /\ \A u : u \in Range(live) <=> IsLive(u)
<1>1. live \in Seq(Uops) /\ Len(live) \in Nat /\ DOMAIN live = 1 .. Len(live)
  BY DEF DispatchTypeOK
<1>2. IsFiniteSet(1 .. Len(live))
  BY <1>1, FS_Interval
<1>3. live \in Surjection(1 .. Len(live), Range(live))
  BY <1>1 DEF Surjection, Range
<1>4. IsFiniteSet(Range(live))
  BY <1>2, <1>3, FS_Surjection
<1> QED
  BY <1>4 DEF Range, IsLive

LEMMA WhereaboutsParts ==
  ASSUME NEW x
  PROVE  x \in Whereabouts <=>
           \/ x \in In(<<"queue", 0>>, dispatchQueue)
           \/ x \in In(<<"window", 0>>, window)
           \/ \E p \in Ports : x \in In(<<"issue", p>>, queue[p])
           \/ x \in In(<<"output", 0>>, output)
           \/ \E p \in OrdinaryPorts : x \in At(<<"address", p>>, address[p])
           \/ \E p \in Ports : x \in At(<<"operand", p>>, operand[p])
           \/ x \in At(<<"multiply", 0>>, multiplying)
           \/ x \in At(<<"divide", 0>>, dividing)
           \/ x \in At(<<"divided", 0>>, divided)
           \/ x \in At(<<"barrier", 0>>, barrier)
           \/ x \in At(<<"memory", 0>>, memory)
           \/ \E l \in Lanes : x \in At(<<"staged", l>>, staged[l])
<1> DEFINE issued == UNION {In(<<"issue", p>>, queue[p]) : p \in Ports}
           addressed == UNION {At(<<"address", p>>, address[p]) : p \in OrdinaryPorts}
           fetched == UNION {At(<<"operand", p>>, operand[p]) : p \in Ports}
           registered == UNION {At(<<"staged", l>>, staged[l]) : l \in Lanes}
<1>1. x \in issued <=> \E p \in Ports : x \in In(<<"issue", p>>, queue[p])
  OBVIOUS
<1>2. x \in addressed <=> \E p \in OrdinaryPorts : x \in At(<<"address", p>>, address[p])
  OBVIOUS
<1>3. x \in fetched <=> \E p \in Ports : x \in At(<<"operand", p>>, operand[p])
  OBVIOUS
<1>4. x \in registered <=> \E l \in Lanes : x \in At(<<"staged", l>>, staged[l])
  OBVIOUS
<1>5. Whereabouts =
        (In(<<"queue", 0>>, dispatchQueue) \cup In(<<"window", 0>>, window))
          \cup issued \cup In(<<"output", 0>>, output) \cup addressed \cup fetched
          \cup At(<<"multiply", 0>>, multiplying) \cup At(<<"divide", 0>>, dividing)
          \cup At(<<"divided", 0>>, divided)
          \cup At(<<"barrier", 0>>, barrier) \cup At(<<"memory", 0>>, memory) \cup registered
  BY DEF Whereabouts, BeforeIssueQueues
<1> HIDE DEF issued, addressed, fetched, registered
<1> QED
  BY <1>1, <1>2, <1>3, <1>4, <1>5

LEMMA InAt ==
  ASSUME NEW x, NEW place
  PROVE  /\ \A sequence : x \in In(place, sequence) <=>
               \E k \in DOMAIN sequence : x = <<place, k, sequence[k].robPointer>>
         /\ \A set : x \in At(place, set) <=> \E u \in set : x = <<place, 0, u.robPointer>>
BY DEF In, At

LEMMA WhereaboutsForm ==
  ASSUME DispatchTypeOK, NEW x
  PROVE  x \in Whereabouts <=>
           \E tag, p, k, u : Sits(tag, p, k, u) /\ x = <<<<tag, p>>, k, u.robPointer>>
<1>1. \A p \in Ports : \A k \in DOMAIN queue[p] :
         Bare(queue[p][k]).robPointer = queue[p][k].robPointer
  BY DEF Bare
<1>2. \A k \in DOMAIN output : Bare(output[k]).robPointer = output[k].robPointer
  BY DEF Bare
<1>3. ASSUME NEW tag, NEW p, NEW k, NEW u, Sits(tag, p, k, u), x = <<<<tag, p>>, k, u.robPointer>>
      PROVE  x \in Whereabouts
  <2>1. CASE tag = "queue"
    <3>1. x \in In(<<"queue", 0>>, dispatchQueue)
      BY <1>3, <2>1, SitsAt, InAt
    <3> QED
      BY <3>1, WhereaboutsParts
  <2>2. CASE tag = "window"
    <3>1. x \in In(<<"window", 0>>, window)
      BY <1>3, <2>2, SitsAt, InAt
    <3> QED
      BY <3>1, WhereaboutsParts
  <2>3. CASE tag = "issue"
    <3>1. x \in In(<<"issue", p>>, queue[p]) /\ p \in Ports
      BY <1>1, <1>3, <2>3, SitsAt, InAt
    <3> QED
      BY <3>1, WhereaboutsParts
  <2>4. CASE tag = "output"
    <3>1. x \in In(<<"output", 0>>, output)
      BY <1>2, <1>3, <2>4, SitsAt, InAt
    <3> QED
      BY <3>1, WhereaboutsParts
  <2>5. CASE tag = "address"
    <3>1. x \in At(<<"address", p>>, address[p]) /\ p \in OrdinaryPorts
      BY <1>3, <2>5, SitsAt, InAt
    <3> QED
      BY <3>1, WhereaboutsParts
  <2>6. CASE tag = "operand"
    <3>1. x \in At(<<"operand", p>>, operand[p]) /\ p \in Ports
      BY <1>3, <2>6, SitsAt, InAt
    <3> QED
      BY <3>1, WhereaboutsParts
  <2>7. CASE tag = "multiply"
    <3>1. x \in At(<<"multiply", 0>>, multiplying)
      BY <1>3, <2>7, SitsAt, InAt
    <3> QED
      BY <3>1, WhereaboutsParts
  <2>8. CASE tag = "divide"
    <3>1. x \in At(<<"divide", 0>>, dividing)
      BY <1>3, <2>8, SitsAt, InAt
    <3> QED
      BY <3>1, WhereaboutsParts
  <2>9. CASE tag = "divided"
    <3>1. x \in At(<<"divided", 0>>, divided)
      BY <1>3, <2>9, SitsAt, InAt
    <3> QED
      BY <3>1, WhereaboutsParts
  <2>10. CASE tag = "barrier"
    <3>1. x \in At(<<"barrier", 0>>, barrier)
      BY <1>3, <2>10, SitsAt, InAt
    <3> QED
      BY <3>1, WhereaboutsParts
  <2>11. CASE tag = "memory"
    <3>1. x \in At(<<"memory", 0>>, memory)
      BY <1>3, <2>11, SitsAt, InAt
    <3> QED
      BY <3>1, WhereaboutsParts
  <2>12. CASE tag = "staged"
    <3>1. x \in At(<<"staged", p>>, staged[p]) /\ p \in Lanes
      BY <1>3, <2>12, SitsAt, InAt
    <3> QED
      BY <3>1, WhereaboutsParts
  <2>13. tag \in {"queue", "window", "issue", "output", "address", "operand", "multiply",
                  "divide", "divided", "barrier", "memory", "staged"}
    BY <1>3 DEF Sits
  <2> QED
    BY <2>1, <2>2, <2>3, <2>4, <2>5, <2>6, <2>7, <2>8, <2>9, <2>10, <2>11, <2>12, <2>13
<1>4. ASSUME x \in Whereabouts
      PROVE  \E tag, p, k, u : Sits(tag, p, k, u) /\ x = <<<<tag, p>>, k, u.robPointer>>
  <2>0. ASSUME NEW tag, NEW p, NEW k, NEW u, Sits(tag, p, k, u), x = <<<<tag, p>>, k, u.robPointer>>
        PROVE  \E t, q, j, v : Sits(t, q, j, v) /\ x = <<<<t, q>>, j, v.robPointer>>
    BY <2>0
  <2>1. CASE x \in In(<<"queue", 0>>, dispatchQueue)
    BY <2>0, <2>1, SitsAt DEF In
  <2>2. CASE x \in In(<<"window", 0>>, window)
    BY <2>0, <2>2, SitsAt DEF In
  <2>3. ASSUME NEW p \in Ports, x \in In(<<"issue", p>>, queue[p])
        PROVE  \E tag, q, k, u : Sits(tag, q, k, u) /\ x = <<<<tag, q>>, k, u.robPointer>>
    BY <1>1, <2>0, <2>3, SitsAt DEF In
  <2>4. CASE x \in In(<<"output", 0>>, output)
    BY <1>2, <2>0, <2>4, SitsAt DEF In
  <2>5. ASSUME NEW p \in OrdinaryPorts, x \in At(<<"address", p>>, address[p])
        PROVE  \E tag, q, k, u : Sits(tag, q, k, u) /\ x = <<<<tag, q>>, k, u.robPointer>>
    BY <2>0, <2>5, SitsAt DEF At
  <2>6. ASSUME NEW p \in Ports, x \in At(<<"operand", p>>, operand[p])
        PROVE  \E tag, q, k, u : Sits(tag, q, k, u) /\ x = <<<<tag, q>>, k, u.robPointer>>
    BY <2>0, <2>6, SitsAt DEF At
  <2>7. CASE x \in At(<<"multiply", 0>>, multiplying)
    BY <2>0, <2>7, SitsAt DEF At
  <2>8. CASE x \in At(<<"divide", 0>>, dividing)
    BY <2>0, <2>8, SitsAt DEF At
  <2>9. CASE x \in At(<<"divided", 0>>, divided)
    BY <2>0, <2>9, SitsAt DEF At
  <2>10. CASE x \in At(<<"barrier", 0>>, barrier)
    BY <2>0, <2>10, SitsAt DEF At
  <2>11. CASE x \in At(<<"memory", 0>>, memory)
    BY <2>0, <2>11, SitsAt DEF At
  <2>12. ASSUME NEW l \in Lanes, x \in At(<<"staged", l>>, staged[l])
         PROVE  \E tag, q, k, u : Sits(tag, q, k, u) /\ x = <<<<tag, q>>, k, u.robPointer>>
    BY <2>0, <2>12, SitsAt DEF At
  <2> QED
    BY <1>4, <2>1, <2>2, <2>3, <2>4, <2>5, <2>6, <2>7, <2>8, <2>9, <2>10, <2>11, <2>12,
       WhereaboutsParts
<1> QED
  BY <1>3, <1>4

LEMMA PlacesCounted ==
  ASSUME DispatchTypeOK, LiveInv, PlacesInv
  PROVE  NothingLostOrDuplicated
<1>1. IsFiniteSet(Unfinished) /\ \A u : u \in Unfinished <=> IsLive(u) /\ u.robPointer \notin done
  BY LiveFinite, FS_Subset DEF Unfinished
<1>2. \A x \in Whereabouts : \E u \in Unfinished : u.robPointer = x[3]
  BY <1>1, WhereaboutsForm DEF PlacesInv, SitAliveInv
<1>3. \A u \in Unfinished : \E x \in Whereabouts : u.robPointer = x[3]
  <2> SUFFICES ASSUME NEW u \in Unfinished PROVE \E x \in Whereabouts : u.robPointer = x[3]
    OBVIOUS
  <2>1. PICK tag, p, k : Sits(tag, p, k, u)
    BY <1>1 DEF PlacesInv, SitAllInv, Somewhere
  <2>2. <<<<tag, p>>, k, u.robPointer>> \in Whereabouts
    BY <2>1, WhereaboutsForm
  <2> QED
    BY <2>2
<1>4. ASSUME NEW x \in Whereabouts, NEW y \in Whereabouts, x[3] = y[3] PROVE x = y
  <2>1. PICK tag, p, k, u : Sits(tag, p, k, u) /\ x = <<<<tag, p>>, k, u.robPointer>>
    BY WhereaboutsForm
  <2>2. PICK t, q, j, v : Sits(t, q, j, v) /\ y = <<<<t, q>>, j, v.robPointer>>
    BY WhereaboutsForm
  <2>3. u.robPointer = v.robPointer /\ IsLive(u) /\ IsLive(v)
    BY <1>4, <2>1, <2>2 DEF PlacesInv, SitAliveInv
  <2>4. u = v
    BY <2>3, LiveOne
  <2>5. tag = t /\ p = q /\ k = j
    BY <2>1, <2>2, <2>4 DEF PlacesInv, SitOnceInv
  <2> QED
    BY <2>1, <2>2, <2>4, <2>5
<1>5. \A u, v \in Unfinished : u.robPointer = v.robPointer => u = v
  BY <1>1, LiveOne
<1>6. /\ {x[3] : x \in Whereabouts} = {u.robPointer : u \in Unfinished}
      /\ Cardinality(Whereabouts) = Cardinality(Unfinished)
  BY <1>1, <1>2, <1>3, <1>4, <1>5, CountByPointer
<1> QED
  BY <1>6 DEF NothingLostOrDuplicated

(***************************************************************************)
(* Wakeups.                                                                  *)
(***************************************************************************)
LEMMA EntryNext ==
  ASSUME DispatchTypeOK, NEW in, Accepted(in), Edge(in), NEW p \in Ports, NEW k \in DOMAIN queue'[p]
  PROVE  \/ \E i \in DOMAIN queue[p] \ Dequeued(in, p) :
               queue[p][i] \in Entries /\ queue'[p][k] = Woken(queue[p][i], EarlyWakeups(in))
         \/ \E j \in DOMAIN Routed : /\ Routed[j] = p /\ j \in DOMAIN window /\ window[j] \in Uops
               /\ EntryOf(window[j]) \in Entries
               /\ queue'[p][k] = Woken(EntryOf(window[j]), EarlyWakeups(in))
<1>1. QueueMoved(in, p) /\ QueueKept(in, p) \in Nat
  BY QueueEdge, KeptForm
<1>2. CASE k \in 1 .. QueueKept(in, p)
  <2> DEFINE i == QueueFrom(in, p, k)
  <2>1. /\ i \in DOMAIN queue[p] \ Dequeued(in, p)
        /\ queue'[p][k] = Woken(queue[p][i], EarlyWakeups(in))
    BY <1>1, <1>2, KeptForm DEF QueueMoved
  <2>2. queue[p][i] \in Entries
    BY <2>1 DEF DispatchTypeOK
  <2> QED
    BY <2>1, <2>2
<1>3. ASSUME NEW j \in DOMAIN Routed, Routed[j] = p,
             queue'[p][k] = Woken(EntryOf(window[j]), EarlyWakeups(in))
      PROVE  j \in DOMAIN window /\ window[j] \in Uops /\ EntryOf(window[j]) \in Entries
  <2>1. j \in DOMAIN window /\ window[j] \in Uops
    BY RoutedForm DEF DispatchTypeOK
  <2> QED
    BY <2>1, EntryOfForm
<1>4. k \in 1 .. QueueKept(in, p) \/ \E j \in DOMAIN Routed :
            Routed[j] = p /\ queue'[p][k] = Woken(EntryOf(window[j]), EarlyWakeups(in))
  BY <1>1 DEF QueueMoved
<1> QED
  BY <1>2, <1>3, <1>4

(* A registered result wakes even when a direct one of its lane cannot.          *)
LEMMA RegisteredWakes ==
  ASSUME NEW in
  PROVE  RegisteredTags \subseteq EarlyWakeups(in) /\ 0 \notin RegisteredTags
<1> DEFINE wakes(l) == IF l \in OrdinaryPorts /\ Tags(staged[l]) = {} THEN DirectTags(in, l)
                       ELSE Tags(staged[l])
<1>1. EarlyWakeups(in) = UNION {wakes(l) : l \in Lanes}
  BY DEF EarlyWakeups
<1>2. ASSUME NEW tag \in RegisteredTags PROVE tag \in EarlyWakeups(in)
  <2>1. tag # 0 /\ \E l \in Lanes : \E u \in staged[l] : tag = u.pdst
    BY DEF RegisteredTags, Tags
  <2>2. PICK l \in Lanes : tag \in Tags(staged[l])
    BY <2>1 DEF Tags
  <2>3. wakes(l) = Tags(staged[l])
    BY <2>2
  <2> QED
    BY <1>1, <2>2, <2>3
<1> QED
  BY <1>2 DEF RegisteredTags, Tags

LEMMA WakeEdge ==
  ASSUME DispatchTypeOK, LiveInv, CapacityInv, NoLostWakeup, NEW in, Accepted(in), Edge(in)
  PROVE  NoLostWakeup'
<1> DEFINE tags == EarlyWakeups(in)
<1>1. ready' \subseteq ready \cup RegisteredTags
  BY ReorderEdge
<1>2. RegisteredTags \subseteq tags /\ 0 \notin RegisteredTags
  BY RegisteredWakes
<1> HIDE DEF tags
<1>3. ASSUME NEW p \in Ports, NEW k \in DOMAIN queue'[p]
      PROVE  /\ queue'[p][k].psrc1 \in ready' => queue'[p][k].source1Ready
             /\ queue'[p][k].psrc2 \in ready' => queue'[p][k].source2Ready
  <2>1. ASSUME NEW i \in DOMAIN queue[p], queue[p][i] \in Entries,
               queue'[p][k] = Woken(queue[p][i], tags)
        PROVE  /\ queue'[p][k].psrc1 \in ready' => queue'[p][k].source1Ready
               /\ queue'[p][k].psrc2 \in ready' => queue'[p][k].source2Ready
    <3> DEFINE e == queue[p][i]
    <3>1. (e.psrc1 \in ready => e.source1Ready) /\ (e.psrc2 \in ready => e.source2Ready)
      BY DEF NoLostWakeup
    <3>2. e \in Entries /\ queue'[p][k] = Woken(e, tags)
      BY <2>1
    <3> DEFINE f == queue'[p][k]
    <3>3. /\ f.psrc1 = e.psrc1 /\ f.source1Ready = (e.source1Ready \/ e.psrc1 \in tags)
          /\ f.psrc2 = e.psrc2 /\ f.source2Ready = (e.source2Ready \/ e.psrc2 \in tags)
      BY <3>2, WokenForm
    <3> HIDE DEF e, f
    <3>4. f.psrc1 \in ready' => f.source1Ready
      BY <1>1, <1>2, <3>1, <3>3
    <3>5. f.psrc2 \in ready' => f.source2Ready
      BY <1>1, <1>2, <3>1, <3>3
    <3> QED
      BY <3>4, <3>5 DEF f
  <2>2. ASSUME NEW u \in Uops, EntryOf(u) \in Entries, queue'[p][k] = Woken(EntryOf(u), tags)
        PROVE  /\ queue'[p][k].psrc1 \in ready' => queue'[p][k].source1Ready
               /\ queue'[p][k].psrc2 \in ready' => queue'[p][k].source2Ready
    <3> DEFINE e == EntryOf(u)
               f == queue'[p][k]
    <3>1. /\ e.source1Ready = (e.psrc1 \in ready \cup RegisteredTags)
          /\ e.source2Ready = (e.psrc2 \in ready \cup RegisteredTags)
      BY <2>2, EntryOfForm
    <3>2. /\ f.psrc1 = e.psrc1 /\ f.source1Ready = (e.source1Ready \/ e.psrc1 \in tags)
          /\ f.psrc2 = e.psrc2 /\ f.source2Ready = (e.source2Ready \/ e.psrc2 \in tags)
      BY <2>2, WokenForm
    <3> HIDE DEF e, f
    <3>3. f.psrc1 \in ready' => f.source1Ready
      BY <1>1, <3>1, <3>2
    <3>4. f.psrc2 \in ready' => f.source2Ready
      BY <1>1, <3>1, <3>2
    <3> QED
      BY <3>3, <3>4 DEF f
  <2> QED
    BY <2>1, <2>2, EntryNext DEF tags
<1>4. ASSUME NEW s \in Slot, NEW d \in slots'[s], d.psrc \in ready' PROVE d.ready
  <2>1. StoreDataMoved(in, FreeSlot, Leaving(in))
    BY StoreDataEdge
  <2>2. CASE EntersStoreData # {} /\ s = FreeSlot
    <3>1. PICK e \in EntersStoreData : d = NewSlot(e, RegisteredTags)
      BY <2>1, <2>2 DEF StoreDataMoved
    <3>2. PICK j \in DOMAIN Routed : e = EntryOf(window[j])
      BY EntersStoreDataForm
    <3>3. window[j] \in Uops
      BY RoutedForm DEF DispatchTypeOK
    <3>4. e.source2Ready = (e.psrc2 \in ready \cup RegisteredTags)
      BY <3>2, <3>3, EntryOfForm
    <3>5. d.psrc = e.psrc2 /\ d.ready = (e.source2Ready \/ e.psrc2 = 0 \/ e.psrc2 \in RegisteredTags)
      BY <3>1 DEF NewSlot
    <3> QED
      BY <1>1, <1>4, <3>4, <3>5
  <2>3. CASE ~(EntersStoreData # {} /\ s = FreeSlot)
    <3>1. PICK f \in slots[s] : d = [f EXCEPT !.ready = @ \/ (f.psrc # 0 /\ f.psrc \in RegisteredTags)]
      BY <2>1, <2>3 DEF StoreDataMoved
    <3>2. f \in StoreData /\ (f.psrc \in ready => f.ready)
      BY DEF DispatchTypeOK, NoLostWakeup
    <3>3. d.psrc = f.psrc /\ d.ready = (f.ready \/ (f.psrc # 0 /\ f.psrc \in RegisteredTags))
      BY <3>1, <3>2 DEF StoreData
    <3> QED
      BY <1>1, <1>2, <1>4, <3>2, <3>3
  <2> QED
    BY <2>2, <2>3
<1>5. \A p \in Ports : \A k \in DOMAIN queue'[p] :
         /\ queue'[p][k].psrc1 \in ready' => queue'[p][k].source1Ready
         /\ queue'[p][k].psrc2 \in ready' => queue'[p][k].source2Ready
  BY <1>3
<1>6. \A s \in Slot : \A d \in slots'[s] : d.psrc \in ready' => d.ready
  BY <1>4
<1> QED
  BY <1>5, <1>6 DEF NoLostWakeup, Slot

(***************************************************************************)
(* Program order.                                                            *)
(***************************************************************************)
(* The window and the dispatch queue are the youngest uops, in order.            *)
Base == Len(live) - Len(window) - Len(dispatchQueue)
WaitingInv ==
    /\ Base \in Nat
    /\ \A k \in DOMAIN window : window[k] = live[Base + k]
    /\ \A k \in DOMAIN dispatchQueue : dispatchQueue[k] = live[Base + Len(window) + k]
(* An issue queue is sorted by age.                                           *)
SortedInv ==
    \A p \in Ports : \A j, k \in DOMAIN queue[p] : \A a, b \in DOMAIN live :
       j < k /\ Bare(queue[p][j]) = live[a] /\ Bare(queue[p][k]) = live[b] => a < b

LEMMA WaitingSits ==
  ASSUME DispatchTypeOK, WaitingInv, NEW a \in DOMAIN live, a > Base
  PROVE  \E tag \in {"queue", "window"} : \E k : Sits(tag, 0, k, live[a])
<1> DEFINE n == Len(window)
           m == Len(dispatchQueue)
<1>1. /\ n \in Nat /\ m \in Nat /\ DOMAIN window = 1 .. n /\ DOMAIN dispatchQueue = 1 .. m
      /\ a \in Nat /\ a <= Base + n + m /\ Base \in Nat
  BY DEF DispatchTypeOK, WaitingInv, Base
<1>2. CASE a <= Base + n
  <2> DEFINE k == a - Base
  <2>1. k \in DOMAIN window /\ Base + k = a
    BY <1>1, <1>2
  <2> HIDE DEF k
  <2>2. window[k] = live[a]
    BY <2>1 DEF WaitingInv
  <2>3. Sits("window", 0, k, live[a])
    BY <2>1, <2>2, SitsAt
  <2> QED
    BY <2>3
<1>3. CASE a > Base + n
  <2> DEFINE k == a - (Base + n)
  <2>1. k \in DOMAIN dispatchQueue /\ Base + n + k = a
    BY <1>1, <1>3
  <2> HIDE DEF k
  <2>2. dispatchQueue[k] = live[a]
    BY <2>1 DEF WaitingInv
  <2>3. Sits("queue", 0, k, live[a])
    BY <2>1, <2>2, SitsAt
  <2> QED
    BY <2>3
<1> QED
  BY <1>1, <1>2, <1>3

(* A uop that was in the reorder buffer has moved up by what retired.           *)
LEMMA OldPosition ==
  ASSUME DispatchTypeOK, LiveInv, CapacityInv, NEW in, Accepted(in), Edge(in),
         NEW u, IsLive(u), NEW b \in DOMAIN live', live'[b] = u
  PROVE  b + in.retire \in DOMAIN live /\ live[b + in.retire] = u
<1>1. LiveMoved(NewUops(in.group), in.retire)
  BY LiveNext
<1>2. CASE (b + in.retire) \in in.retire + 1 .. Len(live) /\ live'[b] = live[b + in.retire]
  BY <1>1, <1>2 DEF LiveMoved
<1>3. ASSUME NEW i \in DOMAIN NewUops(in.group), live'[b] = NewUops(in.group)[i] PROVE FALSE
  <2>1. \A j \in DOMAIN live : NewUops(in.group)[i].robPointer # live[j].robPointer
    BY NewPointers
  <2> QED
    BY <1>3, <2>1 DEF IsLive
<1> QED
  BY <1>1, <1>2, <1>3 DEF LiveMoved

LEMMA WaitingEdge ==
  ASSUME DispatchTypeOK, LiveInv, CapacityInv, PlacesInv, WaitingInv,
         NEW in, Accepted(in), Edge(in)
  PROVE  WaitingInv'
<1> DEFINE out == Len(Routed)
           take == Refill(out)
           group == NewUops(in.group)
           retire == in.retire
<1>1. LiveMoved(group, retire)
  BY LiveNext
<1>2. /\ Len(window') = Len(window) - out + take /\ window' \in Seq(Uops)
      /\ \A i \in 1 .. Len(window) - out : window'[i] = window[i + out]
      /\ \A i \in Len(window) - out + 1 .. Len(window') :
            window'[i] = dispatchQueue[i - (Len(window) - out)]
  BY DispatchEdge
<1>11. /\ Len(dispatchQueue') = Len(dispatchQueue) - take + Len(group)
       /\ dispatchQueue' \in Seq(Uops)
       /\ \A i \in 1 .. Len(dispatchQueue) - take : dispatchQueue'[i] = dispatchQueue[i + take]
       /\ \A i \in Len(dispatchQueue) - take + 1 .. Len(dispatchQueue') :
             dispatchQueue'[i] = group[i - (Len(dispatchQueue) - take)]
  BY DispatchEdge
<1>3. /\ out \in Nat /\ out <= Len(window) /\ take \in Nat /\ take <= Len(dispatchQueue)
      /\ Len(window) \in Nat /\ Len(dispatchQueue) \in Nat
      /\ DOMAIN window = 1 .. Len(window) /\ DOMAIN dispatchQueue = 1 .. Len(dispatchQueue)
      /\ Len(live) \in Nat /\ Base = Len(live) - Len(window) - Len(dispatchQueue) /\ Base \in Nat
  BY RoutedForm, RefillForm DEF DispatchTypeOK, WaitingInv, Base
<1>4. /\ retire \in Nat /\ retire <= Len(live) /\ Len(group) \in Nat
      /\ Len(live') = Len(live) - retire + Len(group)
      /\ \A j \in retire + 1 .. Len(live) : live'[j - retire] = live[j]
      /\ \A i \in DOMAIN group : \E k \in DOMAIN live' :
            k = Len(live) - retire + i /\ live'[k] = group[i]
      /\ DOMAIN group = 1 .. Len(group)
  BY <1>1 DEF LiveMoved
<1>5. retire <= Base
  <2> SUFFICES ASSUME retire > Base PROVE FALSE
    BY <1>3, <1>4
  <2> DEFINE a == Base + 1
  <2>1. a \in 1 .. retire /\ a \in DOMAIN live /\ a > Base
    <3>1. /\ Base \in Nat /\ retire \in Nat /\ Len(live) \in Nat
          /\ retire <= Len(live) /\ retire > Base
      BY <1>3, <1>4
    <3>2. DOMAIN live = 1 .. Len(live)
      BY DEF DispatchTypeOK
    <3> HIDE DEF Base, retire
    <3> QED
      BY <3>1, <3>2
  <2> HIDE DEF a, retire
  <2>2. live[a].robPointer \in done
    BY <2>1, ReorderEdge DEF retire
  <2>3. PICK tag, k : Sits(tag, 0, k, live[a])
    BY <2>1, WaitingSits
  <2> QED
    BY <2>2, <2>3 DEF PlacesInv, SitAliveInv
<1> HIDE DEF out, take, group, retire
<1>6. Base' = Base + out - retire /\ Base' \in Nat
  <2>1. Base' = Len(live') - Len(window') - Len(dispatchQueue')
    BY DEF Base
  <2>2. /\ Len(live') = Len(live) - retire + Len(group) /\ Len(window') = Len(window) - out + take
        /\ Len(dispatchQueue') = Len(dispatchQueue) - take + Len(group)
        /\ Len(live) = Base + Len(window) + Len(dispatchQueue)
    BY <1>2, <1>3, <1>4, <1>11
  <2>3. /\ out \in Nat /\ take \in Nat /\ Len(window) \in Nat /\ Len(dispatchQueue) \in Nat
        /\ Len(live) \in Nat /\ retire \in Nat /\ Len(group) \in Nat /\ Base \in Nat
        /\ retire <= Base
    BY <1>3, <1>4, <1>5
  <2> HIDE DEF Base
  <2>4. Len(live') - Len(window') - Len(dispatchQueue') = Base + out - retire
    BY <2>2, <2>3
  <2> QED
    BY <2>1, <2>3, <2>4
<1>7. /\ out \in Nat /\ take \in Nat /\ retire \in Nat /\ Base \in Nat
      /\ Len(window) \in Nat /\ Len(dispatchQueue) \in Nat
      /\ Len(live) \in Nat /\ Len(group) \in Nat
      /\ out <= Len(window) /\ take <= Len(dispatchQueue) /\ retire <= Base
      /\ Len(live) = Base + Len(window) + Len(dispatchQueue)
      /\ Base' = Base + out - retire
  BY <1>3, <1>4, <1>5, <1>6
<1>12. /\ Len(window') = Len(window) - out + take
       /\ Len(dispatchQueue') = Len(dispatchQueue) - take + Len(group)
       /\ DOMAIN window' = 1 .. Len(window) - out + take
       /\ DOMAIN dispatchQueue' = 1 .. Len(dispatchQueue) - take + Len(group)
  BY <1>2, <1>11
<1>13. DOMAIN dispatchQueue = 1 .. Len(dispatchQueue) /\ DOMAIN group = 1 .. Len(group)
  BY <1>3, <1>4
<1>8. ASSUME NEW k \in DOMAIN window' PROVE window'[k] = live'[Base' + k]
  <2> DEFINE j == Base + out + k
  <2>0. k \in 1 .. Len(window) - out + take
    BY <1>12
  <2>1. /\ k \in Nat /\ k \in 1 .. Len(window) - out + take
        /\ j \in retire + 1 .. Len(live) /\ j - retire = Base' + k
    <3> HIDE DEF Base
    <3> QED
      BY <1>7, <2>0
  <2>2. live'[Base' + k] = live[j]
    BY <1>4, <2>1
  <2>3. CASE k <= Len(window) - out
    <3> DEFINE i == k + out
    <3>1. k \in 1 .. Len(window) - out /\ i \in DOMAIN window /\ Base + i = j
      BY <1>3, <2>1, <2>3
    <3>2. window'[k] = window[i]
      BY <1>2, <3>1
    <3> HIDE DEF i, j
    <3>3. window[i] = live[j]
      BY <3>1 DEF WaitingInv
    <3> QED
      BY <2>2, <3>2, <3>3
  <2>4. CASE k > Len(window) - out
    <3> DEFINE i == k - (Len(window) - out)
    <3>0. k \in Len(window) - out + 1 .. Len(window')
      <4>1. k > Len(window) - out /\ Len(window) - out \in Nat
        BY <1>7, <2>4
      <4> QED
        BY <1>12, <2>1, <4>1
    <3>1. i \in DOMAIN dispatchQueue /\ Base + Len(window) + i = j
      <4>1. i \in 1 .. take
        <5>1. /\ k \in Nat /\ out \in Nat /\ Len(window) \in Nat /\ take \in Nat
              /\ k \in 1 .. Len(window) - out + take
          BY <1>7, <2>1
        <5> QED
          BY <2>4, <5>1
      <4>2. Base + Len(window) + i = j
        <5>1. k \in Nat /\ out \in Nat /\ Len(window) \in Nat /\ Base \in Nat
          BY <1>7, <2>1
        <5> QED
          BY <5>1
      <4>3. i \in 1 .. Len(dispatchQueue)
        <5> HIDE DEF i
        <5> QED
          BY <1>7, <4>1
      <4> HIDE DEF i, j
      <4> QED
        BY <1>13, <4>2, <4>3
    <3>2. window'[k] = dispatchQueue[i]
      BY <1>2, <3>0
    <3> HIDE DEF i, j
    <3>3. dispatchQueue[i] = live[j]
      BY <3>1 DEF WaitingInv
    <3> QED
      BY <2>2, <3>2, <3>3
  <2> QED
    BY <1>3, <2>1, <2>3, <2>4
<1>9. ASSUME NEW k \in DOMAIN dispatchQueue'
      PROVE  dispatchQueue'[k] = live'[Base' + Len(window') + k]
  <2> DEFINE c == Base' + Len(window') + k
  <2>0. k \in 1 .. Len(dispatchQueue) - take + Len(group)
    BY <1>12
  <2>1. /\ k \in Nat /\ k \in 1 .. Len(dispatchQueue) - take + Len(group)
        /\ c = Len(live) - retire - Len(dispatchQueue) + take + k
    <3>1. Len(window') = Len(window) - out + take
      BY <1>12
    <3> HIDE DEF Base
    <3> QED
      BY <1>7, <2>0, <3>1
  <2>2. CASE k <= Len(dispatchQueue) - take
    <3> DEFINE i == k + take
               j == Base + Len(window) + i
    <3>1. /\ k \in 1 .. Len(dispatchQueue) - take /\ i \in DOMAIN dispatchQueue
          /\ j \in retire + 1 .. Len(live) /\ j - retire = c
      <4> HIDE DEF Base, c
      <4>1. k \in 1 .. Len(dispatchQueue) - take /\ i \in 1 .. Len(dispatchQueue)
        BY <1>7, <2>1, <2>2
      <4>2. j \in retire + 1 .. Len(live)
        BY <1>7, <2>1, <2>2
      <4>3. j - retire = c
        BY <1>7, <2>1
      <4> HIDE DEF i, j
      <4> QED
        BY <1>13, <4>1, <4>2, <4>3
    <3>2. dispatchQueue'[k] = dispatchQueue[i]
      BY <1>11, <3>1
    <3> HIDE DEF c
    <3>3. live'[c] = live[j]
      BY <1>4, <3>1
    <3> HIDE DEF i
    <3>4. dispatchQueue[i] = live[j]
      BY <3>1 DEF WaitingInv
    <3> QED
      BY <3>2, <3>3, <3>4 DEF c
  <2>3. CASE k > Len(dispatchQueue) - take
    <3> DEFINE i == k - (Len(dispatchQueue) - take)
    <3>1. /\ k \in Len(dispatchQueue) - take + 1 .. Len(dispatchQueue')
          /\ i \in DOMAIN group /\ c = Len(live) - retire + i
      <4> HIDE DEF Base, c
      <4>1. /\ k \in Len(dispatchQueue) - take + 1 .. Len(dispatchQueue) - take + Len(group)
            /\ i \in 1 .. Len(group)
        BY <1>7, <2>1, <2>3
      <4>2. c = Len(live) - retire + i
        BY <1>7, <2>1
      <4> HIDE DEF i, c
      <4> QED
        BY <1>12, <1>13, <4>1, <4>2
    <3>2. dispatchQueue'[k] = group[i]
      BY <1>11, <3>1
    <3> HIDE DEF i, c
    <3>3. live'[c] = group[i]
      BY <1>4, <3>1
    <3> QED
      BY <3>2, <3>3 DEF c
  <2> QED
    BY <1>3, <2>1, <2>2, <2>3
<1>10. /\ \A k \in DOMAIN window' : window'[k] = live'[Base' + k]
       /\ \A k \in DOMAIN dispatchQueue' : dispatchQueue'[k] = live'[Base' + Len(window') + k]
  BY <1>8, <1>9
<1> QED
  BY <1>6, <1>10 DEF WaitingInv

LEMMA SortedEdge ==
  ASSUME DispatchTypeOK, LiveInv, CapacityInv, PlacesInv, WaitingInv, SortedInv,
         NEW in, Accepted(in), Edge(in)
  PROVE  SortedInv'
<1> SUFFICES ASSUME NEW p \in Ports, NEW j \in DOMAIN queue'[p], NEW k \in DOMAIN queue'[p],
                    NEW a \in DOMAIN live', NEW b \in DOMAIN live', j < k,
                    Bare(queue'[p][j]) = live'[a], Bare(queue'[p][k]) = live'[b]
             PROVE  a < b
  BY DEF SortedInv
<1> DEFINE kept == QueueKept(in, p)
           from(i) == QueueFrom(in, p, i)
<1>1. /\ QueueMoved(in, p) /\ kept \in Nat /\ j \in Nat /\ k \in Nat /\ j >= 1
      /\ Len(queue'[p]) <= kept + 1 /\ k <= Len(queue'[p])
  <2>1. QueueMoved(in, p) /\ kept \in Nat
    BY QueueEdge, KeptForm
  <2>2. /\ DOMAIN queue'[p] = 1 .. Len(queue'[p]) /\ Len(queue'[p]) \in Nat
        /\ Len(queue'[p]) <= kept + 1
    BY <2>1 DEF QueueMoved
  <2> QED
    BY <2>1, <2>2
<1>2. a \in Nat /\ b \in Nat /\ in.retire \in Nat /\ Base \in Nat
  <2>1. LiveMoved(NewUops(in.group), in.retire)
    BY LiveNext
  <2> QED
    BY <2>1 DEF LiveMoved, WaitingInv
<1>3. ASSUME NEW i \in 1 .. kept, NEW c \in DOMAIN live', Bare(queue'[p][i]) = live'[c]
      PROVE  /\ from(i) \in DOMAIN queue[p] /\ c + in.retire \in DOMAIN live
             /\ Bare(queue[p][from(i)]) = live[c + in.retire]
  <2>1. from(i) \in DOMAIN queue[p] /\ queue'[p][i] = Woken(queue[p][from(i)], EarlyWakeups(in))
    BY <1>1, KeptForm DEF QueueMoved
  <2>2. queue[p][from(i)] \in Entries
    BY <2>1 DEF DispatchTypeOK
  <2>3. Bare(queue'[p][i]) = Bare(queue[p][from(i)])
    BY <2>1, <2>2, WokenForm
  <2>4. Sits("issue", p, from(i), live'[c])
    BY <1>3, <2>1, <2>3, SitsAt
  <2>5. IsLive(live'[c])
    BY <2>4 DEF PlacesInv, SitAliveInv
  <2>6. c + in.retire \in DOMAIN live /\ live[c + in.retire] = live'[c]
    BY <2>5, OldPosition
  <2> QED
    BY <1>3, <2>1, <2>3, <2>6
<1>4. j \in 1 .. kept
  BY <1>1
<1>5. CASE k \in 1 .. kept
  <2>1. from(j) < from(k)
    BY <1>4, <1>5, KeptForm
  <2>2. /\ from(j) \in DOMAIN queue[p] /\ a + in.retire \in DOMAIN live
        /\ Bare(queue[p][from(j)]) = live[a + in.retire]
    BY <1>3, <1>4
  <2>3. /\ from(k) \in DOMAIN queue[p] /\ b + in.retire \in DOMAIN live
        /\ Bare(queue[p][from(k)]) = live[b + in.retire]
    BY <1>3, <1>5
  <2>4. a + in.retire < b + in.retire
    BY <2>1, <2>2, <2>3 DEF SortedInv
  <2> QED
    BY <1>2, <2>4
<1>6. CASE k = kept + 1
  <2>1. PICK i \in DOMAIN Routed : queue'[p][k] = Woken(EntryOf(window[i]), EarlyWakeups(in))
    BY <1>1, <1>6 DEF QueueMoved
  <2>2. i \in DOMAIN window /\ window[i] \in Uops /\ i \in Nat /\ i >= 1
    BY RoutedForm DEF DispatchTypeOK
  <2>3. live'[b] = window[i]
    BY <2>1, <2>2, EntryOfForm, WokenForm
  <2>4. Sits("window", 0, i, live'[b])
    BY <2>2, <2>3, SitsAt
  <2>5. IsLive(live'[b])
    BY <2>4 DEF PlacesInv, SitAliveInv
  <2>6. b + in.retire \in DOMAIN live /\ live[b + in.retire] = live'[b]
    BY <2>5, OldPosition
  <2> DEFINE d == Base + i
             c == a + in.retire
  <2>7. d \in DOMAIN live /\ live[d] = window[i] /\ d > Base
    <3>1. live[d] = window[i]
      BY <2>2 DEF WaitingInv
    <3>2. d \in DOMAIN live
      BY <2>2, <1>2 DEF Base, DispatchTypeOK
    <3> QED
      BY <1>2, <2>2, <3>1, <3>2
  <2>8. b + in.retire = d
    <3> HIDE DEF d
    <3> QED
      BY <2>3, <2>6, <2>7, LiveDistinct
  <2>9. /\ from(j) \in DOMAIN queue[p] /\ c \in DOMAIN live
        /\ Bare(queue[p][from(j)]) = live[c]
    BY <1>3, <1>4
  <2>10. c <= Base
    <3> SUFFICES ASSUME c > Base PROVE FALSE
      BY <1>2
    <3> HIDE DEF c
    <3>1. PICK tag, x : tag \in {"queue", "window"} /\ Sits(tag, 0, x, live[c])
      BY <2>9, WaitingSits
    <3>2. Sits("issue", p, from(j), live[c])
      BY <2>9, SitsAt
    <3> QED
      BY <3>1, <3>2 DEF PlacesInv, SitOnceInv
  <2> QED
    BY <1>2, <2>2, <2>8, <2>10
<1> QED
  BY <1>1, <1>5, <1>6

LEMMA AgeIs ==
  ASSUME DispatchTypeOK, LiveInv, NEW a \in DOMAIN live
  PROVE  AgeOf(live[a].robPointer) = a
BY LiveDistinct DEF AgeOf

LEMMA OrderHolds ==
  ASSUME DispatchTypeOK, LiveInv, CapacityInv, PlacesInv, WaitingInv, SortedInv
  PROVE  QueuesHoldProgramOrder
<1> DEFINE waiting == window \o dispatchQueue
           n == Len(window)
           m == Len(dispatchQueue)
<1>1. waiting = SubSeq(live, Len(live) - Len(waiting) + 1, Len(live))
  <2>1. /\ n \in Nat /\ m \in Nat /\ DOMAIN window = 1 .. n /\ DOMAIN dispatchQueue = 1 .. m
        /\ Len(live) \in Nat /\ Base = Len(live) - n - m /\ Base \in Nat
        /\ live \in Seq(Uops) /\ window \in Seq(Uops) /\ dispatchQueue \in Seq(Uops)
    BY DEF DispatchTypeOK, WaitingInv, Base
  <2>2. waiting \in Seq(Uops) /\ Len(waiting) = n + m
    BY <2>1
  <2>3. Len(live) - Len(waiting) + 1 = Base + 1 /\ Len(live) = Base + n + m
    BY <2>1, <2>2
  <2> DEFINE tail == SubSeq(live, Base + 1, Len(live))
  <2>4. tail \in Seq(Uops) /\ Len(tail) = n + m /\ \A k \in 1 .. n + m : tail[k] = live[Base + k]
    BY <2>1, <2>3
  <2>5. ASSUME NEW k \in 1 .. n + m PROVE waiting[k] = tail[k]
    <3>1. CASE k <= n
      <4>1. waiting[k] = window[k] /\ k \in DOMAIN window
        BY <2>1, <3>1
      <4>2. window[k] = live[Base + k]
        BY <4>1 DEF WaitingInv
      <4> QED
        BY <2>4, <2>5, <4>1, <4>2
    <3>2. CASE k > n
      <4> DEFINE i == k - n
      <4>1. waiting[k] = dispatchQueue[i] /\ i \in DOMAIN dispatchQueue /\ Base + n + i = Base + k
        BY <2>1, <3>2
      <4> HIDE DEF i
      <4>2. dispatchQueue[i] = live[Base + n + i]
        BY <4>1 DEF WaitingInv
      <4> QED
        BY <2>4, <2>5, <4>1, <4>2
    <3> QED
      BY <2>1, <3>1, <3>2
  <2>6. waiting = tail
    <3> HIDE DEF waiting, tail, n, m
    <3> QED
      BY <2>2, <2>4, <2>5
  <2> QED
    BY <2>3, <2>6
<1>2. ASSUME NEW p \in Ports, NEW j \in DOMAIN queue[p], NEW k \in DOMAIN queue[p], j < k
      PROVE  AgeOf(queue[p][j].robPointer) < AgeOf(queue[p][k].robPointer)
  <2>1. ASSUME NEW i \in DOMAIN queue[p]
        PROVE  \E a \in DOMAIN live : Bare(queue[p][i]) = live[a] /\ AgeOf(queue[p][i].robPointer) = a
    <3>1. queue[p][i] \in Entries
      BY DEF DispatchTypeOK
    <3>2. Sits("issue", p, i, Bare(queue[p][i]))
      BY SitsAt
    <3>3. PICK a \in DOMAIN live : Bare(queue[p][i]) = live[a]
      BY <3>2 DEF PlacesInv, SitAliveInv, IsLive
    <3>4. queue[p][i].robPointer = live[a].robPointer
      BY <3>1, <3>3, BareForm
    <3> QED
      BY <3>3, <3>4, AgeIs
  <2>2. PICK a \in DOMAIN live : Bare(queue[p][j]) = live[a] /\ AgeOf(queue[p][j].robPointer) = a
    BY <2>1
  <2>3. PICK b \in DOMAIN live : Bare(queue[p][k]) = live[b] /\ AgeOf(queue[p][k].robPointer) = b
    BY <2>1
  <2> QED
    BY <1>2, <2>2, <2>3 DEF SortedInv
<1>3. ASSUME NEW s \in Slot PROVE Cardinality(slots[s]) <= 1
  <2>1. CASE slots[s] = {}
    BY <2>1, FS_EmptySet
  <2>2. CASE slots[s] # {}
    <3>1. PICK d \in slots[s] : slots[s] = {d}
      BY <2>2 DEF CapacityInv
    <3> QED
      BY <3>1, FS_Singleton
  <2> QED
    BY <2>1, <2>2
<1>4. /\ Len(dispatchQueue) <= DispatchQueueEntries /\ Len(window) <= DispatchWidth
      /\ \A p \in Ports : Len(queue[p]) <= IssueQueueEntries
      /\ Len(output) <= 2
  BY DEF CapacityInv
<1> QED
  BY <1>1, <1>2, <1>3, <1>4 DEF QueuesHoldProgramOrder

(***************************************************************************)
(* Serializing uops.                                                         *)
(***************************************************************************)
Waits(tag) == tag \in {"queue", "window", "issue"}
SerialInv ==
    \A tag, p, k, u : Sits(tag, p, k, u) /\ ~Waits(tag) /\ Serializing(u) =>
       1 \in DOMAIN live /\ u = live[1]

(* Before it issues a uop stays among the waiting ones, and it issues as the      *)
(* oldest if it serializes.                                                   *)
LEMMA LeavesWaiting ==
  ASSUME DispatchTypeOK, LiveInv, PlacesInv, NEW in,
         NEW t, NEW q, NEW j, NEW u, Sits(t, q, j, u), Waits(t), Serializing(u),
         NEW tag, NEW p, NEW k, Goes(in, t, q, j, u) = <<tag, p, k>>, ~Waits(tag)
  PROVE  1 \in DOMAIN live /\ u = live[1]
<1>1. CASE t = "queue"
  <2>1. FromQueue(j) = <<tag, p, k>>
    BY <1>1, GoesAt
  <2> QED
    BY <2>1 DEF FromQueue, Waits
<1>2. CASE t = "window"
  <2>1. FromWindow(in, j) = <<tag, p, k>>
    BY <1>2, GoesAt
  <2> QED
    BY <2>1 DEF FromWindow, Waits
<1>3. CASE t = "issue"
  <2>1. FromIssue(in, q, j) = <<tag, p, k>>
    BY <1>3, GoesAt
  <2>2. q \in Ports /\ j \in DOMAIN queue[q] /\ u = Bare(queue[q][j])
    BY <1>3, SitsAt
  <2>3. j \in Dequeued(in, q)
    BY <2>1 DEF FromIssue, Waits
  <2>4. ReadyToIssue(q, queue[q][j], EarlyWakeups(in), head)
    BY <2>2, <2>3, DequeuedForm
  <2>5. queue[q][j] \in Entries
    BY <2>2 DEF DispatchTypeOK
  <2>6. u.robPointer = head
    BY <2>2, <2>4, <2>5, BareForm DEF ReadyToIssue, Serializing
  <2>7. PICK a \in DOMAIN live : u = live[a]
    BY DEF PlacesInv, SitAliveInv, IsLive
  <2>8. 1 \in DOMAIN live
    BY <2>7 DEF DispatchTypeOK
  <2>9. live[1].robPointer = head
    <3>1. head \in Nat /\ head < PointerModulus
      BY Geometry DEF DispatchTypeOK, Pointers
    <3>2. Ring(head) = head
      BY <3>1, WrapOnce, Geometry
    <3>3. live[1].robPointer = Ring(head + 1 - 1)
      BY <2>8 DEF LiveInv
    <3>4. head + 1 - 1 = head
      BY <3>1
    <3> QED
      BY <3>2, <3>3, <3>4
  <2>10. a = 1
    BY <2>6, <2>7, <2>8, <2>9, LiveDistinct
  <2> QED
    BY <2>7, <2>8, <2>10
<1> QED
  BY <1>1, <1>2, <1>3 DEF Waits

LEMMA SerialEdge ==
  ASSUME DispatchTypeOK, LiveInv, CapacityInv, CapableInv, PlacesInv, SerialInv,
         NEW in, Accepted(in), Edge(in)
  PROVE  SerialInv'
<1> SUFFICES ASSUME NEW tag, NEW p, NEW k, NEW u, Sits(tag, p, k, u)', ~Waits(tag), Serializing(u)
             PROVE  1 \in DOMAIN live' /\ u = live'[1]
  BY DEF SerialInv
<1>1. CameFrom(in, tag, p, k, u)
  BY BackTo DEF Waits
<1>2. PICK t, q, j : t # "staged" /\ Sits(t, q, j, u) /\ Goes(in, t, q, j, u) = <<tag, p, k>>
  BY <1>1 DEF CameFrom
<1>3. 1 \in DOMAIN live /\ u = live[1]
  BY <1>2, LeavesWaiting DEF SerialInv
<1>4. live[1].robPointer \notin done
  BY <1>2, <1>3 DEF PlacesInv, SitAliveInv
<1>5. in.retire = 0
  <2>1. in.retire \in Nat /\ \A i \in 1 .. in.retire : live[i].robPointer \in done
    BY ReorderEdge
  <2> SUFFICES ASSUME in.retire >= 1 PROVE FALSE
    BY <2>1
  <2> QED
    BY <1>4, <2>1
<1>6. \A i \in in.retire + 1 .. Len(live) : i - in.retire \in DOMAIN live' /\ live'[i - in.retire] = live[i]
  BY LiveNext DEF LiveMoved
<1>7. 1 \in in.retire + 1 .. Len(live) /\ 1 - in.retire = 1
  BY <1>3, <1>5 DEF DispatchTypeOK
<1> QED
  BY <1>3, <1>6, <1>7

LEMMA SerialHolds ==
  ASSUME DispatchTypeOK, LiveInv, PlacesInv, SerialInv
  PROVE  SerializingIsOldest
<1> SUFFICES ASSUME NEW place \in Whereabouts, place \notin BeforeIssueQueues,
                    \A p \in Ports : place[1] # <<"issue", p>>,
                    Serializing(live[AgeOf(place[3])])
             PROVE  live[AgeOf(place[3])] = live[1]
  BY DEF SerializingIsOldest
<1>1. PICK tag, p, k, u : Sits(tag, p, k, u) /\ place = <<<<tag, p>>, k, u.robPointer>>
  BY WhereaboutsForm
<1>2. tag # "queue"
  <2> SUFFICES ASSUME tag = "queue" PROVE FALSE
    OBVIOUS
  <2>1. p = 0 /\ k \in DOMAIN dispatchQueue /\ u = dispatchQueue[k]
    BY <1>1, SitsAt
  <2>2. place \in In(<<"queue", 0>>, dispatchQueue)
    BY <1>1, <2>1, InAt
  <2> QED
    BY <2>2 DEF BeforeIssueQueues
<1>3. tag # "window"
  <2> SUFFICES ASSUME tag = "window" PROVE FALSE
    OBVIOUS
  <2>1. p = 0 /\ k \in DOMAIN window /\ u = window[k]
    BY <1>1, SitsAt
  <2>2. place \in In(<<"window", 0>>, window)
    BY <1>1, <2>1, InAt
  <2> QED
    BY <2>2 DEF BeforeIssueQueues
<1>4. tag # "issue"
  <2> SUFFICES ASSUME tag = "issue" PROVE FALSE
    OBVIOUS
  <2>1. p \in Ports /\ place[1] = <<"issue", p>>
    BY <1>1, SitsAt
  <2> QED
    BY <2>1
<1>5. PICK a \in DOMAIN live : u = live[a]
  BY <1>1 DEF PlacesInv, SitAliveInv, IsLive
<1>6. AgeOf(place[3]) = a
  <2>1. place[3] = live[a].robPointer
    BY <1>1, <1>5
  <2> QED
    BY <2>1, AgeIs
<1>7. Serializing(u)
  BY <1>5, <1>6
<1> QED
  BY <1>1, <1>2, <1>3, <1>4, <1>5, <1>6, <1>7 DEF SerialInv, Waits

(***************************************************************************)
(* The data of the stores.                                                   *)
(***************************************************************************)
(* What the units behind the operand registers hold.                           *)
UnitInv ==
    /\ \A u \in multiplying : u.kind = "multiply"
    /\ \A u \in dividing \cup divided : u.kind = "divide"
    /\ \A u \in barrier : u.kind = "barrier"
    /\ \A u \in memory : UsesAgu(u)

LEMMA UnitEdge ==
  ASSUME UnitInv, NEW in, Accepted(in), Edge(in)
  PROVE  UnitInv'
<1> DEFINE starts == FiredOfKind(in, {"divide"})
<1>1. \A u \in starts : u.kind = "divide"
  BY FiredForm
<1>2. /\ \A u \in FiredOfKind(in, {"multiply"}) : u.kind = "multiply"
      /\ \A u \in FiredOfKind(in, {"barrier"}) : u.kind = "barrier"
  BY FiredForm
<1> HIDE DEF starts
<1>3. /\ dividing' = (IF dividing # {} THEN IF in.divideEnds THEN {} ELSE dividing
                      ELSE IF in.divideEnds THEN {} ELSE starts)
      /\ divided' = (IF ~in.divideEnds THEN {}
                     ELSE IF dividing # {} THEN dividing ELSE starts)
  BY ExecuteEdge DEF starts
<1>4. \A u \in dividing' \cup divided' : u.kind = "divide"
  BY <1>1, <1>3 DEF UnitInv
<1>5. /\ multiplying' = FiredOfKind(in, {"multiply"})
      /\ barrier' = (IF in.barrierEnds THEN {} ELSE barrier \cup FiredOfKind(in, {"barrier"}))
      /\ memory' = (memory \ in.memory) \cup {u \in Fires(in, LoadStorePort) : UsesAgu(u)}
  BY ExecuteEdge
<1> QED
  BY <1>2, <1>4, <1>5 DEF UnitInv

(* Where Goes says, and nowhere else.                                         *)
LEMMA GoesThere ==
  ASSUME DispatchTypeOK, LiveInv, CapacityInv, CapableInv, PlacesInv, NEW in, Accepted(in), Edge(in),
         NEW t, NEW q, NEW j, NEW u, t # "staged", Sits(t, q, j, u)
  PROVE  \E tag, p, k : Sits(tag, p, k, u)' /\ Goes(in, t, q, j, u) = <<tag, p, k>>
<1>1. Somewhere(u)'
  BY ForthTo
<1>2. PICK tag, p, k : Sits(tag, p, k, u)'
  BY <1>1 DEF Somewhere
<1>3. ~NewInQueue(in, k, u)
  BY NewAlive DEF NewInQueue, PlacesInv, SitAliveInv
<1>4. CameFrom(in, tag, p, k, u)
  BY <1>2, <1>3, BackTo
<1>5. PICK t1, q1, j1 : Sits(t1, q1, j1, u) /\ Goes(in, t1, q1, j1, u) = <<tag, p, k>>
  BY <1>4 DEF CameFrom
<1>6. t1 = t /\ q1 = q /\ j1 = j
  BY <1>5 DEF PlacesInv, SitOnceInv
<1> QED
  BY <1>2, <1>5, <1>6

(* What is in the reorder buffer unfinished was so, unless it is new.             *)
LEMMA WasUnfinished ==
  ASSUME DispatchTypeOK, LiveInv, CapacityInv, PlacesInv, NEW in, Accepted(in), Edge(in),
         NEW u, IsLive(u)', u.robPointer \notin done'
  PROVE  \/ IsLive(u) /\ u.robPointer \notin done /\ u.robPointer \notin StagedPointers
         \/ \E i \in DOMAIN NewUops(in.group) : u = NewUops(in.group)[i]
<1>1. PICK j \in DOMAIN live' : u = live'[j]
  BY DEF IsLive
<1>2. \/ (j + in.retire) \in in.retire + 1 .. Len(live) /\ live'[j] = live[j + in.retire]
      \/ \E i \in DOMAIN NewUops(in.group) : live'[j] = NewUops(in.group)[i]
  BY LiveNext DEF LiveMoved
<1>3. ASSUME NEW i \in in.retire + 1 .. Len(live), u = live[i]
      PROVE  IsLive(u) /\ u.robPointer \notin done /\ u.robPointer \notin StagedPointers
  <2>1. i \in DOMAIN live /\ i \notin 1 .. in.retire
    BY LiveNext DEF LiveMoved
  <2>2. u.robPointer \notin {live[k].robPointer : k \in 1 .. in.retire}
    <3> SUFFICES ASSUME NEW k \in 1 .. in.retire, live[k].robPointer = u.robPointer
                 PROVE  FALSE
      OBVIOUS
    <3>1. k \in DOMAIN live
      BY LiveNext DEF LiveMoved
    <3> QED
      BY <1>3, <2>1, <3>1, LiveDistinct
  <2>3. /\ u.robPointer \notin done
        /\ u.robPointer \notin {v.robPointer : v \in UNION {staged[l] : l \in Lanes}}
    BY <2>2, ReorderEdge
  <2> QED
    BY <1>3, <2>1, <2>3 DEF IsLive, StagedPointers
<1> QED
  BY <1>1, <1>2, <1>3

(* The stores whose data is still due, and the places of DataWhereabouts.         *)
DataStore(u) ==
    /\ IsLive(u) /\ IsStore(u)
    /\ u.robPointer \notin done /\ u.robPointer \notin StagedPointers
DataSits(tag, p, k, x) ==
    \/ /\ tag = "queue" /\ p = 0 /\ k \in DOMAIN dispatchQueue
       /\ IsStore(dispatchQueue[k]) /\ x = dispatchQueue[k].robPointer
    \/ /\ tag = "window" /\ p = 0 /\ k \in DOMAIN window
       /\ IsStore(window[k]) /\ x = window[k].robPointer
    \/ tag = "slot" /\ p \in Slot /\ k = 0 /\ \E d \in slots[p] : x = d.robPointer
    \/ tag = "output" /\ p = 0 /\ k = 0 /\ \E d \in dataOutput : x = d.robPointer
    \/ tag = "sent" /\ p = 0 /\ k = 0 /\ x \in dataSent

LEMMA DataSitsAt ==
  ASSUME NEW p, NEW k, NEW x
  PROVE  /\ DataSits("queue", p, k, x) <=> /\ p = 0 /\ k \in DOMAIN dispatchQueue
               /\ IsStore(dispatchQueue[k]) /\ x = dispatchQueue[k].robPointer
         /\ DataSits("window", p, k, x) <=> /\ p = 0 /\ k \in DOMAIN window
               /\ IsStore(window[k]) /\ x = window[k].robPointer
         /\ DataSits("slot", p, k, x) <=>
               p \in Slot /\ k = 0 /\ \E d \in slots[p] : x = d.robPointer
         /\ DataSits("output", p, k, x) <=>
               p = 0 /\ k = 0 /\ \E d \in dataOutput : x = d.robPointer
         /\ DataSits("sent", p, k, x) <=> p = 0 /\ k = 0 /\ x \in dataSent
BY DEF DataSits

DataAliveInv == \A tag, p, k, x : DataSits(tag, p, k, x) =>
                   \E u : DataStore(u) /\ u.robPointer = x
DataOnceInv ==
    \A tag, p, k, t, q, j, x :
       DataSits(tag, p, k, x) /\ DataSits(t, q, j, x) => tag = t /\ p = q /\ k = j
DataAllInv == \A u : DataStore(u) => \E tag, p, k : DataSits(tag, p, k, u.robPointer)
(* The register an entry reads is the second source of its store.                *)
DataOf(d) == \E u : DataStore(u) /\ u.robPointer = d.robPointer /\ u.psrc2 = d.psrc
DataSourceInv ==
    /\ \A s \in Slot : \A d \in slots[s] : DataOf(d)
    /\ \A d \in dataOutput : DataOf(d)
DataInv == DataAliveInv /\ DataOnceInv /\ DataAllInv /\ DataSourceInv

(* Its address half is on its way too.                                        *)
LEMMA DataStoreSits ==
  ASSUME PlacesInv, NEW u, DataStore(u)
  PROVE  \E t, q, j : t # "staged" /\ Sits(t, q, j, u)
<1>1. PICK t, q, j : Sits(t, q, j, u)
  BY DEF DataStore, PlacesInv, SitAllInv, Somewhere
<1>2. t # "staged"
  <2> SUFFICES ASSUME t = "staged" PROVE FALSE
    OBVIOUS
  <2>1. q \in Lanes /\ u \in staged[q]
    BY <1>1, SitsAt
  <2>2. u \in UNION {staged[l] : l \in Lanes}
    BY <2>1
  <2> QED
    BY <2>2 DEF DataStore, StagedPointers
<1> QED
  BY <1>1, <1>2

(* A store reaches its registered result through memory alone.                   *)
LEMMA StoreStages ==
  ASSUME DispatchTypeOK, LiveInv, CapacityInv, CapableInv, PlacesInv, UnitInv,
         NEW in, Accepted(in), Edge(in), NEW u, DataStore(u), u.robPointer \in StagedPointers'
  PROVE  u \in in.memory
<1>1. PICK l \in Lanes : \E v \in staged'[l] : v.robPointer = u.robPointer
  BY DEF StagedPointers, Lanes, MultiplyLane
<1>2. PICK v \in staged'[l] : v.robPointer = u.robPointer
  BY <1>1
<1>3. CameFrom(in, "staged", l, 0, v)
  BY BackToStaged
<1>4. PICK t, q, j : t # "staged" /\ Sits(t, q, j, v) /\ Goes(in, t, q, j, v) = <<"staged", l, 0>>
  BY <1>3 DEF CameFrom
<1>5. IsLive(v)
  BY <1>4 DEF PlacesInv, SitAliveInv
<1>6. v = u
  BY <1>2, <1>5, LiveOne DEF DataStore
<1>7. IsStore(u) /\ UsesAgu(u)
  BY DEF DataStore, IsStore, UsesAgu
<1>8. CASE t = "memory"
  <2>1. FromMemory(in, u) = <<"staged", l, 0>>
    BY <1>4, <1>6, <1>8, GoesAt
  <2> QED
    BY <2>1 DEF FromMemory
<1>9. CASE t = "operand"
  <2>1. FromOperand(in, q, u) = <<"staged", l, 0>>
    BY <1>4, <1>6, <1>9, GoesAt
  <2> QED
    BY <1>7, <2>1 DEF FromOperand, Direct
<1>10. CASE t \in {"multiply", "divide", "divided", "barrier"}
  <2>1. u \in multiplying \cup dividing \cup divided \cup barrier
    BY <1>4, <1>6, <1>10, SitsAt
  <2> QED
    BY <1>7, <2>1 DEF UnitInv, IsStore
<1>11. CASE t = "queue"
  BY <1>4, <1>11, GoesAt DEF FromQueue
<1>12. CASE t = "window"
  BY <1>4, <1>12, GoesAt DEF FromWindow
<1>13. CASE t = "issue"
  BY <1>4, <1>13, GoesAt DEF FromIssue
<1>14. CASE t = "output"
  BY <1>4, <1>14, GoesAt DEF FromOutput
<1>15. CASE t = "address"
  BY <1>4, <1>15, GoesAt DEF FromAddress
<1> QED
  BY <1>4, <1>8, <1>9, <1>10, <1>11, <1>12, <1>13, <1>14, <1>15 DEF Sits

(* The place an edge without a flush takes a store's data to.                   *)
DataGoes(in, tag, p, k) ==
    CASE tag = "queue" -> FromQueue(k)
      [] tag = "window" -> IF k \in DOMAIN Routed THEN <<"slot", FreeSlot, 0>>
                           ELSE <<"window", 0, k - Len(Routed)>>
      [] tag = "slot" -> IF p \in Leaving(in) THEN <<"output", 0, 0>> ELSE <<"slot", p, 0>>
      [] tag = "output" -> IF in.dataReady THEN <<"sent", 0, 0>> ELSE <<"output", 0, 0>>
      [] OTHER -> <<"sent", 0, 0>>
Finished(in) == {u.robPointer : u \in in.memory}
DataCameFrom(in, tag, p, k, x) ==
    \E t, q, j : /\ DataSits(t, q, j, x) /\ DataGoes(in, t, q, j) = <<tag, p, k>>
                 /\ t = "sent" => x \notin Finished(in)
NewDataInQueue(in, k, x) ==
    \E i \in DOMAIN NewUops(in.group) :
       /\ IsStore(NewUops(in.group)[i]) /\ x = NewUops(in.group)[i].robPointer
       /\ k = Len(dispatchQueue) - Refill(Len(Routed)) + i

LEMMA DataGoesAt ==
  ASSUME NEW in, NEW p, NEW k
  PROVE  /\ DataGoes(in, "queue", p, k) = FromQueue(k)
         /\ DataGoes(in, "window", p, k) =
              IF k \in DOMAIN Routed THEN <<"slot", FreeSlot, 0>> ELSE <<"window", 0, k - Len(Routed)>>
         /\ DataGoes(in, "slot", p, k) =
              IF p \in Leaving(in) THEN <<"output", 0, 0>> ELSE <<"slot", p, 0>>
         /\ DataGoes(in, "output", p, k) =
              IF in.dataReady THEN <<"sent", 0, 0>> ELSE <<"output", 0, 0>>
         /\ DataGoes(in, "sent", p, k) = <<"sent", 0, 0>>
BY DEF DataGoes

LEMMA DataCameFromWitness ==
  ASSUME NEW in, NEW tag, NEW p, NEW k, NEW x, NEW t, NEW q, NEW j,
         DataSits(t, q, j, x), DataGoes(in, t, q, j) = <<tag, p, k>>,
         t = "sent" => x \notin Finished(in)
  PROVE  DataCameFrom(in, tag, p, k, x)
BY DEF DataCameFrom

(* Into the dispatch queue and the window the data goes with its uop.            *)
LEMMA GoesWaiting ==
  ASSUME NEW in, NEW t, NEW q, NEW j, NEW u, t # "staged", Sits(t, q, j, u),
         NEW tag, NEW p, NEW k, Goes(in, t, q, j, u) = <<tag, p, k>>, tag \in {"queue", "window"}
  PROVE  \/ t = "queue" /\ FromQueue(j) = <<tag, p, k>>
         \/ t = "window" /\ j \notin DOMAIN Routed /\ <<"window", 0, j - Len(Routed)>> = <<tag, p, k>>
<1>1. CASE t = "queue"
  BY <1>1, GoesAt
<1>2. CASE t = "window"
  <2>1. FromWindow(in, j) = <<tag, p, k>>
    BY <1>2, GoesAt
  <2> QED
    BY <1>2, <2>1 DEF FromWindow
<1>3. CASE t = "operand"
  <2>1. FromOperand(in, q, u) = <<tag, p, k>>
    BY <1>3, GoesAt
  <2> QED
    BY <2>1 DEF FromOperand
<1>4. CASE t = "issue"
  BY <1>4, GoesAt DEF FromIssue
<1>5. CASE t = "output"
  BY <1>5, GoesAt DEF FromOutput
<1>6. CASE t = "address"
  BY <1>6, GoesAt DEF FromAddress
<1>7. CASE t \in {"multiply", "divide", "divided", "barrier", "memory"}
  BY <1>7, GoesAt DEF FromDivide, FromBarrier, FromMemory
<1> QED
  BY <1>1, <1>2, <1>3, <1>4, <1>5, <1>6, <1>7 DEF Sits

LEMMA DataBackToWaiting ==
  ASSUME NEW in, NEW tag \in {"queue", "window"}, NEW p, NEW k, NEW u, IsStore(u),
         CameFrom(in, tag, p, k, u)
  PROVE  DataCameFrom(in, tag, p, k, u.robPointer)
<1>1. PICK t, q, j : t # "staged" /\ Sits(t, q, j, u) /\ Goes(in, t, q, j, u) = <<tag, p, k>>
  BY DEF CameFrom
<1>2. CASE t = "queue" /\ FromQueue(j) = <<tag, p, k>>
  <2>1. DataSits("queue", q, j, u.robPointer)
    BY <1>1, <1>2, SitsAt, DataSitsAt
  <2>2. DataGoes(in, "queue", q, j) = <<tag, p, k>>
    BY <1>2, DataGoesAt
  <2> QED
    BY <2>1, <2>2, DataCameFromWitness
<1>3. CASE t = "window" /\ j \notin DOMAIN Routed /\ <<"window", 0, j - Len(Routed)>> = <<tag, p, k>>
  <2>1. DataSits("window", q, j, u.robPointer)
    BY <1>1, <1>3, SitsAt, DataSitsAt
  <2>2. DataGoes(in, "window", q, j) = <<tag, p, k>>
    BY <1>3, DataGoesAt
  <2> QED
    BY <2>1, <2>2, DataCameFromWitness
<1> QED
  BY <1>1, <1>2, <1>3, GoesWaiting

LEMMA DataBackToSlot ==
  ASSUME DispatchTypeOK, NEW in, Accepted(in), Edge(in), NEW s \in Slot, NEW d \in slots'[s]
  PROVE  \/ \E j \in DOMAIN Routed :
               /\ Routed[j] = LoadStorePort /\ j \in DOMAIN window /\ IsStore(window[j])
               /\ s = FreeSlot /\ EntersStoreData # {}
               /\ d.robPointer = window[j].robPointer /\ d.psrc = window[j].psrc2
               /\ d = NewSlot(EntryOf(window[j]), RegisteredTags)
         \/ /\ s \notin Leaving(in)
            /\ \E f \in slots[s] : /\ d.robPointer = f.robPointer /\ d.psrc = f.psrc
                  /\ d.ready = (f.ready \/ (f.psrc # 0 /\ f.psrc \in RegisteredTags))
<1>1. StoreDataMoved(in, FreeSlot, Leaving(in))
  BY StoreDataEdge
<1>2. CASE EntersStoreData # {} /\ s = FreeSlot
  <2>1. PICK e \in EntersStoreData : d = NewSlot(e, RegisteredTags)
    BY <1>1, <1>2 DEF StoreDataMoved
  <2>2. PICK j \in DOMAIN Routed : /\ Routed[j] = LoadStorePort /\ IsStore(window[j])
                                   /\ e = EntryOf(window[j])
    BY EntersStoreDataForm
  <2>3. j \in DOMAIN window /\ window[j] \in Uops
    BY RoutedForm DEF DispatchTypeOK
  <2>4. e.robPointer = window[j].robPointer /\ e.psrc2 = window[j].psrc2
    BY <2>2, <2>3, EntryOfForm
  <2>5. d.robPointer = e.robPointer /\ d.psrc = e.psrc2
    BY <2>1 DEF NewSlot
  <2> QED
    BY <1>2, <2>1, <2>2, <2>3, <2>4, <2>5
<1>3. CASE ~(EntersStoreData # {} /\ s = FreeSlot)
  <2>1. s \notin Leaving(in)
    BY <1>1, <1>3 DEF StoreDataMoved
  <2>2. PICK f \in slots[s] : d = [f EXCEPT !.ready = @ \/ (f.psrc # 0 /\ f.psrc \in RegisteredTags)]
    BY <1>1, <1>3, <2>1 DEF StoreDataMoved
  <2>3. f \in StoreData
    BY DEF DispatchTypeOK
  <2>4. /\ d.robPointer = f.robPointer /\ d.psrc = f.psrc
        /\ d.ready = (f.ready \/ (f.psrc # 0 /\ f.psrc \in RegisteredTags))
    BY <2>2, <2>3 DEF StoreData
  <2> QED
    BY <2>1, <2>4
<1> QED
  BY <1>2, <1>3

LEMMA DataBackToOutput ==
  ASSUME NEW in, Accepted(in), Edge(in), NEW d \in dataOutput'
  PROVE  \/ d \in dataOutput /\ ~in.dataReady
         \/ \E s \in Leaving(in) : s \in Slot /\ d \in slots[s]
<1>1. dataOutput' = (IF dataOutput = {} \/ in.dataReady THEN UNION {slots[s] : s \in Leaving(in)}
                     ELSE dataOutput)
  BY StoreDataEdge DEF StoreDataMoved
<1>2. \A s \in Leaving(in) : s \in Slot
  BY LeavingForm
<1> QED
  BY <1>1, <1>2

LEMMA DataBackTo ==
  ASSUME DispatchTypeOK, LiveInv, CapacityInv, CapableInv, NEW in, Accepted(in), Edge(in),
         NEW tag, NEW p, NEW k, NEW x, DataSits(tag, p, k, x)'
  PROVE  DataCameFrom(in, tag, p, k, x) \/ (tag = "queue" /\ p = 0 /\ NewDataInQueue(in, k, x))
<1>1. CASE tag = "queue" /\ p = 0 /\ k \in DOMAIN dispatchQueue' /\ IsStore(dispatchQueue'[k])
           /\ x = dispatchQueue'[k].robPointer
  <2> DEFINE u == dispatchQueue'[k]
  <2>1. CameFrom(in, "queue", 0, k, u) \/ NewInQueue(in, k, u)
    BY <1>1, BackToQueue DEF NewInQueue
  <2>2. u.robPointer = x /\ IsStore(u)
    BY <1>1
  <2> HIDE DEF u
  <2>3. CASE CameFrom(in, "queue", 0, k, u)
    BY <1>1, <2>2, <2>3, DataBackToWaiting
  <2>4. CASE NewInQueue(in, k, u)
    <3>1. NewDataInQueue(in, k, x)
      BY <2>2, <2>4 DEF NewInQueue, NewDataInQueue
    <3> QED
      BY <1>1, <3>1
  <2> QED
    BY <2>1, <2>3, <2>4
<1>2. CASE tag = "window" /\ p = 0 /\ k \in DOMAIN window' /\ IsStore(window'[k])
           /\ x = window'[k].robPointer
  <2> DEFINE u == window'[k]
  <2>1. CameFrom(in, "window", 0, k, u)
    BY <1>2, BackToWindow
  <2>2. u.robPointer = x /\ IsStore(u)
    BY <1>2
  <2> HIDE DEF u
  <2> QED
    BY <1>2, <2>1, <2>2, DataBackToWaiting
<1>3. ASSUME tag = "slot", p \in Slot, k = 0, NEW d \in slots'[p], x = d.robPointer
      PROVE  DataCameFrom(in, tag, p, k, x)
  <2>1. CASE \E j \in DOMAIN Routed :
               /\ Routed[j] = LoadStorePort /\ j \in DOMAIN window /\ IsStore(window[j])
               /\ p = FreeSlot /\ EntersStoreData # {}
               /\ d.robPointer = window[j].robPointer
    <3>1. PICK j \in DOMAIN Routed : /\ j \in DOMAIN window /\ IsStore(window[j])
               /\ p = FreeSlot /\ d.robPointer = window[j].robPointer
      BY <2>1
    <3>2. DataSits("window", 0, j, x)
      BY <1>3, <3>1, DataSitsAt
    <3>3. DataGoes(in, "window", 0, j) = <<tag, p, k>>
      BY <1>3, <3>1, DataGoesAt
    <3> QED
      BY <3>2, <3>3, DataCameFromWitness
  <2>2. CASE p \notin Leaving(in) /\ \E f \in slots[p] : d.robPointer = f.robPointer
    <3>1. DataSits("slot", p, 0, x)
      BY <1>3, <2>2, DataSitsAt
    <3>2. DataGoes(in, "slot", p, 0) = <<tag, p, k>>
      BY <1>3, <2>2, DataGoesAt
    <3> QED
      BY <3>1, <3>2, DataCameFromWitness
  <2> QED
    BY <1>3, <2>1, <2>2, DataBackToSlot
<1>4. ASSUME tag = "output", p = 0, k = 0, NEW d \in dataOutput', x = d.robPointer
      PROVE  DataCameFrom(in, tag, p, k, x)
  <2>1. CASE d \in dataOutput /\ ~in.dataReady
    <3>1. DataSits("output", 0, 0, x)
      BY <1>4, <2>1, DataSitsAt
    <3>2. DataGoes(in, "output", 0, 0) = <<tag, p, k>>
      BY <1>4, <2>1, DataGoesAt
    <3> QED
      BY <3>1, <3>2, DataCameFromWitness
  <2>2. ASSUME NEW s \in Leaving(in), s \in Slot, d \in slots[s]
        PROVE  DataCameFrom(in, tag, p, k, x)
    <3>1. DataSits("slot", s, 0, x)
      BY <1>4, <2>2, DataSitsAt
    <3>2. DataGoes(in, "slot", s, 0) = <<tag, p, k>>
      BY <1>4, <2>2, DataGoesAt
    <3> QED
      BY <3>1, <3>2, DataCameFromWitness
  <2> QED
    BY <1>4, <2>1, <2>2, DataBackToOutput
<1>5. CASE tag = "sent" /\ p = 0 /\ k = 0 /\ x \in dataSent'
  <2>1. dataSent' = (dataSent \ Finished(in))
                    \cup {d.robPointer : d \in IF in.dataReady THEN dataOutput ELSE {}}
    BY ExecuteEdge DEF Finished
  <2>2. CASE x \in dataSent \ Finished(in)
    <3>1. DataSits("sent", 0, 0, x) /\ x \notin Finished(in)
      BY <2>2, DataSitsAt
    <3>2. DataGoes(in, "sent", 0, 0) = <<tag, p, k>>
      BY <1>5, DataGoesAt
    <3> QED
      BY <3>1, <3>2, DataCameFromWitness
  <2>3. CASE x \in {d.robPointer : d \in IF in.dataReady THEN dataOutput ELSE {}}
    <3>1. in.dataReady /\ \E d \in dataOutput : x = d.robPointer
      BY <2>3
    <3>2. DataSits("output", 0, 0, x)
      BY <3>1, DataSitsAt
    <3>3. DataGoes(in, "output", 0, 0) = <<tag, p, k>>
      BY <1>5, <3>1, DataGoesAt
    <3> QED
      BY <3>2, <3>3, DataCameFromWitness
  <2> QED
    BY <1>5, <2>1, <2>2, <2>3
<1>6. \/ /\ tag = "queue" /\ p = 0 /\ k \in DOMAIN dispatchQueue'
         /\ IsStore(dispatchQueue'[k]) /\ x = dispatchQueue'[k].robPointer
      \/ /\ tag = "window" /\ p = 0 /\ k \in DOMAIN window'
         /\ IsStore(window'[k]) /\ x = window'[k].robPointer
      \/ tag = "slot" /\ p \in Slot /\ k = 0 /\ \E d \in slots'[p] : x = d.robPointer
      \/ tag = "output" /\ p = 0 /\ k = 0 /\ \E d \in dataOutput' : x = d.robPointer
      \/ tag = "sent" /\ p = 0 /\ k = 0 /\ x \in dataSent'
  BY DEF DataSits, IsStore, Slot
<1> QED
  BY <1>1, <1>2, <1>3, <1>4, <1>5, <1>6

(* No store's data is dropped.                                                *)
LEMMA DataSitsNext ==
  ASSUME NEW p, NEW k, NEW x
  PROVE  /\ (p = 0 /\ k \in DOMAIN dispatchQueue' /\ IsStore(dispatchQueue'[k])
               /\ x = dispatchQueue'[k].robPointer) => DataSits("queue", p, k, x)'
         /\ (p = 0 /\ k \in DOMAIN window' /\ IsStore(window'[k])
               /\ x = window'[k].robPointer) => DataSits("window", p, k, x)'
         /\ (p \in Slot /\ \E d \in slots'[p] : x = d.robPointer) => DataSits("slot", p, 0, x)'
         /\ (\E d \in dataOutput' : x = d.robPointer) => DataSits("output", 0, 0, x)'
         /\ x \in dataSent' => DataSits("sent", 0, 0, x)'
BY DEF DataSits, IsStore, Slot

LEMMA WaitingDataNext ==
  ASSUME NEW tag \in {"queue", "window"}, NEW p, NEW k, NEW u, IsStore(u), Sits(tag, p, k, u)'
  PROVE  DataSits(tag, p, k, u.robPointer)'
<1>1. \/ tag = "queue" /\ p = 0 /\ k \in DOMAIN dispatchQueue' /\ u = dispatchQueue'[k]
      \/ tag = "window" /\ p = 0 /\ k \in DOMAIN window' /\ u = window'[k]
  BY DEF Sits
<1> QED
  BY <1>1, DataSitsNext

LEMMA DataForthFromWaiting ==
  ASSUME DispatchTypeOK, LiveInv, CapacityInv, CapableInv, PlacesInv,
         NEW in, Accepted(in), Edge(in), NEW u, IsStore(u), NEW t \in {"queue", "window"}, NEW j,
         Sits(t, 0, j, u), t = "window" => j \notin DOMAIN Routed
  PROVE  \E tag, p, k : DataSits(tag, p, k, u.robPointer)'
<1>1. PICK tag, p, k : Sits(tag, p, k, u)' /\ Goes(in, t, 0, j, u) = <<tag, p, k>>
  BY GoesThere
<1>2. tag \in {"queue", "window"}
  <2>1. CASE t = "queue"
    BY <1>1, <2>1, GoesAt DEF FromQueue
  <2>2. CASE t = "window"
    BY <1>1, <2>2, GoesAt DEF FromWindow
  <2> QED
    BY <2>1, <2>2
<1> QED
  BY <1>1, <1>2, WaitingDataNext

LEMMA DataForthToSlot ==
  ASSUME DispatchTypeOK, CapacityInv, NEW in, Accepted(in), Edge(in),
         NEW j \in DOMAIN Routed, NEW u, u = window[j], IsStore(u), NEW s, s = FreeSlot
  PROVE  DataSits("slot", s, 0, u.robPointer)'
<1>1. j \in DOMAIN window /\ window[j] \in Uops /\ Routed[j] = LoadStorePort
  <2>1. /\ j \in DOMAIN window /\ window[j] \in Uops
        /\ Routed[j] \in Ports /\ window[j].kind \in Capabilities[Routed[j]]
    BY RoutedForm DEF DispatchTypeOK
  <2> QED
    BY <2>1, KindsAtPorts
<1>2. EntryOf(window[j]) \in EntersStoreData
  BY <1>1, EntersStoreDataForm
<1>3. FreeSlot \in Slot
  BY <1>2, FreeSlotForm
<1>4. slots'[FreeSlot] = {NewSlot(e, RegisteredTags) : e \in EntersStoreData}
  BY <1>2, <1>3, StoreDataEdge DEF StoreDataMoved
<1>5. NewSlot(EntryOf(window[j]), RegisteredTags).robPointer = window[j].robPointer
  BY <1>1, EntryOfForm DEF NewSlot
<1>6. \E d \in slots'[s] : u.robPointer = d.robPointer
  BY <1>2, <1>4, <1>5
<1> QED
  BY <1>3, <1>6, DataSitsNext

LEMMA DataForthFromSlot ==
  ASSUME DispatchTypeOK, CapacityInv, NEW in, Accepted(in), Edge(in),
         NEW s \in Slot, NEW d \in slots[s]
  PROVE  \E tag, p, k : DataSits(tag, p, k, d.robPointer)'
<1>1. StoreDataMoved(in, FreeSlot, Leaving(in))
  BY StoreDataEdge
<1>2. CASE s \in Leaving(in)
  <2>1. dataOutput' = UNION {slots[r] : r \in Leaving(in)}
    BY <1>1, <1>2, LeavingForm DEF StoreDataMoved
  <2>2. d \in dataOutput'
    BY <1>2, <2>1
  <2>3. DataSits("output", 0, 0, d.robPointer)'
    BY <2>2, DataSitsNext
  <2> QED
    BY <2>3
<1>3. CASE s \notin Leaving(in)
  <2> DEFINE e == [d EXCEPT !.ready = @ \/ (d.psrc # 0 /\ d.psrc \in RegisteredTags)]
  <2>1. ~(EntersStoreData # {} /\ s = FreeSlot)
    BY FreeSlotForm
  <2>2. e \in slots'[s]
    BY <1>1, <1>3, <2>1 DEF StoreDataMoved
  <2>3. d \in StoreData
    BY DEF DispatchTypeOK
  <2>4. e.robPointer = d.robPointer
    BY <2>3 DEF StoreData
  <2> HIDE DEF e
  <2>5. DataSits("slot", s, 0, d.robPointer)'
    BY <2>2, <2>4, DataSitsNext
  <2> QED
    BY <2>5
<1> QED
  BY <1>2, <1>3

(* A store that memory completes is staged.                                    *)
LEMMA MemoryStages ==
  ASSUME NEW in, Accepted(in), Edge(in), NEW u \in in.memory
  PROVE  u.robPointer \in StagedPointers'
<1>1. /\ LoadStorePort \in Lanes /\ LoadStorePort # MultiplyLane
      /\ LoadStorePort # DividePort /\ LoadStorePort # CsrPort
  BY Places
<1>2. Completing(in, LoadStorePort) = in.memory
  BY <1>1 DEF Completing
<1>3. u \in staged'[LoadStorePort]
  BY <1>1, <1>2, ExecuteEdge
<1>4. StagedPointers' = {v.robPointer : v \in UNION {staged'[l] : l \in Lanes}}
  BY DEF StagedPointers, Lanes, MultiplyLane
<1> QED
  BY <1>1, <1>3, <1>4

LEMMA DataForthTo ==
  ASSUME DispatchTypeOK, LiveInv, CapacityInv, CapableInv, PlacesInv,
         NEW in, Accepted(in), Edge(in), NEW u, DataStore(u), u.robPointer \notin StagedPointers',
         NEW t, NEW q, NEW j, DataSits(t, q, j, u.robPointer)
  PROVE  \E tag, p, k : DataSits(tag, p, k, u.robPointer)'
<1>1. ASSUME NEW tag \in {"queue", "window"}, NEW v, Sits(tag, 0, j, v), v.robPointer = u.robPointer
      PROVE  v = u
  <2>1. IsLive(v) /\ IsLive(u)
    BY <1>1 DEF PlacesInv, SitAliveInv, DataStore
  <2> QED
    BY <1>1, <2>1, LiveOne
<1>2. CASE t = "queue"
  <2>1. j \in DOMAIN dispatchQueue /\ u.robPointer = dispatchQueue[j].robPointer
    BY <1>2, DataSitsAt
  <2>2. Sits("queue", 0, j, dispatchQueue[j])
    BY <2>1, SitsAt
  <2>3. Sits("queue", 0, j, u)
    BY <1>1, <2>1, <2>2
  <2> QED
    BY <2>3, DataForthFromWaiting DEF DataStore
<1>3. CASE t = "window"
  <2>1. j \in DOMAIN window /\ u.robPointer = window[j].robPointer
    BY <1>3, DataSitsAt
  <2>2. Sits("window", 0, j, window[j])
    BY <2>1, SitsAt
  <2>3. window[j] = u
    BY <1>1, <2>1, <2>2
  <2>4. CASE j \notin DOMAIN Routed
    BY <2>2, <2>3, <2>4, DataForthFromWaiting DEF DataStore
  <2>5. CASE j \in DOMAIN Routed
    <3>1. \A s : s = FreeSlot => DataSits("slot", s, 0, u.robPointer)'
      BY <2>3, <2>5, DataForthToSlot DEF DataStore
    <3> QED
      BY <3>1
  <2> QED
    BY <2>4, <2>5
<1>4. CASE t = "slot"
  <2>1. PICK d \in slots[q] : q \in Slot /\ u.robPointer = d.robPointer
    BY <1>4, DataSitsAt
  <2> QED
    BY <2>1, DataForthFromSlot
<1>5. CASE t = "output"
  <2>1. PICK d \in dataOutput : u.robPointer = d.robPointer
    BY <1>5, DataSitsAt
  <2>2. CASE in.dataReady
    <3>1. d.robPointer \in dataSent'
      BY <2>2, ExecuteEdge
    <3>2. DataSits("sent", 0, 0, u.robPointer)'
      BY <2>1, <3>1, DataSitsNext
    <3> QED
      BY <3>2
  <2>3. CASE ~in.dataReady
    <3>1. dataOutput' = dataOutput
      BY <2>3, StoreDataEdge DEF StoreDataMoved
    <3>2. DataSits("output", 0, 0, u.robPointer)'
      BY <2>1, <3>1, DataSitsNext
    <3> QED
      BY <3>2
  <2> QED
    BY <2>2, <2>3
<1>6. CASE t = "sent"
  <2>1. u.robPointer \in dataSent
    BY <1>6, DataSitsAt
  <2>2. u.robPointer \notin {v.robPointer : v \in in.memory}
    BY MemoryStages
  <2>3. u.robPointer \in dataSent'
    BY <2>1, <2>2, ExecuteEdge
  <2>4. DataSits("sent", 0, 0, u.robPointer)'
    BY <2>3, DataSitsNext
  <2> QED
    BY <2>4
<1> QED
  BY <1>2, <1>3, <1>4, <1>5, <1>6 DEF DataSits

LEMMA DataEdge ==
  ASSUME DispatchTypeOK, LiveInv, CapacityInv, CapableInv, PlacesInv, UnitInv, DataInv,
         NEW in, Accepted(in), Edge(in)
  PROVE  DataInv'
<1>1. ASSUME NEW u, DataStore(u), u.robPointer \notin StagedPointers'
      PROVE  DataStore(u)'
  <2>1. PICK t, q, j : t # "staged" /\ Sits(t, q, j, u)
    BY <1>1, DataStoreSits
  <2>2. IsLive(u)' /\ u.robPointer \notin done'
    BY <2>1, StaysAlive
  <2> QED
    BY <1>1, <2>2 DEF DataStore, IsStore
<1>2. ASSUME NEW t, NEW q, NEW j, NEW u, DataSits(t, q, j, u.robPointer), DataStore(u),
             t = "sent" => u.robPointer \notin Finished(in)
      PROVE  u.robPointer \notin StagedPointers'
  <2> SUFFICES ASSUME u.robPointer \in StagedPointers' PROVE FALSE
    OBVIOUS
  <2>1. u \in in.memory
    BY <1>2, StoreStages
  <2>2. u.robPointer \in dataSent /\ u.robPointer \in Finished(in)
    BY <1>2, <2>1 DEF Accepted, MemoryCompletes, DataStore, Finished
  <2>3. DataSits("sent", 0, 0, u.robPointer)
    BY <2>2, DataSitsAt
  <2>4. t = "sent"
    BY <1>2, <2>3 DEF DataInv, DataOnceInv
  <2> QED
    BY <1>2, <2>2, <2>4
<1>3. ASSUME NEW i \in DOMAIN NewUops(in.group), NEW u, u = NewUops(in.group)[i], IsStore(u)
      PROVE  DataStore(u)'
  <2>1. IsLive(u)' /\ u.robPointer \notin done' /\ ~IsLive(u)
    BY <1>3, NewAlive
  <2>2. u.robPointer \notin StagedPointers'
    <3> SUFFICES ASSUME u.robPointer \in StagedPointers' PROVE FALSE
      OBVIOUS
    <3>1. PICK l \in Lanes : \E v \in staged'[l] : v.robPointer = u.robPointer
      BY DEF StagedPointers, Lanes, MultiplyLane
    <3>2. PICK v \in staged'[l] : v.robPointer = u.robPointer
      BY <3>1
    <3>3. CameFrom(in, "staged", l, 0, v)
      BY BackToStaged
    <3>4. IsLive(v)
      BY <3>3 DEF CameFrom, PlacesInv, SitAliveInv
    <3> QED
      BY <1>3, <3>2, <3>4, NewPointers DEF IsLive
  <2> QED
    BY <1>3, <2>1, <2>2 DEF DataStore, IsStore
<1>4. ASSUME NEW tag, NEW p, NEW k, NEW x, DataCameFrom(in, tag, p, k, x)
      PROVE  \E u : DataStore(u) /\ DataStore(u)' /\ u.robPointer = x
  <2>1. PICK t, q, j : DataSits(t, q, j, x) /\ (t = "sent" => x \notin Finished(in))
    BY <1>4 DEF DataCameFrom
  <2>2. PICK u : DataStore(u) /\ u.robPointer = x
    BY <2>1 DEF DataInv, DataAliveInv
  <2> QED
    BY <1>1, <1>2, <2>1, <2>2
<1>5. DataAliveInv'
  <2>1. ASSUME NEW tag, NEW p, NEW k, NEW x, DataSits(tag, p, k, x)'
        PROVE  \E u : DataStore(u)' /\ u.robPointer = x
    <3>1. CASE DataCameFrom(in, tag, p, k, x)
      BY <1>4, <3>1
    <3>2. CASE NewDataInQueue(in, k, x)
      BY <1>3, <3>2 DEF NewDataInQueue
    <3> QED
      BY <2>1, <3>1, <3>2, DataBackTo
  <2> QED
    BY <2>1 DEF DataAliveInv
<1>6. ASSUME NEW tag, NEW p, NEW k, NEW t, NEW q, NEW j, NEW x,
             DataSits(tag, p, k, x)', DataSits(t, q, j, x)'
      PROVE  tag = t /\ p = q /\ k = j
  <2>1. DataCameFrom(in, tag, p, k, x) \/ (tag = "queue" /\ p = 0 /\ NewDataInQueue(in, k, x))
    BY <1>6, DataBackTo
  <2>2. DataCameFrom(in, t, q, j, x) \/ (t = "queue" /\ q = 0 /\ NewDataInQueue(in, j, x))
    BY <1>6, DataBackTo
  <2>3. ASSUME NEW a, NEW b, NEW c, NEW d, DataCameFrom(in, a, b, c, x), NewDataInQueue(in, d, x)
        PROVE  FALSE
    <3>1. PICK u : IsLive(u) /\ u.robPointer = x
      BY <1>4, <2>3 DEF DataStore
    <3>2. PICK i \in DOMAIN NewUops(in.group) : x = NewUops(in.group)[i].robPointer
      BY <2>3 DEF NewDataInQueue
    <3> QED
      BY <3>1, <3>2, NewPointers DEF IsLive
  <2>4. CASE DataCameFrom(in, tag, p, k, x) /\ DataCameFrom(in, t, q, j, x)
    <3>1. PICK t1, q1, j1 : DataSits(t1, q1, j1, x) /\ DataGoes(in, t1, q1, j1) = <<tag, p, k>>
      BY <2>4 DEF DataCameFrom
    <3>2. PICK t2, q2, j2 : DataSits(t2, q2, j2, x) /\ DataGoes(in, t2, q2, j2) = <<t, q, j>>
      BY <2>4 DEF DataCameFrom
    <3>3. t1 = t2 /\ q1 = q2 /\ j1 = j2
      BY <3>1, <3>2 DEF DataInv, DataOnceInv
    <3> QED
      BY <3>1, <3>2, <3>3
  <2>5. CASE /\ tag = "queue" /\ p = 0 /\ NewDataInQueue(in, k, x)
             /\ t = "queue" /\ q = 0 /\ NewDataInQueue(in, j, x)
    <3>1. PICK a \in DOMAIN NewUops(in.group) :
            x = NewUops(in.group)[a].robPointer /\ k = Len(dispatchQueue) - Refill(Len(Routed)) + a
      BY <2>5 DEF NewDataInQueue
    <3>2. PICK b \in DOMAIN NewUops(in.group) :
            x = NewUops(in.group)[b].robPointer /\ j = Len(dispatchQueue) - Refill(Len(Routed)) + b
      BY <2>5 DEF NewDataInQueue
    <3>3. a = b
      BY <3>1, <3>2, NewPointers
    <3> QED
      BY <2>5, <3>1, <3>2, <3>3
  <2> QED
    BY <2>1, <2>2, <2>3, <2>4, <2>5
<1>7. DataOnceInv'
  BY <1>6 DEF DataOnceInv
<1>8. DataAllInv'
  <2>1. ASSUME NEW u, DataStore(u)' PROVE \E tag, p, k : DataSits(tag, p, k, u.robPointer)'
    <3>1. /\ IsLive(u)' /\ IsStore(u) /\ u.robPointer \notin done'
          /\ u.robPointer \notin StagedPointers'
      BY <2>1 DEF DataStore, IsStore
    <3>2. CASE IsLive(u) /\ u.robPointer \notin done /\ u.robPointer \notin StagedPointers
      <4>1. DataStore(u)
        BY <3>1, <3>2 DEF DataStore
      <4>2. PICK t, q, j : DataSits(t, q, j, u.robPointer)
        BY <4>1 DEF DataInv, DataAllInv
      <4> QED
        BY <3>1, <4>1, <4>2, DataForthTo
    <3>3. ASSUME NEW i \in DOMAIN NewUops(in.group), u = NewUops(in.group)[i]
          PROVE  \E tag, p, k : DataSits(tag, p, k, u.robPointer)'
      <4>1. Somewhere(u)' /\ ~IsLive(u)
        BY <3>3, NewAlive
      <4>2. PICK tag, p, k : Sits(tag, p, k, u)'
        BY <4>1 DEF Somewhere
      <4>3. ~CameFrom(in, tag, p, k, u)
        BY <4>1 DEF CameFrom, PlacesInv, SitAliveInv
      <4>4. tag = "queue"
        BY <4>2, <4>3, BackTo
      <4>5. DataSits(tag, p, k, u.robPointer)'
        BY <3>1, <4>2, <4>4, WaitingDataNext
      <4> QED
        BY <4>5
    <3> QED
      BY <3>1, <3>2, <3>3, WasUnfinished
  <2> QED
    BY <2>1 DEF DataAllInv
<1>9. ASSUME NEW d, NEW f, d.robPointer = f.robPointer, d.psrc = f.psrc, DataOf(f),
             NEW tag, NEW p, NEW k, DataSits(tag, p, k, d.robPointer)'
      PROVE  DataOf(d)'
  <2>1. PICK u : DataStore(u) /\ u.robPointer = f.robPointer /\ u.psrc2 = f.psrc
    BY <1>9 DEF DataOf
  <2>2. ~NewDataInQueue(in, k, d.robPointer)
    <3> SUFFICES ASSUME NewDataInQueue(in, k, d.robPointer) PROVE FALSE
      OBVIOUS
    <3>1. PICK i \in DOMAIN NewUops(in.group) : d.robPointer = NewUops(in.group)[i].robPointer
      BY DEF NewDataInQueue
    <3>2. PICK a \in DOMAIN live : u = live[a]
      BY <2>1 DEF DataStore, IsLive
    <3>3. NewUops(in.group)[i].robPointer # live[a].robPointer
      BY NewPointers
    <3> QED
      BY <1>9, <2>1, <3>1, <3>2, <3>3
  <2>3. DataCameFrom(in, tag, p, k, d.robPointer)
    BY <1>9, <2>2, DataBackTo
  <2>4. PICK v : DataStore(v) /\ DataStore(v)' /\ v.robPointer = d.robPointer
    BY <1>4, <2>3
  <2>5. u = v
    BY <1>9, <2>1, <2>4, LiveOne DEF DataStore
  <2>6. DataStore(u)' /\ u.robPointer = d.robPointer /\ u.psrc2 = d.psrc
    BY <1>9, <2>1, <2>4, <2>5
  <2> QED
    BY <2>6 DEF DataOf
<1>10. ASSUME NEW s \in Slot, NEW d \in slots'[s] PROVE DataOf(d)'
  <2>0. DataSits("slot", s, 0, d.robPointer)'
    BY DataSitsNext
  <2>1. CASE \E j \in DOMAIN Routed : /\ j \in DOMAIN window /\ IsStore(window[j])
               /\ d.robPointer = window[j].robPointer /\ d.psrc = window[j].psrc2
    <3>1. PICK j \in DOMAIN Routed : /\ j \in DOMAIN window /\ IsStore(window[j])
               /\ d.robPointer = window[j].robPointer /\ d.psrc = window[j].psrc2
      BY <2>1
    <3>2. ASSUME NEW u, u = window[j] PROVE DataOf(d)'
      <4>1. Sits("window", 0, j, u)
        BY <3>1, <3>2, SitsAt
      <4>2. IsLive(u)' /\ u.robPointer \notin done'
        BY <4>1, StaysAlive
      <4>3. PICK v : DataStore(v)' /\ v.robPointer = d.robPointer
        BY <1>5, <2>0 DEF DataAliveInv
      <4>4. IsStore(u) /\ u.robPointer = d.robPointer /\ u.psrc2 = d.psrc
        BY <3>1, <3>2
      <4>5. u.robPointer \notin StagedPointers'
        BY <4>3, <4>4 DEF DataStore
      <4>6. DataStore(u)'
        BY <4>2, <4>4, <4>5 DEF DataStore, IsStore
      <4> QED
        BY <4>4, <4>6 DEF DataOf
    <3> QED
      BY <3>2
  <2>2. CASE \E f \in slots[s] : d.robPointer = f.robPointer /\ d.psrc = f.psrc
    BY <1>9, <2>0, <2>2 DEF DataInv, DataSourceInv
  <2> QED
    BY <2>1, <2>2, DataBackToSlot
<1>11. ASSUME NEW d \in dataOutput' PROVE DataOf(d)'
  <2>0. DataSits("output", 0, 0, d.robPointer)'
    BY DataSitsNext
  <2>1. DataOf(d)
    BY DataBackToOutput DEF DataInv, DataSourceInv
  <2> QED
    BY <1>9, <2>0, <2>1
<1>12. DataSourceInv'
  BY <1>10, <1>11 DEF DataSourceInv, Slot
<1> QED
  BY <1>5, <1>7, <1>8, <1>12 DEF DataInv

LEMMA DataWhereaboutsForm ==
  ASSUME DispatchTypeOK, LiveInv, PlacesInv, NEW x
  PROVE  x \in DataWhereabouts <=>
           \E tag, p, k, y : DataSits(tag, p, k, y) /\ x = <<<<tag, p>>, k, y>>
<1>0. x \in DataWhereabouts <=>
        \/ x \in BeforeIssueQueues /\ \E u \in Range(live) : u.robPointer = x[3] /\ IsStore(u)
        \/ \E s \in Slot : x \in At(<<"slot", s>>, slots[s])
        \/ x \in At(<<"output", 0>>, dataOutput)
        \/ \E y \in dataSent : x = <<<<"sent", 0>>, 0, y>>
  BY DEF DataWhereabouts
<1>1. ASSUME NEW tag \in {"queue", "window"}, NEW k, NEW v, Sits(tag, 0, k, v),
             NEW u \in Range(live), u.robPointer = v.robPointer
      PROVE  u = v
  <2>1. IsLive(u) /\ IsLive(v)
    BY <1>1, LiveFinite DEF PlacesInv, SitAliveInv
  <2> QED
    BY <1>1, <2>1, LiveOne
<1>2. ASSUME x \in DataWhereabouts
      PROVE  \E tag, p, k, y : DataSits(tag, p, k, y) /\ x = <<<<tag, p>>, k, y>>
  <2>1. ASSUME x \in In(<<"queue", 0>>, dispatchQueue), NEW u \in Range(live),
               u.robPointer = x[3], IsStore(u)
        PROVE  \E tag, p, k, y : DataSits(tag, p, k, y) /\ x = <<<<tag, p>>, k, y>>
    <3>1. PICK k \in DOMAIN dispatchQueue : x = <<<<"queue", 0>>, k, dispatchQueue[k].robPointer>>
      BY <2>1, InAt
    <3>2. Sits("queue", 0, k, dispatchQueue[k])
      BY <3>1, SitsAt
    <3>3. u = dispatchQueue[k]
      BY <1>1, <2>1, <3>1, <3>2
    <3>4. DataSits("queue", 0, k, dispatchQueue[k].robPointer)
      BY <2>1, <3>3, DataSitsAt
    <3> QED
      BY <3>1, <3>4
  <2>2. ASSUME x \in In(<<"window", 0>>, window), NEW u \in Range(live),
               u.robPointer = x[3], IsStore(u)
        PROVE  \E tag, p, k, y : DataSits(tag, p, k, y) /\ x = <<<<tag, p>>, k, y>>
    <3>1. PICK k \in DOMAIN window : x = <<<<"window", 0>>, k, window[k].robPointer>>
      BY <2>2, InAt
    <3>2. Sits("window", 0, k, window[k])
      BY <3>1, SitsAt
    <3>3. u = window[k]
      BY <1>1, <2>2, <3>1, <3>2
    <3>4. DataSits("window", 0, k, window[k].robPointer)
      BY <2>2, <3>3, DataSitsAt
    <3> QED
      BY <3>1, <3>4
  <2>3. ASSUME NEW s \in Slot, x \in At(<<"slot", s>>, slots[s])
        PROVE  \E tag, p, k, y : DataSits(tag, p, k, y) /\ x = <<<<tag, p>>, k, y>>
    <3>1. PICK d \in slots[s] : x = <<<<"slot", s>>, 0, d.robPointer>>
      BY <2>3 DEF At
    <3>2. DataSits("slot", s, 0, d.robPointer)
      BY DataSitsAt
    <3> QED
      BY <3>1, <3>2
  <2>4. ASSUME x \in At(<<"output", 0>>, dataOutput)
        PROVE  \E tag, p, k, y : DataSits(tag, p, k, y) /\ x = <<<<tag, p>>, k, y>>
    <3>1. PICK d \in dataOutput : x = <<<<"output", 0>>, 0, d.robPointer>>
      BY <2>4 DEF At
    <3>2. DataSits("output", 0, 0, d.robPointer)
      BY DataSitsAt
    <3> QED
      BY <3>1, <3>2
  <2>5. ASSUME NEW y \in dataSent, x = <<<<"sent", 0>>, 0, y>>
        PROVE  \E tag, p, k, z : DataSits(tag, p, k, z) /\ x = <<<<tag, p>>, k, z>>
    <3>1. DataSits("sent", 0, 0, y)
      BY DataSitsAt
    <3> QED
      BY <2>5, <3>1
  <2> QED
    BY <1>0, <1>2, <2>1, <2>2, <2>3, <2>4, <2>5 DEF BeforeIssueQueues
<1>3. ASSUME NEW tag, NEW p, NEW k, NEW y, DataSits(tag, p, k, y), x = <<<<tag, p>>, k, y>>
      PROVE  x \in DataWhereabouts
  <2>0. x[3] = y
    BY <1>3
  <2>1. CASE tag = "queue"
    <3>1. /\ p = 0 /\ k \in DOMAIN dispatchQueue /\ IsStore(dispatchQueue[k])
          /\ y = dispatchQueue[k].robPointer
      BY <1>3, <2>1, DataSitsAt
    <3>2. x \in BeforeIssueQueues
      BY <1>3, <2>1, <3>1, InAt DEF BeforeIssueQueues
    <3>3. Sits("queue", 0, k, dispatchQueue[k])
      BY <3>1, SitsAt
    <3>4. dispatchQueue[k] \in Range(live)
      BY <3>3, LiveFinite DEF PlacesInv, SitAliveInv
    <3> QED
      BY <1>0, <2>0, <3>1, <3>2, <3>4
  <2>2. CASE tag = "window"
    <3>1. /\ p = 0 /\ k \in DOMAIN window /\ IsStore(window[k])
          /\ y = window[k].robPointer
      BY <1>3, <2>2, DataSitsAt
    <3>2. x \in BeforeIssueQueues
      BY <1>3, <2>2, <3>1, InAt DEF BeforeIssueQueues
    <3>3. Sits("window", 0, k, window[k])
      BY <3>1, SitsAt
    <3>4. window[k] \in Range(live)
      BY <3>3, LiveFinite DEF PlacesInv, SitAliveInv
    <3> QED
      BY <1>0, <2>0, <3>1, <3>2, <3>4
  <2>3. CASE tag = "slot"
    <3>1. p \in Slot /\ k = 0 /\ \E d \in slots[p] : y = d.robPointer
      BY <1>3, <2>3, DataSitsAt
    <3>2. x \in At(<<"slot", p>>, slots[p])
      BY <1>3, <2>3, <3>1 DEF At
    <3> QED
      BY <1>0, <3>1, <3>2
  <2>4. CASE tag = "output"
    <3>1. p = 0 /\ k = 0 /\ \E d \in dataOutput : y = d.robPointer
      BY <1>3, <2>4, DataSitsAt
    <3>2. x \in At(<<"output", 0>>, dataOutput)
      BY <1>3, <2>4, <3>1 DEF At
    <3> QED
      BY <1>0, <3>2
  <2>5. CASE tag = "sent"
    <3>1. p = 0 /\ k = 0 /\ y \in dataSent
      BY <1>3, <2>5, DataSitsAt
    <3> QED
      BY <1>0, <1>3, <2>5, <3>1
  <2> QED
    BY <1>3, <2>1, <2>2, <2>3, <2>4, <2>5 DEF DataSits
<1> QED
  BY <1>2, <1>3

LEMMA DataCounted ==
  ASSUME DispatchTypeOK, LiveInv, PlacesInv, DataInv
  PROVE  StoreDataFollowsStore
<1> DEFINE stores == {u \in Unfinished : IsStore(u) /\ u.robPointer \notin StagedPointers}
<1>1. IsFiniteSet(stores) /\ \A u : u \in stores <=> DataStore(u)
  BY LiveFinite, FS_Subset DEF Unfinished, DataStore
<1> HIDE DEF stores
<1>2. \A x \in DataWhereabouts : \E u \in stores : u.robPointer = x[3]
  <2> SUFFICES ASSUME NEW x \in DataWhereabouts PROVE \E u \in stores : u.robPointer = x[3]
    OBVIOUS
  <2>1. PICK tag, p, k, y : DataSits(tag, p, k, y) /\ x = <<<<tag, p>>, k, y>>
    BY DataWhereaboutsForm
  <2> QED
    BY <1>1, <2>1 DEF DataInv, DataAliveInv
<1>3. \A u \in stores : \E x \in DataWhereabouts : u.robPointer = x[3]
  <2> SUFFICES ASSUME NEW u \in stores PROVE \E x \in DataWhereabouts : u.robPointer = x[3]
    OBVIOUS
  <2>1. PICK tag, p, k : DataSits(tag, p, k, u.robPointer)
    BY <1>1 DEF DataInv, DataAllInv
  <2>2. <<<<tag, p>>, k, u.robPointer>> \in DataWhereabouts
    BY <2>1, DataWhereaboutsForm
  <2> QED
    BY <2>2
<1>4. ASSUME NEW x \in DataWhereabouts, NEW y \in DataWhereabouts, x[3] = y[3] PROVE x = y
  <2>1. PICK tag, p, k, z : DataSits(tag, p, k, z) /\ x = <<<<tag, p>>, k, z>>
    BY DataWhereaboutsForm
  <2>2. PICK t, q, j, w : DataSits(t, q, j, w) /\ y = <<<<t, q>>, j, w>>
    BY DataWhereaboutsForm
  <2>3. z = w
    BY <1>4, <2>1, <2>2
  <2>4. tag = t /\ p = q /\ k = j
    BY <2>1, <2>2, <2>3 DEF DataInv, DataOnceInv
  <2> QED
    BY <2>1, <2>2, <2>3, <2>4
<1>5. \A u, v \in stores : u.robPointer = v.robPointer => u = v
  BY <1>1, LiveOne DEF DataStore
<1>6. /\ {x[3] : x \in DataWhereabouts} = {u.robPointer : u \in stores}
      /\ Cardinality(DataWhereabouts) = Cardinality(stores)
  BY <1>1, <1>2, <1>3, <1>4, <1>5, CountByPointer
<1> QED
  BY <1>6 DEF StoreDataFollowsStore, stores

(***************************************************************************)
(* Operands.                                                                 *)
(***************************************************************************)
NewTags(in) == Tags({NewUops(in.group)[k] : k \in DOMAIN NewUops(in.group)})

(* No uop of the reorder buffer reads a register that is renamed after it: that    *)
(* pointer is free, and those of its sources were not when it entered.            *)
LEMMA SourceNotNew ==
  ASSUME DispatchTypeOK, LiveInv, CapacityInv, NEW in, Accepted(in),
         NEW u, IsLive(u), NEW r \in {u.psrc1, u.psrc2}
  PROVE  r \notin NewTags(in)
<1> SUFFICES ASSUME r \in NewTags(in) PROVE FALSE
  OBVIOUS
<1> DEFINE group == NewUops(in.group)
<1>1. PICK a \in DOMAIN live : u = live[a]
  BY DEF IsLive
<1>2. r # 0 /\ \E i \in DOMAIN group : r = group[i].pdst
  BY DEF NewTags, Tags
<1>3. PICK i \in DOMAIN group : r = group[i].pdst
  BY <1>2
<1>4. r = group[i].robPointer + 1 /\ group[i].robPointer = Ring(head + Len(live) + i - 1)
  BY <1>2, <1>3, RoomForGroup DEF NewGroup
<1>5. r \in Sources(u.robPointer) /\ u.robPointer = Ring(head + a - 1)
  BY <1>1 DEF LiveInv
<1>6. PICK e \in RobEntries + 1 .. PointerModulus - 1 : r = Ring(u.robPointer + e) + 1
  BY <1>2, <1>5 DEF Sources
<1>7. /\ a \in Nat /\ a >= 1 /\ a <= Len(live) /\ i \in Nat /\ i >= 1 /\ Len(live) \in Nat
      /\ Len(live) + i <= RobEntries /\ head \in Nat /\ head < PointerModulus
      /\ u.robPointer \in Pointers
  <2>1. /\ Len(group) \in Nat /\ i \in 1 .. Len(group) /\ Len(live) + Len(group) <= RobEntries
    BY RoomForGroup DEF NewGroup
  <2>2. a \in 1 .. Len(live) /\ Len(live) \in Nat /\ head \in 0 .. PointerModulus - 1
    BY DEF DispatchTypeOK, Pointers
  <2>3. u.robPointer \in Pointers
    <3>1. live[a] \in Uops
      BY DEF DispatchTypeOK
    <3> QED
      BY <1>1, <3>1 DEF Uops
  <2> QED
    BY <2>1, <2>2, <2>3, Geometry
<1> DEFINE d == Len(live) + i - a
           b == head + a - 1
           c == head + Len(live) + i - 1
<1>8. /\ d \in 0 .. PointerModulus - 1 /\ d < RobEntries /\ b \in Nat /\ d \in Nat /\ c \in Nat
      /\ b + d < 2 * PointerModulus /\ b + d = c
  <2>1. d = Len(live) + i - a /\ b = head + a - 1 /\ c = head + Len(live) + i - 1
    OBVIOUS
  <2> HIDE DEF d, b, c
  <2>2. ASSUME NEW h \in Nat, NEW n \in Nat, h = head, n = Len(live)
        PROVE  /\ d \in 0 .. PointerModulus - 1 /\ d < RobEntries /\ b \in Nat /\ d \in Nat
               /\ c \in Nat /\ b + d < 2 * PointerModulus /\ b + d = c
    <3>1. /\ h < PointerModulus /\ a \in Nat /\ i \in Nat /\ a >= 1 /\ a <= n /\ i >= 1
          /\ n + i <= RobEntries
      BY <1>7, <2>2
    <3>2. d = n + i - a /\ b = h + a - 1 /\ c = h + n + i - 1
      BY <2>1, <2>2, Zenon
    <3> QED
      <4>1. /\ n + i - a \in 0 .. PointerModulus - 1 /\ n + i - a < RobEntries
            /\ h + a - 1 \in Nat /\ n + i - a \in Nat
        BY <2>2, <3>1, Geometry
      <4>2. /\ h + n + i - 1 \in Nat /\ (h + a - 1) + (n + i - a) < 2 * PointerModulus
            /\ (h + a - 1) + (n + i - a) = h + n + i - 1
        BY <2>2, <3>1, Geometry
      <4> QED
        BY <3>2, <4>1, <4>2, Zenon
  <2> QED
    BY <1>7, <2>2
<1>9. Ring(c) \in Nat /\ Ring(u.robPointer + e) \in Nat
  <2> HIDE DEF c, d, b
  <2>1. u.robPointer \in 0 .. PointerModulus - 1 /\ e \in Nat /\ c \in Nat
    BY <1>7, <1>8, Geometry DEF Pointers
  <2> QED
    BY <2>1, Geometry DEF Ring
<1>10. Ring(u.robPointer + d) = Ring(c)
  <2> HIDE DEF b, d, c
  <2>1. u.robPointer = Ring(b)
    BY <1>5 DEF b
  <2>2. Ring(Ring(b) + d) = Ring(b + d)
    BY <1>8, RingShift
  <2> QED
    BY <1>8, <2>1, <2>2
<1>11. Ring(u.robPointer + e) = Ring(c)
  BY <1>4, <1>6, <1>9
<1>12. e \in 0 .. PointerModulus - 1
  BY Geometry
<1>13. e = d
  <2> HIDE DEF d, c
  <2> QED
    BY <1>7, <1>8, <1>10, <1>11, <1>12, RingDistinct
<1> QED
  BY <1>7, <1>8, <1>13, Geometry

LEMMA RegisteredNext ==
  ASSUME NEW l \in Lanes, NEW u \in staged'[l], u.pdst # 0
  PROVE  u.pdst \in RegisteredTags'
<1>1. RegisteredTags' = {v.pdst : v \in UNION {staged'[m] : m \in Lanes}} \ {0}
  BY DEF RegisteredTags, Tags, Lanes, MultiplyLane
<1> QED
  BY <1>1

(* What a read port returns stays there until the register is renamed.           *)
LEMMA HeldNext ==
  ASSUME DispatchTypeOK, LiveInv, CapacityInv, NEW in, Accepted(in), Edge(in),
         NEW r \in ready \cup RegisteredTags, r \notin NewTags(in)
  PROVE  r \in ready'
<1>1. r \in ready \/ r \in RegisteredTags
  OBVIOUS
<1> QED
  BY <1>1, ReorderEdge DEF NewTags

(* A direct uop that fires is registered next, a multiply is in its stage.         *)
LEMMA FiredNext ==
  ASSUME NEW in, Accepted(in), Edge(in), NEW p \in OrdinaryPorts, NEW u \in Fires(in, p)
  PROVE  /\ Direct(u) => u \in staged'[p]
         /\ u.kind = "multiply" => u \in multiplying'
<1>0. p \in Ports /\ p # LoadStorePort /\ p \in Lanes /\ p # MultiplyLane
  BY Places
<1>1. u \in operand[p] /\ IssueReady(in, p, u)
  BY FiredForm
<1>2. ASSUME Direct(u) PROVE u \in staged'[p]
  <2>1. /\ p = DividePort => divided = {}
        /\ p = CsrPort => ~in.barrierEnds
    BY <1>1, <1>2 DEF IssueReady, Direct, Accepted, BarrierMayEnd
  <2>2. Completing(in, p) = {v \in Fires(in, p) : Direct(v)}
    BY <1>0, <2>1 DEF Completing
  <2> QED
    BY <1>0, <1>2, <2>2, ExecuteEdge
<1>3. ASSUME u.kind = "multiply" PROVE u \in multiplying'
  <2>1. u \in FiredOfKind(in, {"multiply"})
    BY <1>0, <1>1, <1>3, FiredForm
  <2> QED
    BY <2>1, ExecuteEdge
<1> QED
  BY <1>2, <1>3

LEMMA ReadableNext ==
  ASSUME DispatchTypeOK, LiveInv, CapacityInv, NEW in, Accepted(in), Edge(in),
         NEW r \in Readable \cup EarlyWakeups(in), r \notin NewTags(in)
  PROVE  r \in Readable'
<1>1. Readable' = ready' \cup RegisteredTags' \cup Tags(multiplying)'
  BY DEF Readable
<1>2. CASE r \in ready \cup RegisteredTags
  BY <1>1, <1>2, HeldNext
<1>3. CASE r \in Tags(multiplying)
  <2>1. PICK u \in multiplying : r = u.pdst /\ u.pdst # 0
    BY <1>3 DEF Tags
  <2>2. MultiplyLane \in Lanes
    BY Places
  <2>3. Completing(in, MultiplyLane) = multiplying
    <3>1. MultiplyLane \notin Ports /\ {LoadStorePort, DividePort, CsrPort} \subseteq Ports
      BY Places
    <3> QED
      BY <3>1 DEF Completing
  <2>4. u \in staged'[MultiplyLane]
    BY <2>2, <2>3, ExecuteEdge
  <2>5. \A l : l = MultiplyLane => u.pdst \in RegisteredTags'
    BY <2>1, <2>2, <2>4, RegisteredNext
  <2> QED
    BY <1>1, <2>1, <2>5
<1>4. CASE r \in EarlyWakeups(in)
  <2>1. PICK l \in Lanes : r \in IF l \in OrdinaryPorts /\ Tags(staged[l]) = {} THEN DirectTags(in, l)
                                 ELSE Tags(staged[l])
    BY <1>4 DEF EarlyWakeups
  <2>2. CASE r \in Tags(staged[l])
    <3>1. r \in RegisteredTags
      BY <2>2 DEF RegisteredTags, Tags
    <3> QED
      BY <1>2, <3>1
  <2>3. CASE l \in OrdinaryPorts /\ r \in DirectTags(in, l)
    <3>1. PICK u \in Fires(in, l) : r = u.pdst /\ u.pdst # 0 /\ (Direct(u) \/ u.kind = "multiply")
      BY <2>3 DEF DirectTags, Tags
    <3>2. CASE Direct(u)
      <4>1. u \in staged'[l]
        BY <2>3, <3>2, FiredNext
      <4>2. u.pdst \in RegisteredTags'
        BY <3>1, <4>1, RegisteredNext
      <4> QED
        BY <1>1, <3>1, <4>2
    <3>3. CASE u.kind = "multiply"
      <4>1. u \in multiplying'
        BY <2>3, <3>3, FiredNext
      <4>2. r \in Tags(multiplying)'
        BY <3>1, <4>1 DEF Tags
      <4> QED
        BY <1>1, <4>2
    <3> QED
      BY <3>1, <3>2, <3>3
  <2> QED
    BY <2>1, <2>2, <2>3
<1> QED
  BY <1>2, <1>3, <1>4 DEF Readable

(* A ready bit is set, an operand register filled and a store's data offered only  *)
(* when what the read ports return holds the sources by the next edge.            *)
QueueReadable ==
    \A p \in Ports : \A k \in DOMAIN queue[p] :
       /\ queue[p][k].source1Ready => queue[p][k].psrc1 \in Readable
       /\ queue[p][k].source2Ready => queue[p][k].psrc2 \in Readable
IssueReadable ==
    /\ \A k \in DOMAIN output :
          output[k].psrc1 \in Readable /\ (output[k].psrc2 \in Readable \/ IsStore(output[k]))
    /\ \A p \in OrdinaryPorts : \A u \in address[p] : u.psrc1 \in Readable /\ u.psrc2 \in Readable
DataReadable ==
    /\ \A s \in Slot : \A d \in slots[s] : d.ready => d.psrc \in ready \cup RegisteredTags
    /\ \A d \in dataOutput : d.psrc \in ready \cup RegisteredTags
ReadableInv == 0 \in ready /\ QueueReadable /\ IssueReadable /\ DataReadable

LEMMA SourcesNext ==
  ASSUME DispatchTypeOK, LiveInv, CapacityInv, PlacesInv, NEW in, Accepted(in), Edge(in),
         NEW tag, NEW p, NEW k, NEW u, Sits(tag, p, k, u),
         NEW r \in {u.psrc1, u.psrc2}, r \in Readable \cup EarlyWakeups(in)
  PROVE  r \in Readable'
<1>1. IsLive(u)
  BY DEF PlacesInv, SitAliveInv
<1>2. r \notin NewTags(in)
  BY <1>1, SourceNotNew
<1> QED
  BY <1>2, ReadableNext

LEMMA QueueReadableEdge ==
  ASSUME DispatchTypeOK, LiveInv, CapacityInv, PlacesInv, ReadableInv, NEW in, Accepted(in), Edge(in)
  PROVE  QueueReadable'
<1> DEFINE tags == EarlyWakeups(in)
<1>1. ASSUME NEW e \in Entries, NEW tag, NEW p, NEW k, Sits(tag, p, k, Bare(e)), NEW f,
             f = Woken(e, tags),
             e.source1Ready => e.psrc1 \in Readable, e.source2Ready => e.psrc2 \in Readable
      PROVE  /\ f.source1Ready => f.psrc1 \in Readable'
             /\ f.source2Ready => f.psrc2 \in Readable'
  <2>1. Bare(e).psrc1 = e.psrc1 /\ Bare(e).psrc2 = e.psrc2
    BY BareForm
  <2>2. /\ f.psrc1 = e.psrc1 /\ f.source1Ready = (e.source1Ready \/ e.psrc1 \in tags)
        /\ f.psrc2 = e.psrc2 /\ f.source2Ready = (e.source2Ready \/ e.psrc2 \in tags)
    BY <1>1, WokenForm
  <2> DEFINE u == Bare(e)
  <2>3. Sits(tag, p, k, u) /\ u.psrc1 = e.psrc1 /\ u.psrc2 = e.psrc2
    BY <1>1, <2>1
  <2> HIDE DEF u
  <2>4. ASSUME f.source1Ready PROVE f.psrc1 \in Readable'
    <3>1. e.psrc1 \in Readable \cup tags
      BY <1>1, <2>2, <2>4
    <3> QED
      BY <2>2, <2>3, <3>1, SourcesNext
  <2>5. ASSUME f.source2Ready PROVE f.psrc2 \in Readable'
    <3>1. e.psrc2 \in Readable \cup tags
      BY <1>1, <2>2, <2>5
    <3> QED
      BY <2>2, <2>3, <3>1, SourcesNext
  <2> QED
    BY <2>4, <2>5
<1>2. ASSUME NEW p \in Ports, NEW k \in DOMAIN queue'[p]
      PROVE  /\ queue'[p][k].source1Ready => queue'[p][k].psrc1 \in Readable'
             /\ queue'[p][k].source2Ready => queue'[p][k].psrc2 \in Readable'
  <2>1. ASSUME NEW i \in DOMAIN queue[p], queue[p][i] \in Entries,
               queue'[p][k] = Woken(queue[p][i], tags)
        PROVE  /\ queue'[p][k].source1Ready => queue'[p][k].psrc1 \in Readable'
               /\ queue'[p][k].source2Ready => queue'[p][k].psrc2 \in Readable'
    <3>1. Sits("issue", p, i, Bare(queue[p][i]))
      BY SitsAt
    <3>2. /\ queue[p][i].source1Ready => queue[p][i].psrc1 \in Readable
          /\ queue[p][i].source2Ready => queue[p][i].psrc2 \in Readable
      BY DEF ReadableInv, QueueReadable
    <3> QED
      BY <1>1, <2>1, <3>1, <3>2
  <2>2. ASSUME NEW j \in DOMAIN window, window[j] \in Uops, EntryOf(window[j]) \in Entries,
               queue'[p][k] = Woken(EntryOf(window[j]), tags)
        PROVE  /\ queue'[p][k].source1Ready => queue'[p][k].psrc1 \in Readable'
               /\ queue'[p][k].source2Ready => queue'[p][k].psrc2 \in Readable'
    <3> DEFINE e == EntryOf(window[j])
    <3>1. Sits("window", 0, j, window[j])
      BY SitsAt
    <3>2. /\ Bare(e) = window[j] /\ e \in Entries
          /\ e.source1Ready = (e.psrc1 \in ready \cup RegisteredTags)
          /\ e.source2Ready = (e.psrc2 \in ready \cup RegisteredTags)
      BY <2>2, EntryOfForm
    <3>3. queue'[p][k] = Woken(e, tags) /\ Sits("window", 0, j, Bare(e))
      BY <2>2, <3>1, <3>2
    <3> HIDE DEF e
    <3>4. /\ e.source1Ready => e.psrc1 \in Readable
          /\ e.source2Ready => e.psrc2 \in Readable
      BY <3>2 DEF Readable
    <3> QED
      BY <1>1, <3>2, <3>3, <3>4
  <2> QED
    BY <2>1, <2>2, EntryNext
<1>3. \A p \in Ports : \A k \in DOMAIN queue'[p] :
         /\ queue'[p][k].source1Ready => queue'[p][k].psrc1 \in Readable'
         /\ queue'[p][k].source2Ready => queue'[p][k].psrc2 \in Readable'
  BY <1>2
<1> QED
  BY <1>3 DEF QueueReadable

(* What leaves an issue queue can read both sources, a store its address.         *)
LEMMA LeavesReadable ==
  ASSUME DispatchTypeOK, LiveInv, CapacityInv, PlacesInv, ReadableInv, NEW in, Accepted(in), Edge(in),
         NEW p \in Ports, NEW k \in Dequeued(in, p), NEW e, e = queue[p][k]
  PROVE  /\ e \in Entries /\ e.psrc1 \in Readable'
         /\ e.psrc2 \in Readable' \/ (p = LoadStorePort /\ IsStore(e))
<1>1. k \in DOMAIN queue[p] /\ e \in Entries
  BY DequeuedIn
<1>2. ReadyToIssue(p, e, EarlyWakeups(in), head)
  BY DequeuedForm
<1>3. /\ Woken(e, EarlyWakeups(in)).source1Ready
      /\ Woken(e, EarlyWakeups(in)).source2Ready \/ (p = LoadStorePort /\ IsStore(e))
  BY <1>2 DEF ReadyToIssue
<1>4. /\ e.source1Ready => e.psrc1 \in Readable
      /\ e.source2Ready => e.psrc2 \in Readable
  BY <1>1 DEF ReadableInv, QueueReadable
<1>5. /\ e.psrc1 \in Readable \cup EarlyWakeups(in)
      /\ e.psrc2 \in Readable \cup EarlyWakeups(in) \/ (p = LoadStorePort /\ IsStore(e))
  BY <1>1, <1>3, <1>4, WokenForm
<1> DEFINE u == Bare(e)
<1>6. Sits("issue", p, k, u) /\ u.psrc1 = e.psrc1 /\ u.psrc2 = e.psrc2
  BY <1>1, SitsAt, BareForm
<1> HIDE DEF u
<1>7. e.psrc1 \in Readable'
  BY <1>5, <1>6, SourcesNext
<1>8. e.psrc2 \in Readable' \/ (p = LoadStorePort /\ IsStore(e))
  BY <1>5, <1>6, SourcesNext
<1> QED
  BY <1>1, <1>7, <1>8

LEMMA IssueReadableEdge ==
  ASSUME DispatchTypeOK, LiveInv, CapacityInv, PlacesInv, ReadableInv, NEW in, Accepted(in), Edge(in)
  PROVE  IssueReadable'
<1>1. ASSUME NEW k \in DOMAIN output', NEW e, e = output'[k]
      PROVE  e.psrc1 \in Readable' /\ (e.psrc2 \in Readable' \/ IsStore(e))
  <2>1. OutputMoved(in) /\ Len(output) \in Nat /\ Taken(in) \in Nat /\ Taken(in) <= 1
    BY OutputEdge DEF DispatchTypeOK, Taken
  <2>2. DOMAIN output' = 1 .. Len(output') /\ Len(output') \in Nat
    BY <2>1 DEF OutputMoved
  <2>3. CASE k <= Len(output) - Taken(in)
    <3> DEFINE i == k + Taken(in)
    <3>1. i \in DOMAIN output /\ e = output[i]
      <4>1. k \in 1 .. Len(output) - Taken(in)
        BY <2>1, <2>2, <2>3
      <4>2. output'[k] = output[k + Taken(in)]
        BY <2>1, <4>1 DEF OutputMoved
      <4>3. i \in 1 .. Len(output)
        BY <2>1, <4>1
      <4> QED
        BY <1>1, <4>2, <4>3 DEF DispatchTypeOK
    <3> HIDE DEF i
    <3>2. e \in Entries
      BY <3>1 DEF DispatchTypeOK
    <3>3. e.psrc1 \in Readable /\ (e.psrc2 \in Readable \/ IsStore(e))
      BY <3>1 DEF ReadableInv, IssueReadable
    <3> DEFINE u == Bare(e)
    <3>4. Sits("output", 0, i, u) /\ u.psrc1 = e.psrc1 /\ u.psrc2 = e.psrc2
      BY <3>1, <3>2, SitsAt, BareForm
    <3> HIDE DEF u
    <3> QED
      BY <3>3, <3>4, SourcesNext
  <2>4. CASE k > Len(output) - Taken(in)
    <3>1. PICK i \in Dequeued(in, LoadStorePort) :
             /\ Len(output') = Len(output) - Taken(in) + 1
             /\ output'[Len(output) - Taken(in) + 1] = queue[LoadStorePort][i]
      BY <2>1, <2>2, <2>4 DEF OutputMoved
    <3>2. k = Len(output) - Taken(in) + 1
      BY <2>1, <2>2, <2>4, <3>1
    <3>3. e = queue[LoadStorePort][i]
      BY <1>1, <3>1, <3>2
    <3> QED
      BY <3>3, LeavesReadable, Places
  <2> QED
    BY <2>1, <2>2, <2>3, <2>4
<1>2. ASSUME NEW p \in OrdinaryPorts, NEW u \in address'[p]
      PROVE  u.psrc1 \in Readable' /\ u.psrc2 \in Readable'
  <2>0. p \in Ports /\ p # LoadStorePort
    BY Places
  <2>1. address'[p] = IF AddressReady(in, p) THEN {Bare(queue[p][k]) : k \in Dequeued(in, p)}
                      ELSE address[p]
    BY IssueEdge
  <2>2. CASE AddressReady(in, p)
    <3>1. PICK k \in Dequeued(in, p) : u = Bare(queue[p][k])
      BY <2>1, <2>2
    <3> DEFINE e == queue[p][k]
    <3>2. e \in Entries /\ e.psrc1 \in Readable' /\ e.psrc2 \in Readable'
      BY <2>0, LeavesReadable
    <3>3. u.psrc1 = e.psrc1 /\ u.psrc2 = e.psrc2
      BY <3>1, <3>2, BareForm
    <3> HIDE DEF e
    <3> QED
      BY <3>2, <3>3
  <2>3. CASE ~AddressReady(in, p)
    <3>1. Sits("address", p, 0, u)
      BY <2>1, <2>3, SitsAt
    <3>2. u.psrc1 \in Readable /\ u.psrc2 \in Readable
      BY <2>1, <2>3 DEF ReadableInv, IssueReadable
    <3> QED
      BY <3>1, <3>2, SourcesNext
  <2> QED
    BY <2>2, <2>3
<1>3. /\ \A k \in DOMAIN output' :
           output'[k].psrc1 \in Readable' /\ (output'[k].psrc2 \in Readable' \/ IsStore(output'[k]))
      /\ \A p \in OrdinaryPorts : \A u \in address'[p] :
           u.psrc1 \in Readable' /\ u.psrc2 \in Readable'
  BY <1>1, <1>2
<1> QED
  BY <1>3 DEF IssueReadable, OrdinaryPorts, IsStore

LEMMA DataReadableEdge ==
  ASSUME DispatchTypeOK, LiveInv, CapacityInv, PlacesInv, DataInv, ReadableInv,
         NEW in, Accepted(in), Edge(in)
  PROVE  DataReadable'
<1>1. ASSUME NEW d, DataOf(d), d.psrc \in ready \cup RegisteredTags
      PROVE  d.psrc \in ready'
  <2>1. PICK u : IsLive(u) /\ u.psrc2 = d.psrc
    BY <1>1 DEF DataOf, DataStore
  <2>2. d.psrc \notin NewTags(in)
    BY <2>1, SourceNotNew
  <2> QED
    BY <1>1, <2>2, HeldNext
<1>2. ASSUME NEW s \in Slot, NEW d \in slots'[s], d.ready PROVE d.psrc \in ready'
  <2>1. ASSUME NEW j \in DOMAIN window, window[j] \in Uops,
               d = NewSlot(EntryOf(window[j]), RegisteredTags)
        PROVE  d.psrc \in ready'
    <3> DEFINE e == EntryOf(window[j])
    <3>1. /\ e.source2Ready = (e.psrc2 \in ready \cup RegisteredTags)
          /\ e.psrc2 = window[j].psrc2
      BY <2>1, EntryOfForm
    <3>2. d.psrc = e.psrc2 /\ d.ready = (e.source2Ready \/ e.psrc2 = 0 \/ e.psrc2 \in RegisteredTags)
      BY <2>1 DEF NewSlot
    <3> HIDE DEF e
    <3>3. d.psrc \in ready \cup RegisteredTags
      BY <1>2, <3>1, <3>2 DEF ReadableInv
    <3>4. Sits("window", 0, j, window[j])
      BY SitsAt
    <3>5. IsLive(window[j])
      BY <3>4 DEF PlacesInv, SitAliveInv
    <3>6. d.psrc = window[j].psrc2
      BY <3>1, <3>2
    <3>7. d.psrc \notin NewTags(in)
      BY <3>5, <3>6, SourceNotNew
    <3> QED
      BY <3>3, <3>7, HeldNext
  <2>2. ASSUME NEW f \in slots[s], d.psrc = f.psrc,
               d.ready = (f.ready \/ (f.psrc # 0 /\ f.psrc \in RegisteredTags))
        PROVE  d.psrc \in ready'
    <3>1. f.psrc \in ready \cup RegisteredTags
      BY <1>2, <2>2 DEF ReadableInv, DataReadable
    <3>2. DataOf(f)
      BY DEF DataInv, DataSourceInv
    <3> QED
      BY <1>1, <2>2, <3>1, <3>2
  <2>3. \A j \in DOMAIN window : window[j] \in Uops
    BY DEF DispatchTypeOK
  <2> QED
    BY <2>1, <2>2, <2>3, DataBackToSlot
<1>3. ASSUME NEW d \in dataOutput' PROVE d.psrc \in ready'
  <2>1. CASE d \in dataOutput
    BY <1>1, <2>1 DEF DataInv, DataSourceInv, ReadableInv, DataReadable
  <2>2. ASSUME NEW s \in Leaving(in), s \in Slot, d \in slots[s] PROVE d.psrc \in ready'
    <3>1. s \in ReadySlots(RegisteredTags)
      BY LeavingForm
    <3>2. PICK f \in slots[s] : f.ready \/ (f.psrc # 0 /\ f.psrc \in RegisteredTags)
      BY <3>1 DEF ReadySlots
    <3>3. f = d
      BY <2>2 DEF CapacityInv
    <3>4. d.psrc \in ready \cup RegisteredTags
      BY <2>2, <3>2, <3>3 DEF ReadableInv, DataReadable
    <3>5. DataOf(d)
      BY <2>2 DEF DataInv, DataSourceInv
    <3> QED
      BY <1>1, <3>4, <3>5
  <2> QED
    BY <2>1, <2>2, DataBackToOutput
<1>4. /\ \A s \in Slot : \A d \in slots'[s] : d.ready => d.psrc \in ready' \cup RegisteredTags'
      /\ \A d \in dataOutput' : d.psrc \in ready' \cup RegisteredTags'
  BY <1>2, <1>3
<1> QED
  BY <1>4 DEF DataReadable, Slot

LEMMA ReadableEdge ==
  ASSUME DispatchTypeOK, LiveInv, CapacityInv, PlacesInv, DataInv, ReadableInv,
         NEW in, Accepted(in), Edge(in)
  PROVE  ReadableInv'
<1>1. 0 \notin NewTags(in)
  BY DEF NewTags, Tags
<1>2. 0 \in ready'
  BY <1>1, HeldNext DEF ReadableInv
<1> QED
  BY <1>2, QueueReadableEdge, IssueReadableEdge, DataReadableEdge DEF ReadableInv

(***************************************************************************)
(* The whole invariant: what the registers hold and where, which is enough for    *)
(* no uop to be lost (Where), and what is said of it beyond its place (Said).  It  *)
(* holds where nothing is in flight, as at the start and after a flush, and every  *)
(* edge without a flush keeps it.                                             *)
(***************************************************************************)
WhereInv == DispatchTypeOK /\ LiveInv /\ CapacityInv /\ CapableInv /\ PlacesInv
SaidInv ==
    /\ NoLostWakeup /\ WaitingInv /\ SortedInv /\ SerialInv
    /\ UnitInv /\ DataInv /\ ReadableInv
DispatchInv == WhereInv /\ SaidInv

Emptied ==
    /\ live = <<>> /\ head \in Pointers /\ done = {} /\ ready = Registers
    /\ window = <<>> /\ dispatchQueue = <<>>
    /\ queue = [p \in Ports |-> <<>>] /\ enqueueReady \in [Ports -> BOOLEAN]
    /\ output = <<>> /\ outputReady \in BOOLEAN
    /\ address = [p \in OrdinaryPorts |-> {}] /\ operand = [p \in Ports |-> {}]
    /\ multiplying = {} /\ dividing = {} /\ divided = {} /\ barrier = {}
    /\ barrierDropping \in BOOLEAN
    /\ memory = {} /\ dataSent = {} /\ staged = [l \in Lanes |-> {}]
    /\ slots = [s \in Slot |-> {}] /\ dataEnqueueReady \in BOOLEAN /\ dataOutput = {}

LEMMA EmptiedTypes ==
  ASSUME Emptied
  PROVE  DispatchTypeOK /\ LiveInv /\ CapacityInv /\ CapableInv
<1>1. DispatchTypeOK
  <2>1. /\ live \in Seq(Uops) /\ window \in Seq(Uops) /\ dispatchQueue \in Seq(Uops)
        /\ output \in Seq(Entries) /\ queue \in [Ports -> Seq(Entries)]
    BY DEF Emptied
  <2>2. /\ address \in [OrdinaryPorts -> SUBSET Uops] /\ operand \in [Ports -> SUBSET Uops]
        /\ {multiplying, dividing, divided, barrier, memory} \subseteq SUBSET Uops
        /\ staged \in [Lanes -> SUBSET Uops]
        /\ slots \in [Slot -> SUBSET StoreData] /\ dataOutput \subseteq StoreData
    BY DEF Emptied
  <2> QED
    BY <2>1, <2>2 DEF Emptied, DispatchTypeOK
<1>2. LiveInv
  <2>1. Len(live) = 0 /\ DOMAIN live = {} /\ done = {}
    BY DEF Emptied
  <2> QED
    BY <2>1, Geometry DEF LiveInv
<1>3. CapacityInv
  <2>1. Len(dispatchQueue) = 0 /\ Len(window) = 0 /\ Len(output) = 0
    BY DEF Emptied
  <2>2. \A p \in Ports : Len(queue[p]) = 0
    BY DEF Emptied
  <2>3. 0 \in Slot /\ \A s \in Slot : slots[s] = {}
    BY DataSlotsAssumption DEF Emptied, Slot
  <2> QED
    BY <2>1, <2>2, <2>3, Geometry, IssueQueueAssumption DEF CapacityInv
<1>4. CapableInv
  <2>1. /\ \A p \in Ports : DOMAIN queue[p] = {} /\ operand[p] = {}
        /\ DOMAIN output = {} /\ \A p \in OrdinaryPorts : address[p] = {}
    BY DEF Emptied
  <2> QED
    BY <2>1 DEF CapableInv
<1> QED
  BY <1>1, <1>2, <1>3, <1>4

LEMMA EmptiedPlaces ==
  ASSUME Emptied
  PROVE  PlacesInv /\ NoLostWakeup /\ \A tag, p, k, u : ~Sits(tag, p, k, u)
<1>1. /\ DOMAIN dispatchQueue = {} /\ DOMAIN window = {} /\ DOMAIN live = {} /\ DOMAIN output = {}
      /\ \A p \in Ports : DOMAIN queue[p] = {} /\ operand[p] = {}
      /\ \A p \in OrdinaryPorts : address[p] = {}
      /\ \A l \in Lanes : staged[l] = {}
      /\ \A s \in Slot : slots[s] = {}
      /\ multiplying = {} /\ dividing = {} /\ divided = {} /\ barrier = {} /\ memory = {}
  BY DEF Emptied
<1>2. \A tag, p, k, u : ~Sits(tag, p, k, u)
  BY <1>1 DEF Sits
<1>3. \A u : ~IsLive(u)
  BY <1>1 DEF IsLive
<1>4. PlacesInv
  BY <1>2, <1>3 DEF PlacesInv, SitAliveInv, SitOnceInv, SitAllInv
<1>5. NoLostWakeup
  BY <1>1 DEF NoLostWakeup
<1> QED
  BY <1>2, <1>4, <1>5

LEMMA EmptiedSaid ==
  ASSUME Emptied
  PROVE  SaidInv
<1>1. /\ Len(live) = 0 /\ Len(window) = 0 /\ Len(dispatchQueue) = 0
      /\ DOMAIN dispatchQueue = {} /\ DOMAIN window = {} /\ DOMAIN live = {} /\ DOMAIN output = {}
      /\ \A p \in Ports : DOMAIN queue[p] = {}
      /\ \A p \in OrdinaryPorts : address[p] = {}
      /\ \A s \in Slot : slots[s] = {}
      /\ multiplying = {} /\ dividing = {} /\ divided = {} /\ barrier = {} /\ memory = {}
      /\ dataSent = {} /\ dataOutput = {} /\ ready = Registers
  BY DEF Emptied
<1>2. WaitingInv
  BY <1>1 DEF WaitingInv, Base
<1>3. SortedInv
  BY <1>1 DEF SortedInv
<1>4. SerialInv
  BY EmptiedPlaces DEF SerialInv
<1>5. UnitInv
  BY <1>1 DEF UnitInv
<1>6. DataInv
  <2>1. \A tag, p, k, x : ~DataSits(tag, p, k, x)
    BY <1>1 DEF DataSits
  <2>2. \A u : ~DataStore(u)
    BY <1>1 DEF DataStore, IsLive
  <2> QED
    BY <1>1, <2>1, <2>2 DEF DataInv, DataAliveInv, DataOnceInv, DataAllInv, DataSourceInv
<1>7. ReadableInv
  <2>1. 0 \in ready
    BY <1>1, Geometry DEF Registers
  <2> QED
    BY <1>1, <2>1 DEF ReadableInv, QueueReadable, IssueReadable, DataReadable
<1> QED
  BY <1>2, <1>3, <1>4, <1>5, <1>6, <1>7, EmptiedPlaces DEF SaidInv

LEMMA EmptiedInv ==
  ASSUME Emptied
  PROVE  DispatchInv
BY EmptiedTypes, EmptiedPlaces, EmptiedSaid DEF DispatchInv, WhereInv

LEMMA InitEmptied ==
  ASSUME PathInit
  PROVE  Emptied
<1>1. 0 \in Pointers
  BY Geometry DEF Pointers
<1> QED
  BY <1>1 DEF PathInit, DispatchInit, IssueQueueInit, StoreDataInit, Emptied

LEMMA FlushEmpties ==
  ASSUME DispatchTypeOK, LiveInv, NEW in, in.flush = TRUE, Edge(in)
  PROVE  Emptied'
<1>1. window' = <<>> /\ dispatchQueue' = <<>>
  BY DEF Edge, DispatchStep
<1>2. /\ queue' = [p \in Ports |-> <<>>] /\ output' = <<>> /\ outputReady' = TRUE
      /\ enqueueReady' = [p \in Ports |-> ReadyNextCycle(p)]
  <2>1. IssueQueueStep([p \in Ports |-> Dequeued(in, p)], [p \in Ports |-> Enters(p)],
                       EarlyWakeups(in), OutputTaken(in), in.flush)
    BY DEF Edge
  <2> QED
    BY <2>1 DEF IssueQueueStep
<1>3. enqueueReady' \in [Ports -> BOOLEAN]
  BY <1>2 DEF ReadyNextCycle
<1>4. /\ slots' = [s \in Slot |-> {}] /\ dataOutput' = {}
      /\ dataEnqueueReady' = (Cardinality(Occupied) < DataSlots - 1)
  BY DEF Edge, StoreDataStep
<1>5. dataEnqueueReady' \in BOOLEAN
  BY <1>4
<1>6. address' = [p \in OrdinaryPorts |-> {}] /\ operand' = [p \in Ports |-> {}]
  BY DEF Edge, IssueStep
<1>7. /\ multiplying' = {} /\ dividing' = {} /\ divided' = {} /\ barrier' = {}
      /\ barrierDropping' = ((barrier # {} \/ barrierDropping) /\ ~in.barrierEnds)
      /\ memory' = {} /\ dataSent' = {} /\ staged' = [l \in Lanes |-> {}]
  BY DEF Edge, ExecuteStep
<1>8. barrierDropping' \in BOOLEAN
  BY <1>7
<1>9. /\ live' = <<>> /\ done' = {} /\ ready' = Registers
      /\ head' = Ring(head + Len(live))
  BY DEF Edge, ReorderStep, Ring
<1>10. head' \in Pointers
  <2>1. head \in 0 .. PointerModulus - 1 /\ Len(live) \in Nat /\ Len(live) <= RobEntries
    BY DEF DispatchTypeOK, LiveInv, Pointers
  <2>2. head + Len(live) \in Nat /\ head + Len(live) < 2 * PointerModulus
    BY <2>1, Geometry
  <2> QED
    BY <1>9, <2>2, RingType
<1> QED
  BY <1>1, <1>2, <1>3, <1>4, <1>5, <1>6, <1>7, <1>8, <1>9, <1>10 DEF Emptied, Slot

LEMMA StutterKeeps ==
  ASSUME DispatchInv, UNCHANGED pathAllVars
  PROVE  DispatchInv'
<1>1. /\ live' = live /\ head' = head /\ done' = done /\ ready' = ready
      /\ window' = window /\ dispatchQueue' = dispatchQueue
      /\ queue' = queue /\ enqueueReady' = enqueueReady
      /\ output' = output /\ outputReady' = outputReady
      /\ address' = address /\ operand' = operand
      /\ multiplying' = multiplying /\ dividing' = dividing /\ divided' = divided
      /\ barrier' = barrier /\ barrierDropping' = barrierDropping
      /\ memory' = memory /\ dataSent' = dataSent /\ staged' = staged
      /\ slots' = slots /\ dataEnqueueReady' = dataEnqueueReady /\ dataOutput' = dataOutput
  BY DEF pathAllVars, dispatchVars, issueQueueVars, storeDataVars, pathVars
<1>2. \A tag, p, k, u : Sits(tag, p, k, u)' <=> Sits(tag, p, k, u)
  BY <1>1 DEF Sits
<1>3. \A u : (IsLive(u)' <=> IsLive(u)) /\ (Somewhere(u)' <=> Somewhere(u))
  BY <1>1, <1>2 DEF IsLive, Somewhere
<1>4. WhereInv'
  <2>1. DispatchTypeOK' /\ LiveInv' /\ CapacityInv' /\ CapableInv'
    BY <1>1 DEF DispatchInv, WhereInv, DispatchTypeOK, LiveInv, CapacityInv, CapableInv
  <2>2. PlacesInv'
    BY <1>1, <1>2, <1>3 DEF DispatchInv, WhereInv, PlacesInv, SitAliveInv, SitOnceInv, SitAllInv
  <2> QED
    BY <2>1, <2>2 DEF WhereInv
<1>5. RegisteredTags' = RegisteredTags /\ StagedPointers' = StagedPointers
      /\ Readable' = Readable
  BY <1>1 DEF RegisteredTags, StagedPointers, Readable
<1>6. DataInv'
  <2>1. \A tag, p, k, x : DataSits(tag, p, k, x)' <=> DataSits(tag, p, k, x)
    BY <1>1 DEF DataSits
  <2>2. \A u : DataStore(u)' <=> DataStore(u)
    BY <1>1, <1>3, <1>5 DEF DataStore
  <2>3. \A d : DataOf(d)' <=> DataOf(d)
    BY <2>2 DEF DataOf
  <2>4. DataAliveInv' /\ DataOnceInv' /\ DataAllInv'
    BY <2>1, <2>2 DEF DispatchInv, SaidInv, DataInv, DataAliveInv, DataOnceInv, DataAllInv
  <2>5. DataSourceInv'
    BY <1>1, <2>3 DEF DispatchInv, SaidInv, DataInv, DataSourceInv
  <2> QED
    BY <2>4, <2>5 DEF DataInv
<1>7. WaitingInv' /\ SortedInv' /\ SerialInv' /\ UnitInv' /\ NoLostWakeup'
  BY <1>1, <1>2 DEF DispatchInv, SaidInv, WaitingInv, Base, SortedInv, SerialInv, UnitInv,
                    NoLostWakeup
<1>8. ReadableInv'
  BY <1>1, <1>5 DEF DispatchInv, SaidInv, ReadableInv, QueueReadable, IssueReadable, DataReadable
<1> QED
  BY <1>4, <1>6, <1>7, <1>8 DEF DispatchInv, SaidInv

LEMMA EdgeKeeps ==
  ASSUME DispatchInv, NEW in, Accepted(in), Edge(in)
  PROVE  DispatchInv'
<1>1. /\ DispatchTypeOK /\ LiveInv /\ CapacityInv /\ CapableInv /\ PlacesInv
      /\ NoLostWakeup /\ WaitingInv /\ SortedInv /\ SerialInv
      /\ UnitInv /\ DataInv /\ ReadableInv
  BY DEF DispatchInv, WhereInv, SaidInv
<1>2. DispatchTypeOK' /\ CapacityInv' /\ CapableInv' /\ LiveInv' /\ PlacesInv'
  BY <1>1, TypeEdge, CapacityEdge, CapableEdge, LiveEdge, PlacesEdge
<1>3. NoLostWakeup' /\ WaitingInv' /\ SortedInv' /\ SerialInv'
  BY <1>1, WakeEdge, WaitingEdge, SortedEdge, SerialEdge
<1>4. UnitInv' /\ DataInv' /\ ReadableInv'
  BY <1>1, UnitEdge, DataEdge, ReadableEdge
<1> QED
  BY <1>2, <1>3, <1>4 DEF DispatchInv, WhereInv, SaidInv

LEMMA DispatchInductive ==
  PathSpec => []DispatchInv
<1>1. PathInit => DispatchInv
  BY InitEmptied, EmptiedInv
<1>2. ASSUME DispatchInv, [PathNext]_pathAllVars PROVE DispatchInv'
  <2>1. CASE QuietEdge
    <3>1. PICK in : Accepted(in) /\ Edge(in)
      BY <2>1, QuietEdgeIsEdge
    <3> QED
      BY <1>2, <3>1, EdgeKeeps
  <2>2. CASE FlushEdge
    <3>1. PICK in : in.flush = TRUE /\ in.group = <<>> /\ Edge(in)
      BY <2>2, FlushEdgeIsEdge
    <3>2. DispatchTypeOK /\ LiveInv
      BY <1>2 DEF DispatchInv, WhereInv
    <3>3. Emptied'
      BY <3>1, <3>2, FlushEmpties
    <3>4. Emptied' => DispatchInv'
      BY EmptiedInv, PTL
    <3> QED
      BY <3>3, <3>4
  <2>3. CASE UNCHANGED pathAllVars
    BY <1>2, <2>3, StutterKeeps
  <2> QED
    BY <1>2, <2>1, <2>2, <2>3 DEF PathNext
<1> QED
  BY <1>1, <1>2, PTL DEF PathSpec

(***************************************************************************)
(* The theorems.                                                             *)
(***************************************************************************)
(* Types: every register of the path holds what it is declared to hold, with      *)
(* pointers, tags and widths in range.                                        *)
THEOREM DispatchTypes == PathSpec => []DispatchTypeOK
<1>1. DispatchInv => DispatchTypeOK
  BY DEF DispatchInv, WhereInv
<1> QED
  BY <1>1, DispatchInductive, PTL

(* No uop between rename and its result is lost, duplicated or kept past a flush. *)
THEOREM UopsNeitherLostNorDuplicated == PathSpec => []NothingLostOrDuplicated
<1>1. DispatchInv => NothingLostOrDuplicated
  BY PlacesCounted DEF DispatchInv, WhereInv
<1> QED
  BY <1>1, DispatchInductive, PTL

(* A uop in an issue queue or in the store-data queue is awake once its source    *)
(* has its result.                                                          *)
THEOREM NoWakeupIsLost == PathSpec => []NoLostWakeup
<1>1. DispatchInv => NoLostWakeup
  BY DEF DispatchInv, SaidInv
<1> QED
  BY <1>1, DispatchInductive, PTL

(* The data half of a store is, until the store completes, in exactly one place   *)
(* on its way to the load/store queue.                                         *)
THEOREM StoreDataNeitherLostNorDuplicated == PathSpec => []StoreDataFollowsStore
<1>1. DispatchInv => StoreDataFollowsStore
  BY DataCounted DEF DispatchInv, WhereInv, SaidInv
<1> QED
  BY <1>1, DispatchInductive, PTL

(* The window and the dispatch queue are the youngest uops in program order, an    *)
(* issue queue is sorted by age, and no queue or slot overflows.                 *)
THEOREM ProgramOrderIsKept == PathSpec => []QueuesHoldProgramOrder
<1>1. DispatchInv => QueuesHoldProgramOrder
  BY OrderHolds DEF DispatchInv, WhereInv, SaidInv
<1> QED
  BY <1>1, DispatchInductive, PTL

(* A serializing uop past its issue queue is the oldest of the reorder buffer.      *)
THEOREM SerializingUopsAreOldest == PathSpec => []SerializingIsOldest
<1>1. DispatchInv => SerializingIsOldest
  BY SerialHolds DEF DispatchInv, WhereInv, SaidInv
<1> QED
  BY <1>1, DispatchInductive, PTL

(* A uop that takes its operands, and a store whose data is read, find their       *)
(* sources in the register file or on a bypass the port has.                     *)
OperandsHold ==
    /\ \A p \in Ports : \A uop \in operand'[p] \ operand[p] :
          uop.psrc1 \in Readable /\ (uop.psrc2 \in Readable \/ IsStore(uop))
    /\ dataSent' \ dataSent # {} =>
          \A data \in dataOutput : data.psrc \in ready \cup RegisteredTags

LEMMA EdgeOperands ==
  ASSUME DispatchTypeOK, ReadableInv, NEW in, in.flush = FALSE, Edge(in)
  PROVE  OperandsHold
<1>1. ASSUME NEW p \in Ports, NEW u \in operand'[p], u \notin operand[p]
      PROVE  u.psrc1 \in Readable /\ (u.psrc2 \in Readable \/ IsStore(u))
  <2>1. u \in NextOperand(in, p)
    BY <1>1 DEF Edge, IssueStep
  <2>2. CASE p = LoadStorePort
    <3>1. output # <<>> /\ u = Bare(Head(output))
      BY <1>1, <2>1, <2>2 DEF NextOperand, OutputTaken
    <3>2. 1 \in DOMAIN output /\ Head(output) = output[1]
      BY <3>1 DEF DispatchTypeOK
    <3>3. /\ u.psrc1 = output[1].psrc1 /\ u.psrc2 = output[1].psrc2
          /\ u.kind = output[1].kind
      BY <3>1, <3>2, BareForm DEF Bare
    <3> QED
      BY <3>2, <3>3 DEF ReadableInv, IssueReadable, IsStore
  <2>3. CASE p # LoadStorePort
    <3>1. p \in OrdinaryPorts /\ u \in address[p]
      BY <1>1, <2>1, <2>3 DEF NextOperand, OrdinaryPorts
    <3> QED
      BY <3>1 DEF ReadableInv, IssueReadable
  <2> QED
    BY <2>2, <2>3
<1>2. \A data \in dataOutput : data.psrc \in ready \cup RegisteredTags
  BY DEF ReadableInv, DataReadable
<1> QED
  BY <1>1, <1>2 DEF OperandsHold

THEOREM OperandsAreThere == PathSpec => OperandsHoldResults
<1>1. ASSUME DispatchInv, [PathNext]_pathAllVars PROVE OperandsHold \/ UNCHANGED pathAllVars
  <2>1. CASE QuietEdge
    <3>1. PICK in : Accepted(in) /\ Edge(in)
      BY <2>1, QuietEdgeIsEdge
    <3>2. in.flush = FALSE /\ DispatchTypeOK /\ ReadableInv
      BY <1>1, <3>1 DEF Accepted, DispatchInv, WhereInv, SaidInv
    <3> QED
      BY <3>1, <3>2, EdgeOperands
  <2>2. CASE FlushEdge
    <3>1. PICK in : in.flush = TRUE /\ in.group = <<>> /\ Edge(in)
      BY <2>2, FlushEdgeIsEdge
    <3>2. /\ operand' = [p \in Ports |-> {}] /\ dataSent' = {}
      BY <3>1 DEF Edge, IssueStep, ExecuteStep
    <3> QED
      BY <3>2 DEF OperandsHold
  <2> QED
    BY <1>1, <2>1, <2>2 DEF PathNext
<1>2. OperandsHold \/ UNCHANGED pathAllVars <=>
      [/\ \A p \in Ports : \A uop \in operand'[p] \ operand[p] :
             /\ uop.psrc1 \in Readable
             /\ uop.psrc2 \in Readable \/ IsStore(uop)
       /\ dataSent' \ dataSent # {} =>
             \A data \in dataOutput : data.psrc \in ready \cup RegisteredTags]_pathAllVars
  BY DEF OperandsHold
<1> QED
  BY <1>1, <1>2, DispatchInductive, PTL DEF PathSpec, OperandsHoldResults
===============================================================================
