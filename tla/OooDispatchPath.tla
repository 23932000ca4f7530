---------------------------- MODULE OooDispatchPath ----------------------------
(***************************************************************************)
(* From rename to completion, as backend/OooBackend.scala connects the        *)
(* dispatch queue, the router, the issue queues, the store-data queue, the     *)
(* issue registers in front of the functional units and the registered results, *)
(* with the issue side of execute/OooExecutionCluster.scala.                  *)
(*                                                                         *)
(* The reorder buffer is `live`, its uops in program order; a physical         *)
(* register is named by the pointer of the uop that writes it.                *)
(***************************************************************************)
EXTENDS OooDispatchQueue, OooIssueQueue, OooStoreDataQueue

CONSTANTS
    Shapes,         \* of uops: [kind, back1, back2], sources given as the distance
                    \* to the uop that produces them, 0 for none
    CsrPort, DividePort, MultiplyPort,
    FlushAnytime    \* whether flushes happen

(* The memory port is one of its own, and each unit with a stage or a machine     *)
(* behind it sits at one port.                                               *)
ASSUME PortsAssumption ==
    /\ {CsrPort, DividePort, MultiplyPort} \subseteq Ports \ {LoadStorePort}
    /\ CsrPort # DividePort /\ CsrPort # MultiplyPort /\ DividePort # MultiplyPort
    /\ \A p \in Ports :
          /\ "barrier" \in Capabilities[p] => p = CsrPort
          /\ "divide" \in Capabilities[p] => p = DividePort
          /\ "multiply" \in Capabilities[p] => p = MultiplyPort
          /\ {"load", "ll", "store", "sc"} \cap Capabilities[p] # {} => p = LoadStorePort
ASSUME ShapesAssumption ==
    \A shape \in Shapes : shape.back1 \in Nat /\ shape.back2 \in Nat

VARIABLES
    live, head,     \* uops of the reorder buffer and its head pointer
    done,           \* pointers of its complete entries
    ready,          \* physicalReady: registers whose result is written
    address,        \* issueAddress registers of the ordinary ports
    operand,        \* issueOperand registers of all ports
    multiplying,    \* the multiplier's stage
    dividing, divided,  \* the divider's uop at work, and the one it completes
    barrier,        \* the uop the barrier machine holds
    barrierDropping,    \* it finishes what a flush interrupted
    memory,         \* uops whose address the load/store queue has
    dataSent,       \* pointers of the stores whose data it has
    staged          \* registered completion per writeback lane

pathVars == <<live, head, done, ready, address, operand, multiplying, dividing, divided,
              barrier, barrierDropping, memory, dataSent, staged>>
pathAllVars == <<dispatchVars, issueQueueVars, storeDataVars, pathVars>>

OrdinaryPorts == Ports \ {LoadStorePort}
MultiplyLane == Cardinality(Ports)
Lanes == Ports \cup {MultiplyLane}
PointerModulus == 2 * RobEntries
Registers == 0 .. PointerModulus        \* register 0 is the constant zero

UsesAgu(uop) == uop.kind \in {"load", "ll", "store", "sc"}
Writes(kind) == kind \notin {"store", "preload", "barrier"}
Direct(uop) == ~UsesAgu(uop) /\ uop.kind \notin {"multiply", "divide", "barrier"}

PathInit ==
    /\ DispatchInit /\ IssueQueueInit /\ StoreDataInit
    /\ live = <<>> /\ head = 0 /\ done = {}
    /\ ready = Registers
    /\ address = [p \in OrdinaryPorts |-> {}]
    /\ operand = [p \in Ports |-> {}]
    /\ multiplying = {} /\ dividing = {} /\ divided = {} /\ barrier = {}
    /\ barrierDropping = FALSE
    /\ memory = {} /\ dataSent = {}
    /\ staged = [l \in Lanes |-> {}]

(***************************************************************************)
(* Rename: a group enters the reorder buffer and the dispatch queue together.  *)
(***************************************************************************)
NewUop(group, k) ==
    LET pointer(i) == (head + Len(live) + i - 1) % PointerModulus
        kindAt(i) == IF i > 0 THEN group[i].kind ELSE live[Len(live) + i].kind
        register(back) == IF back = 0 \/ Len(live) + k - back < 1 THEN 0
                          ELSE IF Writes(kindAt(k - back)) THEN pointer(k - back) + 1 ELSE 0
    IN  [kind |-> group[k].kind, robPointer |-> pointer(k),
         pdst |-> IF Writes(group[k].kind) THEN pointer(k) + 1 ELSE 0,
         psrc1 |-> register(group[k].back1), psrc2 |-> register(group[k].back2)]
NewUops(group) == [k \in DOMAIN group |-> NewUop(group, k)]
StoresIn(uops) == Cardinality({k \in DOMAIN uops : IsStore(uops[k])})
Accepts(group) ==
    /\ DispatchQueueReady(Len(group))
    /\ Len(live) + Len(group) <= RobEntries
    /\ StoresIn(live) + StoresIn(group) <= DataSlots

(***************************************************************************)
(* Execution: which ports take their operands this cycle, and what wakes.      *)
(***************************************************************************)
(* A divide or a memory access that completes holds a direct uop back: they      *)
(* share a lane.                                                            *)
(* Mutant: a memory access does not.                                         *)
IssueReadyIgnoringMemory(in, p, uop) ==
    /\ ~in.flush
    /\ p = DividePort => IF uop.kind = "divide" THEN dividing = {} ELSE divided = {}
    /\ (p = LoadStorePort /\ UsesAgu(uop)) => in.aguReady
    /\ p = CsrPort => barrier = {} /\ ~barrierDropping
IssueReady(in, p, uop) ==
    /\ ~in.flush
    /\ p = DividePort => IF uop.kind = "divide" THEN dividing = {} ELSE divided = {}
    /\ p = LoadStorePort => IF UsesAgu(uop) THEN in.aguReady ELSE in.memory = {}
    /\ p = CsrPort => barrier = {} /\ ~barrierDropping
Fires(in, p) == {uop \in operand[p] : IssueReady(in, p, uop)}
FiredOfKind(in, kinds) == {uop \in UNION {Fires(in, p) : p \in Ports} : uop.kind \in kinds}

Tags(uops) == {uop.pdst : uop \in uops} \ {0}
RegisteredTags == Tags(UNION {staged[l] : l \in Lanes})
(* A result is announced when its uop fires if its data is there when a        *)
(* dependant reads its operands.                                            *)
(* Mutant: a divide is announced as well.                                    *)
DirectTagsOfDivide(in, p) ==
    Tags({uop \in Fires(in, p) : Direct(uop) \/ uop.kind \in {"multiply", "divide"}})
DirectTags(in, p) ==
    Tags({uop \in Fires(in, p) : Direct(uop) \/ uop.kind = "multiply"})
(* One tag per lane: a registered result goes before a direct one.             *)
(* Mutant: the direct one goes first.                                        *)
DirectFirst(in) ==
    UNION {IF l \in OrdinaryPorts /\ DirectTags(in, l) # {} THEN DirectTags(in, l)
           ELSE Tags(staged[l]) : l \in Lanes}
EarlyWakeups(in) ==
    UNION {IF l \in OrdinaryPorts /\ Tags(staged[l]) = {} THEN DirectTags(in, l)
           ELSE Tags(staged[l]) : l \in Lanes}

(* The completion each lane presents; memory and the divider go before a        *)
(* direct uop.                                                              *)
Completing(in, lane) ==
    LET direct == IF lane \in Ports THEN {uop \in Fires(in, lane) : Direct(uop)} ELSE {}
    IN  CASE lane = MultiplyLane -> multiplying
          [] lane = DividePort /\ divided # {} -> divided
          [] lane = LoadStorePort /\ in.memory # {} -> in.memory
          [] lane = CsrPort /\ in.barrierEnds -> barrier
          [] OTHER -> direct

(***************************************************************************)
(* Dispatch of the window into the issue queues and the store-data queue.      *)
(***************************************************************************)
(* A port is offered to the router when all it has to fill has room.           *)
(* Mutant: the load/store port when its issue queue has.                      *)
PortReadyOfQueue == {p \in Ports : enqueueReady[p]}
PortReady == {p \in Ports : enqueueReady[p] /\ (p = LoadStorePort => dataEnqueueReady)}

Routed == RoutePrefix(window, PortReady)
EntryOf(uop) ==
    [kind |-> uop.kind, robPointer |-> uop.robPointer, pdst |-> uop.pdst,
     psrc1 |-> uop.psrc1, psrc2 |-> uop.psrc2,
     source1Ready |-> uop.psrc1 \in ready \cup RegisteredTags,
     source2Ready |-> uop.psrc2 \in ready \cup RegisteredTags]
EntersStoreData ==
    {EntryOf(window[k]) : k \in {j \in DOMAIN Routed :
        Routed[j] = LoadStorePort /\ IsStore(window[j]) /\ dataEnqueueReady}}
Enters(p) ==
    LET lanes == {j \in DOMAIN Routed :
                    /\ Routed[j] = p
                    /\ (p = LoadStorePort /\ IsStore(window[j])) => dataEnqueueReady}
    IN  IF lanes = {} THEN <<>> ELSE <<EntryOf(window[LowestOf(lanes)])>>

(***************************************************************************)
(* Issue: the registers between the queues and the functional units.           *)
(***************************************************************************)
OperandReady(in, p) == operand[p] = {} \/ Fires(in, p) # {}
AddressReady(in, p) == address[p] = {} \/ OperandReady(in, p)
Dequeued(in, p) ==
    IF IF p = LoadStorePort THEN outputReady ELSE AddressReady(in, p)
    THEN Selected(p, EarlyWakeups(in), head) ELSE {}
OutputTaken(in) == output # <<>> /\ ~in.flush /\ OperandReady(in, LoadStorePort)

Bare(uop) == [kind |-> uop.kind, robPointer |-> uop.robPointer, pdst |-> uop.pdst,
              psrc1 |-> uop.psrc1, psrc2 |-> uop.psrc2]
(* The operand register may empty though nothing refills it.                   *)
NextOperand(in, p) ==
    IF p = LoadStorePort
    THEN IF OutputTaken(in) THEN {Bare(Head(output))} ELSE operand[p] \ Fires(in, p)
    ELSE IF OperandReady(in, p) THEN address[p] ELSE operand[p]
IssueStep(in) ==
    IF in.flush
    THEN address' = [p \in OrdinaryPorts |-> {}] /\ operand' = [p \in Ports |-> {}]
    ELSE /\ address' = [p \in OrdinaryPorts |->
                IF AddressReady(in, p) THEN {Bare(queue[p][k]) : k \in Dequeued(in, p)}
                ELSE address[p]]
         /\ operand' = [p \in Ports |-> NextOperand(in, p)]

ExecuteStep(in) ==
    IF in.flush
    THEN /\ multiplying' = {} /\ dividing' = {} /\ divided' = {} /\ barrier' = {}
         /\ barrierDropping' = ((barrier # {} \/ barrierDropping) /\ ~in.barrierEnds)
         /\ memory' = {} /\ dataSent' = {}
         /\ staged' = [l \in Lanes |-> {}]
    ELSE LET starts == FiredOfKind(in, {"divide"})
         IN  /\ multiplying' = FiredOfKind(in, {"multiply"})
             /\ dividing' = IF dividing # {} THEN IF in.divideEnds THEN {} ELSE dividing
                            ELSE IF in.divideEnds THEN {} ELSE starts
             /\ divided' = IF ~in.divideEnds THEN {}
                           ELSE IF dividing # {} THEN dividing ELSE starts
             /\ barrier' = IF in.barrierEnds THEN {}
                           ELSE barrier \cup FiredOfKind(in, {"barrier"})
             /\ barrierDropping' = (barrierDropping /\ ~in.barrierEnds)
             /\ memory' = (memory \ in.memory) \cup {u \in Fires(in, LoadStorePort) : UsesAgu(u)}
             /\ dataSent' = (dataSent \ {u.robPointer : u \in in.memory})
                    \cup {d.robPointer : d \in IF in.dataReady THEN dataOutput ELSE {}}
             /\ staged' = [l \in Lanes |-> Completing(in, l)]

(***************************************************************************)
(* The reorder buffer: results complete entries, n of the oldest retire, a     *)
(* flush empties it and makes every register ready.                          *)
(***************************************************************************)
Retirable(n) ==
    n <= Len(live) /\ n <= CommitWidth /\ \A k \in 1 .. n : live[k].robPointer \in done
ReorderStep(in) ==
    LET completed == UNION {staged[l] : l \in Lanes}
        gone == {live[k].robPointer : k \in 1 .. in.retire}
        group == NewUops(in.group)
    IN  /\ head' = (head + (IF in.flush THEN Len(live) ELSE in.retire)) % PointerModulus
        /\ IF in.flush THEN live' = <<>> /\ done' = {} /\ ready' = Registers
           ELSE /\ live' = SubSeq(live, in.retire + 1, Len(live)) \o group
                /\ done' = (done \cup {u.robPointer : u \in completed}) \ gone
                /\ ready' = (ready \cup RegisteredTags)
                                \ Tags({group[k] : k \in DOMAIN group})

(***************************************************************************)
(* One clock edge.                                                          *)
(***************************************************************************)
Edge(in) ==
    LET tags == EarlyWakeups(in)
        dequeued == [p \in Ports |-> Dequeued(in, p)]
        entering == [p \in Ports |-> Enters(p)]
    IN  /\ DispatchStep(NewUops(in.group), Len(Routed), in.flush)
        /\ IssueQueueStep(dequeued, entering, tags, OutputTaken(in), in.flush)
        /\ StoreDataStep(EntersStoreData, RegisteredTags, in.dataReady, in.flush)
        /\ IssueStep(in)
        /\ ExecuteStep(in)
        /\ ReorderStep(in)

Groups == UNION {[1 .. n -> Shapes] : n \in 0 .. RenameWidth}
MemoryCompletes ==
    {uop \in memory : IsStore(uop) => uop.robPointer \in dataSent}
AtMostOne(set) == {{}} \cup {{x} : x \in set}

Inputs(flush, group, retire, aguReady, completes, dataReady, divideEnds, barrierEnds) ==
    [flush |-> flush, group |-> group, retire |-> retire, aguReady |-> aguReady,
     memory |-> completes, dataReady |-> dataReady, divideEnds |-> divideEnds,
     barrierEnds |-> barrierEnds]
BarrierMayEnd == barrier # {} \/ barrierDropping
DivideMayEnd == dividing # {} \/ \E uop \in operand[DividePort] : uop.kind = "divide"

QuietEdge ==
    \E group \in Groups, retire \in 0 .. CommitWidth :
      /\ group # <<>> => Accepts(group)
      /\ Retirable(retire)
      /\ \E aguReady \in {FALSE, \E uop \in operand[LoadStorePort] : UsesAgu(uop)},
            completes \in AtMostOne(MemoryCompletes), dataReady \in {FALSE, dataOutput # {}},
            divideEnds \in {FALSE, DivideMayEnd}, barrierEnds \in {FALSE, BarrierMayEnd} :
           Edge(Inputs(FALSE, group, retire, aguReady, completes, dataReady,
                       divideEnds, barrierEnds))
FlushEdge ==
    /\ FlushAnytime
    /\ \E barrierEnds \in {FALSE, BarrierMayEnd} :
          Edge(Inputs(TRUE, <<>>, 0, FALSE, {}, FALSE, FALSE, barrierEnds))
PathNext == QuietEdge \/ FlushEdge

PathSpec == PathInit /\ [][PathNext]_pathAllVars
=============================================================================
