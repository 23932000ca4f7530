---------------------------- MODULE OooRegisterMap ----------------------------
(***************************************************************************)
(* The register alias table (backend/OooRegisterStructures.scala, class     *)
(* OooRegisterMap): a speculative map written by rename, an architectural   *)
(* map written by retirement, and one ready bit per physical register.      *)
(* RegisterMapStep is one clock edge; a flush has priority over every other *)
(* write of the component.                                                  *)
(***************************************************************************)
EXTENDS OooCoreConfig

VARIABLES speculative, architectural, ready

registerMapVars == <<speculative, architectural, ready>>

RegisterMapInit ==
    /\ speculative = [a \in Arch |-> 0]
    /\ architectural = [a \in Arch |-> 0]
    /\ ready = [p \in Phys |-> TRUE]

(* The map after the writes of a group of lanes, the youngest lane winning:  *)
(* writes maps lanes to [rd, pdst] and register 0 is never written.          *)
MapAfter(map, writes) ==
    LET Last(a) == CHOOSE i \in DOMAIN writes :
                       /\ writes[i].rd = a
                       /\ \A j \in DOMAIN writes : writes[j].rd = a => j <= i
    IN  [a \in Arch |->
            IF a # 0 /\ \E i \in DOMAIN writes : writes[i].rd = a
            THEN writes[Last(a)].pdst
            ELSE map[a]]

(* io.renamePsrc / io.renameOldPdst of lane i: the table after the older      *)
(* lanes of the same group (the intra-group bypass).                          *)
RenamedSource(writes, i, a) ==
    MapAfter(speculative, [older \in 1 .. i - 1 |-> writes[older]])[a]

(* The architectural map after an edge: a flush cycle retires nothing.        *)
(* Mutant: what looks committable in the flush cycle is written.              *)
RetireInFlush(committed, flush) == MapAfter(architectural, committed)
ArchitecturalAfter(committed, flush) ==
    IF flush THEN architectural ELSE MapAfter(architectural, committed)

(* `renamed` are the accepted lanes, `written` the registers written back,    *)
(* `committed` the retired lanes with a destination.                          *)
RegisterMapStep(renamed, written, committed, flush) ==
    /\ speculative' = IF flush THEN architectural ELSE MapAfter(speculative, renamed)
    /\ architectural' = ArchitecturalAfter(committed, flush)
    /\ ready' =
         [p \in Phys |->
            CASE flush \/ p = 0 -> TRUE
              [] ~flush /\ p # 0 /\ \E i \in DOMAIN renamed :
                      renamed[i].rd # 0 /\ renamed[i].pdst = p -> FALSE
              [] OTHER -> ready[p] \/ p \in written]
=============================================================================
