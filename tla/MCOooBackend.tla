----------------------------- MODULE MCOooBackend -----------------------------
(* Two small cores: MCRename exercises the registers and stale results,       *)
(* MCRetire the reorder buffer, the barriers, IDLE and the redirects.           *)
EXTENDS OooBackendProperties

Lane(rd, op, fault, outcomes) ==
    [rd |-> rd, op |-> op, fault |-> fault, outcomes |-> outcomes]

(* Writers that retire or fault, and mispredictions that write nothing.          *)
RegisterDecoded ==
    {Lane(1, "plain", FALSE, {"good", "exception"}),
     Lane(0, "plain", FALSE, {"mispredict"})}

RetireDecoded ==
    {Lane(0, "plain", FALSE, {"good", "mispredict"}),
     Lane(0, "plain", TRUE, {"good"}),
     Lane(0, "barrier", FALSE, {"good", "exception"})}

RedirectDecoded ==
    RetireDecoded
      \cup {Lane(0, "csrRead", FALSE, {"good"}), Lane(0, "idle", FALSE, {"good"})}

MCPayloads ==
    [rd : Arch, op : {"plain", "csrRead", "barrier", "idle"}, pdst : Phys,
     oldPdst : Phys, memoryEpoch : 0 .. MemoryEpochs - 1]
=============================================================================
