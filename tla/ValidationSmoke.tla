-------------------------- MODULE ValidationSmoke --------------------------
(* rtl-smoke: verify the overlay, lock its workspace, configure, build and   *)
(* simulate, verify again that nothing moved, and publish the result.        *)
EXTENDS ValidationOverlay

(* official_workspace_fingerprint: everything but the DUT is as cloned;      *)
(* before a smoke run every path counts, afterwards not those it generates.  *)
OfficialInputsIntact(ws) == ws.official /\ ws.generated = {}
PostSmokeInputsIntact(ws) == ws.official

(* verify_overlay_integrity, before a smoke run or (post) for a comparison.  *)
OverlayIntact(o, w, i, diagnostic, post) ==
    LET name == <<"overlay", o, i>>
        m == reports[name].manifest
        ws == workspace[w, i]
    IN  /\ Published(name)
        /\ m.diagnostic = diagnostic
        /\ m.eligible = ~diagnostic
        /\ reports[name].work = <<w, i>>
        /\ ws.state = "made"
        /\ ws.smokeLock = None
        /\ ws.overlay = m /\ manifests[o, i] = m
        /\ DoctorPasses(o) /\ doctor[o] = m.doctor
        /\ IF post THEN PostSmokeInputsIntact(ws) ELSE OfficialInputsIntact(ws)
        /\ m.source # "official" => exports[o, i].manifest = m.export
        /\ m.source = "mixed" => doctor[o].head = m.head
        /\ BindingsHold(ws, m)

SmokeCheck(r) ==
    /\ At(r, "check") /\ command[r].op = "smoke"
    /\ LET o == Out(r)  i == Iteration(r)
       IN IF OverlayIntact(o, Work(r), i, command[r].diagnostic, FALSE)
          THEN run' = [run EXCEPT ![r].input = reports[<<"overlay", o, i>>],
                                  ![r].doctor = doctor[o],
                                  ![r].pc = "smoke lock"]
          ELSE Fails(r)
    /\ OnlyRun

(* acquire_smoke_lock: the lock of an interrupted run is left for good.      *)
LockSmoke(r) ==
    /\ At(r, "smoke lock")
    /\ LET ws == workspace[WorkAt(r)]
       IN IF ws.smokeLock = None
          THEN /\ WorkspaceStep(r, [ws EXCEPT !.smokeLock = r])
               /\ GoesTo(r, "configure")
          ELSE Fails(r) /\ OnlyRun

(* clean_smoke_generated_paths, then ./configure.sh, which may fail.         *)
Configure(r) ==
    /\ At(r, "configure")
    /\ \E ok \in BOOLEAN, left \in SUBSET {"config"} :
         /\ ok => left = {"config"}
         /\ WorkspaceStep(r, [workspace[WorkAt(r)] EXCEPT
                                !.generated = left, !.binary = None])
         /\ run' = [run EXCEPT ![r].ok = ok,
                               ![r].pc = IF ok THEN "build" ELSE "recheck"]

(* make: a fresh simulator from the RTL that is installed now, or a failure. *)
Build(r) ==
    /\ At(r, "build")
    /\ LET ws == workspace[WorkAt(r)]
       IN \/ /\ WorkspaceStep(r, [ws EXCEPT !.generated = @ \cup {"build"},
                    !.binary = [by |-> r, dut |-> ws.dut],
                    !.builders = @ \cup {r}])
             /\ GoesTo(r, "simulate")
          \/ /\ WorkspaceStep(r, [ws EXCEPT !.generated = @ \cup {"build"},
                                            !.builders = @ \cup {r}])
             /\ run' = [run EXCEPT ![r].ok = FALSE, ![r].pc = "recheck"]

(* The simulation: passes (with a build free of warnings), or not.           *)
Simulate(r) ==
    /\ At(r, "simulate")
    /\ \E ok \in BOOLEAN :
         run' = [run EXCEPT ![r].ok = ok, ![r].pc = "recheck"]
    /\ OnlyRun

(* Mutant: the workspace is not looked at again.                             *)
SmokeReportUnchecked(r) ==
    /\ At(r, "recheck")
    /\ WriteReport(r,
         [by |-> r, overlay |-> run[r].input, doctor |-> run[r].doctor,
          binary |-> workspace[WorkAt(r)].binary, gate |-> run[r].ok,
          eligible |-> ~command[r].diagnostic /\ run[r].input.manifest.eligible],
         "smoke release")
    /\ UNCHANGED << command, lockFile, markers, manifests, exports, workspace,
                    doctor, repo, events >>
(* After the run: the marker, the overlay report, the manifest, the RTL and  *)
(* the official files must be what they were; then the report is written.    *)
SmokeReport(r) ==
    LET name == <<"overlay", Out(r), Iteration(r)>>
        ws == workspace[WorkAt(r)]
        overlay == run[r].input
    IN  /\ At(r, "recheck")
        /\ IF /\ ws.overlay = overlay.manifest
              /\ reports[name] = overlay
              /\ manifests[ExportAt(r)] = overlay.manifest
              /\ BindingsHold(ws, overlay.manifest)
              /\ PostSmokeInputsIntact(ws)
           THEN /\ WriteReport(r,
                     [by |-> r, overlay |-> overlay, doctor |-> run[r].doctor,
                      binary |-> ws.binary, gate |-> run[r].ok,
                      eligible |-> ~command[r].diagnostic
                                   /\ overlay.manifest.eligible],
                     "smoke release")
                /\ UNCHANGED << command, lockFile, markers, manifests, exports,
                                workspace, doctor, repo, events >>
           ELSE GoesTo(r, "abort") /\ OnlyRun

ReleaseSmoke(r) ==
    /\ At(r, "smoke release")
    /\ LET ws == workspace[WorkAt(r)]
       IN IF ws.smokeLock = r
          THEN /\ WorkspaceStep(r, [ws EXCEPT !.smokeLock = None])
               /\ GoesTo(r, "mark")
          ELSE GoesTo(r, "abort") /\ OnlyRun

SmokeMark(r) ==
    /\ At(r, "mark") /\ command[r].op = "smoke"
    /\ Marks(r) /\ GoesTo(r, "confirm")

(* Once it holds the smoke lock, a run that fails takes its publication away *)
(* and leaves the smoke lock (abandon_validation_lock closes it only).       *)
AbortPcs == {"configure", "build", "simulate", "recheck", "smoke release", "mark"}

Abort(r) ==
    /\ \/ /\ At(r, "abort")
          /\ markers' = [markers EXCEPT ![ReportOf(r)] = None]
          /\ GoesTo(r, "abort report") /\ UNCHANGED reports
       \/ /\ At(r, "abort report")
          /\ reports' = [reports EXCEPT ![ReportOf(r)] = None]
          /\ GoesTo(r, "release") /\ UNCHANGED markers
    /\ UNCHANGED << command, lockFile, manifests, exports, workspace, doctor,
                    repo, events >>

SmokeStep(r) ==
    \/ SmokeCheck(r) \/ LockSmoke(r) \/ Configure(r) \/ Build(r)
    \/ Simulate(r) \/ SmokeReport(r) \/ ReleaseSmoke(r) \/ SmokeMark(r)
    \/ Abort(r)
=============================================================================
