------------------------- MODULE ValidationOverlay -------------------------
(* golden-export, and chiplab-overlay: check the doctor, export the RTL from *)
(* Git, rebuild the isolated workspace, install the RTL, bind it all in a    *)
(* manifest written twice, and publish the report.                           *)
EXTENDS ValidationLocks

(* Every exception ends a run the same way: the locks go, the files stay.    *)
Fails(r) == GoesTo(r, "release")

(* Mutants: the report before the marker; nothing is withdrawn.              *)
WithdrawReportFirst(r) ==
    /\ \/ /\ At(r, "withdraw")
          /\ reports' = [reports EXCEPT ![ReportOf(r)] = None]
          /\ GoesTo(r, "withdraw report") /\ UNCHANGED markers
       \/ /\ At(r, "withdraw report")
          /\ markers' = [markers EXCEPT ![ReportOf(r)] = None]
          /\ GoesTo(r, "check") /\ UNCHANGED reports
    /\ UNCHANGED << command, lockFile, manifests, exports, workspace, doctor,
                    repo, events >>
WithdrawNothing(r) ==
    /\ At(r, "withdraw") /\ GoesTo(r, "check")
    /\ UNCHANGED << command, lockFile, reports, markers, manifests, exports,
                    workspace, doctor, repo, events >>
(* remove_stale_report_publication: the marker before the report.            *)
Withdraw(r) ==
    /\ \/ /\ At(r, "withdraw")
          /\ markers' = [markers EXCEPT ![ReportOf(r)] = None]
          /\ GoesTo(r, "withdraw report") /\ UNCHANGED reports
       \/ /\ At(r, "withdraw report")
          /\ reports' = [reports EXCEPT ![ReportOf(r)] = None]
          /\ GoesTo(r, "check") /\ UNCHANGED markers
    /\ UNCHANGED << command, lockFile, manifests, exports, workspace, doctor,
                    repo, events >>

OnlyRun ==
    UNCHANGED << command, lockFile, reports, markers, manifests, exports,
                 workspace, doctor, repo, events >>

-----------------------------------------------------------------------------
(* validate_overlay_source_selection: only the locked candidate may be       *)
(* installed outside the diagnostic mode.                                    *)
ArgumentsAllowed(c) == c.source # "candidate" => c.diagnostic

(* The checks before anything is generated; a mixed DUT is planned from a    *)
(* clean commit which the doctor saw as well.                                *)
OverlayCheck(r) ==
    /\ At(r, "check") /\ command[r].op = "overlay"
    /\ IF /\ ArgumentsAllowed(command[r])
          /\ DoctorPasses(Out(r))
          /\ command[r].source = "mixed" => repo.clean
       THEN run' = [run EXCEPT
              ![r].doctor = doctor[Out(r)],
              ![r].manifest = [source |-> command[r].source,
                               diagnostic |-> command[r].diagnostic,
                               head |-> repo.head, by |-> r],
              ![r].pc = IF command[r].source = "official"
                        THEN "reset" ELSE "export"]
       ELSE Fails(r)
    /\ OnlyRun

-----------------------------------------------------------------------------
(* export_golden, which golden-export runs without any lock: the directory   *)
(* is replaced, the RTL written from Git, the manifest written last.         *)
ExportedFiles(r) ==
    SourceFiles(command[r].source,
                IF run[r].manifest = None THEN 0 ELSE run[r].manifest.head)

ExportStep(r, pc, next, content) ==
    /\ At(r, pc)
    /\ exports' = [exports EXCEPT ![ExportAt(r)] = content]
    /\ GoesTo(r, next)
    /\ UNCHANGED << command, lockFile, reports, markers, manifests, workspace,
                    doctor, repo, events >>

ExportRefused(r) ==
    /\ At(r, "export") /\ ~ArgumentsAllowed(command[r])
    /\ Fails(r) /\ OnlyRun

ExportReset(r) ==
    /\ At(r, "export") /\ ArgumentsAllowed(command[r])
    /\ ExportStep(r, "export", "export files", NoExport)

ExportFiles(r) ==
    ExportStep(r, "export files", "export manifest",
               [exports[ExportAt(r)] EXCEPT !.files = ExportedFiles(r)])

ExportManifest(r) ==
    ExportStep(r, "export manifest",
               IF command[r].op = "export" THEN "release" ELSE "reset",
               [exports[ExportAt(r)] EXCEPT
                    !.manifest = [files |-> ExportedFiles(r), by |-> r]])

-----------------------------------------------------------------------------
WorkspaceStep(r, ws) ==
    /\ workspace' = [workspace EXCEPT ![WorkAt(r)] = ws]
    /\ UNCHANGED << command, lockFile, reports, markers, manifests, exports,
                    doctor, repo, events >>

(* reset_generated_dir: only a directory with its own marker is replaced.    *)
(* It is removed again for git clone, which makes it without the marker.     *)
ResetWorkspace(r) ==
    /\ At(r, "reset")
    /\ IF workspace[WorkAt(r)].state = "unmarked"
       THEN Fails(r) /\ OnlyRun
       ELSE /\ GoesTo(r, "clone")
            /\ WorkspaceStep(r, [NoWorkspace EXCEPT !.state = "unmarked"])

(* The clone ends; a directory it left behind gets its marker back even when *)
(* the clone, the checkout or the submodule failed.                          *)
CloneWorkspace(r) ==
    /\ At(r, "clone")
    /\ \/ /\ WorkspaceStep(r, [NoWorkspace EXCEPT !.state = "made",
                                                  !.dut = "official"])
          /\ GoesTo(r, "install")
       \/ \E left \in {"absent", "made"} :
            /\ WorkspaceStep(r, [NoWorkspace EXCEPT !.state = left])
            /\ Fails(r)

(* The exported RTL replaces the official one.                               *)
InstallDut(r) ==
    /\ At(r, "install")
    /\ LET installed == exports[ExportAt(r)].files
           ws == workspace[WorkAt(r)]
       IN  CASE command[r].source = "official" ->
                    GoesTo(r, "bind") /\ OnlyRun
             [] command[r].source # "official" /\ installed = None ->
                    Fails(r) /\ OnlyRun
             [] OTHER -> /\ WorkspaceStep(r, [ws EXCEPT !.dut = installed])
                         /\ GoesTo(r, "bind")

(* The overlay manifest: what was installed and what it was made from.       *)
OverlayManifest(r) ==
    LET plan == run[r].manifest
    IN  [by |-> r, source |-> plan.source, diagnostic |-> plan.diagnostic,
         eligible |-> ~plan.diagnostic /\ plan.source = "candidate",
         head |-> plan.head,
         files |-> workspace[WorkAt(r)].dut,
         export |-> IF plan.source = "official" THEN None
                    ELSE exports[ExportAt(r)].manifest,
         doctor |-> run[r].doctor]

BindOverlay(r) ==
    LET m == OverlayManifest(r)
    IN  /\ At(r, "bind")
        /\ IF /\ m.source # "official" => m.export # None
              /\ BindingsHold(workspace[WorkAt(r)], m)
           THEN /\ manifests' = [manifests EXCEPT ![ExportAt(r)] = m]
                /\ run' = [run EXCEPT ![r].manifest = m, ![r].pc = "mark work"]
                /\ UNCHANGED << command, lockFile, reports, markers, exports,
                                workspace, doctor, repo, events >>
           ELSE Fails(r) /\ OnlyRun

MarkWork(r) ==
    /\ At(r, "mark work")
    /\ WorkspaceStep(r, [workspace[WorkAt(r)] EXCEPT
                            !.overlay = run[r].manifest])
    /\ GoesTo(r, "report")

-----------------------------------------------------------------------------
(* Reports are written first, their publication marker second.               *)
WriteReport(r, report, next) ==
    /\ reports' = [reports EXCEPT ![ReportOf(r)] = report]
    /\ run' = [run EXCEPT ![r].report = report, ![r].pc = next]

(* Both copies of the manifest are read back and the bindings verified again.*)
OverlayReport(r) ==
    LET m == run[r].manifest
        ws == workspace[WorkAt(r)]
    IN  /\ At(r, "report") /\ command[r].op = "overlay"
        /\ IF manifests[ExportAt(r)] = m /\ ws.overlay = m /\ BindingsHold(ws, m)
           THEN /\ WriteReport(r, [by |-> r, work |-> WorkAt(r),
                                   manifest |-> m], "mark")
                /\ UNCHANGED << command, lockFile, markers, manifests, exports,
                                workspace, doctor, repo, events >>
           ELSE Fails(r) /\ OnlyRun

(* write_publication_marker: refused when the report is no longer the one    *)
(* this run wrote.                                                           *)
Marks(r) ==
    /\ reports[ReportOf(r)] = run[r].report
    /\ markers' = [markers EXCEPT ![ReportOf(r)] = run[r].report]
    /\ UNCHANGED << command, lockFile, reports, manifests, exports, workspace,
                    doctor, repo, events >>

MarkReport(r) ==
    /\ At(r, "mark") /\ command[r].op \in {"overlay", "compare"}
    /\ Marks(r)
    /\ GoesTo(r, IF command[r].op = "overlay" THEN "confirm" ELSE "release")

(* The command reads the published report back before it gives up its locks. *)
Confirm(r) ==
    /\ At(r, "confirm")
    /\ run' = [run EXCEPT ![r].pc = "release",
                          ![r].passed = Published(ReportOf(r))]
    /\ OnlyRun

OverlayStep(r) ==
    \/ Withdraw(r) \/ OverlayCheck(r) \/ ExportRefused(r) \/ ExportReset(r)
    \/ ExportFiles(r) \/ ExportManifest(r) \/ ResetWorkspace(r)
    \/ CloneWorkspace(r) \/ InstallDut(r) \/ BindOverlay(r) \/ MarkWork(r)
    \/ OverlayReport(r) \/ MarkReport(r) \/ Confirm(r)
=============================================================================
