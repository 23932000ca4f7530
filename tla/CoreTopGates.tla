---------------------------- MODULE CoreTopGates ---------------------------
(* The gates of tools/core_top_gate.py: the generated RTL is packaged, the   *)
(* package audited by Verilator and Yosys, the two files that are bound to   *)
(* it refreshed, and the tracked package compared with a fresh one.          *)
EXTENDS SpinalGeneration

Approved == {"CMPCONST", "UNUSEDSIGNAL"}

(* The --rtl argument: what an OUT_DIR holds, or the tracked package.        *)
InputRtl(r) == IF job[r].rtl = None THEN repo.tracked ELSE out[job[r].rtl].rtl

(* _failure_summary: only where no summary stands.                           *)
Fail(r) ==
    /\ out' = [out EXCEPT ![Out(r)].summary =
         IF @ = None THEN [gate |-> job[r].gate, by |-> r, pass |-> FALSE]
         ELSE @]
    /\ Exit(r, FALSE)

-----------------------------------------------------------------------------
(* load_port_contract: version 0 is the locked 49-port surface.              *)
PortsLoaded == repo.ports = 0

(* verify_complete_rtl: one core_top with the ports and TLBNUM = 32.         *)
Complete(rtl) == PortsLoaded /\ rtl.tlbnum = "32"

(* ensure_top_parameter, bind_tlbnum_to_reset_capture and the two kinds of   *)
(* annotation; the first two leave alone what has them.  Mutant: a core_top  *)
(* that declares TLBNUM is taken to be guarded.                              *)
TopParameter(rtl) == [rtl EXCEPT !.tlbnum = IF @ = "none" THEN "32" ELSE @]
ResetGuard(rtl) == [rtl EXCEPT !.guarded = TRUE]
Annotated(rtl) == [rtl EXCEPT !.marks = @ + 1]
PackagedUnguarded(rtl) == Annotated(TopParameter(rtl))
Packaged(rtl) == Annotated(ResetGuard(TopParameter(rtl)))

(* Only a package is annotated.  What the replacement spec names was audited,*)
(* and the waiver lists the warnings of the RTL it is bound to.              *)
ASSUME RepositoryAssumption ==
    \A s \in Scenarios :
        /\ DOMAIN s.repo = {"source", "manifest", "lock", "cache", "tools", "head",
                            "ports", "tracked", "spec", "waiver"}
        /\ s.repo.source \in Sources
        /\ \A rtl \in {s.repo.tracked, s.repo.spec} :
              /\ rtl \in Rtls
              /\ rtl.marks > 0 => rtl.guarded /\ rtl.tlbnum = "32"
        /\ Categories(Warnings(s.repo.spec)) = Approved
        /\ s.repo.waiver.warnings = Warnings(s.repo.waiver.rtl)

(* ensure_fresh_out, once the input is known to exist.                       *)
BeginGate(r) ==
    /\ \E gate \in {"contract", "package", "lint", "refresh", "port", "yosys"} :
          At(r, gate)
    /\ IF /\ (job[r].gate = "contract" \/ InputRtl(r) # None)
          /\ Fresh(Out(r))
       THEN /\ out' = [out EXCEPT ![Out(r)].made = TRUE]
            /\ GoesTo(r, CASE job[r].gate = "contract" -> "contract sources"
                           [] job[r].gate = "package" -> "package input"
                           [] OTHER -> "prepare")
       ELSE Exit(r, FALSE) /\ UNCHANGED out
    /\ RunAndOut

(* contract_gate: the locked sources of both repositories have the header    *)
(* of the contract.                                                          *)
LockedSourcesHold == PortsLoaded /\ repo.manifest = 0
ContractGate(r) ==
    /\ At(r, "contract sources")
    /\ IF LockedSourcesHold
       THEN /\ out' = [out EXCEPT ![Out(r)].summary =
                         [gate |-> "contract", by |-> r, pass |-> TRUE]]
            /\ Exit(r, TRUE)
       ELSE Fail(r)
    /\ RunAndOut

-----------------------------------------------------------------------------
ReadPackageInput(r) ==
    /\ At(r, "package input")
    /\ LET rtl == InputRtl(r)
       IN  IF rtl # None /\ rtl.tlbnum \in {"none", "32"}
                         /\ Complete(Packaged(rtl))
           THEN /\ run' = [run EXCEPT ![r].text = rtl, ![r].pc = "write package"]
                /\ UNCHANGED out
           ELSE Fail(r)
    /\ RunAndOut

(* The rtl directory must not exist: another packager may have made it.      *)
WritePackage(r) ==
    /\ At(r, "write package")
    /\ IF out[Out(r)].rtl # None THEN Fail(r) ELSE
        /\ out' = [out EXCEPT ![Out(r)].rtl = Packaged(run[r].text)]
        /\ GoesTo(r, "package again")
    /\ RunAndOut

SummarisePackage(r) ==
    /\ At(r, "package again")
    /\ IF InputRtl(r) # run[r].text THEN Fail(r) ELSE
        /\ out' = [out EXCEPT ![Out(r)].summary =
             [gate |-> "package", by |-> r, pass |-> TRUE,
              input |-> run[r].text, rtl |-> out[Out(r)].rtl]]
        /\ Exit(r, TRUE)
    /\ RunAndOut

-----------------------------------------------------------------------------
(* publish_check_gate: the spec is read, then both packages, then both again *)
(* before OUT_DIR is asked for; every refusal before leaves no summary.      *)
ReadReplacement(r) ==
    /\ At(r, "publish")
    /\ IF InputRtl(r) # None /\ PortsLoaded
       THEN run' = [run EXCEPT ![r].seen = repo.spec, ![r].pc = "packages"]
       ELSE Exit(r, FALSE)
    /\ OnlyRun

ComparePackages(r) ==
    /\ At(r, "packages")
    /\ IF InputRtl(r) = repo.tracked /\ run[r].seen = InputRtl(r)
       THEN run' = [run EXCEPT ![r].text = InputRtl(r),
                               ![r].pc = "packages again"]
       ELSE Exit(r, FALSE)
    /\ OnlyRun

ConfirmPackages(r) ==
    /\ At(r, "packages again")
    /\ IF /\ InputRtl(r) = run[r].text /\ repo.tracked = run[r].text
          /\ Fresh(Out(r))
       THEN /\ out' = [out EXCEPT ![Out(r)].made = TRUE]
            /\ GoesTo(r, "published")
       ELSE Exit(r, FALSE) /\ UNCHANGED out
    /\ RunAndOut

SummarisePublication(r) ==
    /\ At(r, "published")
    /\ out' = [out EXCEPT ![Out(r)].summary =
         [gate |-> "publish", by |-> r, pass |-> TRUE, rtl |-> run[r].text,
          spec |-> run[r].seen]]
    /\ Exit(r, TRUE)
    /\ RunAndOut

-----------------------------------------------------------------------------
(* prepare_complete_rtl: the package is read, checked against the contract,  *)
(* and copied below OUT_DIR, where the tools read it.                        *)
ReadCompleteRtl(r) ==
    /\ At(r, "prepare")
    /\ LET rtl == InputRtl(r)
       IN  IF rtl # None /\ Complete(rtl)
           THEN /\ run' = [run EXCEPT ![r].text = rtl, ![r].pc = "snapshot",
                                      ![r].lock = repo.manifest]
                /\ UNCHANGED out
           ELSE Fail(r)
    /\ RunAndOut

SnapshotRtl(r) ==
    /\ At(r, "snapshot")
    /\ IF out[Out(r)].snapshot # None \/ InputRtl(r) # run[r].text
       THEN Fail(r)
       ELSE /\ out' = [out EXCEPT ![Out(r)].snapshot = run[r].text]
            /\ GoesTo(r, IF job[r].gate \in {"port", "yosys"}
                         THEN "yosys run" ELSE "verilator")
    /\ RunAndOut

(* run_yosys: the locked binary, which may fail, warn or be too slow.        *)
YosysClean(r, result) == ToolsLocked(run[r].lock) /\ result = "clean"

YosysEnds(r, holds) ==
    IF ~holds THEN Fail(r) ELSE
    /\ out' = [out EXCEPT ![Out(r)].summary =
         [gate |-> job[r].gate, by |-> r, pass |-> TRUE, rtl |-> run[r].text]]
    /\ Exit(r, TRUE)

(* validate_top_contract, of the design as Yosys read it.                    *)
TopContract(rtl) == rtl.tlbnum = "32"

PortCheck(r) ==
    /\ At(r, "yosys run") /\ job[r].gate = "port"
    /\ \E result \in {"clean", "warned"} :
         YosysEnds(r, YosysClean(r, result) /\ TopContract(out[Out(r)].snapshot))
    /\ RunAndOut

YosysCheck(r) ==
    /\ At(r, "yosys run") /\ job[r].gate = "yosys"
    /\ \E result \in {"clean", "warned"} : YosysEnds(r, YosysClean(r, result))
    /\ RunAndOut

(* The first pass of lint_gate: all warnings, which end it with exit code 1; *)
(* an unstructured warning is an error and there is no lint summary.         *)
LintPass(r) ==
    /\ At(r, "verilator")
    /\ \E result \in {"finished", "timeout", "error", "unstructured"} :
         IF result = "unstructured" \/ ~ToolsLocked(run[r].lock) THEN Fail(r) ELSE
         /\ run' = [run EXCEPT
              ![r].seen = [warnings |-> Warnings(out[Out(r)].snapshot),
                           finished |-> result = "finished"],
              ![r].pc = "verdict"]
         /\ UNCHANGED out
    /\ RunAndOut

(* lint_waiver_metadata: a waiver is of this very RTL, or there is no lint   *)
(* summary.                                                                  *)
WaiverApplies(r) == repo.waiver.rtl = run[r].text

ExactMatch(warnings) ==
    warnings = repo.waiver.warnings /\ Categories(warnings) = Approved

(* Without a waiver nothing may be reported; with one exactly what it lists, *)
(* and a second pass that suppresses the approved categories must be clean.  *)
LintVerdict(r) ==
    /\ At(r, "verdict")
    /\ IF job[r].waived /\ ~WaiverApplies(r) THEN Fail(r) ELSE
       \E closes \in BOOLEAN :
         LET warnings == run[r].seen.warnings
             pass == /\ run[r].seen.finished
                     /\ IF job[r].waived THEN ExactMatch(warnings) /\ closes
                                         ELSE warnings = {}
             summary == [gate |-> "lint", by |-> r, pass |-> pass,
                         rtl |-> run[r].text, warnings |-> warnings,
                         finished |-> run[r].seen.finished]
         IN  /\ out' = [out EXCEPT ![Out(r)].summary = summary]
             /\ IF job[r].gate = "refresh" THEN GoesTo(r, "audit lint")
                                           ELSE Exit(r, pass)
    /\ RunAndOut

-----------------------------------------------------------------------------
(* refresh_metadata_gate: a lint that failed over reviewed warnings only is  *)
(* what the new waiver lists.                                                *)
AuditEligible(audit) ==
    audit.finished /\ Categories(audit.warnings) = Approved

AuditLint(r) ==
    /\ At(r, "audit lint")
    /\ LET audit == out[Out(r)].summary
       IN  IF /\ AuditEligible(audit) /\ InputRtl(r) = audit.rtl /\ PortsLoaded
           THEN /\ out' = [out EXCEPT ![Out(r)].audit = audit]
                /\ GoesTo(r, "write spec")
           ELSE /\ out' = [out EXCEPT ![Out(r)].audit = audit]
                /\ Exit(r, FALSE)
    /\ RunAndOut

WriteSpec(r) ==
    /\ At(r, "write spec")
    /\ IF InputRtl(r) # out[Out(r)].audit.rtl THEN Exit(r, FALSE) /\ UNCHANGED repo
       ELSE /\ repo' = [repo EXCEPT !.spec = out[Out(r)].audit.rtl]
            /\ GoesTo(r, "write waiver")
    /\ UNCHANGED << job, out, events >>

(* Mutant: the waiver takes the hash of the package as it is now.            *)
WaiveCurrent(r) ==
    /\ At(r, "write waiver")
    /\ repo' = [repo EXCEPT !.waiver =
         [rtl |-> InputRtl(r), warnings |-> out[Out(r)].audit.warnings]]
    /\ GoesTo(r, "refreshed")
    /\ UNCHANGED << job, out, events >>
WriteWaiver(r) ==
    /\ At(r, "write waiver")
    /\ repo' = [repo EXCEPT !.waiver =
         [rtl |-> out[Out(r)].audit.rtl,
          warnings |-> out[Out(r)].audit.warnings]]
    /\ GoesTo(r, "refreshed")
    /\ UNCHANGED << job, out, events >>

SummariseRefresh(r) ==
    /\ At(r, "refreshed")
    /\ out' = [out EXCEPT ![Out(r)].summary =
         [gate |-> "refresh", by |-> r, pass |-> TRUE,
          rtl |-> out[Out(r)].audit.rtl]]
    /\ Exit(r, TRUE)
    /\ RunAndOut

GateStep(r) ==
    \/ BeginGate(r) \/ ContractGate(r)
    \/ ReadPackageInput(r) \/ WritePackage(r) \/ SummarisePackage(r)
    \/ ReadReplacement(r) \/ ComparePackages(r) \/ ConfirmPackages(r)
    \/ SummarisePublication(r)
    \/ ReadCompleteRtl(r) \/ SnapshotRtl(r) \/ PortCheck(r) \/ YosysCheck(r)
    \/ LintPass(r) \/ LintVerdict(r)
    \/ AuditLint(r) \/ WriteSpec(r) \/ WriteWaiver(r) \/ SummariseRefresh(r)
=============================================================================
