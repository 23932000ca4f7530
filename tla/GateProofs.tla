----------------------------- MODULE GateProofs -----------------------------
(***************************************************************************)
(* Proofs about the Scala check, the RTL generation and the core_top gates,  *)
(* for any number of runs and OUT_DIRs, any jobs that satisfy JobsAssumption *)
(* and any kills, interrupts and edits.                                      *)
(*                                                                           *)
(* A step is one of a tool, an Install, a Kill, an Interrupt or an Edit.     *)
(* The frames say once what a step of each tool leaves alone; an invariant   *)
(* is then shown over the few actions that can disturb it.                   *)
(***************************************************************************)
EXTENDS GatePipeline, FiniteSetTheorems, TLAPS

(***************************************************************************)
(* The shape of the state, and which tool a run is in.                       *)
(***************************************************************************)
ScalaPcs == ScalaTry \cup {"scala", "failing", "finish", "unlock"}
GeneratePcs == {"generate", "parse", "before", "elaborate", "run main",
                "inputs again", "publish rtl", "summarise"}
PackagePcs == {"package", "package input", "write package", "package again"}
PublishPcs == {"publish", "packages", "packages again", "published"}
ContractPcs == {"contract", "contract sources"}
YosysPcs == {"port", "yosys", "yosys run"}
LintPcs == {"lint", "refresh", "verilator", "verdict"}
RefreshPcs == {"audit lint", "write spec", "write waiver", "refreshed"}
AuditPcs == YosysPcs \cup LintPcs \cup RefreshPcs \cup {"prepare", "snapshot"}
GatePcs == ContractPcs \cup PackagePcs \cup PublishPcs \cup AuditPcs
Over == {"ended", "killed"}

RunFields == {"pc", "lock", "before", "copy", "text", "seen", "results", "passed"}
OutFields ==
    {"made", "lock", "workspaces", "rtl", "snapshot", "audit", "summary"}
RepoFields == {"source", "manifest", "lock", "cache", "tools", "head", "ports",
               "tracked", "spec", "waiver"}

InTool(pc, gate) ==
    /\ pc \in ScalaPcs => gate = "scala"
    /\ pc \in GeneratePcs => gate = "generate"
    /\ pc \in PackagePcs => gate = "package"
    /\ pc \in PublishPcs => gate = "publish"
    /\ pc \in ContractPcs => gate = "contract"
    /\ pc \in YosysPcs => gate \in {"port", "yosys"}
    /\ pc \in LintPcs => gate \in {"lint", "refresh"}
    /\ pc \in RefreshPcs => gate = "refresh"
    /\ pc \in AuditPcs => gate \in Audits
    /\ pc = "install" => gate = "install"

Shape ==
    /\ \E s \in Scenarios : job = s.jobs
    /\ DOMAIN run = Runs /\ \A r \in Runs : DOMAIN run[r] = RunFields
    /\ DOMAIN out = Outs /\ \A o \in Outs : DOMAIN out[o] = OutFields
    /\ DOMAIN repo = RepoFields
    /\ \A r \in Runs :
          IF run[r].pc = "idle" THEN run[r] = NewRun
          ELSE job[r] # None /\ InTool(run[r].pc, job[r].gate)

LEMMA JobTypes ==
  ASSUME Shape, NEW r \in Runs, job[r] # None
  PROVE  /\ job[r].gate \in Tools /\ job[r].out \in Outs /\ Out(r) \in Outs
         /\ job[r].rtl \in Outs \cup {None}
BY JobsAssumption DEF Shape, Jobs, Out

(* An OUT_DIR is for one kind of evidence.                                   *)
LEMMA OneKind ==
  ASSUME Shape, NEW q \in Runs, NEW r \in Runs, job[q] # None, job[r] # None,
         Out(q) = Out(r)
  PROVE  \/ job[q].gate = job[r].gate
         \/ job[q].gate \in Audits /\ job[r].gate \in Audits
         \/ job[q].gate = "install" \/ job[r].gate = "install"
<1>1. PICK s \in Scenarios : job = s.jobs
  BY DEF Shape
<1>2. \A a, b \in {p \in Runs : s.jobs[p] # None} :
        s.jobs[a].out = s.jobs[b].out =>
           \/ s.jobs[a].gate = s.jobs[b].gate
           \/ {s.jobs[a].gate, s.jobs[b].gate} \subseteq Audits
           \/ "install" \in {s.jobs[a].gate, s.jobs[b].gate}
  BY JobsAssumption
<1> QED
  BY <1>1, <1>2 DEF Out

(***************************************************************************)
(* What a step of run r may change.                                          *)
(***************************************************************************)
Moves(r) ==
    /\ job' = job
    /\ DOMAIN run' = Runs /\ DOMAIN run'[r] = RunFields
    /\ \A q \in Runs \ {r} : run'[q] = run[q]
    /\ DOMAIN out' = Outs
    /\ \A o \in Outs : DOMAIN out'[o] = OutFields
    /\ \A o \in Outs \ {Out(r)} : out'[o] = out[o]
    /\ DOMAIN repo' = RepoFields

ScalaFrame(r) ==
    /\ Moves(r) /\ UNCHANGED repo
    /\ run[r].pc \in ScalaPcs /\ run'[r].pc \in ScalaPcs \cup Over
    /\ \A o \in Outs : /\ out'[o].rtl = out[o].rtl
                       /\ out'[o].workspaces = out[o].workspaces
                       /\ out'[o].snapshot = out[o].snapshot
                       /\ out'[o].audit = out[o].audit
                       /\ \/ out'[o].summary = out[o].summary
                          \/ out'[o].summary.gate = "scala"

GenerateFrame(r) ==
    /\ Moves(r) /\ UNCHANGED repo
    /\ run[r].pc \in GeneratePcs /\ run'[r].pc \in GeneratePcs \cup Over
    /\ \A o \in Outs : /\ out'[o].lock = out[o].lock
                       /\ out'[o].snapshot = out[o].snapshot
                       /\ out'[o].audit = out[o].audit
                       /\ \/ out'[o].summary = out[o].summary
                          \/ out'[o].summary.gate = "generate"

GateFrame(r) ==
    /\ Moves(r) /\ repo'.source = repo.source /\ repo'.tracked = repo.tracked
    /\ run[r].pc \in GatePcs /\ run'[r].pc \in GatePcs \cup Over
    /\ InTool(run'[r].pc, job[r].gate)
    /\ \A o \in Outs : /\ out'[o].lock = out[o].lock
                       /\ out'[o].workspaces = out[o].workspaces
                       /\ \/ out'[o].summary = out[o].summary
                          \/ /\ out'[o].summary.gate \in Tools \ {"scala", "generate"}
                             /\ out'[o].summary.gate = "publish"
                                => job[r].gate = "publish"
    /\ run[r].pc # "write package" => \A o \in Outs : out'[o].rtl = out[o].rtl
    /\ run[r].pc # "snapshot" => \A o \in Outs : out'[o].snapshot = out[o].snapshot
    /\ run[r].pc # "audit lint" => \A o \in Outs : out'[o].audit = out[o].audit

(* Exit and GoesTo change one run.                                           *)
RunMoves(r) ==
    /\ DOMAIN run' = Runs /\ DOMAIN run'[r] = RunFields
    /\ \A q \in Runs \ {r} : run'[q] = run[q]

LEMMA Exits ==
  ASSUME Shape, NEW r \in Runs, NEW passed, Exit(r, passed)
  PROVE  RunMoves(r) /\ run'[r] = [NewRun EXCEPT !.pc = "ended", !.passed = passed]
                     /\ run'[r].pc = "ended"
BY DEF Shape, Exit, NewRun, RunMoves, RunFields

LEMMA Goes ==
  ASSUME Shape, NEW r \in Runs, NEW pc, GoesTo(r, pc)
  PROVE  RunMoves(r) /\ run'[r] = [run[r] EXCEPT !.pc = pc] /\ run'[r].pc = pc
BY DEF Shape, GoesTo, RunMoves, RunFields

(* So does a new summary with one OUT_DIR.                                   *)
OutMoves(r) ==
    /\ DOMAIN out' = Outs /\ \A o \in Outs : DOMAIN out'[o] = OutFields
    /\ \A o \in Outs \ {Out(r)} : out'[o] = out[o]

SummaryMoves(r) ==
    /\ OutMoves(r)
    /\ \A o \in Outs : /\ out'[o].lock = out[o].lock
                       /\ out'[o].workspaces = out[o].workspaces
                       /\ out'[o].rtl = out[o].rtl
                       /\ out'[o].snapshot = out[o].snapshot
                       /\ out'[o].audit = out[o].audit

LEMMA Summarises ==
  ASSUME Shape, NEW r \in Runs, Out(r) \in Outs, NEW summary,
         out' = [out EXCEPT ![Out(r)].summary = summary]
  PROVE  SummaryMoves(r) /\ out'[Out(r)].summary = summary
BY DEF Shape, OutMoves, SummaryMoves, OutFields

(* Or another field of it.                                                   *)
LEMMA Writes ==
  ASSUME Shape, NEW r \in Runs, Out(r) \in Outs, NEW value, NEW field \in OutFields,
         out' = [out EXCEPT ![Out(r)] = [@ EXCEPT ![field] = value]]
  PROVE  /\ OutMoves(r) /\ out'[Out(r)][field] = value
         /\ \A o \in Outs, other \in OutFields \ {field} :
               out'[o][other] = out[o][other]
BY DEF Shape, OutMoves, OutFields

LEMMA ScalaFrames ==
  ASSUME Shape, NEW r \in Runs, ScalaStep(r)
  PROVE  ScalaFrame(r)
<1> USE DEF At, OnlyRun, RunAndOut, GoesTo, ScalaPcs, ScalaTry, Over, ScalaFrame,
            Moves, Shape, RunFields, OutFields
<1>0. Out(r) \in Outs
  BY JobTypes DEF ScalaStep, AcquireGateLock, VerifyToolchain, FingerprintSource,
     CopySource, CompareCopy, RunTask, AuditSimulation, CloseFingerprints,
     WriteSummary, RemoveGateLock
<1>1. CASE AcquireGateLock(r)
  <2>1. CASE out[Out(r)].lock = None
    BY <1>1, <2>1, Goes DEF AcquireGateLock, RunMoves
  <2>2. CASE out[Out(r)].lock # None
    BY <1>1, <2>2, Exits DEF AcquireGateLock, RunMoves
  <2> QED
    BY <2>1, <2>2
<1>2. CASE VerifyToolchain(r)
  BY <1>2 DEF VerifyToolchain
<1>3. CASE FingerprintSource(r)
  BY <1>3 DEF FingerprintSource
<1>4. CASE CopySource(r)
  BY <1>4 DEF CopySource
<1>5. CASE CompareCopy(r)
  BY <1>5 DEF CompareCopy
<1>6. CASE RunTask(r)
  <2>1. PICK results, pc, copy :
          /\ run' = [run EXCEPT ![r].results = results, ![r].copy = copy, ![r].pc = pc]
          /\ out' = [out EXCEPT ![Out(r)].summary =
                        [NoSummary(r) EXCEPT !.results = results]]
          /\ pc \in {"audit", "task"}
    BY <1>6, ZenonT(60) DEF RunTask
  <2>2. RunMoves(r) /\ run'[r].pc = pc
    BY <2>1 DEF RunMoves
  <2>3. [NoSummary(r) EXCEPT !.results = results].gate = "scala"
    BY DEF NoSummary
  <2>4. SummaryMoves(r) /\ out'[Out(r)].summary.gate = "scala"
    BY <1>0, <2>1, <2>3, Summarises
  <2> QED
    BY <1>6, <2>1, <2>2, <2>4 DEF RunTask, RunMoves, SummaryMoves, OutMoves
<1>7. CASE AuditSimulation(r)
  BY <1>7 DEF AuditSimulation
<1>8. CASE CloseFingerprints(r)
  BY <1>8 DEF CloseFingerprints
<1>9. CASE WriteSummary(r)
  BY <1>9 DEF WriteSummary
<1>10. CASE RemoveGateLock(r)
  BY <1>10 DEF RemoveGateLock, Exit, NewRun
<1> QED
  BY <1>1, <1>2, <1>3, <1>4, <1>5, <1>6, <1>7, <1>8, <1>9, <1>10 DEF ScalaStep

LEMMA GenerateFrames ==
  ASSUME Shape, NEW r \in Runs, GenerateStep(r)
  PROVE  GenerateFrame(r)
<1> USE DEF At, OnlyRun, RunAndOut, GoesTo, GeneratePcs, Over, GenerateFrame,
            Moves, Shape, RunFields, OutFields
<1>0. Out(r) \in Outs
  BY JobTypes DEF GenerateStep, ValidateRequest, ParseManifest, FingerprintInputs,
     CopySnapshot, Elaborate, FingerprintAgain, PublishRtl, SummariseGeneration
<1>1. CASE ValidateRequest(r)
  BY <1>1, Exits, Goes, ZenonT(60) DEF ValidateRequest, RunMoves
<1>2. CASE ParseManifest(r)
  BY <1>2 DEF ParseManifest
<1>3. CASE FingerprintInputs(r)
  BY <1>3, Exits, ZenonT(60) DEF FingerprintInputs, RunMoves
<1>4. CASE CopySnapshot(r)
  <2> DEFINE n == Len(run[r].results) + 1
  <2>1. CASE n \in out[Out(r)].workspaces
    BY <1>4, <2>1, Exits DEF CopySnapshot, RunMoves
  <2>2. CASE n \notin out[Out(r)].workspaces
    <3>1. PICK m, copy :
            /\ out' = [out EXCEPT ![Out(r)].workspaces = @ \cup {m}]
            /\ run' = [run EXCEPT ![r].copy = copy, ![r].pc = "run main"]
      BY <1>4, <2>2 DEF CopySnapshot
    <3> QED
      BY <1>0, <1>4, <3>1 DEF CopySnapshot
  <2> QED
    BY <2>1, <2>2
<1>5. CASE Elaborate(r)
  <2>1. PICK results, pc :
          /\ run' = [run EXCEPT ![r].results = results, ![r].copy = None, ![r].pc = pc]
          /\ pc \in {"inputs again", "elaborate"}
    BY <1>5, ZenonT(60) DEF Elaborate
  <2> QED
    BY <1>5, <2>1, ZenonT(60) DEF Elaborate
<1>6. CASE FingerprintAgain(r)
  <2>1. CASE ~ DependenciesVerified(r)
    BY <1>6, <2>1, Exits DEF FingerprintAgain, RunMoves
  <2>2. CASE DependenciesVerified(r)
    <3>1. PICK passed :
            run' = [run EXCEPT ![r].passed = passed, ![r].pc = "publish rtl"]
      BY <1>6, <2>2 DEF FingerprintAgain
    <3> QED
      BY <1>6, <3>1 DEF FingerprintAgain
  <2> QED
    BY <2>1, <2>2
<1>7. CASE PublishRtl(r)
  BY <1>7 DEF PublishRtl
<1>8. CASE SummariseGeneration(r)
  <2>1. SummaryMoves(r) /\ out'[Out(r)].summary.gate = "generate"
    <3> DEFINE summary ==
          [gate |-> "generate", by |-> r, pass |-> run[r].passed,
           source |-> run[r].before.source, head |-> run[r].before.head,
           rtl |-> out[Out(r)].rtl, results |-> run[r].results]
    <3>1. out' = [out EXCEPT ![Out(r)].summary = summary]
      BY <1>8 DEF SummariseGeneration
    <3>2. summary.gate = "generate"
      OBVIOUS
    <3> HIDE DEF summary
    <3> QED
      BY <1>0, <3>1, <3>2, Summarises
  <2> QED
    BY <1>8, <2>1, Exits DEF SummariseGeneration, RunMoves, SummaryMoves, OutMoves
<1> QED
  BY <1>1, <1>2, <1>3, <1>4, <1>5, <1>6, <1>7, <1>8 DEF GenerateStep

LEMMA EndIsInTool ==
  ASSUME NEW gate
  PROVE  InTool("ended", gate) /\ InTool("killed", gate)
BY DEF InTool, ScalaPcs, ScalaTry, GeneratePcs, PackagePcs, PublishPcs, ContractPcs,
       AuditPcs, YosysPcs, LintPcs, RefreshPcs

(* A gate that only writes a summary, or nothing, into its OUT_DIR.          *)
LEMMA GateSummarises ==
  ASSUME Shape, NEW r \in Runs, Out(r) \in Outs, run[r].pc \in GatePcs,
         RunMoves(r), run'[r].pc \in GatePcs \cup Over,
         InTool(run'[r].pc, job[r].gate), UNCHANGED << job, repo >>,
         NEW summary, out' = [out EXCEPT ![Out(r)].summary = summary],
         \/ summary = out[Out(r)].summary
         \/ /\ summary.gate \in Tools \ {"scala", "generate"}
            /\ summary.gate = "publish" => job[r].gate = "publish"
  PROVE  GateFrame(r)
<1>1. SummaryMoves(r) /\ out'[Out(r)].summary = summary
  BY Summarises
<1>2. Moves(r)
  BY <1>1 DEF Moves, Shape, RunMoves, SummaryMoves, OutMoves
<1> QED
  BY <1>1, <1>2 DEF SummaryMoves, OutMoves, GateFrame

LEMMA GateKeeps ==
  ASSUME Shape, NEW r \in Runs, run[r].pc \in GatePcs,
         RunMoves(r), run'[r].pc \in GatePcs \cup Over,
         InTool(run'[r].pc, job[r].gate), UNCHANGED << job, out >>,
         DOMAIN repo' = RepoFields,
         repo'.source = repo.source, repo'.tracked = repo.tracked
  PROVE  GateFrame(r)
BY DEF Moves, Shape, RunMoves, GateFrame

LEMMA GateWrites ==
  ASSUME Shape, NEW r \in Runs, Out(r) \in Outs, run[r].pc \in GatePcs,
         RunMoves(r), run'[r].pc \in GatePcs \cup Over,
         InTool(run'[r].pc, job[r].gate), UNCHANGED << job, repo >>,
         NEW value, NEW field \in {"made", "rtl", "snapshot", "audit"},
         out' = [out EXCEPT ![Out(r)] = [@ EXCEPT ![field] = value]],
         field = "rtl" => run[r].pc = "write package",
         field = "snapshot" => run[r].pc = "snapshot",
         field = "audit" => run[r].pc = "audit lint"
  PROVE  GateFrame(r)
<1>1. field \in OutFields
  BY DEF OutFields
<1>2. \A o \in Outs, other \in OutFields \ {field} : out'[o][other] = out[o][other]
  BY <1>1 DEF Shape, OutFields
<1>3. Moves(r)
  <2>1. OutMoves(r)
    BY <1>1, Writes
  <2> QED
    BY <2>1 DEF Moves, Shape, RunMoves, OutMoves
<1>4. \A o \in Outs : /\ out'[o]["lock"] = out[o]["lock"]
                     /\ out'[o]["workspaces"] = out[o]["workspaces"]
                     /\ out'[o]["summary"] = out[o]["summary"]
  BY <1>2 DEF OutFields
<1>5. run[r].pc # "write package" => \A o \in Outs : out'[o]["rtl"] = out[o]["rtl"]
  BY <1>2 DEF OutFields
<1>6. run[r].pc # "snapshot" => \A o \in Outs : out'[o]["snapshot"] = out[o]["snapshot"]
  BY <1>2 DEF OutFields
<1>7. run[r].pc # "audit lint" => \A o \in Outs : out'[o]["audit"] = out[o]["audit"]
  BY <1>2 DEF OutFields
<1> QED
  BY <1>3, <1>4, <1>5, <1>6, <1>7 DEF GateFrame

LEMMA Fails ==
  ASSUME Shape, NEW r \in Runs, Out(r) \in Outs,
         job[r].gate \in Tools \ {"scala", "generate"},
         Fail(r), UNCHANGED << job, repo >>, run[r].pc \in GatePcs
  PROVE  GateFrame(r)
<1> DEFINE summary == IF out[Out(r)].summary = None
                      THEN [gate |-> job[r].gate, by |-> r, pass |-> FALSE]
                      ELSE out[Out(r)].summary
<1>1. /\ out' = [out EXCEPT ![Out(r)].summary = summary]
      /\ summary = out[Out(r)].summary \/ summary.gate = job[r].gate
  BY DEF Fail
<1>2. RunMoves(r) /\ run'[r].pc = "ended"
  BY Exits DEF Fail
<1>3. InTool("ended", job[r].gate)
  BY EndIsInTool
<1> QED
  BY <1>1, <1>2, <1>3, GateSummarises DEF Over

LEMMA GateFrames ==
  ASSUME Shape, NEW r \in Runs, GateStep(r)
  PROVE  GateFrame(r)
<1>0. /\ job[r] # None /\ Out(r) \in Outs /\ run[r].pc \in GatePcs
      /\ InTool(run[r].pc, job[r].gate)
  <2>1. run[r].pc \in GatePcs
    BY DEF GateStep, BeginGate, ContractGate, ReadPackageInput, WritePackage,
       SummarisePackage, ReadReplacement, ComparePackages, ConfirmPackages,
       SummarisePublication, ReadCompleteRtl, SnapshotRtl, PortCheck, YosysCheck,
       LintPass, LintVerdict, AuditLint, WriteSpec, WriteWaiver, SummariseRefresh,
       At, GatePcs, ContractPcs, PackagePcs, PublishPcs, AuditPcs, YosysPcs,
       LintPcs, RefreshPcs
  <2> QED
    BY <2>1, JobTypes DEF Shape, GatePcs, ContractPcs, PackagePcs, PublishPcs,
       AuditPcs, YosysPcs, LintPcs, RefreshPcs
<1>00. job[r].gate \in Tools \ {"scala", "generate"}
  BY <1>0, JobTypes DEF InTool, GatePcs, ContractPcs, PackagePcs, PublishPcs, AuditPcs,
     YosysPcs, LintPcs, RefreshPcs, Audits, Tools
<1> USE DEF At, OnlyRun, RunAndOut, GatePcs, ContractPcs, PackagePcs, PublishPcs,
        AuditPcs, YosysPcs, LintPcs, RefreshPcs, ScalaPcs, ScalaTry, GeneratePcs,
        Over, InTool
<1>fail. ASSUME Fail(r), UNCHANGED << job, repo >>
         PROVE  GateFrame(r)
  BY <1>0, <1>00, <1>fail, Fails
<1>exit. ASSUME NEW passed, Exit(r, passed), UNCHANGED << job, out, repo >>
         PROVE  GateFrame(r)
  BY <1>0, <1>exit, Exits, EndIsInTool, GateKeeps DEF Shape
<1>passes. ASSUME NEW summary, NEW passed, Exit(r, passed), UNCHANGED << job, repo >>,
                  out' = [out EXCEPT ![Out(r)].summary = summary],
                  summary.gate \in Tools \ {"scala", "generate"},
                  summary.gate = "publish" => job[r].gate = "publish"
           PROVE  GateFrame(r)
  BY <1>0, <1>passes, Exits, EndIsInTool, GateSummarises
<1>1. CASE BeginGate(r)
  <2> DEFINE pc == CASE job[r].gate = "contract" -> "contract sources"
                     [] job[r].gate = "package" -> "package input"
                     [] OTHER -> "prepare"
  <2>1. CASE GoesTo(r, pc) /\ out' = [out EXCEPT ![Out(r)].made = TRUE]
    <3>1. InTool(pc, job[r].gate) /\ pc \in GatePcs
      BY <1>0, <1>1 DEF BeginGate, Audits
    <3> HIDE DEF pc
    <3>2. RunMoves(r) /\ run'[r].pc = pc
      BY <2>1, Goes
    <3> QED
      BY <1>0, <1>1, <2>1, <3>1, <3>2, GateWrites DEF BeginGate
  <2> QED
    BY <1>1, <2>1, <1>exit DEF BeginGate
<1>2. CASE ContractGate(r)
  <2> DEFINE summary == [gate |-> "contract", by |-> r, pass |-> TRUE]
  <2>1. CASE Exit(r, TRUE) /\ out' = [out EXCEPT ![Out(r)].summary = summary]
    BY <1>0, <1>2, <2>1, <1>passes DEF ContractGate, Tools
  <2> QED
    BY <1>2, <2>1, <1>fail DEF ContractGate
<1>3. CASE ReadPackageInput(r)
  <2>1. CASE /\ UNCHANGED out
             /\ run' = [run EXCEPT ![r].text = InputRtl(r), ![r].pc = "write package"]
    <3>1. RunMoves(r) /\ run'[r].pc = "write package"
      BY <2>1 DEF RunMoves, Shape, RunFields
    <3> QED
      BY <1>0, <1>3, <2>1, <3>1, GateKeeps DEF ReadPackageInput, Shape
  <2> QED
    BY <1>3, <2>1, <1>fail DEF ReadPackageInput
<1>4. CASE WritePackage(r)
  <2>1. CASE /\ out' = [out EXCEPT ![Out(r)].rtl = Packaged(run[r].text)]
             /\ GoesTo(r, "package again")
    <3>1. RunMoves(r) /\ run'[r].pc = "package again"
      BY <2>1, Goes
    <3> QED
      BY <1>0, <1>4, <2>1, <3>1, GateWrites DEF WritePackage
  <2> QED
    BY <1>4, <2>1, <1>fail DEF WritePackage
<1>5. CASE SummarisePackage(r)
  <2> DEFINE summary == [gate |-> "package", by |-> r, pass |-> TRUE,
                         input |-> run[r].text, rtl |-> out[Out(r)].rtl]
  <2>1. CASE Exit(r, TRUE) /\ out' = [out EXCEPT ![Out(r)].summary = summary]
    BY <1>0, <1>5, <2>1, <1>passes DEF SummarisePackage, Tools
  <2> QED
    BY <1>5, <2>1, <1>fail DEF SummarisePackage
<1>6. CASE ReadReplacement(r)
  <2>1. CASE run' = [run EXCEPT ![r].seen = repo.spec, ![r].pc = "packages"]
    <3>1. RunMoves(r) /\ run'[r].pc = "packages"
      BY <2>1 DEF RunMoves, Shape, RunFields
    <3> QED
      BY <1>0, <1>6, <3>1, GateKeeps DEF ReadReplacement, Shape
  <2> QED
    BY <1>6, <2>1, <1>exit DEF ReadReplacement
<1>7. CASE ComparePackages(r)
  <2>1. CASE run' = [run EXCEPT ![r].text = InputRtl(r), ![r].pc = "packages again"]
    <3>1. RunMoves(r) /\ run'[r].pc = "packages again"
      BY <2>1 DEF RunMoves, Shape, RunFields
    <3> QED
      BY <1>0, <1>7, <3>1, GateKeeps DEF ComparePackages, Shape
  <2> QED
    BY <1>7, <2>1, <1>exit DEF ComparePackages
<1>8. CASE ConfirmPackages(r)
  <2>1. CASE GoesTo(r, "published") /\ out' = [out EXCEPT ![Out(r)].made = TRUE]
    <3>1. RunMoves(r) /\ run'[r].pc = "published"
      BY <2>1, Goes
    <3> QED
      BY <1>0, <1>8, <2>1, <3>1, GateWrites DEF ConfirmPackages
  <2> QED
    BY <1>8, <2>1, <1>exit DEF ConfirmPackages
<1>9. CASE SummarisePublication(r)
  <2> DEFINE summary == [gate |-> "publish", by |-> r, pass |-> TRUE,
                         rtl |-> run[r].text, spec |-> run[r].seen]
  <2>1. Exit(r, TRUE) /\ out' = [out EXCEPT ![Out(r)].summary = summary]
    BY <1>9 DEF SummarisePublication
  <2> QED
    BY <1>0, <1>9, <2>1, <1>passes DEF SummarisePublication, Tools
<1>10. CASE ReadCompleteRtl(r)
  <2>1. CASE /\ UNCHANGED out
             /\ run' = [run EXCEPT ![r].text = InputRtl(r), ![r].pc = "snapshot",
                                   ![r].lock = repo.manifest]
    <3>1. RunMoves(r) /\ run'[r].pc = "snapshot"
      BY <2>1 DEF RunMoves, Shape, RunFields
    <3> QED
      BY <1>0, <1>10, <2>1, <3>1, GateKeeps DEF ReadCompleteRtl, Shape
  <2> QED
    BY <1>10, <2>1, <1>fail DEF ReadCompleteRtl
<1>11. CASE SnapshotRtl(r)
  <2> DEFINE pc == IF job[r].gate \in {"port", "yosys"} THEN "yosys run"
                                                        ELSE "verilator"
  <2>1. CASE /\ GoesTo(r, pc)
             /\ out' = [out EXCEPT ![Out(r)].snapshot = run[r].text]
    <3>1. InTool(pc, job[r].gate) /\ pc \in GatePcs
      BY <1>0, <1>11 DEF SnapshotRtl, Audits
    <3> HIDE DEF pc
    <3>2. RunMoves(r) /\ run'[r].pc = pc
      BY <2>1, Goes
    <3> QED
      BY <1>0, <1>11, <2>1, <3>1, <3>2, GateWrites DEF SnapshotRtl
  <2> QED
    BY <1>11, <2>1, <1>fail DEF SnapshotRtl
<1>yosys. ASSUME NEW holds, YosysEnds(r, holds), UNCHANGED << job, repo >>
          PROVE  GateFrame(r)
  <2> DEFINE summary == [gate |-> job[r].gate, by |-> r, pass |-> TRUE,
                         rtl |-> run[r].text]
  <2>1. CASE Exit(r, TRUE) /\ out' = [out EXCEPT ![Out(r)].summary = summary]
    <3>1. /\ summary.gate \in Tools \ {"scala", "generate"}
          /\ summary.gate = "publish" => job[r].gate = "publish"
      BY <1>00
    <3> HIDE DEF summary
    <3> QED
      BY <1>yosys, <2>1, <3>1, <1>passes
  <2> QED
    BY <1>yosys, <2>1, <1>fail DEF YosysEnds
<1>12. CASE PortCheck(r)
  BY <1>12, <1>yosys DEF PortCheck
<1>13. CASE YosysCheck(r)
  BY <1>13, <1>yosys DEF YosysCheck
<1>14. CASE LintPass(r)
  <2>1. CASE UNCHANGED out /\ \E seen :
               run' = [run EXCEPT ![r].seen = seen, ![r].pc = "verdict"]
    <3>1. RunMoves(r) /\ run'[r].pc = "verdict"
      BY <2>1 DEF RunMoves, Shape, RunFields
    <3> QED
      BY <1>0, <1>14, <2>1, <3>1, GateKeeps DEF LintPass, Shape
  <2> QED
    BY <1>14, <2>1, <1>fail DEF LintPass
<1>15. CASE LintVerdict(r)
  <2>1. CASE ~ (job[r].waived /\ ~WaiverApplies(r))
    <3>1. PICK summary : /\ out' = [out EXCEPT ![Out(r)].summary = summary]
                         /\ summary.gate = "lint"
                         /\ \/ job[r].gate = "refresh" /\ GoesTo(r, "audit lint")
                            \/ \E pass : Exit(r, pass)
      <4>1. PICK closes \in BOOLEAN :
              LET warnings == run[r].seen.warnings
                  pass == /\ run[r].seen.finished
                          /\ IF job[r].waived THEN ExactMatch(warnings) /\ closes
                                              ELSE warnings = {}
                  summary == [gate |-> "lint", by |-> r, pass |-> pass,
                              rtl |-> run[r].text, warnings |-> warnings,
                              finished |-> run[r].seen.finished]
              IN  /\ out' = [out EXCEPT ![Out(r)].summary = summary]
                  /\ IF job[r].gate = "refresh" THEN GoesTo(r, "audit lint")
                                                ELSE Exit(r, pass)
        BY <1>15, <2>1 DEF LintVerdict
      <4> DEFINE warnings == run[r].seen.warnings
                 pass == /\ run[r].seen.finished
                         /\ IF job[r].waived THEN ExactMatch(warnings) /\ closes
                                             ELSE warnings = {}
                 summary == [gate |-> "lint", by |-> r, pass |-> pass,
                             rtl |-> run[r].text, warnings |-> warnings,
                             finished |-> run[r].seen.finished]
      <4>2. summary.gate = "lint"
        OBVIOUS
      <4> HIDE DEF pass
      <4>3. \/ job[r].gate = "refresh" /\ GoesTo(r, "audit lint")
            \/ \E p : Exit(r, p)
        BY <4>1 DEF pass
      <4>4. out' = [out EXCEPT ![Out(r)].summary = summary]
        BY <4>1 DEF pass
      <4> HIDE DEF summary
      <4> QED
        BY <4>2, <4>3, <4>4
    <3>2. /\ RunMoves(r) /\ run'[r].pc \in GatePcs \cup Over
          /\ InTool(run'[r].pc, job[r].gate)
      <4>1. CASE job[r].gate = "refresh" /\ GoesTo(r, "audit lint")
        <5>1. RunMoves(r) /\ run'[r].pc = "audit lint"
          BY <4>1, Goes
        <5> QED
          BY <4>1, <5>1 DEF Audits
      <4>2. CASE \E pass : Exit(r, pass)
        BY <4>2, Exits, EndIsInTool
      <4> QED
        BY <3>1, <4>1, <4>2
    <3> QED
      BY <1>0, <1>15, <3>1, <3>2, GateSummarises DEF LintVerdict, Tools
  <2> QED
    BY <1>15, <2>1, <1>fail DEF LintVerdict
<1>16. CASE AuditLint(r)
  <2>1. PICK audit : /\ out' = [out EXCEPT ![Out(r)].audit = audit]
                     /\ GoesTo(r, "write spec") \/ Exit(r, FALSE)
    BY <1>16 DEF AuditLint
  <2>2. /\ RunMoves(r) /\ run'[r].pc \in {"write spec", "ended"}
    BY <2>1, Exits, Goes
  <2> QED
    BY <1>0, <1>16, <2>1, <2>2, EndIsInTool, GateWrites DEF AuditLint
<1>17. CASE WriteSpec(r)
  <2>1. CASE GoesTo(r, "write waiver")
    <3>1. /\ DOMAIN repo' = RepoFields
          /\ repo'.source = repo.source /\ repo'.tracked = repo.tracked
      BY <1>17 DEF WriteSpec, Shape, RepoFields
    <3>2. RunMoves(r) /\ run'[r].pc = "write waiver"
      BY <2>1, Goes
    <3> QED
      BY <1>0, <1>17, <3>1, <3>2, GateKeeps DEF WriteSpec
  <2> QED
    BY <1>17, <2>1, <1>exit DEF WriteSpec
<1>18. CASE WriteWaiver(r)
  <2>1. /\ DOMAIN repo' = RepoFields
        /\ repo'.source = repo.source /\ repo'.tracked = repo.tracked
    BY <1>18 DEF WriteWaiver, Shape, RepoFields
  <2>2. RunMoves(r) /\ run'[r].pc = "refreshed"
    BY <1>18, Goes DEF WriteWaiver
  <2> QED
    BY <1>0, <1>18, <2>1, <2>2, GateKeeps DEF WriteWaiver
<1>19. CASE SummariseRefresh(r)
  <2> DEFINE summary == [gate |-> "refresh", by |-> r, pass |-> TRUE,
                         rtl |-> out[Out(r)].audit.rtl]
  <2>1. Exit(r, TRUE) /\ out' = [out EXCEPT ![Out(r)].summary = summary]
    BY <1>19 DEF SummariseRefresh
  <2> QED
    BY <1>0, <1>19, <2>1, <1>passes DEF SummariseRefresh, Tools
<1> QED
  BY <1>1, <1>2, <1>3, <1>4, <1>5, <1>6, <1>7, <1>8, <1>9, <1>10, <1>11, <1>12,
     <1>13, <1>14, <1>15, <1>16, <1>17, <1>18, <1>19 DEF GateStep

(***************************************************************************)
(* Every step is one of a tool, one that only concerns the record of a run,  *)
(* an edit, or nothing to the tools.                                         *)
(***************************************************************************)
QuietFrame(r) ==
    /\ Moves(r) /\ UNCHANGED out /\ job[r] # None
    /\ repo'.source = repo.source
    /\ repo'.spec = repo.spec /\ repo'.waiver = repo.waiver
    /\ \/ repo'.tracked = repo.tracked
       \/ \E o \in Outs : out[o].rtl # None /\ repo'.tracked = out[o].rtl
    /\ \/ /\ run[r] = NewRun /\ run'[r].pc = job[r].gate
          /\ run'[r] = [NewRun EXCEPT !.pc = job[r].gate]
          /\ UNCHANGED repo
       \/ run'[r].pc \in Over
       \/ /\ run[r].pc \in ScalaTry /\ run'[r].pc = "failing"
          /\ run'[r] = [run[r] EXCEPT !.pc = "failing"]
          /\ UNCHANGED repo

LEMMA QuietFrames ==
  ASSUME Shape, NEW r \in Runs,
         Invoke(r) \/ Install(r) \/ Kill(r) \/ Interrupt(r)
  PROVE  QuietFrame(r)
<1> USE DEF QuietFrame, Moves
<1>1. CASE Invoke(r)
  <2>1. RunMoves(r) /\ run'[r] = [run[r] EXCEPT !.pc = job[r].gate]
        /\ run'[r].pc = job[r].gate
    BY <1>1, Goes DEF Invoke
  <2>2. run[r] = NewRun
    BY <1>1 DEF Invoke, At, Shape
  <2> QED
    BY <1>1, <2>1, <2>2 DEF Invoke, OnlyRun, RunMoves, Shape
<1>2. CASE Install(r)
  <2>1. RunMoves(r) /\ run'[r].pc = "ended"
    BY <1>2, Exits DEF Install
  <2>2. job[r] # None /\ job[r].rtl \in Outs
    <3>1. job[r] # None /\ job[r].gate = "install"
      BY <1>2 DEF Install, At, Shape, InTool
    <3>2. PICK s \in Scenarios : job = s.jobs
      BY DEF Shape
    <3> QED
      BY <3>1, <3>2, JobsAssumption
  <2>3. /\ DOMAIN repo' = RepoFields /\ repo'.source = repo.source
        /\ repo'.spec = repo.spec /\ repo'.waiver = repo.waiver
        /\ \/ repo'.tracked = repo.tracked
           \/ \E o \in Outs : out[o].rtl # None /\ repo'.tracked = out[o].rtl
    BY <1>2, <2>2 DEF Install, Shape, RepoFields
  <2> QED
    BY <1>2, <2>1, <2>2, <2>3 DEF Install, At, RunMoves, Shape, Over
<1>3. CASE Kill(r)
  <2>1. RunMoves(r) /\ run'[r].pc = "killed"
    BY <1>3 DEF Kill, RunMoves, Shape, NewRun, RunFields
  <2> QED
    BY <1>3, <2>1 DEF Kill, Live, RunMoves, Shape, Over
<1>4. CASE Interrupt(r)
  <2>1. RunMoves(r) /\ run'[r] = [run[r] EXCEPT !.pc = "failing"]
        /\ run'[r].pc = "failing"
    BY <1>4, Goes DEF Interrupt
  <2> QED
    BY <1>4, <2>1 DEF Interrupt, RunMoves, Shape, ScalaTry
<1> QED
  BY <1>1, <1>2, <1>3, <1>4

(* An edit changes the source for another one, or makes the RTL of an        *)
(* OUT_DIR the tracked one, or leaves both.                                  *)
EditFrame ==
    /\ UNCHANGED << job, run, out >> /\ DOMAIN repo' = RepoFields
    /\ repo'.source \in Sources \/ repo'.source = repo.source
    /\ \/ repo'.tracked = repo.tracked
       \/ \E o \in Outs : out[o].rtl # None /\ repo'.tracked = out[o].rtl
    /\ repo'.spec = repo.spec /\ repo'.waiver = repo.waiver

LEMMA EditFrames ==
  ASSUME Shape, Edit
  PROVE  EditFrame
BY DEF Shape, Edit, EditFrame, RepoFields

LEMMA Steps ==
  ASSUME Shape, [Next]_vars
  PROVE  \/ \E r \in Runs : \/ ScalaStep(r) /\ ScalaFrame(r)
                            \/ GenerateStep(r) /\ GenerateFrame(r)
                            \/ GateStep(r) /\ GateFrame(r)
                            \/ (Invoke(r) \/ Install(r) \/ Kill(r) \/ Interrupt(r))
                               /\ QuietFrame(r)
         \/ Edit /\ EditFrame
         \/ UNCHANGED << job, run, out, repo >>
<1>1. CASE \E r \in Runs : RunStep(r) \/ Install(r) \/ Kill(r) \/ Interrupt(r)
  BY <1>1, ScalaFrames, GenerateFrames, GateFrames, QuietFrames DEF RunStep
<1>2. CASE Edit
  BY <1>2, EditFrames
<1>3. CASE UNCHANGED gateVars
  BY <1>3 DEF gateVars
<1> QED
  BY <1>1, <1>2, <1>3 DEF Next, vars

LEMMA ShapeMoves ==
  ASSUME Shape, NEW r \in Runs, Moves(r), job[r] # None,
         run'[r].pc # "idle", InTool(run'[r].pc, job[r].gate)
  PROVE  Shape'
BY DEF Shape, Moves

THEOREM ShapeInvariant == Spec => []Shape
<1>1. Init => Shape
  <2> SUFFICES ASSUME Init PROVE Shape
    OBVIOUS
  <2>1. PICK s \in Scenarios : job = s.jobs /\ repo = s.repo
    BY DEF Init, GateInit
  <2>2. DOMAIN repo = RepoFields
    BY <2>1, RepositoryAssumption DEF RepoFields
  <2>3. DOMAIN NewRun = RunFields /\ NewRun.pc = "idle" /\ DOMAIN NewOut = OutFields
    BY DEF NewRun, RunFields, NewOut, OutFields
  <2> QED
    BY <2>1, <2>2, <2>3 DEF Init, GateInit, Shape
<1>2. Shape /\ [Next]_vars => Shape'
  <2> SUFFICES ASSUME Shape, [Next]_vars PROVE Shape'
    OBVIOUS
  <2>1. ASSUME NEW r \in Runs, ScalaFrame(r) PROVE Shape'
    <3>1. job[r] # None /\ job[r].gate = "scala"
      BY <2>1 DEF ScalaFrame, Shape, InTool, ScalaPcs, ScalaTry
    <3>2. run'[r].pc # "idle" /\ InTool(run'[r].pc, job[r].gate)
      BY <2>1, <3>1 DEF ScalaFrame, InTool, ScalaPcs, ScalaTry, GeneratePcs, PackagePcs,
         PublishPcs, ContractPcs, AuditPcs, YosysPcs, LintPcs, RefreshPcs, Over
    <3> QED
      BY <2>1, <3>1, <3>2, ShapeMoves DEF ScalaFrame
  <2>2. ASSUME NEW r \in Runs, GenerateFrame(r) PROVE Shape'
    <3>1. job[r] # None /\ job[r].gate = "generate"
      BY <2>2 DEF GenerateFrame, Shape, InTool, GeneratePcs
    <3>2. run'[r].pc # "idle" /\ InTool(run'[r].pc, job[r].gate)
      BY <2>2, <3>1 DEF GenerateFrame, InTool, ScalaPcs, ScalaTry, GeneratePcs,
         PackagePcs, PublishPcs, ContractPcs, AuditPcs, YosysPcs, LintPcs, RefreshPcs, Over
    <3> QED
      BY <2>2, <3>1, <3>2, ShapeMoves DEF GenerateFrame
  <2>3. ASSUME NEW r \in Runs, GateFrame(r) PROVE Shape'
    <3>1. job[r] # None /\ run'[r].pc # "idle"
      BY <2>3 DEF GateFrame, Shape, GatePcs, ContractPcs, PackagePcs, PublishPcs,
         AuditPcs, YosysPcs, LintPcs, RefreshPcs, Over
    <3> QED
      BY <2>3, <3>1, ShapeMoves DEF GateFrame
  <2>4. ASSUME NEW r \in Runs, QuietFrame(r) PROVE Shape'
    <3>1. run'[r].pc # "idle" /\ InTool(run'[r].pc, job[r].gate)
      <4>1. CASE run'[r].pc = job[r].gate
        <5>1. job[r].gate \in Tools
          BY <2>4, JobTypes DEF QuietFrame
        <5> QED
          BY <4>1, <5>1 DEF Tools, InTool, ScalaPcs, ScalaTry, GeneratePcs,
             PackagePcs, PublishPcs, ContractPcs, AuditPcs, YosysPcs, LintPcs,
             RefreshPcs, Audits
      <4>2. CASE run'[r].pc \in Over
        BY <4>2, EndIsInTool DEF Over
      <4>3. CASE run[r].pc \in ScalaTry /\ run'[r].pc = "failing"
        BY <4>3, <2>4 DEF Shape, QuietFrame, InTool, ScalaPcs, ScalaTry, GeneratePcs,
           PackagePcs, PublishPcs, ContractPcs, AuditPcs, YosysPcs, LintPcs, RefreshPcs
      <4> QED
        BY <2>4, <4>1, <4>2, <4>3 DEF QuietFrame
    <3> QED
      BY <2>4, <3>1, ShapeMoves DEF QuietFrame
  <2>5. ASSUME EditFrame PROVE Shape'
    BY <2>5 DEF EditFrame, Shape
  <2>6. ASSUME UNCHANGED << job, run, out, repo >> PROVE Shape'
    BY <2>6 DEF Shape
  <2> QED
    BY <2>1, <2>2, <2>3, <2>4, <2>5, <2>6, Steps
<1> QED
  BY <1>1, <1>2, PTL DEF Spec

(***************************************************************************)
(* The gate lock.                                                            *)
(***************************************************************************)
LEMMA ScalaLocks ==
  ASSUME Shape, NEW r \in Runs, ScalaStep(r), ScalaFrame(r)
  PROVE  \/ /\ out[Out(r)].lock = None /\ out'[Out(r)].lock = r
         \/ /\ out'[Out(r)].lock = out[Out(r)].lock
            /\ InGate(r) \/ run'[r].pc = "ended"
         \/ InGate(r) /\ run'[r].pc = "ended"
<1> USE DEF At, OnlyRun, RunAndOut, InGate, ScalaTry
<1>0. Out(r) \in Outs
  BY JobTypes DEF ScalaFrame, Shape, ScalaPcs
<1>1. CASE AcquireGateLock(r)
  <2>1. CASE out[Out(r)].lock = None
    BY <1>0, <1>1, <2>1 DEF AcquireGateLock, Shape, OutFields
  <2>2. CASE out[Out(r)].lock # None
    BY <1>1, <2>2, Exits DEF AcquireGateLock
  <2> QED
    BY <2>1, <2>2
<1>2. CASE VerifyToolchain(r)
  BY <1>2 DEF VerifyToolchain
<1>3. CASE FingerprintSource(r)
  BY <1>3 DEF FingerprintSource
<1>4. CASE CopySource(r)
  BY <1>4 DEF CopySource
<1>5. CASE CompareCopy(r)
  BY <1>5 DEF CompareCopy
<1>6. CASE RunTask(r)
  BY <1>0, <1>6 DEF RunTask, Shape, OutFields
<1>7. CASE AuditSimulation(r)
  BY <1>7 DEF AuditSimulation
<1>8. CASE CloseFingerprints(r)
  BY <1>8 DEF CloseFingerprints
<1>9. CASE WriteSummary(r)
  BY <1>0, <1>9 DEF WriteSummary, Shape, OutFields
<1>10. CASE RemoveGateLock(r)
  BY <1>10, Exits DEF RemoveGateLock
<1> QED
  BY <1>1, <1>2, <1>3, <1>4, <1>5, <1>6, <1>7, <1>8, <1>9, <1>10 DEF ScalaStep

(* At most one scala-check works in an OUT_DIR.  A lock file that stands     *)
(* names the run that took it, and only a run that is at work removes it, so *)
(* it is its own.                                                            *)
THEOREM LockIsHeld == Spec => []OneScalaRunPerOut
<1>1. Init => OneScalaRunPerOut
  BY DEF Init, GateInit, NewRun, OneScalaRunPerOut, InGate, ScalaTry
<1>2. Shape /\ Shape' /\ OneScalaRunPerOut /\ [Next]_vars => OneScalaRunPerOut'
  <2> SUFFICES ASSUME Shape, OneScalaRunPerOut, [Next]_vars,
                      NEW q \in Runs, InGate(q)'
               PROVE  (out[Out(q)].lock = q)'
    BY DEF OneScalaRunPerOut
  <2> USE DEF InGate, ScalaTry
  <2>1. ASSUME NEW r \in Runs, ScalaStep(r), ScalaFrame(r)
        PROVE  out'[job'[q].out].lock = q
    <3>1. job[q].out = Out(q) /\ job'[q].out = Out(q)
      BY <2>1 DEF ScalaFrame, Moves, Out
    <3>2. CASE q = r
      BY <2>1, <3>1, <3>2, ScalaLocks DEF OneScalaRunPerOut
    <3>3. CASE q # r
      <4>1. InGate(q) /\ out[Out(q)].lock = q
        BY <2>1, <3>3 DEF ScalaFrame, Moves, OneScalaRunPerOut
      <4>2. CASE Out(q) # Out(r)
        <5>1. Out(q) \in Outs
          BY <4>1, JobTypes DEF Shape
        <5> QED
          BY <2>1, <3>1, <4>1, <4>2, <5>1 DEF ScalaFrame, Moves
      <4>3. CASE Out(q) = Out(r)
        <5>1. out[Out(r)].lock # None /\ ~ InGate(r)
          BY <3>3, <4>1, <4>3, NoneAssumption DEF OneScalaRunPerOut
        <5> QED
          BY <2>1, <3>1, <4>1, <4>3, <5>1, ScalaLocks
      <4> QED
        BY <4>2, <4>3
    <3> QED
      BY <3>2, <3>3
  <2>2. ASSUME NEW r \in Runs, job' = job, InGate(q),
               \A o \in Outs : out'[o].lock = out[o].lock
        PROVE  out'[job'[q].out].lock = q
    <3>1. Out(q) \in Outs /\ out[Out(q)].lock = q
      BY <2>2, JobTypes DEF Shape, OneScalaRunPerOut
    <3> QED
      BY <2>2, <3>1 DEF Out
  <2>3. ASSUME NEW r \in Runs, GenerateFrame(r) PROVE out'[job'[q].out].lock = q
    BY <2>2, <2>3 DEF GenerateFrame, Moves, GeneratePcs, Over
  <2>4. ASSUME NEW r \in Runs, GateFrame(r) PROVE out'[job'[q].out].lock = q
    BY <2>2, <2>4 DEF GateFrame, Moves, GatePcs, ContractPcs, PackagePcs, PublishPcs,
       AuditPcs, YosysPcs, LintPcs, RefreshPcs, Over
  <2>5. ASSUME NEW r \in Runs, QuietFrame(r) PROVE out'[job'[q].out].lock = q
    <3>1. job[r].gate \in Tools
      BY <2>5, JobTypes DEF QuietFrame
    <3> QED
      BY <2>2, <2>5, <3>1 DEF QuietFrame, Moves, Tools, Over
  <2>6. ASSUME EditFrame \/ UNCHANGED << job, run, out, repo >>
        PROVE  out'[job'[q].out].lock = q
    BY <2>2, <2>6 DEF EditFrame
  <2> QED
    BY <2>1, <2>3, <2>4, <2>5, <2>6, Steps DEF Out
<1> QED
  BY <1>1, <1>2, ShapeInvariant, PTL DEF Spec

(***************************************************************************)
(* What a passing scala-check stands for.                                    *)
(***************************************************************************)
Results == [passed : BOOLEAN, on : Sources \cup {None}]

(* Every task passed, on the source.                                         *)
Whole(results, source) ==
    /\ Len(results) = Len(Tasks)
    /\ \A n \in DOMAIN results : results[n].passed /\ results[n].on = source

(* The copy is the fingerprinted source until a task changes it, and then it *)
(* never is again: if it is at the end, it was at every task.                *)
ScalaRun(x) ==
    /\ x.pc \in {"scala", "locked", "fingerprint", "copy", "compare"}
       => x.results = << >>
    /\ x.pc \in {"copy", "compare", "task", "audit", "after", "finish"}
       => x.before \in Sources
    /\ x.pc = "compare" => x.copy \in Sources
    /\ x.pc \in {"task", "audit", "after"} =>
          /\ x.copy \in {x.before, None} /\ x.results \in Seq(Results)
          /\ x.copy = x.before
             => \A n \in 1 .. Len(x.results) : x.results[n].on = x.before
    /\ x.pc = "task" => Len(x.results) < 4
    /\ x.pc \in {"audit", "after"} => Len(x.results) = 4
    /\ x.pc = "finish" /\ x.passed => Whole(x.results, x.before)

ScalaInv ==
    /\ repo.source \in Sources
    /\ \A r \in Runs : ScalaRun(run[r])

LEMMA FourTasks == Len(Tasks) = 4
BY DEF Tasks

LEMMA ScalaRuns ==
  ASSUME Shape, NEW r \in Runs, ScalaStep(r), ScalaRun(run[r]),
         repo.source \in Sources
  PROVE  ScalaRun(run'[r])
<1> USE DEF At, OnlyRun, RunAndOut, Shape, RunFields
<1>1. CASE AcquireGateLock(r)
  <2>1. CASE out[Out(r)].lock = None
    BY <1>1, <2>1 DEF AcquireGateLock, GoesTo, ScalaRun
  <2>2. CASE out[Out(r)].lock # None
    BY <1>1, <2>2, Exits DEF AcquireGateLock, ScalaRun
  <2> QED
    BY <2>1, <2>2
<1>2. CASE VerifyToolchain(r)
  BY <1>2 DEF VerifyToolchain, GoesTo, ScalaRun
<1>3. CASE FingerprintSource(r)
  BY <1>3 DEF FingerprintSource, ScalaRun
<1>4. CASE CopySource(r)
  BY <1>4 DEF CopySource, ScalaRun
<1>5. CASE CompareCopy(r)
  <2>1. CASE run' = [run EXCEPT ![r].pc = "task"] /\ run[r].copy = run[r].before
    <3>1. run[r].results = << >>
      BY <1>5 DEF CompareCopy, ScalaRun
    <3>2. << >> \in Seq(Results) /\ Len(<< >>) = 0
      OBVIOUS
    <3>3. run[r].before \in Sources
      BY <1>5 DEF CompareCopy, ScalaRun
    <3>4. /\ run'[r].pc = "task" /\ run'[r].results = << >>
          /\ run'[r].before = run[r].before /\ run'[r].copy = run[r].before
      BY <2>1, <3>1
    <3> QED
      BY <3>2, <3>3, <3>4 DEF ScalaRun
  <2>2. CASE run' = [run EXCEPT ![r].pc = "failing"]
    BY <1>5, <2>2 DEF CompareCopy, ScalaRun
  <2> QED
    BY <1>5, <2>1, <2>2 DEF CompareCopy, GoesTo
<1>6. CASE RunTask(r)
  <2>1. PICK kept \in BOOLEAN, passed \in BOOLEAN :
          run' = [run EXCEPT
            ![r].results = Append(run[r].results, [passed |-> passed, on |-> run[r].copy]),
            ![r].copy = IF kept THEN @ ELSE None,
            ![r].pc = IF Len(run[r].results) + 1 = Len(Tasks) THEN "audit" ELSE "task"]
    BY <1>6, ZenonT(60) DEF RunTask, TaskPassed
  <2> DEFINE x == run[r]
             last == [passed |-> passed, on |-> run[r].copy]
             y == Append(x.results, last)
  <2>2. /\ x.results \in Seq(Results) /\ Len(x.results) < 4 /\ x.before \in Sources
        /\ x.copy \in {x.before, None}
        /\ x.copy = x.before => \A n \in 1 .. Len(x.results) : x.results[n].on = x.before
    BY <1>6 DEF RunTask, ScalaRun
  <2>3. last \in Results /\ last.on = x.copy
    BY <2>2 DEF Results
  <2> HIDE DEF last
  <2>4. /\ y \in Seq(Results) /\ Len(y) = Len(x.results) + 1
        /\ \A n \in 1 .. Len(x.results) : y[n] = x.results[n]
        /\ y[Len(x.results) + 1] = last
    BY <2>2, <2>3
  <2>5. /\ run'[r].results = y
        /\ run'[r].before = x.before
        /\ run'[r].copy \in {x.copy, None}
        /\ run'[r].pc = IF Len(x.results) + 1 = 4 THEN "audit" ELSE "task"
    BY <2>1, FourTasks DEF last
  <2> HIDE DEF y
  <2>6. x.copy = x.before => \A n \in 1 .. Len(y) : y[n].on = x.before
    BY <2>2, <2>3, <2>4
  <2>7. run'[r].copy = x.before => \A n \in 1 .. Len(y) : y[n].on = x.before
    BY <2>2, <2>5, <2>6
  <2>8. Len(x.results) \in Nat
    BY <2>2
  <2>9. /\ run'[r].pc = "task" => Len(y) < 4
        /\ run'[r].pc = "audit" => Len(y) = 4
        /\ run'[r].pc \in {"task", "audit"}
    BY <2>2, <2>4, <2>5, <2>8
  <2> QED
    BY <2>2, <2>4, <2>5, <2>7, <2>9 DEF ScalaRun
<1>7. CASE AuditSimulation(r)
  BY <1>7 DEF AuditSimulation, ScalaRun
<1>8. CASE CloseFingerprints(r)
  <2> DEFINE x == run[r]
  <2>1. /\ run'[r].pc = "finish" /\ run'[r].results = x.results
        /\ run'[r].before = x.before
        /\ run'[r].passed => /\ x.copy = x.before
                             /\ \A n \in DOMAIN x.results : x.results[n].passed
    BY <1>8 DEF CloseFingerprints
  <2>2. /\ x.results \in Seq(Results) /\ Len(x.results) = 4 /\ x.before \in Sources
        /\ x.copy = x.before
             => \A n \in 1 .. Len(x.results) : x.results[n].on = x.before
    BY <1>8 DEF CloseFingerprints, ScalaRun
  <2>3. run'[r].passed => Whole(x.results, x.before)
    BY <2>1, <2>2, FourTasks DEF Whole
  <2> QED
    BY <2>1, <2>2, <2>3 DEF ScalaRun
<1>9. CASE WriteSummary(r)
  <2>1. run'[r].pc = "unlock"
    BY <1>9 DEF WriteSummary
  <2> QED
    BY <2>1 DEF ScalaRun
<1>10. CASE RemoveGateLock(r)
  BY <1>10, Exits DEF RemoveGateLock, ScalaRun
<1> QED
  BY <1>1, <1>2, <1>3, <1>4, <1>5, <1>6, <1>7, <1>8, <1>9, <1>10 DEF ScalaStep

(* A scala-check writes a passing summary only when it finished.             *)
LEMMA ScalaSummaries ==
  ASSUME Shape, NEW r \in Runs, ScalaStep(r), ScalaFrame(r), ScalaRun(run[r]),
         NEW o \in Outs
  PROVE  LET s == out'[o].summary
         IN  s = out[o].summary \/ ~ s.pass \/ Whole(s.results, s.source)
<1> USE DEF At, OnlyRun, RunAndOut
<1>0. CASE o # Out(r)
  BY <1>0 DEF ScalaFrame, Moves
<1> SUFFICES ASSUME o = Out(r)
             PROVE  LET s == out'[o].summary
                    IN  s = out[o].summary \/ ~ s.pass \/ Whole(s.results, s.source)
  BY <1>0
<1>1. CASE AcquireGateLock(r)
  <2>1. CASE out[Out(r)].lock = None
    BY <1>1, <2>1 DEF AcquireGateLock, Shape, OutFields
  <2>2. CASE out[Out(r)].lock # None
    BY <1>1, <2>2 DEF AcquireGateLock
  <2> QED
    BY <2>1, <2>2
<1>2. CASE UNCHANGED out
  BY <1>2
<1>3. CASE RunTask(r)
  <2>1. PICK results : out' = [out EXCEPT ![Out(r)].summary =
                                 [NoSummary(r) EXCEPT !.results = results]]
    BY <1>3 DEF RunTask
  <2>2. ~ [NoSummary(r) EXCEPT !.results = results].pass
    BY DEF NoSummary
  <2> QED
    BY <2>1, <2>2, Summarises
<1>4. CASE WriteSummary(r)
  <2>1. PICK cleaned \in BOOLEAN :
          LET passed == cleaned /\ At(r, "finish") /\ run[r].passed
          IN  out' = [out EXCEPT ![Out(r)].summary =
                   [NoSummary(r) EXCEPT !.pass = passed,
                        !.source = run[r].before,
                        !.results = run[r].results,
                        !.script = run[r].text]]
    BY <1>4 DEF WriteSummary
  <2> DEFINE passed == cleaned /\ At(r, "finish") /\ run[r].passed
             s == [NoSummary(r) EXCEPT !.pass = passed,
                        !.source = run[r].before,
                        !.results = run[r].results,
                        !.script = run[r].text]
  <2>2. /\ s.pass = passed /\ s.source = run[r].before /\ s.results = run[r].results
    BY DEF NoSummary
  <2>3. passed => Whole(run[r].results, run[r].before)
    BY DEF ScalaRun
  <2>4. out' = [out EXCEPT ![Out(r)].summary = s]
    BY <2>1
  <2> HIDE DEF passed, s
  <2>5. out'[Out(r)].summary = s
    BY <2>4, Summarises
  <2> QED
    BY <2>2, <2>3, <2>5
<1>5. CASE RemoveGateLock(r)
  BY <1>5 DEF RemoveGateLock, Shape, OutFields
<1> QED
  BY <1>1, <1>2, <1>3, <1>4, <1>5 DEF ScalaStep, VerifyToolchain, FingerprintSource,
     CopySource, CompareCopy, AuditSimulation, CloseFingerprints

THEOREM ScalaPassIsWhole == Spec => []ScalaPassIsOfOneSource
<1> DEFINE Inv == ScalaInv /\ ScalaPassIsOfOneSource
<1>1. Init => Inv
  <2> SUFFICES ASSUME Init PROVE Inv
    OBVIOUS
  <2>1. repo.source \in Sources
    BY RepositoryAssumption DEF Init, GateInit
  <2>2. \A r \in Runs : ScalaRun(run[r])
    BY DEF Init, GateInit, NewRun, ScalaRun
  <2>3. ScalaPassIsOfOneSource
    BY DEF Init, GateInit, NewOut, ScalaPassIsOfOneSource, Passed, Summary
  <2> QED
    BY <2>1, <2>2, <2>3 DEF ScalaInv
<1>2. Shape /\ Inv /\ [Next]_vars => Inv'
  <2> SUFFICES ASSUME Shape, Inv, [Next]_vars PROVE Inv'
    OBVIOUS
  <2>0. repo.source \in Sources /\ \A r \in Runs : ScalaRun(run[r])
    BY DEF ScalaInv
  <2>00. ASSUME NEW x, x.pc \notin ScalaPcs PROVE ScalaRun(x)
    BY <2>00 DEF ScalaRun, ScalaPcs, ScalaTry
  <2> DEFINE Passing(s) == s # None /\ s.gate = "scala" /\ s.pass
                           => Whole(s.results, s.source)
  <2>p. ScalaPassIsOfOneSource <=> \A o \in Outs : Passing(out[o].summary)
    BY DEF ScalaPassIsOfOneSource, Passed, Summary, Whole
  <2>q. ScalaPassIsOfOneSource' <=> \A o \in Outs : Passing(out'[o].summary)
    BY DEF ScalaPassIsOfOneSource, Passed, Summary, Whole
  <2>1. ASSUME repo'.source \in Sources, \A r \in Runs : ScalaRun(run'[r]),
               \A o \in Outs : Passing(out'[o].summary)
        PROVE  Inv'
    BY <2>1, <2>q DEF ScalaInv
  <2>2. ASSUME NEW r \in Runs, ScalaStep(r), ScalaFrame(r) PROVE Inv'
    <3>1. \A q \in Runs : ScalaRun(run'[q])
      <4>1. ScalaRun(run'[r])
        BY <2>0, <2>2, ScalaRuns
      <4> QED
        BY <2>0, <2>2, <4>1 DEF ScalaFrame, Moves
    <3>2. \A o \in Outs : Passing(out'[o].summary)
      BY <2>0, <2>2, <2>p, ScalaSummaries
    <3> QED
      BY <2>0, <2>2, <2>1, <3>1, <3>2 DEF ScalaFrame
  <2>3. ASSUME NEW r \in Runs, GenerateFrame(r) PROVE Inv'
    <3>1. \A q \in Runs : ScalaRun(run'[q])
      <4>1. ScalaRun(run'[r])
        BY <2>3, <2>00 DEF GenerateFrame, GeneratePcs, Over, ScalaPcs, ScalaTry
      <4> QED
        BY <2>0, <2>3, <4>1 DEF GenerateFrame, Moves
    <3>2. \A o \in Outs : Passing(out'[o].summary)
      BY <2>3, <2>p DEF GenerateFrame
    <3> QED
      BY <2>0, <2>3, <2>1, <3>1, <3>2 DEF GenerateFrame
  <2>4. ASSUME NEW r \in Runs, GateFrame(r) PROVE Inv'
    <3>1. \A q \in Runs : ScalaRun(run'[q])
      <4>1. ScalaRun(run'[r])
        BY <2>4, <2>00 DEF GateFrame, GatePcs, ContractPcs, PackagePcs, PublishPcs,
           AuditPcs, YosysPcs, LintPcs, RefreshPcs, Over, ScalaPcs, ScalaTry
      <4> QED
        BY <2>0, <2>4, <4>1 DEF GateFrame, Moves
    <3>2. \A o \in Outs : Passing(out'[o].summary)
      BY <2>4, <2>p DEF GateFrame, Tools
    <3> QED
      BY <2>0, <2>4, <2>1, <3>1, <3>2 DEF GateFrame
  <2>5. ASSUME NEW r \in Runs, QuietFrame(r) PROVE Inv'
    <3>1. \A q \in Runs : ScalaRun(run'[q])
      <4>1. ScalaRun(run'[r])
        <5>1. CASE run'[r] = [NewRun EXCEPT !.pc = job[r].gate]
          <6>1. job[r].gate \in Tools
            BY <2>5, JobTypes DEF QuietFrame
          <6>2. run'[r].pc = job[r].gate /\ run'[r].results = << >>
            BY <5>1 DEF NewRun
          <6> QED
            BY <6>1, <6>2 DEF Tools, ScalaRun
        <5>2. CASE run'[r].pc \in Over \cup {"failing"}
          BY <5>2 DEF ScalaRun, Over
        <5> QED
          BY <2>5, <5>1, <5>2 DEF QuietFrame
      <4> QED
        BY <2>0, <2>5, <4>1 DEF QuietFrame, Moves
    <3> QED
      BY <2>0, <2>5, <2>1, <2>p, <3>1 DEF QuietFrame
  <2>6. ASSUME EditFrame \/ UNCHANGED << job, run, out, repo >> PROVE Inv'
    BY <2>0, <2>1, <2>p, <2>6 DEF EditFrame
  <2> QED
    BY <2>2, <2>3, <2>4, <2>5, <2>6, Steps
<1>3. Inv => ScalaPassIsOfOneSource
  OBVIOUS
<1> QED
  BY <1>1, <1>2, <1>3, ShapeInvariant, PTL DEF Spec

(***************************************************************************)
(* What a passing spinal-generate stands for.                                *)
(***************************************************************************)
Plain == {x \in Rtls : x.marks = 0 /\ ~ x.guarded}

LEMMA ElaboratedTypes ==
  ASSUME NEW source \in Sources, NEW variant \in Variants
  PROVE  /\ Elaborated(source, variant) \in Plain
         /\ Elaborated(source, variant).of = source
BY SourcesAssumption DEF Elaborated, Rtls, Plain

Elaborateds == [passed : BOOLEAN, rtl : Plain \cup {None}]

(* Every elaboration passed, with one RTL.                                   *)
Same(results) ==
    /\ Len(results) = Elaborations
    /\ \A n \in DOMAIN results :
          results[n].passed /\ results[n].rtl = results[1].rtl

GenRun(x) ==
    /\ x.pc \in {"generate", "parse", "before"} => x.results = << >>
    /\ x.pc \in {"elaborate", "run main", "inputs again", "publish rtl", "summarise"}
       => /\ x.results \in Seq(Elaborateds)
          /\ \A n \in 1 .. Len(x.results) : x.results[n].passed =>
                x.results[n].rtl # None /\ x.results[n].rtl.of = x.before.source
    /\ x.pc = "run main" => x.copy.source \in Sources
    /\ x.pc \in {"elaborate", "run main"} => Len(x.results) < Elaborations
    /\ x.pc \in {"inputs again", "publish rtl", "summarise"}
       => Len(x.results) = Elaborations
    /\ x.pc \in {"publish rtl", "summarise"} =>
          x.passed \in BOOLEAN /\ (x.passed => Same(x.results))

(* One RTL for all of them.                                                  *)
LEMMA ReproducibleIsSame ==
  ASSUME NEW r, run[r].results \in Seq(Elaborateds), Reproducible(r)
  PROVE  \A m, n \in DOMAIN run[r].results :
            run[r].results[m].rtl = run[r].results[n].rtl
<1> DEFINE S == DOMAIN run[r].results
           f == [n \in S |-> run[r].results[n].rtl]
<1>1. IsFiniteSet(S)
  <2>1. S = 1 .. Len(run[r].results) /\ Len(run[r].results) \in Nat
    OBVIOUS
  <2> HIDE DEF S
  <2>2. IsFiniteSet(1 .. Len(run[r].results))
    <3>1. 1 \in Int /\ Len(run[r].results) \in Int
      BY <2>1
    <3> QED
      BY <3>1, FS_Interval
  <2> QED
    BY <2>1, <2>2
<1>2. f \in Surjection(S, Payloads(r))
  BY DEF Payloads, Surjection
<1>3. IsFiniteSet(Payloads(r))
  BY <1>1, <1>2, FS_Surjection
<1>4. PICK x : Payloads(r) = {x}
  BY <1>3, FS_Singleton DEF Reproducible
<1> QED
  BY <1>4 DEF Payloads

LEMMA GenRuns ==
  ASSUME Shape, NEW r \in Runs, GenerateStep(r), GenRun(run[r]),
         repo.source \in Sources
  PROVE  GenRun(run'[r])
<1> USE DEF At, OnlyRun, RunAndOut, Shape, RunFields
<1>0. ASSUME NEW x, x.pc = "ended" PROVE GenRun(x)
  BY <1>0 DEF GenRun
<1>1. CASE ValidateRequest(r)
  <2>1. CASE Exit(r, FALSE)
    <3>1. run'[r].pc = "ended"
      BY <2>1, Exits
    <3> QED
      BY <3>1, <1>0
  <2>2. CASE GoesTo(r, "parse")
    <3>1. run'[r].pc = "parse" /\ run'[r].results = run[r].results
      BY <2>2 DEF GoesTo
    <3> QED
      BY <1>1, <3>1 DEF ValidateRequest, GenRun
  <2> QED
    BY <1>1, <2>1, <2>2 DEF ValidateRequest
<1>2. CASE ParseManifest(r)
  BY <1>2 DEF ParseManifest, GenRun
<1>3. CASE FingerprintInputs(r)
  <2>1. CASE Exit(r, FALSE)
    <3>1. run'[r].pc = "ended"
      BY <2>1, Exits
    <3> QED
      BY <3>1, <1>0
  <2>2. CASE run' = [run EXCEPT ![r].before = Inputs, ![r].pc = "elaborate"]
    <3>1. run'[r].pc = "elaborate" /\ run'[r].results = << >>
      BY <1>3, <2>2 DEF FingerprintInputs, GenRun
    <3>2. /\ << >> \in Seq(Elaborateds) /\ Len(<< >>) = 0 /\ 0 < Elaborations
          /\ 1 .. 0 = {}
      BY RunsAreRepeated
    <3> QED
      BY <3>1, <3>2 DEF GenRun
  <2> QED
    BY <1>3, <2>1, <2>2 DEF FingerprintInputs
<1>4. CASE CopySnapshot(r)
  <2>1. CASE Exit(r, FALSE)
    <3>1. run'[r].pc = "ended"
      BY <2>1, Exits
    <3> QED
      BY <3>1, <1>0
  <2>2. CASE run' = [run EXCEPT
                     ![r].copy = [source |-> repo.source,
                                  manifest |-> repo.manifest, lock |-> repo.lock],
                     ![r].pc = "run main"]
    <3>1. /\ run'[r].pc = "run main" /\ run'[r].results = run[r].results
          /\ run'[r].before = run[r].before /\ run'[r].copy.source = repo.source
      BY <2>2
    <3>2. run[r].pc = "elaborate"
      BY <1>4 DEF CopySnapshot
    <3> QED
      BY <3>1, <3>2 DEF GenRun
  <2> QED
    BY <1>4, <2>1, <2>2 DEF CopySnapshot
<1>5. CASE Elaborate(r)
  <2> DEFINE x == run[r]
  <2>0. PICK output \in Outputs, kept \in BOOLEAN,
             rtl \in {Elaborated(x.copy.source, v) : v \in Variants} \cup {None} :
          LET results == Append(x.results,
               [passed |-> ElaborationPassed(r, output, kept) /\ Inspected(rtl),
                rtl |-> rtl])
          IN  run' = [run EXCEPT
               ![r].results = results, ![r].copy = None,
               ![r].pc = IF Len(results) = Elaborations THEN "inputs again"
                                                        ELSE "elaborate"]
    BY <1>5 DEF Elaborate
  <2> DEFINE passed == ElaborationPassed(r, output, kept) /\ Inspected(rtl)
             last == [passed |-> passed, rtl |-> rtl]
             y == Append(x.results, last)
  <2>1. /\ passed \in BOOLEAN
        /\ passed => rtl # None /\ x.copy.source = x.before.source
    BY DEF ElaborationPassed, Inspected
  <2>pc. x.pc = "run main"
    BY <1>5 DEF Elaborate
  <2>2. /\ x.results \in Seq(Elaborateds) /\ Len(x.results) < Elaborations
        /\ x.copy.source \in Sources
        /\ \A n \in 1 .. Len(x.results) : x.results[n].passed =>
                x.results[n].rtl # None /\ x.results[n].rtl.of = x.before.source
    BY <2>pc DEF GenRun
  <2> HIDE DEF passed
  <2>3. rtl # None => rtl \in Plain /\ rtl.of = x.copy.source
    BY <2>1, <2>2, ElaboratedTypes
  <2>4. last \in Elaborateds
    BY <2>1, <2>3 DEF Elaborateds
  <2>5. last.passed => last.rtl # None /\ last.rtl.of = x.before.source
    BY <2>1, <2>3
  <2>6. /\ run'[r].results = y /\ run'[r].before = x.before
        /\ run'[r].pc = IF Len(y) = Elaborations THEN "inputs again" ELSE "elaborate"
    BY <2>0 DEF passed
  <2> HIDE DEF last
  <2>7. /\ y \in Seq(Elaborateds) /\ Len(y) = Len(x.results) + 1
        /\ \A n \in 1 .. Len(x.results) : y[n] = x.results[n]
        /\ y[Len(x.results) + 1] = last /\ Len(x.results) \in Nat
    BY <2>2, <2>4
  <2> HIDE DEF y
  <2>8. \A n \in 1 .. Len(y) : y[n].passed =>
                y[n].rtl # None /\ y[n].rtl.of = x.before.source
    BY <2>2, <2>5, <2>7
  <2>9. /\ run'[r].pc = "elaborate" => Len(y) < Elaborations
        /\ run'[r].pc = "inputs again" => Len(y) = Elaborations
        /\ run'[r].pc \in {"elaborate", "inputs again"}
    <3>1. PICK m \in Nat : m = Len(x.results) /\ m < Elaborations /\ Len(y) = m + 1
      BY <2>2, <2>7
    <3>2. Len(y) < Elaborations \/ Len(y) = Elaborations
      BY <3>1, RunsAreRepeated
    <3>3. run'[r].pc = IF Len(y) = Elaborations THEN "inputs again" ELSE "elaborate"
      BY <2>6
    <3> QED
      BY <3>2, <3>3
  <2> QED
    BY <2>6, <2>7, <2>8, <2>9 DEF GenRun
<1>6. CASE FingerprintAgain(r)
  <2>1. CASE ~ DependenciesVerified(r)
    BY <1>6, <2>1, Exits DEF FingerprintAgain, GenRun
  <2>2. CASE DependenciesVerified(r)
    <3> DEFINE x == run[r]
    <3>1. /\ run'[r].pc = "publish rtl" /\ run'[r].results = x.results
          /\ run'[r].before = x.before /\ run'[r].passed \in BOOLEAN
          /\ run'[r].passed => /\ \A n \in DOMAIN x.results : x.results[n].passed
                               /\ Reproducible(r)
      <4> DEFINE passed == /\ \A n \in DOMAIN x.results : x.results[n].passed
                           /\ Reproducible(r) /\ StableInputs(r)
      <4>1. run' = [run EXCEPT ![r].passed = passed, ![r].pc = "publish rtl"]
        BY <1>6, <2>2 DEF FingerprintAgain
      <4>2. /\ passed \in BOOLEAN
            /\ passed => /\ \A n \in DOMAIN x.results : x.results[n].passed
                         /\ Reproducible(r)
        BY DEF Reproducible, StableInputs
      <4> HIDE DEF passed
      <4> QED
        BY <4>1, <4>2
    <3>2. /\ x.results \in Seq(Elaborateds) /\ Len(x.results) = Elaborations
          /\ \A n \in 1 .. Len(x.results) : x.results[n].passed =>
                x.results[n].rtl # None /\ x.results[n].rtl.of = x.before.source
      BY <1>6 DEF FingerprintAgain, GenRun
    <3>3. 1 \in DOMAIN x.results
      BY <3>2, RunsAreRepeated
    <3>4. run'[r].passed => Same(x.results)
      BY <3>1, <3>2, <3>3, ReproducibleIsSame, ZenonT(60) DEF Same
    <3> QED
      BY <3>1, <3>2, <3>4 DEF GenRun
  <2> QED
    BY <2>1, <2>2
<1>7. CASE PublishRtl(r)
  BY <1>7 DEF PublishRtl, GoesTo, GenRun
<1>8. CASE SummariseGeneration(r)
  BY <1>8, Exits DEF SummariseGeneration, GenRun
<1> QED
  BY <1>1, <1>2, <1>3, <1>4, <1>5, <1>6, <1>7, <1>8 DEF GenerateStep

(* It has made the first workspace of its OUT_DIR, and has not summarised.   *)
Generating(x) ==
    \/ x.pc \in {"run main", "inputs again", "publish rtl", "summarise"}
    \/ x.pc = "elaborate" /\ x.results # << >>

(* The four ways a generation goes on: before its first workspace or with    *)
(* it, between two elaborations, when it publishes, when it summarises.      *)
EarlyStep(x, x1, o, o1) ==
    /\ ~ Generating(x) /\ o1.rtl = o.rtl /\ o1.summary = o.summary
    /\ Generating(x1) =>
          x1.pc = "run main" /\ 1 \notin o.workspaces /\ 1 \in o1.workspaces
InnerStep(x, x1, o, o1) ==
    /\ Generating(x) /\ x.pc # "summarise" /\ x1.pc # "summarise"
    /\ o1.rtl = o.rtl /\ o1.summary = o.summary
PublishStep(x, x1, o, o1) ==
    /\ x.pc = "publish rtl" /\ x1.pc = "summarise"
    /\ x1.passed = x.passed /\ x1.results = x.results
    /\ o1.rtl = (IF x.passed THEN x.results[1].rtl ELSE o.rtl)
    /\ o1.summary = o.summary
SummaryStep(r, x, x1, o, o1) ==
    /\ x.pc = "summarise" /\ x1.pc = "ended" /\ o1.rtl = o.rtl
    /\ o1.summary = [gate |-> "generate", by |-> r, pass |-> x.passed,
                     source |-> x.before.source, head |-> x.before.head,
                     rtl |-> o.rtl, results |-> x.results]

LEMMA GenSteps ==
  ASSUME Shape, NEW r \in Runs, GenerateStep(r), GenRun(run[r])
  PROVE  /\ out[Out(r)].workspaces \subseteq out'[Out(r)].workspaces
         /\ \/ EarlyStep(run[r], run'[r], out[Out(r)], out'[Out(r)])
            \/ InnerStep(run[r], run'[r], out[Out(r)], out'[Out(r)])
            \/ PublishStep(run[r], run'[r], out[Out(r)], out'[Out(r)])
            \/ SummaryStep(r, run[r], run'[r], out[Out(r)], out'[Out(r)])
<1> USE DEF At, OnlyRun, RunAndOut
<1>0. Out(r) \in Outs
  BY JobTypes, GenerateFrames DEF GenerateFrame, Shape, GeneratePcs
<1>1. CASE ValidateRequest(r)
  <2>1. run'[r].pc \in {"parse", "ended"}
    BY <1>1, Exits, Goes DEF ValidateRequest
  <2> QED
    BY <1>1, <2>1 DEF ValidateRequest, EarlyStep, Generating
<1>2. CASE ParseManifest(r)
  <2>1. run'[r].pc = "before"
    BY <1>2 DEF ParseManifest, Shape, RunFields
  <2>2. /\ out'[Out(r)].workspaces = out[Out(r)].workspaces
        /\ out'[Out(r)].rtl = out[Out(r)].rtl
        /\ out'[Out(r)].summary = out[Out(r)].summary
    BY <1>0, <1>2 DEF ParseManifest, Shape, OutFields
  <2> QED
    BY <1>2, <2>1, <2>2 DEF ParseManifest, EarlyStep, Generating
<1>3. CASE FingerprintInputs(r)
  <2>1. CASE Exit(r, FALSE)
    <3>1. run'[r].pc = "ended"
      BY <2>1, Exits
    <3> QED
      BY <1>3, <3>1 DEF FingerprintInputs, EarlyStep, Generating
  <2>2. CASE run' = [run EXCEPT ![r].before = Inputs, ![r].pc = "elaborate"]
    <3>1. run'[r].pc = "elaborate" /\ run'[r].results = << >>
      BY <1>3, <2>2 DEF FingerprintInputs, GenRun, Shape, RunFields
    <3> QED
      BY <1>3, <3>1 DEF FingerprintInputs, EarlyStep, Generating
  <2> QED
    BY <1>3, <2>1, <2>2 DEF FingerprintInputs
<1>4. CASE CopySnapshot(r)
  <2> DEFINE n == Len(run[r].results) + 1
  <2>1. CASE n \in out[Out(r)].workspaces
    <3>1. run'[r].pc = "ended" /\ UNCHANGED out
      BY <1>4, <2>1, Exits DEF CopySnapshot
    <3> QED
      BY <1>4, <3>1 DEF CopySnapshot, EarlyStep, InnerStep, Generating
  <2>2. CASE n \notin out[Out(r)].workspaces
    <3>1. out' = [out EXCEPT ![Out(r)].workspaces = @ \cup {n}]
      BY <1>4, <2>2 DEF CopySnapshot
    <3>2. run'[r].pc = "run main"
      BY <1>4, <2>2, ZenonT(60) DEF CopySnapshot, Shape, RunFields
    <3>3. /\ out'[Out(r)].workspaces = out[Out(r)].workspaces \cup {n}
          /\ out'[Out(r)].rtl = out[Out(r)].rtl
          /\ out'[Out(r)].summary = out[Out(r)].summary
      BY <1>0, <3>1 DEF Shape, OutFields
    <3>4. CASE run[r].results = << >>
      <4>1. n = 1
        BY <3>4
      <4> QED
        BY <1>4, <2>2, <3>2, <3>3, <3>4, <4>1 DEF CopySnapshot, EarlyStep, Generating
    <3>5. CASE run[r].results # << >>
      BY <1>4, <3>2, <3>3, <3>5 DEF CopySnapshot, InnerStep, Generating
    <3> QED
      BY <3>4, <3>5
  <2> QED
    BY <2>1, <2>2
<1>5. CASE Elaborate(r)
  <2>1. run'[r].pc \in {"elaborate", "inputs again"}
    <3>1. PICK results, pc :
          /\ run' = [run EXCEPT ![r].results = results, ![r].copy = None, ![r].pc = pc]
          /\ pc \in {"inputs again", "elaborate"}
      BY <1>5, ZenonT(60) DEF Elaborate
    <3> QED
      BY <3>1 DEF Shape, RunFields
  <2> QED
    BY <1>5, <2>1 DEF Elaborate, InnerStep, Generating
<1>6. CASE FingerprintAgain(r)
  <2>1. run'[r].pc \in {"publish rtl", "ended"}
    <3>1. CASE DependenciesVerified(r)
      <4>1. PICK passed :
            run' = [run EXCEPT ![r].passed = passed, ![r].pc = "publish rtl"]
        BY <1>6, <3>1 DEF FingerprintAgain
      <4> QED
        BY <4>1 DEF Shape, RunFields
    <3>2. CASE ~ DependenciesVerified(r)
      BY <1>6, <3>2, Exits DEF FingerprintAgain
    <3> QED
      BY <3>1, <3>2
  <2> QED
    BY <1>6, <2>1 DEF FingerprintAgain, InnerStep, Generating
<1>7. CASE PublishRtl(r)
  <2>1. /\ run'[r].pc = "summarise" /\ run'[r].passed = run[r].passed
        /\ run'[r].results = run[r].results
    BY <1>7 DEF PublishRtl, GoesTo, Shape, RunFields
  <2>2. /\ out'[Out(r)].workspaces = out[Out(r)].workspaces
        /\ out'[Out(r)].rtl = (IF run[r].passed THEN run[r].results[1].rtl
                                               ELSE out[Out(r)].rtl)
        /\ out'[Out(r)].summary = out[Out(r)].summary
    BY <1>0, <1>7 DEF PublishRtl, Shape, OutFields
  <2> QED
    BY <1>7, <2>1, <2>2 DEF PublishRtl, PublishStep
<1>8. CASE SummariseGeneration(r)
  <2>1. run'[r].pc = "ended"
    BY <1>8, Exits DEF SummariseGeneration
  <2> DEFINE summary == [gate |-> "generate", by |-> r, pass |-> run[r].passed,
                     source |-> run[r].before.source, head |-> run[r].before.head,
                     rtl |-> out[Out(r)].rtl, results |-> run[r].results]
  <2>2. out' = [out EXCEPT ![Out(r)].summary = summary]
    BY <1>8 DEF SummariseGeneration
  <2> HIDE DEF summary
  <2>3. /\ out'[Out(r)].workspaces = out[Out(r)].workspaces
        /\ out'[Out(r)].rtl = out[Out(r)].rtl
        /\ out'[Out(r)].summary = summary
    BY <1>0, <2>2 DEF Shape, OutFields
  <2> QED
    BY <1>8, <2>1, <2>3 DEF SummariseGeneration, SummaryStep, summary
<1> QED
  BY <1>1, <1>2, <1>3, <1>4, <1>5, <1>6, <1>7, <1>8 DEF GenerateStep

(* What stands in the OUT_DIR of a generation: nothing before its first      *)
(* workspace, its own RTL between publication and summary, and after that    *)
(* what the summary says, since no later one gets a workspace there.         *)
IsGenerate(s) == s # None /\ s.gate = "generate"
Starts(r) == job[r] # None /\ job[r].gate = "generate"

Published(x, o) ==
    o.rtl = IF x.pc = "summarise" /\ x.passed THEN x.results[1].rtl ELSE None

Stands(o) ==
    /\ o.summary.pass \in BOOLEAN
    /\ o.rtl # None <=> o.summary.pass
    /\ o.summary.pass =>
          /\ Len(o.summary.results) = Elaborations
          /\ o.rtl = o.summary.rtl
          /\ \A n \in DOMAIN o.summary.results :
                /\ o.summary.results[n].passed
                /\ o.summary.results[n].rtl = o.summary.rtl
                /\ o.summary.results[n].rtl.of = o.summary.source

GenerationsInv ==
    /\ \A r \in Runs : Generating(run[r]) =>
          /\ 1 \in out[Out(r)].workspaces /\ ~ IsGenerate(out[Out(r)].summary)
          /\ Published(run[r], out[Out(r)])
    /\ \A q, r \in Runs :
          Generating(run[q]) /\ Generating(run[r]) /\ Out(q) = Out(r) => q = r
    /\ \A r \in Runs : Starts(r) /\ 1 \notin out[Out(r)].workspaces
                       => out[Out(r)].rtl = None
    /\ \A o \in Outs : IsGenerate(out[o].summary) =>
          /\ Stands(out[o]) /\ 1 \in out[o].workspaces
          /\ \E r \in Runs : Starts(r) /\ Out(r) = o

LEMMA GeneratingStarts ==
  ASSUME Shape, NEW r \in Runs, Generating(run[r])
  PROVE  Starts(r) /\ Out(r) \in Outs
<1>1. run[r].pc \in GeneratePcs
  BY DEF Generating, GeneratePcs
<1>2. Starts(r)
  BY <1>1 DEF Shape, InTool, GeneratePcs, Starts
<1> QED
  BY <1>2, JobTypes DEF Starts

(* No other tool disturbs it.                                                *)
LEMMA GenerationsKept ==
  ASSUME Shape, GenerationsInv, job' = job,
         \A q \in Runs : Generating(run'[q]) => run'[q] = run[q],
         \A o \in Outs : out'[o].workspaces = out[o].workspaces,
         \A o \in Outs : \/ out'[o].summary = out[o].summary
                         \/ ~ IsGenerate(out'[o].summary),
         \A r \in Runs : Starts(r) => out'[Out(r)].rtl = out[Out(r)].rtl
  PROVE  GenerationsInv'
<1> USE DEF GenerationsInv
<1>1. \A r \in Runs : Starts(r) => Out(r) \in Outs
  BY JobTypes DEF Starts
<1>2. \A r \in Runs : Starts(r)' <=> Starts(r)
  BY DEF Starts
<1>3. \A r \in Runs : Out(r)' = Out(r)
  BY DEF Out
<1>4. \A r \in Runs : Generating(run'[r]) =>
         /\ Generating(run[r]) /\ run'[r] = run[r] /\ Starts(r) /\ Out(r) \in Outs
  BY GeneratingStarts
<1>5. \A r \in Runs : Generating(run'[r]) =>
          /\ 1 \in out'[Out(r)].workspaces /\ ~ IsGenerate(out'[Out(r)].summary)
          /\ Published(run'[r], out'[Out(r)])
  BY <1>4 DEF Published
<1>6. \A q, r \in Runs :
          Generating(run'[q]) /\ Generating(run'[r]) /\ Out(q) = Out(r) => q = r
  BY <1>4
<1>7. \A r \in Runs : Starts(r) /\ 1 \notin out'[Out(r)].workspaces
                       => out'[Out(r)].rtl = None
  BY <1>1
<1>8. ASSUME NEW o \in Outs, IsGenerate(out'[o].summary)
      PROVE  /\ Stands(out'[o]) /\ 1 \in out'[o].workspaces
             /\ \E r \in Runs : Starts(r) /\ Out(r) = o
  <2>1. out'[o].summary = out[o].summary
    BY <1>8
  <2>2. /\ Stands(out[o]) /\ 1 \in out[o].workspaces
        /\ \E r \in Runs : Starts(r) /\ Out(r) = o
    BY <1>8, <2>1
  <2>3. out'[o].rtl = out[o].rtl
    BY <2>2
  <2> QED
    BY <2>1, <2>2, <2>3 DEF Stands
<1> QED
  BY <1>2, <1>3, <1>5, <1>6, <1>7, <1>8

(* A step of a generation itself.                                            *)
LEMMA GenerationsStep ==
  ASSUME Shape, GenerationsInv, NEW r \in Runs, GenerateStep(r), GenerateFrame(r),
         GenRun(run[r])
  PROVE  GenerationsInv'
<1> DEFINE d == Out(r)
<1>0. /\ Starts(r) /\ d \in Outs
      /\ job' = job /\ \A q \in Runs \ {r} : run'[q] = run[q]
      /\ \A o \in Outs \ {d} : out'[o] = out[o]
  <2>1. Starts(r)
    BY DEF GenerateFrame, Shape, InTool, GeneratePcs, Starts
  <2> QED
    BY <2>1, JobTypes DEF Starts, GenerateFrame, Moves
<1>1. \A q \in Runs : (Starts(q)' <=> Starts(q)) /\ Out(q)' = Out(q)
  BY <1>0 DEF Starts, Out
<1>2. /\ out[d].workspaces \subseteq out'[d].workspaces
      /\ \/ EarlyStep(run[r], run'[r], out[d], out'[d])
         \/ InnerStep(run[r], run'[r], out[d], out'[d])
         \/ PublishStep(run[r], run'[r], out[d], out'[d])
         \/ SummaryStep(r, run[r], run'[r], out[d], out'[d])
  BY GenSteps
<1>3. \A q \in Runs \ {r} : Generating(run[q]) /\ Out(q) = d
                            => ~ Generating(run[r]) /\ 1 \in out[d].workspaces
  BY DEF GenerationsInv
<1>g. Generating(run[r]) =>
          /\ 1 \in out[d].workspaces /\ ~ IsGenerate(out[d].summary)
          /\ Published(run[r], out[d])
  BY DEF GenerationsInv
<1> DEFINE Held(q) == /\ 1 \in out'[Out(q)].workspaces
                      /\ ~ IsGenerate(out'[Out(q)].summary)
                      /\ Published(run'[q], out'[Out(q)])
(* What each of the four does to its run and its OUT_DIR.                    *)
<1>4. Generating(run'[r]) => Held(r)
  <2>1. CASE EarlyStep(run[r], run'[r], out[d], out'[d])
    <3> SUFFICES ASSUME Generating(run'[r]) PROVE Held(r)
      OBVIOUS
    <3>1. /\ run'[r].pc = "run main" /\ 1 \notin out[d].workspaces
          /\ 1 \in out'[d].workspaces
          /\ out'[d].rtl = out[d].rtl /\ out'[d].summary = out[d].summary
      BY <2>1 DEF EarlyStep
    <3>2. out[d].rtl = None /\ ~ IsGenerate(out[d].summary)
      BY <1>0, <3>1 DEF GenerationsInv
    <3> QED
      BY <3>1, <3>2 DEF Published
  <2>2. CASE InnerStep(run[r], run'[r], out[d], out'[d])
    BY <1>2, <1>g, <2>2 DEF InnerStep, Published
  <2>3. CASE PublishStep(run[r], run'[r], out[d], out'[d])
    <3>1. /\ run[r].pc = "publish rtl" /\ run'[r].pc = "summarise"
          /\ run'[r].passed = run[r].passed /\ run'[r].results = run[r].results
          /\ out'[d].rtl = (IF run[r].passed THEN run[r].results[1].rtl
                                             ELSE out[d].rtl)
          /\ out'[d].summary = out[d].summary
      BY <2>3 DEF PublishStep
    <3>2. Generating(run[r]) /\ out[d].rtl = None
      BY <1>g, <3>1 DEF Generating, Published
    <3> QED
      BY <1>2, <1>g, <3>1, <3>2 DEF Published
  <2>4. CASE SummaryStep(r, run[r], run'[r], out[d], out'[d])
    BY <2>4 DEF SummaryStep, Generating
  <2> QED
    BY <1>2, <2>1, <2>2, <2>3, <2>4
(* Another one that has begun keeps this one from a first workspace.         *)
<1>5. ASSUME NEW q \in Runs \ {r}, Generating(run'[q])
      PROVE  Held(q) /\ (Out(q) = d => ~ Generating(run'[r]))
  <2>0. run'[q] = run[q] /\ Generating(run[q]) /\ Out(q) \in Outs
    BY <1>0, <1>5, GeneratingStarts
  <2>1. /\ 1 \in out[Out(q)].workspaces /\ ~ IsGenerate(out[Out(q)].summary)
        /\ Published(run[q], out[Out(q)])
    BY <2>0 DEF GenerationsInv
  <2>2. CASE Out(q) # d
    BY <1>0, <2>0, <2>1, <2>2
  <2>3. CASE Out(q) = d
    <3>1. ~ Generating(run[r]) /\ 1 \in out[d].workspaces
      BY <1>3, <2>0, <2>3
    <3>2. EarlyStep(run[r], run'[r], out[d], out'[d])
      BY <1>2, <3>1 DEF InnerStep, PublishStep, SummaryStep, Generating
    <3> QED
      BY <1>2, <2>0, <2>1, <2>3, <3>1, <3>2 DEF EarlyStep, Published
  <2> QED
    BY <2>2, <2>3
<1>6. \A p, q \in Runs :
          Generating(run'[p]) /\ Generating(run'[q]) /\ Out(p) = Out(q) => p = q
  BY <1>0, <1>5 DEF GenerationsInv
<1>7. ASSUME NEW q \in Runs, Starts(q), 1 \notin out'[Out(q)].workspaces
      PROVE  out'[Out(q)].rtl = None
  <2>1. Out(q) \in Outs
    BY <1>7, JobTypes DEF Starts
  <2>2. CASE Out(q) # d
    BY <1>0, <1>7, <2>1, <2>2 DEF GenerationsInv
  <2>3. CASE Out(q) = d
    <3>1. 1 \notin out[d].workspaces /\ out[d].rtl = None
      BY <1>2, <1>7, <2>3 DEF GenerationsInv
    <3>2. ~ Generating(run[r])
      BY <1>g, <3>1
    <3>3. EarlyStep(run[r], run'[r], out[d], out'[d])
      BY <1>2, <3>2 DEF InnerStep, PublishStep, SummaryStep, Generating
    <3> QED
      BY <2>3, <3>1, <3>3 DEF EarlyStep
  <2> QED
    BY <2>2, <2>3
<1>8. ASSUME NEW o \in Outs, IsGenerate(out'[o].summary)
      PROVE  /\ Stands(out'[o]) /\ 1 \in out'[o].workspaces
             /\ \E q \in Runs : Starts(q) /\ Out(q) = o
  <2>1. CASE out'[o].summary = out[o].summary /\ out'[o].rtl = out[o].rtl
             /\ out[o].workspaces \subseteq out'[o].workspaces
    <3>1. /\ Stands(out[o]) /\ 1 \in out[o].workspaces
          /\ \E q \in Runs : Starts(q) /\ Out(q) = o
      BY <1>8, <2>1 DEF GenerationsInv
    <3> QED
      BY <2>1, <3>1 DEF Stands
  <2>2. CASE o # d
    BY <1>0, <2>1, <2>2
  <2>3. CASE o = d /\ SummaryStep(r, run[r], run'[r], out[d], out'[d])
    <3> DEFINE x == run[r]
    <3>1. Generating(x) /\ x.pc = "summarise"
      BY <2>3 DEF SummaryStep, Generating
    <3>2. /\ 1 \in out[d].workspaces
          /\ out[d].rtl = IF x.passed THEN x.results[1].rtl ELSE None
      BY <1>g, <3>1 DEF Published
    <3>3. /\ out'[d].rtl = out[d].rtl
          /\ out'[d].summary.pass = x.passed
          /\ out'[d].summary.source = x.before.source
          /\ out'[d].summary.rtl = out[d].rtl
          /\ out'[d].summary.results = x.results
      BY <2>3 DEF SummaryStep
    <3>4. /\ x.results \in Seq(Elaborateds) /\ x.passed \in BOOLEAN
          /\ \A n \in 1 .. Len(x.results) : x.results[n].passed =>
                x.results[n].rtl # None /\ x.results[n].rtl.of = x.before.source
          /\ x.passed => Same(x.results)
      BY <3>1 DEF GenRun
    <3>5. ASSUME x.passed
          PROVE  /\ Len(x.results) = Elaborations /\ x.results[1].rtl # None
                 /\ \A n \in DOMAIN x.results :
                      /\ x.results[n].passed /\ x.results[n].rtl = x.results[1].rtl
                      /\ x.results[n].rtl.of = x.before.source
      <4>1. Same(x.results) /\ DOMAIN x.results = 1 .. Len(x.results)
        BY <3>4, <3>5
      <4>2. 1 \in DOMAIN x.results
        BY <4>1, RunsAreRepeated DEF Same
      <4> QED
        BY <3>4, <4>1, <4>2 DEF Same
    <3> HIDE DEF x
    <3>6. Stands(out'[d])
      BY <3>2, <3>3, <3>4, <3>5 DEF Stands
    <3> QED
      BY <1>0, <1>2, <2>3, <3>2, <3>6
  <2>4. CASE o = d /\ ~ SummaryStep(r, run[r], run'[r], out[d], out'[d])
    <3>1. out'[d].summary = out[d].summary
      BY <1>2, <2>4 DEF EarlyStep, InnerStep, PublishStep
    <3>2. ~ Generating(run[r])
      BY <1>8, <1>g, <2>4, <3>1
    <3>3. out'[d].rtl = out[d].rtl
      BY <1>2, <2>4, <3>2 DEF EarlyStep, InnerStep, PublishStep, Generating
    <3> QED
      BY <1>2, <2>1, <2>4, <3>1, <3>3
  <2> QED
    BY <2>2, <2>3, <2>4
<1>9. \A q \in Runs : Generating(run'[q]) => Held(q)
  BY <1>4, <1>5
<1> QED
  BY <1>1, <1>6, <1>7, <1>8, <1>9 DEF GenerationsInv

GenerationInv ==
    /\ repo.source \in Sources
    /\ \A r \in Runs : GenRun(run[r])
    /\ GenerationsInv

(* What main of tools/spinal_generate.py keeps of a generation and of the    *)
(* OUT_DIR that it made, whatever is edited and whoever else asks for it.    *)
THEOREM GenerationInvariant == Spec => []GenerationInv
<1>1. Init => GenerationInv
  <2> SUFFICES ASSUME Init PROVE GenerationInv
    OBVIOUS
  <2>1. repo.source \in Sources
    BY RepositoryAssumption DEF Init, GateInit
  <2>2. /\ run = [r \in Runs |-> NewRun] /\ out = [o \in Outs |-> NewOut]
        /\ NewRun.pc = "idle" /\ NewOut.rtl = None /\ NewOut.summary = None
    BY DEF Init, GateInit, NewRun, NewOut
  <2>3. \A r \in Runs : GenRun(run[r]) /\ ~ Generating(run[r])
    BY <2>2 DEF GenRun, Generating
  <2>4. \A r \in Runs : Starts(r) => Out(r) \in Outs
    BY JobsAssumption DEF Init, GateInit, Starts, Jobs, Out
  <2>5. GenerationsInv
    BY <2>2, <2>3, <2>4 DEF GenerationsInv, IsGenerate
  <2> QED
    BY <2>1, <2>3, <2>5 DEF GenerationInv
<1>2. Shape /\ GenerationInv /\ [Next]_vars => GenerationInv'
  <2> SUFFICES ASSUME Shape, GenerationInv, [Next]_vars PROVE GenerationInv'
    OBVIOUS
  <2>0. /\ repo.source \in Sources /\ \A r \in Runs : GenRun(run[r])
        /\ GenerationsInv
    BY DEF GenerationInv
  <2>00. ASSUME NEW x, x.pc \notin GeneratePcs PROVE GenRun(x) /\ ~ Generating(x)
    BY <2>00 DEF GenRun, Generating, GeneratePcs
  <2>a. ASSUME NEW r \in Runs, Starts(r) PROVE Out(r) \in Outs
    BY <2>a, JobTypes DEF Starts
(* A step of another tool.                                                   *)
  <2>1. ASSUME NEW r \in Runs, Moves(r), repo'.source = repo.source,
               GenRun(run'[r]) /\ ~ Generating(run'[r]),
               \A o \in Outs : out'[o].workspaces = out[o].workspaces,
               \A o \in Outs : \/ out'[o].summary = out[o].summary
                               \/ ~ IsGenerate(out'[o].summary),
               \A q \in Runs : Starts(q) => out'[Out(q)].rtl = out[Out(q)].rtl
        PROVE  GenerationInv'
    <3>1. job' = job /\ \A q \in Runs : Generating(run'[q]) => run'[q] = run[q]
      BY <2>1 DEF Moves
    <3>2. GenerationsInv'
      BY <2>0, <2>1, <3>1, GenerationsKept
    <3>3. \A q \in Runs : GenRun(run'[q])
      BY <2>0, <2>1 DEF Moves
    <3> QED
      BY <2>0, <2>1, <3>2, <3>3 DEF GenerationInv
  <2>2. ASSUME NEW r \in Runs, ScalaFrame(r) PROVE GenerationInv'
    <3>1. run'[r].pc \notin GeneratePcs
      BY <2>2 DEF ScalaFrame, GeneratePcs, Over, ScalaPcs, ScalaTry
    <3> QED
      BY <2>00, <2>1, <2>2, <2>a, <3>1 DEF ScalaFrame, IsGenerate
  <2>3. ASSUME NEW r \in Runs, GenerateStep(r), GenerateFrame(r)
        PROVE  GenerationInv'
    <3>1. \A q \in Runs : GenRun(run'[q])
      BY <2>0, <2>3, GenRuns DEF GenerateFrame, Moves
    <3>2. GenerationsInv'
      BY <2>0, <2>3, GenerationsStep
    <3> QED
      BY <2>0, <2>3, <3>1, <3>2 DEF GenerateFrame, GenerationInv
  <2>4. ASSUME NEW r \in Runs, GateFrame(r) PROVE GenerationInv'
    <3>1. run'[r].pc \notin GeneratePcs
      BY <2>4 DEF GateFrame, GatePcs, ContractPcs, PackagePcs, PublishPcs,
         AuditPcs, YosysPcs, LintPcs, RefreshPcs, Over, GeneratePcs
    <3>2. ASSUME NEW q \in Runs, Starts(q) PROVE out'[Out(q)].rtl = out[Out(q)].rtl
      <4>1. CASE run[r].pc # "write package"
        BY <2>4, <2>a, <3>2, <4>1 DEF GateFrame
      <4>2. CASE run[r].pc = "write package"
        <5>1. job[r] # None /\ job[r].gate = "package"
          BY <4>2 DEF Shape, InTool, PackagePcs
        <5>2. Out(q) # Out(r)
          BY <3>2, <5>1, OneKind DEF Starts, Audits
        <5> QED
          BY <2>4, <2>a, <3>2, <5>2 DEF GateFrame, Moves
      <4> QED
        BY <4>1, <4>2
    <3> QED
      BY <2>00, <2>1, <2>4, <3>1, <3>2 DEF GateFrame, IsGenerate
  <2>5. ASSUME NEW r \in Runs, QuietFrame(r) PROVE GenerationInv'
    <3>1. GenRun(run'[r]) /\ ~ Generating(run'[r])
      <4>1. CASE run'[r] = [NewRun EXCEPT !.pc = job[r].gate]
        <5>1. job[r].gate \in Tools
          BY <2>5, JobTypes DEF QuietFrame
        <5>2. run'[r].pc = job[r].gate /\ run'[r].results = << >>
          BY <4>1 DEF NewRun
        <5> QED
          BY <5>1, <5>2 DEF Tools, GenRun, Generating
      <4>2. CASE run'[r].pc \in Over \cup {"failing"}
        BY <2>00, <4>2 DEF GeneratePcs, Over
      <4> QED
        BY <2>5, <4>1, <4>2 DEF QuietFrame
    <3> QED
      BY <2>1, <2>5, <3>1 DEF QuietFrame
  <2>6. ASSUME EditFrame \/ UNCHANGED << job, run, out, repo >>
        PROVE  GenerationInv'
    <3>1. GenerationsInv'
      BY <2>0, <2>6, GenerationsKept DEF EditFrame
    <3> QED
      BY <2>0, <2>6, <3>1 DEF EditFrame, GenerationInv
  <2> QED
    BY <2>2, <2>3, <2>4, <2>5, <2>6, Steps
<1> QED
  BY <1>1, <1>2, ShapeInvariant, PTL DEF Spec

(* A passing generation stands for one source, and RTL in its OUT_DIR is of  *)
(* a run that passed, whoever else asks for the directory                    *)
(* (tools/spinal_generate.py).                                               *)
THEOREM GenerationIsWhole == Spec => []GeneratedFromOneSource
<1>1. Shape /\ GenerationInv => GeneratedFromOneSource
  <2> SUFFICES ASSUME Shape, GenerationInv PROVE GeneratedFromOneSource
    OBVIOUS
  <2>1. \A o \in Outs : IsGenerate(out[o].summary) => Stands(out[o])
    BY DEF GenerationInv, GenerationsInv
  <2>2. ASSUME NEW r \in Runs, run[r].pc \in {"publish rtl", "summarise"}
        PROVE  ~ IsGenerate(out[Out(r)].summary)
    BY <2>2 DEF GenerationInv, GenerationsInv, Generating
  <2> QED
    BY <2>1, <2>2 DEF GeneratedFromOneSource, Passed, Summary, IsGenerate, Stands
<1> QED
  BY <1>1, ShapeInvariant, GenerationInvariant, PTL

(***************************************************************************)
(* The RTL that the gates read.                                              *)
(***************************************************************************)
RtlOf(x) == /\ x \in Rtls
            /\ x.marks > 0 => x.guarded /\ x.tlbnum = "32"

Reads == {"write package", "package again", "packages again", "published",
          "snapshot", "verilator", "verdict", "yosys run", "audit lint",
          "write spec", "write waiver", "refreshed"}

(* A step of a gate keeps the text it read, or reads its input.              *)
LEMMA GateTexts ==
  ASSUME Shape, NEW r \in Runs, GateStep(r), run'[r].pc \in Reads
  PROVE  \/ /\ run'[r].text = InputRtl(r) /\ run[r].pc \notin Reads
            /\ InputRtl(r) \in {repo.tracked} \/ InputRtl(r) # None
            /\ run'[r].pc = "write package" => InputRtl(r).tlbnum \in {"none", "32"}
         \/ /\ run'[r].text = run[r].text /\ run[r].pc \in Reads
            /\ run'[r].pc # "write package"
<1> USE DEF At, OnlyRun, RunAndOut, Reads
<1>exit. ASSUME NEW passed, Exit(r, passed) PROVE FALSE
  BY <1>exit, Exits
<1>fail. ASSUME Fail(r) PROVE FALSE
  BY <1>fail, <1>exit DEF Fail
<1>goes. ASSUME NEW pc, GoesTo(r, pc), run[r].pc \in Reads, pc # "write package"
         PROVE  /\ run'[r].text = run[r].text /\ run[r].pc \in Reads
                /\ run'[r].pc # "write package"
  <2>1. run'[r] = [run[r] EXCEPT !.pc = pc] /\ run'[r].pc = pc
    BY <1>goes, Goes
  <2>2. DOMAIN run[r] = RunFields
    BY DEF Shape
  <2>3. run'[r].text = run[r].text
    BY <2>1, <2>2 DEF RunFields
  <2> QED
    BY <1>goes, <2>1, <2>3
<1>1. CASE BeginGate(r)
  <2>1. ASSUME NEW pc, GoesTo(r, pc), pc \notin Reads PROVE FALSE
    BY <2>1, Goes
  <2>2. /\ "contract sources" \notin Reads /\ "package input" \notin Reads
        /\ "prepare" \notin Reads
    OBVIOUS
  <2> QED
    BY <1>1, <2>1, <2>2, <1>exit DEF BeginGate
<1>2. CASE ContractGate(r)
  BY <1>2, <1>exit, <1>fail DEF ContractGate
<1>3. CASE ReadPackageInput(r)
  BY <1>3, <1>fail DEF ReadPackageInput, Shape, RunFields
<1>4. CASE WritePackage(r)
  BY <1>4, <1>fail, <1>goes DEF WritePackage
<1>5. CASE SummarisePackage(r)
  BY <1>5, <1>exit, <1>fail DEF SummarisePackage
<1>6. CASE ReadReplacement(r)
  <2>1. run'[r].pc = "packages"
    BY <1>6, <1>exit DEF ReadReplacement, Shape, RunFields
  <2> QED
    BY <2>1
<1>7. CASE ComparePackages(r)
  BY <1>7, <1>exit, ZenonT(60) DEF ComparePackages, Shape, RunFields
<1>8. CASE ConfirmPackages(r)
  BY <1>8, <1>exit, <1>goes DEF ConfirmPackages
<1>9. CASE SummarisePublication(r)
  BY <1>9, <1>exit DEF SummarisePublication
<1>10. CASE ReadCompleteRtl(r)
  <2>1. /\ run' = [run EXCEPT ![r].text = InputRtl(r), ![r].pc = "snapshot",
                              ![r].lock = repo.manifest]
        /\ InputRtl(r) # None /\ run[r].pc = "prepare"
    BY <1>10, <1>fail DEF ReadCompleteRtl
  <2>2. run'[r].text = InputRtl(r) /\ run'[r].pc = "snapshot"
    BY <2>1 DEF Shape, RunFields
  <2> QED
    BY <2>1, <2>2
<1>11. CASE SnapshotRtl(r)
  <2>1. \E pc \in {"yosys run", "verilator"} : GoesTo(r, pc)
    BY <1>11, <1>fail DEF SnapshotRtl
  <2> QED
    BY <1>11, <2>1, <1>goes DEF SnapshotRtl
<1>12. CASE PortCheck(r)
  BY <1>12, <1>exit, <1>fail DEF PortCheck, YosysEnds
<1>13. CASE YosysCheck(r)
  BY <1>13, <1>exit, <1>fail DEF YosysCheck, YosysEnds
<1>14. CASE LintPass(r)
  <2>1. /\ \E seen : run' = [run EXCEPT ![r].seen = seen, ![r].pc = "verdict"]
        /\ run[r].pc = "verilator"
    BY <1>14, <1>fail DEF LintPass
  <2>2. run'[r].text = run[r].text /\ run'[r].pc = "verdict"
    BY <2>1 DEF Shape, RunFields
  <2> QED
    BY <2>1, <2>2
<1>15. CASE LintVerdict(r)
  <2>1. GoesTo(r, "audit lint")
    BY <1>15, <1>exit, <1>fail DEF LintVerdict
  <2> QED
    BY <1>15, <2>1, <1>goes DEF LintVerdict
<1>16. CASE AuditLint(r)
  BY <1>16, <1>exit, <1>goes DEF AuditLint
<1>17. CASE WriteSpec(r)
  BY <1>17, <1>exit, <1>goes DEF WriteSpec
<1>18. CASE WriteWaiver(r)
  BY <1>18, <1>goes DEF WriteWaiver
<1>19. CASE SummariseRefresh(r)
  BY <1>19, <1>exit DEF SummariseRefresh
<1> QED
  BY <1>1, <1>2, <1>3, <1>4, <1>5, <1>6, <1>7, <1>8, <1>9, <1>10, <1>11, <1>12,
     <1>13, <1>14, <1>15, <1>16, <1>17, <1>18, <1>19 DEF GateStep

(* RTL comes into an OUT_DIR once: elaborated, or packaged.                  *)
LEMMA NewRtl ==
  ASSUME Shape, GenerationInv, NEW r \in Runs,
         \/ ScalaFrame(r)
         \/ GenerateStep(r) /\ GenerateFrame(r)
         \/ GateStep(r) /\ GateFrame(r)
         \/ QuietFrame(r),
         NEW o \in Outs, out'[o].rtl # out[o].rtl
  PROVE  /\ out[o].rtl = None
         /\ \/ out'[o].rtl \in Plain
            \/ run[r].pc = "write package" /\ out'[o].rtl = Packaged(run[r].text)
<1>1. CASE GenerateStep(r) /\ GenerateFrame(r)
  <2>1. GenRun(run[r]) /\ GenerationsInv
    BY DEF GenerationInv
  <2>2. o = Out(r)
    BY <1>1 DEF GenerateFrame, Moves
  <2>3. PublishStep(run[r], run'[r], out[o], out'[o])
    BY <1>1, <2>1, <2>2, GenSteps DEF EarlyStep, InnerStep, SummaryStep
  <2>4. /\ run[r].pc = "publish rtl" /\ run[r].passed
        /\ out'[o].rtl = run[r].results[1].rtl
    BY <2>3 DEF PublishStep
  <2>5. out[o].rtl = None
    BY <2>1, <2>2, <2>4 DEF GenerationsInv, Generating, Published
  <2>6. run[r].results[1].rtl \in Plain
    <3>1. run[r].results \in Seq(Elaborateds) /\ Same(run[r].results)
          /\ \A n \in 1 .. Len(run[r].results) : run[r].results[n].passed =>
                run[r].results[n].rtl # None
      BY <2>1, <2>4 DEF GenRun
    <3>2. 1 \in 1 .. Len(run[r].results)
      BY <3>1, RunsAreRepeated DEF Same
    <3>3. run[r].results[1] \in Elaborateds /\ run[r].results[1].rtl # None
      BY <3>1, <3>2 DEF Same
    <3> QED
      BY <3>3 DEF Elaborateds
  <2> QED
    BY <2>4, <2>5, <2>6
<1>2. CASE GateStep(r) /\ GateFrame(r)
  <2>1. run[r].pc = "write package" /\ o = Out(r)
    BY <1>2 DEF GateFrame, Moves
  <2>2. WritePackage(r)
    BY <1>2, <2>1 DEF GateStep, BeginGate, ContractGate, ReadPackageInput,
       SummarisePackage, ReadReplacement, ComparePackages, ConfirmPackages,
       SummarisePublication, ReadCompleteRtl, SnapshotRtl, PortCheck, YosysCheck,
       LintPass, LintVerdict, AuditLint, WriteSpec, WriteWaiver, SummariseRefresh, At
  <2>3. ~ Fail(r)
    BY <2>1 DEF Fail, Shape, OutFields
  <2> QED
    BY <2>1, <2>2, <2>3 DEF WritePackage, Shape, OutFields
<1> QED
  BY <1>1, <1>2 DEF ScalaFrame, QuietFrame

(* It was elaborated by a generation that stands, or with the first package. *)
TracedIn(x, j, outs) ==
    \/ \E p \in Outs : /\ outs[p].rtl # None /\ ~ outs[p].rtl.guarded
                       /\ Origin(outs[p].rtl) = Origin(x)
    \/ \E s \in Scenarios : s.jobs = j /\ Origin(s.repo.tracked) = Origin(x)

Known(x, j, outs) == RtlOf(x) /\ TracedIn(x, j, outs)

RtlInv ==
    /\ Known(repo.tracked, job, out)
    /\ \A o \in Outs : out[o].rtl # None => Known(out[o].rtl, job, out)
    /\ \A r \in Runs :
          /\ run[r].pc \in Reads => Known(run[r].text, job, out)
          /\ run[r].pc = "write package" => run[r].text.tlbnum \in {"none", "32"}

LEMMA InputIsKnown ==
  ASSUME Shape, RtlInv, NEW r \in Runs, job[r] # None,
         InputRtl(r) \in {repo.tracked} \/ InputRtl(r) # None
  PROVE  Known(InputRtl(r), job, out)
BY JobTypes DEF RtlInv, InputRtl

LEMMA PackagedIsKnown ==
  ASSUME NEW x, NEW j, NEW outs, Known(x, j, outs), x.tlbnum \in {"none", "32"}
  PROVE  Known(Packaged(x), j, outs)
<1>1. x \in Rtls
  BY DEF Known, RtlOf
<1>2. /\ TopParameter(x) \in Rtls /\ TopParameter(x).tlbnum = "32"
      /\ Origin(TopParameter(x)) = Origin(x)
  BY <1>1 DEF TopParameter, Rtls, Origin
<1>3. ASSUME NEW y \in Rtls
      PROVE  /\ ResetGuard(y) \in Rtls /\ ResetGuard(y).tlbnum = y.tlbnum
             /\ ResetGuard(y).guarded /\ Origin(ResetGuard(y)) = Origin(y)
  BY DEF ResetGuard, Rtls, Origin
<1>4. ASSUME NEW y \in Rtls
      PROVE  /\ Annotated(y) \in Rtls /\ Annotated(y).tlbnum = y.tlbnum
             /\ Annotated(y).guarded = y.guarded /\ Origin(Annotated(y)) = Origin(y)
  BY DEF Annotated, Rtls, Origin
<1>5. /\ Packaged(x) \in Rtls /\ Packaged(x).tlbnum = "32" /\ Packaged(x).guarded
      /\ Origin(Packaged(x)) = Origin(x)
  BY <1>2, <1>3, <1>4 DEF Packaged
<1> QED
  BY <1>5 DEF Known, RtlOf, TracedIn

(* What the gates read is RTL that was elaborated or packaged.               *)
THEOREM RtlInvariant == Spec => []RtlInv
<1>1. Init => RtlInv
  <2> SUFFICES ASSUME Init PROVE RtlInv
    OBVIOUS
  <2>1. PICK s \in Scenarios : job = s.jobs /\ repo = s.repo
    BY DEF Init, GateInit
  <2>2. Known(repo.tracked, job, out)
    BY <2>1, RepositoryAssumption DEF Known, RtlOf, TracedIn
  <2>3. /\ \A r \in Runs : run[r].pc = "idle"
        /\ \A o \in Outs : out[o].rtl = None
    BY DEF Init, GateInit, NewRun, NewOut
  <2> QED
    BY <2>2, <2>3 DEF RtlInv, Reads
<1>2. Shape /\ GenerationInv /\ RtlInv /\ [Next]_vars => RtlInv'
  <2> SUFFICES ASSUME Shape, GenerationInv, RtlInv, [Next]_vars PROVE RtlInv'
    OBVIOUS
(* Any step that keeps the texts, or reads an input.                         *)
  <2>1. ASSUME job' = job, NEW r \in Runs,
               \A q \in Runs \ {r} : run'[q] = run[q],
               \A o \in Outs : out[o].rtl # None => out'[o].rtl = out[o].rtl,
               \A o \in Outs : out'[o].rtl # out[o].rtl =>
                  \/ out'[o].rtl \in Plain
                  \/ /\ run[r].pc = "write package"
                     /\ out'[o].rtl = Packaged(run[r].text),
               \/ repo'.tracked = repo.tracked
               \/ \E o \in Outs : out[o].rtl # None /\ repo'.tracked = out[o].rtl,
               run'[r].pc \in Reads =>
                  \/ /\ Known(run'[r].text, job, out)
                     /\ run'[r].pc = "write package"
                        => run'[r].text.tlbnum \in {"none", "32"}
        PROVE  RtlInv'
    <3>1. \A x : Known(x, job, out) => Known(x, job', out')
      BY <2>1 DEF Known, TracedIn
    <3>2. Known(repo'.tracked, job', out')
      BY <2>1, <3>1 DEF RtlInv
    <3>3. ASSUME NEW o \in Outs, out'[o].rtl # None
          PROVE  Known(out'[o].rtl, job', out')
      <4>1. CASE out'[o].rtl = out[o].rtl
        BY <3>1, <3>3, <4>1 DEF RtlInv
      <4>2. CASE out'[o].rtl \in Plain
        BY <3>3, <4>2 DEF Plain, Known, RtlOf, TracedIn, Rtls
      <4>3. CASE run[r].pc = "write package" /\ out'[o].rtl = Packaged(run[r].text)
        <5>1. Known(run[r].text, job, out) /\ run[r].text.tlbnum \in {"none", "32"}
          BY <4>3 DEF RtlInv, Reads
        <5>2. Known(Packaged(run[r].text), job, out)
          BY <5>1, PackagedIsKnown
        <5> QED
          BY <3>1, <4>3, <5>2
      <4> QED
        BY <2>1, <4>1, <4>2, <4>3
    <3>4. ASSUME NEW q \in Runs
          PROVE  /\ run'[q].pc \in Reads => Known(run'[q].text, job', out')
                 /\ run'[q].pc = "write package"
                    => run'[q].text.tlbnum \in {"none", "32"}
      <4>1. CASE q = r
        BY <2>1, <3>1, <4>1 DEF Reads
      <4>2. CASE q # r
        BY <2>1, <3>1, <4>2 DEF RtlInv
      <4> QED
        BY <4>1, <4>2
    <3> QED
      BY <3>2, <3>3, <3>4 DEF RtlInv
  <2>r. ASSUME NEW r \in Runs,
               \/ ScalaFrame(r)
               \/ GenerateStep(r) /\ GenerateFrame(r)
               \/ GateStep(r) /\ GateFrame(r)
               \/ QuietFrame(r)
        PROVE  /\ job' = job /\ \A q \in Runs \ {r} : run'[q] = run[q]
               /\ \A o \in Outs : out[o].rtl # None => out'[o].rtl = out[o].rtl
               /\ \A o \in Outs : out'[o].rtl # out[o].rtl =>
                     \/ out'[o].rtl \in Plain
                     \/ /\ run[r].pc = "write package"
                        /\ out'[o].rtl = Packaged(run[r].text)
    <3>1. job' = job /\ \A q \in Runs \ {r} : run'[q] = run[q]
      BY <2>r DEF ScalaFrame, GenerateFrame, GateFrame, QuietFrame, Moves
    <3> QED
      BY <2>r, <3>1, NewRtl
  <2>2. ASSUME NEW r \in Runs, ScalaFrame(r) PROVE RtlInv'
    <3>1. run'[r].pc \notin Reads /\ repo'.tracked = repo.tracked
      BY <2>2 DEF ScalaFrame, ScalaPcs, ScalaTry, Over, Reads
    <3>2. /\ job' = job /\ \A q \in Runs \ {r} : run'[q] = run[q]
          /\ \A o \in Outs : out'[o].rtl = out[o].rtl
      BY <2>2 DEF ScalaFrame, Moves
    <3> QED
      BY <2>1, <3>1, <3>2
  <2>3. ASSUME NEW r \in Runs, GenerateStep(r), GenerateFrame(r) PROVE RtlInv'
    <3>1. run'[r].pc \notin Reads /\ repo'.tracked = repo.tracked
      BY <2>3 DEF GenerateFrame, GeneratePcs, Over, Reads
    <3> QED
      BY <2>1, <2>3, <2>r, <3>1
  <2>4. ASSUME NEW r \in Runs, GateStep(r), GateFrame(r) PROVE RtlInv'
    <3>1. repo'.tracked = repo.tracked
      BY <2>4 DEF GateFrame
    <3>2. job[r] # None
      BY <2>4 DEF GateFrame, Shape, GatePcs, ContractPcs, PackagePcs, PublishPcs,
         AuditPcs, YosysPcs, LintPcs, RefreshPcs
    <3>3. ASSUME run'[r].pc \in Reads
          PROVE  /\ Known(run'[r].text, job, out)
                 /\ run'[r].pc = "write package"
                    => run'[r].text.tlbnum \in {"none", "32"}
      <4>1. CASE /\ run'[r].text = InputRtl(r)
                 /\ InputRtl(r) \in {repo.tracked} \/ InputRtl(r) # None
                 /\ run'[r].pc = "write package"
                    => InputRtl(r).tlbnum \in {"none", "32"}
        <5>1. Known(InputRtl(r), job, out)
          BY <3>2, <4>1, InputIsKnown
        <5> QED
          BY <4>1, <5>1
      <4>2. CASE /\ run'[r].text = run[r].text /\ run[r].pc \in Reads
                 /\ run'[r].pc # "write package"
        BY <4>2 DEF RtlInv
      <4> QED
        BY <2>4, <3>3, <4>1, <4>2, GateTexts
    <3> QED
      BY <2>1, <2>4, <2>r, <3>1, <3>3
  <2>5. ASSUME NEW r \in Runs, QuietFrame(r) PROVE RtlInv'
    <3>1. job[r].gate \in Tools
      BY <2>5, JobTypes DEF QuietFrame
    <3>2. run'[r].pc \notin Reads
      BY <2>5, <3>1 DEF QuietFrame, Tools, Over, Reads
    <3>3. \/ repo'.tracked = repo.tracked
          \/ \E o \in Outs : out[o].rtl # None /\ repo'.tracked = out[o].rtl
      BY <2>5 DEF QuietFrame
    <3> QED
      BY <2>1, <2>5, <2>r, <3>2, <3>3
  <2>6. ASSUME EditFrame \/ UNCHANGED << job, run, out, repo >> PROVE RtlInv'
    <3>1. UNCHANGED << job, run, out >>
          /\ \/ repo'.tracked = repo.tracked
             \/ \E o \in Outs : out[o].rtl # None /\ repo'.tracked = out[o].rtl
      BY <2>6 DEF EditFrame
    <3> QED
      BY <3>1 DEF RtlInv
  <2> QED
    BY <2>2, <2>3, <2>4, <2>5, <2>6, Steps
<1> QED
  BY <1>1, <1>2, ShapeInvariant, GenerationInvariant, PTL DEF Spec

(***************************************************************************)
(* The waiver and the replacement spec.                                      *)
(***************************************************************************)
Snapped == {"verilator", "verdict", "yosys run", "audit lint", "write spec",
            "write waiver", "refreshed"}

(* How an audit goes on once its RTL is copied below its OUT_DIR, and how a  *)
(* refresh after its lint.                                                   *)
SnapStep(x, x1, o, o1) ==
    /\ x.pc = "snapshot" /\ x1.pc \in {"verilator", "yosys run"}
    /\ x1.text = x.text /\ o.snapshot = None /\ o1.snapshot = x.text
LintStep(x, x1, o, o1) ==
    /\ x.pc = "verilator" /\ x1.pc = "verdict" /\ x1.text = x.text /\ o1 = o
    /\ x1.seen.warnings = Warnings(o.snapshot) /\ x1.seen.finished \in BOOLEAN
VerdictStep(r, x, x1, o, o1) ==
    /\ x.pc = "verdict" /\ x1.pc = "audit lint" /\ x1.text = x.text
    /\ \E pass \in BOOLEAN : o1.summary =
          [gate |-> "lint", by |-> r, pass |-> pass, rtl |-> x.text,
           warnings |-> x.seen.warnings, finished |-> x.seen.finished]
AuditStep(x, x1, o, o1) ==
    /\ x.pc = "audit lint" /\ x1.pc = "write spec" /\ x1.text = x.text
    /\ o1.audit = o.summary /\ AuditEligible(o.summary)
SpecStep(x, x1, o, o1, was, is) ==
    /\ x.pc = "write spec" /\ x1.pc = "write waiver" /\ x1.text = x.text /\ o1 = o
    /\ is.spec = o.audit.rtl /\ is.waiver = was.waiver
WaiverStep(x, x1, o, o1, was, is) ==
    /\ x.pc = "write waiver" /\ x1.pc = "refreshed" /\ x1.text = x.text /\ o1 = o
    /\ is.spec = was.spec
    /\ is.waiver = [rtl |-> o.audit.rtl, warnings |-> o.audit.warnings]

LEMMA AuditSteps ==
  ASSUME Shape, NEW r \in Runs, GateStep(r), GateFrame(r)
  PROVE  \/ run'[r].pc \notin Snapped /\ repo' = repo
         \/ SnapStep(run[r], run'[r], out[Out(r)], out'[Out(r)]) /\ repo' = repo
         \/ LintStep(run[r], run'[r], out[Out(r)], out'[Out(r)]) /\ repo' = repo
         \/ VerdictStep(r, run[r], run'[r], out[Out(r)], out'[Out(r)]) /\ repo' = repo
         \/ AuditStep(run[r], run'[r], out[Out(r)], out'[Out(r)]) /\ repo' = repo
         \/ SpecStep(run[r], run'[r], out[Out(r)], out'[Out(r)], repo, repo')
         \/ WaiverStep(run[r], run'[r], out[Out(r)], out'[Out(r)], repo, repo')
<1> USE DEF At, OnlyRun, RunAndOut
<1> DEFINE Quiet == run'[r].pc \notin Snapped /\ repo' = repo
<1>0. Out(r) \in Outs
  BY JobTypes DEF GateFrame, Shape, GatePcs, ContractPcs, PackagePcs, PublishPcs,
     AuditPcs, YosysPcs, LintPcs, RefreshPcs
<1>exit. ASSUME NEW passed, Exit(r, passed), repo' = repo PROVE Quiet
  BY <1>exit, Exits DEF Snapped
<1>fail. ASSUME Fail(r), repo' = repo PROVE Quiet
  BY <1>fail, <1>exit DEF Fail
<1>goes. ASSUME NEW pc, GoesTo(r, pc)
         PROVE  /\ run'[r].pc = pc /\ run'[r].text = run[r].text
                /\ run'[r].seen = run[r].seen
  <2>1. run'[r] = [run[r] EXCEPT !.pc = pc] /\ run'[r].pc = pc
    BY <1>goes, Goes
  <2>2. DOMAIN run[r] = RunFields
    BY DEF Shape
  <2> QED
    BY <2>1, <2>2 DEF RunFields
<1>1. CASE BeginGate(r)
  <2> DEFINE pc == CASE job[r].gate = "contract" -> "contract sources"
                     [] job[r].gate = "package" -> "package input"
                     [] OTHER -> "prepare"
  <2>1. CASE GoesTo(r, pc)
    <3>1. pc \notin Snapped
      BY DEF Snapped
    <3> HIDE DEF pc
    <3> QED
      BY <1>1, <2>1, <3>1, <1>goes DEF BeginGate
  <2>2. CASE \E passed : Exit(r, passed)
    BY <1>1, <2>2, <1>exit DEF BeginGate
  <2> QED
    BY <1>1, <2>1, <2>2 DEF BeginGate
<1>2. CASE ContractGate(r)
  BY <1>2, <1>exit, <1>fail DEF ContractGate
<1>3. CASE ReadPackageInput(r)
  <2>1. CASE Fail(r)
    BY <1>3, <2>1, <1>fail DEF ReadPackageInput
  <2>2. CASE run' = [run EXCEPT ![r].text = InputRtl(r), ![r].pc = "write package"]
    BY <1>3, <2>2 DEF ReadPackageInput, Shape, RunFields, Snapped
  <2> QED
    BY <1>3, <2>1, <2>2 DEF ReadPackageInput
<1>4. CASE WritePackage(r)
  <2>1. CASE Fail(r)
    BY <1>4, <2>1, <1>fail DEF WritePackage
  <2>2. CASE GoesTo(r, "package again")
    <3>1. run'[r].pc = "package again"
      BY <2>2, <1>goes
    <3> QED
      BY <1>4, <3>1 DEF WritePackage, Snapped
  <2> QED
    BY <1>4, <2>1, <2>2 DEF WritePackage
<1>5. CASE SummarisePackage(r)
  BY <1>5, <1>exit, <1>fail DEF SummarisePackage
<1>6. CASE ReadReplacement(r)
  <2>1. CASE Exit(r, FALSE)
    BY <1>6, <2>1, <1>exit DEF ReadReplacement
  <2>2. CASE run' = [run EXCEPT ![r].seen = repo.spec, ![r].pc = "packages"]
    BY <1>6, <2>2 DEF ReadReplacement, Shape, RunFields, Snapped
  <2> QED
    BY <1>6, <2>1, <2>2 DEF ReadReplacement
<1>7. CASE ComparePackages(r)
  <2>1. CASE Exit(r, FALSE)
    BY <1>7, <2>1, <1>exit DEF ComparePackages
  <2>2. CASE run' = [run EXCEPT ![r].text = InputRtl(r), ![r].pc = "packages again"]
    BY <1>7, <2>2 DEF ComparePackages, Shape, RunFields, Snapped
  <2> QED
    BY <1>7, <2>1, <2>2 DEF ComparePackages
<1>8. CASE ConfirmPackages(r)
  <2>1. CASE Exit(r, FALSE)
    BY <1>8, <2>1, <1>exit DEF ConfirmPackages
  <2>2. CASE GoesTo(r, "published")
    <3>1. run'[r].pc = "published"
      BY <2>2, <1>goes
    <3> QED
      BY <1>8, <3>1 DEF ConfirmPackages, Snapped
  <2> QED
    BY <1>8, <2>1, <2>2 DEF ConfirmPackages
<1>9. CASE SummarisePublication(r)
  BY <1>9, <1>exit DEF SummarisePublication
<1>10. CASE ReadCompleteRtl(r)
  <2>1. CASE Fail(r)
    BY <1>10, <2>1, <1>fail DEF ReadCompleteRtl
  <2>2. CASE run' = [run EXCEPT ![r].text = InputRtl(r), ![r].pc = "snapshot",
                                ![r].lock = repo.manifest]
    BY <1>10, <2>2 DEF ReadCompleteRtl, Shape, RunFields, Snapped
  <2> QED
    BY <1>10, <2>1, <2>2 DEF ReadCompleteRtl
<1>11. CASE SnapshotRtl(r)
  <2>1. CASE Fail(r)
    BY <1>11, <2>1, <1>fail DEF SnapshotRtl
  <2>2. CASE ~ Fail(r)
    <3>1. /\ \E pc \in {"yosys run", "verilator"} : GoesTo(r, pc)
          /\ out[Out(r)].snapshot = None /\ run[r].pc = "snapshot" /\ repo' = repo
          /\ out' = [out EXCEPT ![Out(r)].snapshot = run[r].text]
      BY <1>11, <2>2 DEF SnapshotRtl
    <3>2. out'[Out(r)].snapshot = run[r].text
      BY <1>0, <3>1 DEF Shape, OutFields
    <3>3. run'[r].pc \in {"yosys run", "verilator"} /\ run'[r].text = run[r].text
      BY <3>1, <1>goes
    <3> QED
      BY <3>1, <3>2, <3>3 DEF SnapStep
  <2> QED
    BY <2>1, <2>2
<1>12. CASE PortCheck(r)
  BY <1>12, <1>exit, <1>fail DEF PortCheck, YosysEnds
<1>13. CASE YosysCheck(r)
  BY <1>13, <1>exit, <1>fail DEF YosysCheck, YosysEnds
<1>14. CASE LintPass(r)
  <2>1. CASE Fail(r)
    BY <1>14, <2>1, <1>fail DEF LintPass
  <2>2. CASE ~ Fail(r)
    <3>1. PICK finished \in BOOLEAN :
            run' = [run EXCEPT ![r].seen = [warnings |-> Warnings(out[Out(r)].snapshot),
                                            finished |-> finished],
                               ![r].pc = "verdict"]
      <4>1. PICK result \in {"finished", "timeout", "error", "unstructured"} :
              run' = [run EXCEPT
                ![r].seen = [warnings |-> Warnings(out[Out(r)].snapshot),
                             finished |-> result = "finished"], ![r].pc = "verdict"]
        BY <1>14, <2>2 DEF LintPass
      <4> QED
        BY <4>1
    <3>2. /\ run'[r].pc = "verdict" /\ run'[r].text = run[r].text
          /\ run'[r].seen = [warnings |-> Warnings(out[Out(r)].snapshot),
                             finished |-> finished]
      BY <3>1 DEF Shape, RunFields
    <3>3. out' = out /\ repo' = repo /\ run[r].pc = "verilator"
      BY <1>14, <2>2 DEF LintPass
    <3> QED
      BY <3>2, <3>3 DEF LintStep
  <2> QED
    BY <2>1, <2>2
<1>15. CASE LintVerdict(r)
  <2>0. run[r].pc = "verdict" /\ repo' = repo
    BY <1>15 DEF LintVerdict
  <2>1. CASE job[r].waived /\ ~WaiverApplies(r)
    BY <1>15, <2>1, <1>fail DEF LintVerdict
  <2>2. CASE ~ (job[r].waived /\ ~WaiverApplies(r))
    <3>1. PICK closes \in BOOLEAN :
            LET warnings == run[r].seen.warnings
                pass == /\ run[r].seen.finished
                        /\ IF job[r].waived THEN ExactMatch(warnings) /\ closes
                                            ELSE warnings = {}
                summary == [gate |-> "lint", by |-> r, pass |-> pass,
                            rtl |-> run[r].text, warnings |-> warnings,
                            finished |-> run[r].seen.finished]
            IN  /\ out' = [out EXCEPT ![Out(r)].summary = summary]
                /\ IF job[r].gate = "refresh" THEN GoesTo(r, "audit lint")
                                              ELSE Exit(r, pass)
      BY <1>15, <2>2 DEF LintVerdict
    <3> DEFINE pass == /\ run[r].seen.finished
                       /\ IF job[r].waived THEN ExactMatch(run[r].seen.warnings) /\ closes
                                           ELSE run[r].seen.warnings = {}
               summary == [gate |-> "lint", by |-> r, pass |-> pass,
                           rtl |-> run[r].text, warnings |-> run[r].seen.warnings,
                           finished |-> run[r].seen.finished]
    <3>2. pass \in BOOLEAN
      BY DEF ExactMatch
    <3>3. /\ out' = [out EXCEPT ![Out(r)].summary = summary]
          /\ GoesTo(r, "audit lint") \/ Exit(r, pass)
      BY <3>1
    <3> HIDE DEF pass
    <3>4. CASE GoesTo(r, "audit lint")
      <4>1. run'[r].pc = "audit lint" /\ run'[r].text = run[r].text
        BY <3>4, <1>goes
      <4>2. out'[Out(r)].summary = summary
        <5> HIDE DEF summary
        <5> QED
          BY <1>0, <3>3, Summarises
      <4> QED
        BY <2>0, <3>2, <4>1, <4>2 DEF VerdictStep
    <3> QED
      BY <2>0, <3>3, <3>4, <1>exit
  <2> QED
    BY <2>1, <2>2
<1>16. CASE AuditLint(r)
  <2>1. CASE Exit(r, FALSE)
    BY <1>16, <2>1, <1>exit DEF AuditLint
  <2>2. CASE ~ Exit(r, FALSE)
    <3>1. /\ AuditEligible(out[Out(r)].summary) /\ GoesTo(r, "write spec")
          /\ out' = [out EXCEPT ![Out(r)].audit = out[Out(r)].summary]
          /\ run[r].pc = "audit lint" /\ repo' = repo
      BY <1>16, <2>2 DEF AuditLint
    <3>2. out'[Out(r)].audit = out[Out(r)].summary
      BY <1>0, <3>1 DEF Shape, OutFields
    <3>3. run'[r].pc = "write spec" /\ run'[r].text = run[r].text
      BY <3>1, <1>goes
    <3> QED
      BY <3>1, <3>2, <3>3 DEF AuditStep
  <2> QED
    BY <2>1, <2>2
<1>17. CASE WriteSpec(r)
  <2>1. CASE Exit(r, FALSE) /\ UNCHANGED repo
    BY <2>1, <1>exit
  <2>2. CASE /\ repo' = [repo EXCEPT !.spec = out[Out(r)].audit.rtl]
             /\ GoesTo(r, "write waiver")
    <3>1. run'[r].pc = "write waiver" /\ run'[r].text = run[r].text
      BY <2>2, <1>goes
    <3>2. repo'.spec = out[Out(r)].audit.rtl /\ repo'.waiver = repo.waiver
      BY <2>2 DEF Shape, RepoFields
    <3> QED
      BY <1>17, <3>1, <3>2 DEF WriteSpec, SpecStep
  <2> QED
    BY <1>17, <2>1, <2>2 DEF WriteSpec
<1>18. CASE WriteWaiver(r)
  <2>1. run'[r].pc = "refreshed" /\ run'[r].text = run[r].text
    BY <1>18, <1>goes DEF WriteWaiver
  <2>2. /\ repo'.spec = repo.spec
        /\ repo'.waiver = [rtl |-> out[Out(r)].audit.rtl,
                           warnings |-> out[Out(r)].audit.warnings]
    BY <1>18 DEF WriteWaiver, Shape, RepoFields
  <2> QED
    BY <1>18, <2>1, <2>2 DEF WriteWaiver, WaiverStep
<1>19. CASE SummariseRefresh(r)
  BY <1>19, <1>exit DEF SummariseRefresh
<1> HIDE DEF Quiet
<1> QED
  BY <1>1, <1>2, <1>3, <1>4, <1>5, <1>6, <1>7, <1>8, <1>9, <1>10, <1>11, <1>12,
     <1>13, <1>14, <1>15, <1>16, <1>17, <1>18, <1>19 DEF GateStep, Quiet

(* An audit that finds a copy in its OUT_DIR leaves it, and what was made of *)
(* it.                                                                       *)
LEMMA LateAudit ==
  ASSUME Shape, NEW r \in Runs, GateStep(r), GateFrame(r), job[r].gate \in Audits,
         run[r].pc \notin Snapped, out[Out(r)].snapshot # None
  PROVE  /\ out'[Out(r)].snapshot = out[Out(r)].snapshot
         /\ out'[Out(r)].audit = out[Out(r)].audit
         /\ out[Out(r)].summary # None => out'[Out(r)].summary = out[Out(r)].summary
<1> DEFINE d == Out(r)
<1>0. d \in Outs
  BY JobTypes DEF GateFrame, Shape, GatePcs, ContractPcs, PackagePcs, PublishPcs,
     AuditPcs, YosysPcs, LintPcs, RefreshPcs
<1>1. InTool(run[r].pc, job[r].gate) /\ run[r].pc \in GatePcs
  BY DEF GateFrame, Shape, GatePcs, ContractPcs, PackagePcs, PublishPcs,
     AuditPcs, YosysPcs, LintPcs, RefreshPcs
<1>2. run[r].pc \in {"port", "yosys", "lint", "refresh", "prepare", "snapshot"}
  BY <1>1 DEF InTool, GatePcs, ContractPcs, PackagePcs, PublishPcs, AuditPcs,
     YosysPcs, LintPcs, RefreshPcs, Audits, Snapped
<1>3. BeginGate(r) \/ ReadCompleteRtl(r) \/ SnapshotRtl(r)
  BY <1>2 DEF GateStep, ContractGate, ReadPackageInput, WritePackage,
     SummarisePackage, ReadReplacement, ComparePackages, ConfirmPackages,
     SummarisePublication, PortCheck, YosysCheck, LintPass, LintVerdict, AuditLint,
     WriteSpec, WriteWaiver, SummariseRefresh, At
<1>fail. ASSUME Fail(r)
         PROVE  /\ out'[d].snapshot = out[d].snapshot /\ out'[d].audit = out[d].audit
                /\ out[d].summary # None => out'[d].summary = out[d].summary
  BY <1>0, <1>fail DEF Fail, Shape, OutFields
<1>4. CASE BeginGate(r)
  BY <1>0, <1>4, ZenonT(60) DEF BeginGate, Shape, OutFields
<1>5. CASE ReadCompleteRtl(r)
  BY <1>5, <1>fail DEF ReadCompleteRtl
<1>6. CASE SnapshotRtl(r)
  BY <1>6, <1>fail DEF SnapshotRtl
<1> QED
  BY <1>3, <1>4, <1>5, <1>6

(* What an audit that has its copy goes by is about the RTL it read.         *)
Audited(x, o) ==
    /\ o.snapshot = x.text
    /\ x.pc = "verdict" =>
          x.seen.warnings = Warnings(x.text) /\ x.seen.finished \in BOOLEAN
    /\ x.pc = "audit lint" =>
          /\ o.summary # None /\ o.summary.rtl = x.text
          /\ o.summary.warnings = Warnings(x.text)
    /\ x.pc \in {"write spec", "write waiver", "refreshed"} =>
          /\ o.audit.rtl = x.text /\ o.audit.warnings = Warnings(x.text)
          /\ Categories(Warnings(x.text)) = Approved

AuditInv ==
    /\ repo.waiver.warnings = Warnings(repo.waiver.rtl)
    /\ RtlOf(repo.spec) /\ Categories(Warnings(repo.spec)) = Approved
    /\ \A r \in Runs : run[r].pc \in Snapped => Audited(run[r], out[Out(r)])
    /\ \A q, r \in Runs : run[q].pc \in Snapped /\ run[r].pc \in Snapped
                          /\ Out(q) = Out(r) => q = r

LEMMA SnappedAudits ==
  ASSUME Shape, NEW r \in Runs, run[r].pc \in Snapped
  PROVE  job[r] # None /\ job[r].gate \in Audits /\ Out(r) \in Outs
<1>1. job[r] # None /\ job[r].gate \in Audits
  BY DEF Shape, InTool, AuditPcs, YosysPcs, LintPcs, RefreshPcs, Snapped
<1> QED
  BY <1>1, JobTypes

(* A step of an audit keeps what it goes by, and what it writes into the     *)
(* repository is about one RTL.                                              *)
LEMMA SnapAudited ==
  ASSUME NEW x, NEW x1, NEW o, NEW o1, SnapStep(x, x1, o, o1)
  PROVE  Audited(x1, o1)
BY DEF SnapStep, Audited

LEMMA LintAudited ==
  ASSUME NEW x, NEW x1, NEW o, NEW o1, LintStep(x, x1, o, o1), Audited(x, o)
  PROVE  Audited(x1, o1)
<1>1. x1.seen.warnings = Warnings(x1.text)
  BY DEF LintStep, Audited
<1> QED
  BY <1>1 DEF LintStep, Audited

LEMMA VerdictAudited ==
  ASSUME NEW r \in Runs, NEW x, NEW x1, NEW o, NEW o1, VerdictStep(r, x, x1, o, o1),
         Audited(x, o), RtlOf(x.text), o1.snapshot = o.snapshot
  PROVE  Audited(x1, o1)
<1>1. PICK pass \in BOOLEAN : o1.summary =
          [gate |-> "lint", by |-> r, pass |-> pass, rtl |-> x.text,
           warnings |-> x.seen.warnings, finished |-> x.seen.finished]
  BY DEF VerdictStep
<1>2. /\ x.pc = "verdict" /\ x1.pc = "audit lint" /\ x1.text = x.text
  BY DEF VerdictStep
<1>3. /\ x.seen.warnings = Warnings(x.text) /\ x.seen.finished \in BOOLEAN
      /\ o.snapshot = x.text /\ x.text \in Rtls
  BY <1>2 DEF Audited, RtlOf
<1>4. x.seen.warnings \in
          {Lints[source] \cup named : source \in Sources,
             named \in {{}, {<<"DECLFILENAME", "core_top">>}}}
  <2>1. x.text.of \in Sources
    BY <1>3 DEF Rtls
  <2>2. Warnings(x.text) =
           Lints[x.text.of] \cup (IF x.text.marks = 0
                                  THEN {<<"DECLFILENAME", "core_top">>} ELSE {})
    BY DEF Warnings
  <2>3. (IF x.text.marks = 0 THEN {<<"DECLFILENAME", "core_top">>} ELSE {})
           \in {{}, {<<"DECLFILENAME", "core_top">>}}
    OBVIOUS
  <2> QED
    BY <1>3, <2>1, <2>2, <2>3
<1>5. o1.summary \in LintSummaries
  BY <1>1, <1>3, <1>4 DEF LintSummaries
<1>6. o1.summary # None
  BY <1>5, NoneAssumption
<1>7. o1.summary.rtl = x.text /\ o1.summary.warnings = Warnings(x.text)
  BY <1>1, <1>3
<1> QED
  BY <1>2, <1>3, <1>6, <1>7 DEF Audited

LEMMA AuditAudited ==
  ASSUME NEW x, NEW x1, NEW o, NEW o1, AuditStep(x, x1, o, o1), Audited(x, o),
         o1.snapshot = o.snapshot
  PROVE  Audited(x1, o1)
BY DEF AuditStep, AuditEligible, Audited

LEMMA SpecAudited ==
  ASSUME NEW x, NEW x1, NEW o, NEW o1, NEW was, NEW is,
         SpecStep(x, x1, o, o1, was, is), Audited(x, o)
  PROVE  /\ Audited(x1, o1) /\ is.spec = x.text /\ is.waiver = was.waiver
         /\ Categories(Warnings(x.text)) = Approved
BY DEF SpecStep, Audited

LEMMA WaiverAudited ==
  ASSUME NEW x, NEW x1, NEW o, NEW o1, NEW was, NEW is,
         WaiverStep(x, x1, o, o1, was, is), Audited(x, o)
  PROVE  /\ Audited(x1, o1) /\ is.spec = was.spec
         /\ is.waiver.warnings = Warnings(is.waiver.rtl)
<1>1. /\ o.audit.rtl = x.text /\ o.audit.warnings = Warnings(x.text)
  BY DEF WaiverStep, Audited
<1>2. is.waiver = [rtl |-> o.audit.rtl, warnings |-> o.audit.warnings]
  BY DEF WaiverStep
<1>3. is.waiver.rtl = o.audit.rtl
  BY <1>2
<1>4. is.waiver.warnings = o.audit.warnings
  BY <1>2
<1> QED
  BY <1>1, <1>3, <1>4 DEF WaiverStep, Audited

LEMMA AuditAdvances ==
  ASSUME Shape, RtlInv, AuditInv, NEW r \in Runs, GateStep(r), GateFrame(r)
  PROVE  /\ repo'.waiver.warnings = Warnings(repo'.waiver.rtl)
         /\ RtlOf(repo'.spec) /\ Categories(Warnings(repo'.spec)) = Approved
         /\ run'[r].pc \in Snapped => Audited(run'[r], out'[Out(r)])
<1>0. Out(r) \in Outs
  BY JobTypes DEF GateFrame, Shape, GatePcs, ContractPcs, PackagePcs, PublishPcs,
     AuditPcs, YosysPcs, LintPcs, RefreshPcs
<1>1. /\ run[r].pc \in Snapped => Audited(run[r], out[Out(r)])
      /\ repo.waiver.warnings = Warnings(repo.waiver.rtl)
      /\ RtlOf(repo.spec) /\ Categories(Warnings(repo.spec)) = Approved
  BY DEF AuditInv
<1>2. run[r].pc \in Reads => RtlOf(run[r].text)
  BY DEF RtlInv, Known
<1>3. run[r].pc # "snapshot" => out'[Out(r)].snapshot = out[Out(r)].snapshot
  BY <1>0 DEF GateFrame
<1>4. CASE run'[r].pc \notin Snapped /\ repo' = repo
  BY <1>1, <1>4
<1>5. CASE SnapStep(run[r], run'[r], out[Out(r)], out'[Out(r)]) /\ repo' = repo
  <2>1. Audited(run'[r], out'[Out(r)])
    BY <1>5, SnapAudited
  <2> QED
    BY <1>1, <1>5, <2>1
<1>6. CASE LintStep(run[r], run'[r], out[Out(r)], out'[Out(r)]) /\ repo' = repo
  <2>1. run[r].pc = "verilator"
    BY <1>6 DEF LintStep
  <2>2. Audited(run'[r], out'[Out(r)])
    BY <1>1, <1>6, <2>1, LintAudited DEF Snapped
  <2> QED
    BY <1>1, <1>6, <2>2
<1>7. CASE VerdictStep(r, run[r], run'[r], out[Out(r)], out'[Out(r)]) /\ repo' = repo
  <2>1. run[r].pc = "verdict"
    BY <1>7 DEF VerdictStep
  <2>2. Audited(run'[r], out'[Out(r)])
    BY <1>1, <1>2, <1>3, <1>7, <2>1, VerdictAudited DEF Snapped, Reads
  <2> QED
    BY <1>1, <1>7, <2>2
<1>8. CASE AuditStep(run[r], run'[r], out[Out(r)], out'[Out(r)]) /\ repo' = repo
  <2>1. run[r].pc = "audit lint"
    BY <1>8 DEF AuditStep
  <2>2. Audited(run'[r], out'[Out(r)])
    BY <1>1, <1>3, <1>8, <2>1, AuditAudited DEF Snapped
  <2> QED
    BY <1>1, <1>8, <2>2
<1>9. CASE SpecStep(run[r], run'[r], out[Out(r)], out'[Out(r)], repo, repo')
  <2>1. run[r].pc = "write spec"
    BY <1>9 DEF SpecStep
  <2>2. RtlOf(run[r].text) /\ Audited(run[r], out[Out(r)])
    BY <1>1, <1>2, <2>1 DEF Snapped, Reads
  <2>3. /\ Audited(run'[r], out'[Out(r)]) /\ repo'.spec = run[r].text
        /\ repo'.waiver = repo.waiver
        /\ Categories(Warnings(run[r].text)) = Approved
    BY <1>9, <2>2, SpecAudited
  <2> QED
    BY <1>1, <2>2, <2>3
<1>10. CASE WaiverStep(run[r], run'[r], out[Out(r)], out'[Out(r)], repo, repo')
  <2>1. Audited(run[r], out[Out(r)])
    BY <1>1, <1>10 DEF WaiverStep, Snapped
  <2>2. /\ Audited(run'[r], out'[Out(r)]) /\ repo'.spec = repo.spec
        /\ repo'.waiver.warnings = Warnings(repo'.waiver.rtl)
    BY <1>10, <2>1, WaiverAudited
  <2> QED
    BY <1>1, <2>2
<1> QED
  BY <1>4, <1>5, <1>6, <1>7, <1>8, <1>9, <1>10, AuditSteps

LEMMA AuditedStays ==
  ASSUME NEW x, NEW o, NEW o1, Audited(x, o),
         o1.snapshot = o.snapshot, o1.audit = o.audit,
         o.summary # None => o1.summary = o.summary
  PROVE  Audited(x, o1)
BY DEF Audited

(* A step leaves what the audits of other runs go by.                        *)
LEMMA OthersAudited ==
  ASSUME Shape, RtlInv, AuditInv, NEW r \in Runs,
         \/ ScalaFrame(r)
         \/ GenerateFrame(r)
         \/ GateStep(r) /\ GateFrame(r)
         \/ QuietFrame(r),
         NEW q \in Runs \ {r}, run[q].pc \in Snapped
  PROVE  /\ Audited(run[q], out'[Out(q)])
         /\ run'[r].pc \in Snapped => Out(q) # Out(r)
<1>1. /\ job[q] # None /\ job[q].gate \in Audits /\ Out(q) \in Outs
      /\ Audited(run[q], out[Out(q)])
  BY SnappedAudits DEF AuditInv
<1>2. out[Out(q)].snapshot # None
  <2>1. run[q].text \in Rtls /\ out[Out(q)].snapshot = run[q].text
    BY <1>1 DEF RtlInv, Known, RtlOf, Audited, Reads, Snapped
  <2> QED
    BY <2>1, NoneAssumption
<1>3. CASE ScalaFrame(r)
  <2>1. job[r] # None /\ job[r].gate = "scala"
    BY <1>3 DEF ScalaFrame, Shape, InTool, ScalaPcs, ScalaTry
  <2>2. Out(q) # Out(r)
    BY <1>1, <2>1, OneKind DEF Audits
  <2>3. out'[Out(q)] = out[Out(q)]
    BY <1>1, <1>3, <2>2 DEF ScalaFrame, Moves
  <2> QED
    BY <1>1, <2>2, <2>3
<1>4. CASE GenerateFrame(r)
  <2>1. job[r] # None /\ job[r].gate = "generate"
    BY <1>4 DEF GenerateFrame, Shape, InTool, GeneratePcs
  <2>2. Out(q) # Out(r)
    BY <1>1, <2>1, OneKind DEF Audits
  <2>3. out'[Out(q)] = out[Out(q)]
    BY <1>1, <1>4, <2>2 DEF GenerateFrame, Moves
  <2> QED
    BY <1>1, <2>2, <2>3
<1>5. CASE GateStep(r) /\ GateFrame(r)
  <2>1. CASE Out(q) # Out(r)
    <3>1. out'[Out(q)] = out[Out(q)]
      BY <1>1, <1>5, <2>1 DEF GateFrame, Moves
    <3> QED
      BY <1>1, <2>1, <3>1
  <2>2. CASE Out(q) = Out(r)
    <3>1. run[r].pc \notin Snapped
      BY <2>2 DEF AuditInv
    <3>2. job[r] # None /\ InTool(run[r].pc, job[r].gate) /\ run[r].pc \in GatePcs
      BY <1>5 DEF GateFrame, Shape, GatePcs, ContractPcs, PackagePcs, PublishPcs,
         AuditPcs, YosysPcs, LintPcs, RefreshPcs
    <3>3. job[r].gate # "install"
      BY <3>2 DEF InTool, GatePcs, ContractPcs, PackagePcs, PublishPcs, AuditPcs,
         YosysPcs, LintPcs, RefreshPcs, Audits
    <3>4. job[r].gate \in Audits
      BY <1>1, <2>2, <3>2, <3>3, OneKind DEF Audits
    <3>5. /\ out'[Out(r)].snapshot = out[Out(r)].snapshot
          /\ out'[Out(r)].audit = out[Out(r)].audit
          /\ out[Out(r)].summary # None => out'[Out(r)].summary = out[Out(r)].summary
      BY <1>2, <1>5, <2>2, <3>1, <3>4, LateAudit
    <3>6. Audited(run[q], out'[Out(q)])
      BY <1>1, <2>2, <3>5, AuditedStays
    <3>7. run'[r].pc \notin Snapped
      <4>1. ~ SnapStep(run[r], run'[r], out[Out(r)], out'[Out(r)])
        BY <1>2, <2>2 DEF SnapStep
      <4> QED
        BY <1>5, <3>1, <4>1, AuditSteps DEF LintStep, VerdictStep, AuditStep,
           SpecStep, WaiverStep, Snapped
    <3> QED
      BY <3>6, <3>7
  <2> QED
    BY <2>1, <2>2
<1>6. CASE QuietFrame(r)
  <2>1. job[r].gate \in Tools
    BY <1>6, JobTypes DEF QuietFrame
  <2>2. run'[r].pc \notin Snapped /\ out' = out
    BY <1>6, <2>1 DEF QuietFrame, Tools, Over, Snapped
  <2> QED
    BY <1>1, <2>2
<1> QED
  BY <1>3, <1>4, <1>5, <1>6

(* What the audits, the waiver and the replacement spec say is about the RTL *)
(* they name.                                                                *)
THEOREM AuditInvariant == Spec => []AuditInv
<1>1. Init => AuditInv
  <2> SUFFICES ASSUME Init PROVE AuditInv
    OBVIOUS
  <2>1. PICK s \in Scenarios : repo = s.repo
    BY DEF Init, GateInit
  <2>2. /\ repo.waiver.warnings = Warnings(repo.waiver.rtl)
        /\ RtlOf(repo.spec) /\ Categories(Warnings(repo.spec)) = Approved
    BY <2>1, RepositoryAssumption DEF RtlOf
  <2>3. \A r \in Runs : run[r].pc = "idle"
    BY DEF Init, GateInit, NewRun
  <2> QED
    BY <2>2, <2>3 DEF AuditInv, Snapped
<1>2. Shape /\ RtlInv /\ AuditInv /\ [Next]_vars => AuditInv'
  <2> SUFFICES ASSUME Shape, RtlInv, AuditInv, [Next]_vars PROVE AuditInv'
    OBVIOUS
  <2>0. /\ repo.waiver.warnings = Warnings(repo.waiver.rtl)
        /\ RtlOf(repo.spec) /\ Categories(Warnings(repo.spec)) = Approved
    BY DEF AuditInv
  <2>1. ASSUME NEW r \in Runs, Moves(r),
               \/ ScalaFrame(r)
               \/ GenerateFrame(r)
               \/ GateStep(r) /\ GateFrame(r)
               \/ QuietFrame(r),
               repo'.waiver.warnings = Warnings(repo'.waiver.rtl),
               RtlOf(repo'.spec), Categories(Warnings(repo'.spec)) = Approved,
               run'[r].pc \in Snapped => Audited(run'[r], out'[Out(r)])
        PROVE  AuditInv'
    <3>1. \A q \in Runs \ {r} : run[q].pc \in Snapped =>
             /\ Audited(run[q], out'[Out(q)])
             /\ run'[r].pc \in Snapped => Out(q) # Out(r)
      BY <2>1, OthersAudited
    <3>2. /\ \A q \in Runs : Out(q)' = Out(q)
          /\ \A q \in Runs \ {r} : run'[q] = run[q]
      BY <2>1 DEF Moves, Out
    <3>3. \A q \in Runs : run'[q].pc \in Snapped => Audited(run'[q], out'[Out(q)])
      BY <2>1, <3>1, <3>2
    <3>4. \A p, q \in Runs : run'[p].pc \in Snapped /\ run'[q].pc \in Snapped
                             /\ Out(p) = Out(q) => p = q
      BY <3>1, <3>2 DEF AuditInv
    <3> QED
      BY <2>1, <3>2, <3>3, <3>4 DEF AuditInv
  <2>2. ASSUME NEW r \in Runs, ScalaFrame(r) PROVE AuditInv'
    <3>1. run'[r].pc \notin Snapped /\ Moves(r)
      BY <2>2 DEF ScalaFrame, ScalaPcs, ScalaTry, Over, Snapped
    <3>2. repo'.spec = repo.spec /\ repo'.waiver = repo.waiver
      BY <2>2 DEF ScalaFrame
    <3> QED
      BY <2>0, <2>1, <2>2, <3>1, <3>2
  <2>3. ASSUME NEW r \in Runs, GenerateFrame(r) PROVE AuditInv'
    <3>1. run'[r].pc \notin Snapped /\ Moves(r)
      BY <2>3 DEF GenerateFrame, GeneratePcs, Over, Snapped
    <3>2. repo'.spec = repo.spec /\ repo'.waiver = repo.waiver
      BY <2>3 DEF GenerateFrame
    <3> QED
      BY <2>0, <2>1, <2>3, <3>1, <3>2
  <2>4. ASSUME NEW r \in Runs, GateStep(r), GateFrame(r) PROVE AuditInv'
    <3>1. Moves(r)
      BY <2>4 DEF GateFrame
    <3> QED
      BY <2>1, <2>4, <3>1, AuditAdvances
  <2>5. ASSUME NEW r \in Runs, QuietFrame(r) PROVE AuditInv'
    <3>1. job[r].gate \in Tools
      BY <2>5, JobTypes DEF QuietFrame
    <3>2. run'[r].pc \notin Snapped /\ Moves(r)
          /\ repo'.spec = repo.spec /\ repo'.waiver = repo.waiver
      BY <2>5, <3>1 DEF QuietFrame, Tools, Over, Snapped
    <3> QED
      BY <2>1, <2>5, <3>2 DEF AuditInv
  <2>6. ASSUME EditFrame \/ UNCHANGED << job, run, out, repo >> PROVE AuditInv'
    <3>1. UNCHANGED << job, run, out >>
          /\ repo'.spec = repo.spec /\ repo'.waiver = repo.waiver
      BY <2>6 DEF EditFrame
    <3> QED
      BY <3>1 DEF AuditInv, Out
  <2> QED
    BY <2>2, <2>3, <2>4, <2>5, <2>6, Steps
<1> QED
  BY <1>1, <1>2, ShapeInvariant, RtlInvariant, PTL DEF Spec

(* The waiver always lists exactly the warnings of the RTL it is bound to    *)
(* (refresh_metadata_gate of tools/core_top_gate.py).                        *)
THEOREM WaiverIsTrue == Spec => []WaiverDescribesItsRtl
<1>1. AuditInv => WaiverDescribesItsRtl
  BY DEF AuditInv, WaiverDescribesItsRtl
<1> QED
  BY <1>1, AuditInvariant, PTL

(***************************************************************************)
(* What a passing publish-check stands for.                                  *)
(***************************************************************************)
Publishable(x) == RtlOf(x) /\ Categories(Warnings(x)) = Approved

IsPublication(s) == s # None /\ s.gate = "publish"

PublishInv ==
    /\ \A r \in Runs :
          /\ run[r].pc = "packages" => Publishable(run[r].seen)
          /\ run[r].pc \in {"packages again", "published"}
             => Publishable(run[r].text)
    /\ \A o \in Outs : IsPublication(out[o].summary) =>
          /\ Publishable(out[o].summary.rtl)
          /\ TracedIn(out[o].summary.rtl, job, out)

(* Without the annotation Verilator warns of more than was reviewed.         *)
LEMMA UnmarkedIsWarned ==
  ASSUME NEW x, Publishable(x)
  PROVE  x.marks > 0 /\ x.guarded /\ x.tlbnum = "32"
<1>1. x.marks \in Nat
  BY DEF Publishable, RtlOf, Rtls
<1>2. CASE x.marks = 0
  <2>1. <<"DECLFILENAME", "core_top">> \in Warnings(x)
    BY <1>2 DEF Warnings
  <2>2. "DECLFILENAME" \in Categories(Warnings(x))
    <3>1. <<"DECLFILENAME", "core_top">>[1] = "DECLFILENAME"
      OBVIOUS
    <3> QED
      BY <2>1, <3>1 DEF Categories
  <2> QED
    BY <2>2 DEF Publishable, Approved
<1> QED
  BY <1>1, <1>2 DEF Publishable, RtlOf

LEMMA PublishSteps ==
  ASSUME Shape, NEW r \in Runs, GateStep(r), GateFrame(r)
  PROVE  /\ run'[r].pc = "packages" => run'[r].seen = repo.spec
         /\ run'[r].pc = "packages again" =>
               run[r].pc = "packages" /\ run'[r].text = run[r].seen
         /\ run'[r].pc = "published" =>
               run[r].pc = "packages again" /\ run'[r].text = run[r].text
         /\ \A o \in Outs :
               \/ out'[o].summary = out[o].summary
               \/ out'[o].summary.gate # "publish"
               \/ run[r].pc = "published" /\ out'[o].summary.rtl = run[r].text
<1> USE DEF At, OnlyRun, RunAndOut
<1>0. /\ Out(r) \in Outs /\ run[r].pc \in GatePcs
      /\ InTool(run[r].pc, job[r].gate)
  BY JobTypes DEF GateFrame, Shape, GatePcs, ContractPcs, PackagePcs, PublishPcs,
     AuditPcs, YosysPcs, LintPcs, RefreshPcs
<1>1. CASE run[r].pc \notin PublishPcs
  <2>1. job[r].gate # "publish"
    BY <1>0, <1>1 DEF InTool, GatePcs, ContractPcs, PackagePcs, AuditPcs, YosysPcs,
       LintPcs, RefreshPcs, Audits
  <2>2. InTool(run'[r].pc, job[r].gate)
    BY DEF GateFrame
  <2>3. run'[r].pc \notin PublishPcs
    BY <2>1, <2>2 DEF InTool
  <2> QED
    BY <2>1, <2>3 DEF GateFrame, PublishPcs
<1>2. CASE run[r].pc \in PublishPcs
  <2>1. \/ ReadReplacement(r) \/ ComparePackages(r) \/ ConfirmPackages(r)
        \/ SummarisePublication(r)
    BY <1>2 DEF PublishPcs, GateStep, BeginGate, ContractGate, ReadPackageInput,
       WritePackage, SummarisePackage, ReadCompleteRtl, SnapshotRtl, PortCheck,
       YosysCheck, LintPass, LintVerdict, AuditLint, WriteSpec, WriteWaiver,
       SummariseRefresh
  <2>exit. ASSUME NEW passed, Exit(r, passed) PROVE run'[r].pc = "ended"
    BY <2>exit, Exits
  <2>2. CASE ReadReplacement(r)
    <3>1. CASE Exit(r, FALSE)
      BY <2>2, <2>exit, <3>1 DEF ReadReplacement
    <3>2. CASE run' = [run EXCEPT ![r].seen = repo.spec, ![r].pc = "packages"]
      BY <2>2, <3>2 DEF ReadReplacement, Shape, RunFields
    <3> QED
      BY <2>2, <3>1, <3>2 DEF ReadReplacement
  <2>3. CASE ComparePackages(r)
    <3>1. CASE Exit(r, FALSE)
      BY <2>3, <2>exit, <3>1 DEF ComparePackages
    <3>2. CASE ~ Exit(r, FALSE)
      <4>1. /\ run' = [run EXCEPT ![r].text = InputRtl(r), ![r].pc = "packages again"]
            /\ run[r].seen = InputRtl(r) /\ run[r].pc = "packages" /\ UNCHANGED out
        BY <2>3, <3>2 DEF ComparePackages
      <4>2. run'[r].text = InputRtl(r) /\ run'[r].pc = "packages again"
        BY <4>1 DEF Shape, RunFields
      <4> QED
        BY <4>1, <4>2
    <3> QED
      BY <3>1, <3>2
  <2>4. CASE ConfirmPackages(r)
    <3>1. CASE Exit(r, FALSE) /\ UNCHANGED out
      BY <2>4, <2>exit, <3>1
    <3>2. CASE GoesTo(r, "published") /\ out' = [out EXCEPT ![Out(r)].made = TRUE]
      <4>1. run'[r] = [run[r] EXCEPT !.pc = "published"] /\ run'[r].pc = "published"
        BY <3>2, Goes
      <4>2. run'[r].text = run[r].text
        BY <4>1 DEF Shape, RunFields
      <4>3. \A o \in Outs : out'[o].summary = out[o].summary
        BY <1>0, <3>2 DEF Shape, OutFields
      <4> QED
        BY <2>4, <4>1, <4>2, <4>3 DEF ConfirmPackages
    <3> QED
      BY <2>4, <3>1, <3>2 DEF ConfirmPackages
  <2>5. CASE SummarisePublication(r)
    <3> DEFINE summary == [gate |-> "publish", by |-> r, pass |-> TRUE,
                           rtl |-> run[r].text, spec |-> run[r].seen]
    <3>1. out' = [out EXCEPT ![Out(r)].summary = summary] /\ Exit(r, TRUE)
      BY <2>5 DEF SummarisePublication
    <3>2. summary.rtl = run[r].text
      OBVIOUS
    <3> HIDE DEF summary
    <3>3. OutMoves(r) /\ out'[Out(r)].summary = summary
      BY <1>0, <3>1, Summarises DEF SummaryMoves
    <3>4. \A o \in Outs \ {Out(r)} : out'[o] = out[o]
      BY <3>3 DEF OutMoves
    <3> QED
      BY <2>5, <2>exit, <3>1, <3>2, <3>3, <3>4 DEF SummarisePublication
  <2> QED
    BY <2>1, <2>2, <2>3, <2>4, <2>5
<1> QED
  BY <1>1, <1>2

(* What was elaborated or tracked at first stays traced.                     *)
LEMMA TracedStays ==
  ASSUME job' = job, \A o \in Outs : out[o].rtl # None => out'[o].rtl = out[o].rtl,
         NEW x, TracedIn(x, job, out)
  PROVE  TracedIn(x, job', out')
BY DEF TracedIn

(* When publish-check passes, the tracked package is guarded and annotated,  *)
(* Verilator reports only reviewed categories of it, and it was elaborated   *)
(* by a generation that stands, or with the first package                    *)
(* (publish_check_gate of tools/core_top_gate.py).                           *)
THEOREM PublicationIsTraced == Spec => []PublishedIsGenerated
<1>1. Init => PublishInv
  <2> SUFFICES ASSUME Init PROVE PublishInv
    OBVIOUS
  <2>1. /\ \A r \in Runs : run[r].pc = "idle"
        /\ \A o \in Outs : out[o].summary = None
    BY DEF Init, GateInit, NewRun, NewOut
  <2> QED
    BY <2>1 DEF PublishInv, IsPublication
<1>2. Shape /\ GenerationInv /\ RtlInv /\ AuditInv /\ PublishInv /\ [Next]_vars
      => PublishInv'
  <2> SUFFICES ASSUME Shape, GenerationInv, RtlInv, AuditInv, PublishInv, [Next]_vars
               PROVE  PublishInv'
    OBVIOUS
  <2>1. ASSUME NEW r \in Runs, job' = job, \A q \in Runs \ {r} : run'[q] = run[q],
               \A o \in Outs : out[o].rtl # None => out'[o].rtl = out[o].rtl,
               run'[r].pc = "packages" => Publishable(run'[r].seen),
               run'[r].pc \in {"packages again", "published"}
                  => Publishable(run'[r].text),
               \A o \in Outs :
                  \/ out'[o].summary = out[o].summary
                  \/ out'[o].summary.gate # "publish"
                  \/ run[r].pc = "published" /\ out'[o].summary.rtl = run[r].text
        PROVE  PublishInv'
    <3>1. ASSUME NEW q \in Runs
          PROVE  /\ run'[q].pc = "packages" => Publishable(run'[q].seen)
                 /\ run'[q].pc \in {"packages again", "published"}
                    => Publishable(run'[q].text)
      BY <2>1 DEF PublishInv
    <3>2. ASSUME NEW o \in Outs, IsPublication(out'[o].summary)
          PROVE  /\ Publishable(out'[o].summary.rtl)
                 /\ TracedIn(out'[o].summary.rtl, job', out')
      <4>1. /\ Publishable(out'[o].summary.rtl)
            /\ TracedIn(out'[o].summary.rtl, job, out)
        <5>1. CASE out'[o].summary = out[o].summary
          BY <3>2, <5>1 DEF PublishInv
        <5>2. CASE run[r].pc = "published" /\ out'[o].summary.rtl = run[r].text
          BY <5>2 DEF PublishInv, RtlInv, Known, Reads
        <5> QED
          BY <2>1, <3>2, <5>1, <5>2 DEF IsPublication
      <4> QED
        BY <2>1, <4>1, TracedStays
    <3> QED
      BY <3>1, <3>2 DEF PublishInv
  <2>r. ASSUME NEW r \in Runs,
               \/ ScalaFrame(r)
               \/ GenerateStep(r) /\ GenerateFrame(r)
               \/ GateStep(r) /\ GateFrame(r)
               \/ QuietFrame(r)
        PROVE  /\ job' = job /\ \A q \in Runs \ {r} : run'[q] = run[q]
               /\ \A o \in Outs : out[o].rtl # None => out'[o].rtl = out[o].rtl
    <3>1. job' = job /\ \A q \in Runs \ {r} : run'[q] = run[q]
      BY <2>r DEF ScalaFrame, GenerateFrame, GateFrame, QuietFrame, Moves
    <3> QED
      BY <2>r, <3>1, NewRtl
  <2>2. ASSUME NEW r \in Runs, ScalaFrame(r) PROVE PublishInv'
    <3>1. /\ run'[r].pc \notin {"packages", "packages again", "published"}
          /\ \A o \in Outs : \/ out'[o].summary = out[o].summary
                             \/ out'[o].summary.gate # "publish"
      BY <2>2 DEF ScalaFrame, ScalaPcs, ScalaTry, Over
    <3> QED
      BY <2>1, <2>2, <2>r, <3>1
  <2>3. ASSUME NEW r \in Runs, GenerateStep(r), GenerateFrame(r) PROVE PublishInv'
    <3>1. /\ run'[r].pc \notin {"packages", "packages again", "published"}
          /\ \A o \in Outs : \/ out'[o].summary = out[o].summary
                             \/ out'[o].summary.gate # "publish"
      BY <2>3 DEF GenerateFrame, GeneratePcs, Over
    <3> QED
      BY <2>1, <2>3, <2>r, <3>1
  <2>4. ASSUME NEW r \in Runs, GateStep(r), GateFrame(r) PROVE PublishInv'
    <3>1. /\ run'[r].pc = "packages" => run'[r].seen = repo.spec
          /\ run'[r].pc = "packages again" =>
                run[r].pc = "packages" /\ run'[r].text = run[r].seen
          /\ run'[r].pc = "published" =>
                run[r].pc = "packages again" /\ run'[r].text = run[r].text
          /\ \A o \in Outs :
                \/ out'[o].summary = out[o].summary
                \/ out'[o].summary.gate # "publish"
                \/ run[r].pc = "published" /\ out'[o].summary.rtl = run[r].text
      BY <2>4, PublishSteps
    <3>2. Publishable(repo.spec)
      BY DEF AuditInv, Publishable
    <3>3. run'[r].pc = "packages" => Publishable(run'[r].seen)
      BY <3>1, <3>2
    <3>4. run'[r].pc \in {"packages again", "published"} => Publishable(run'[r].text)
      BY <3>1 DEF PublishInv
    <3> QED
      BY <2>1, <2>4, <2>r, <3>1, <3>3, <3>4
  <2>5. ASSUME NEW r \in Runs, QuietFrame(r) PROVE PublishInv'
    <3>1. job[r].gate \in Tools
      BY <2>5, JobTypes DEF QuietFrame
    <3>2. run'[r].pc \notin {"packages", "packages again", "published"}
      BY <2>5, <3>1 DEF QuietFrame, Tools, Over
    <3>3. out' = out
      BY <2>5 DEF QuietFrame
    <3> QED
      BY <2>1, <2>5, <2>r, <3>2, <3>3
  <2>6. ASSUME EditFrame \/ UNCHANGED << job, run, out, repo >> PROVE PublishInv'
    <3>1. UNCHANGED << job, run, out >>
      BY <2>6 DEF EditFrame
    <3> QED
      BY <3>1 DEF PublishInv
  <2> QED
    BY <2>2, <2>3, <2>4, <2>5, <2>6, Steps
<1>3. PublishInv => PublishedIsGenerated
  <2> SUFFICES ASSUME PublishInv, NEW o \in Outs, Passed(o, "publish")
               PROVE  LET rtl == out[o].summary.rtl
                      IN  /\ rtl.tlbnum = "32" /\ rtl.guarded /\ rtl.marks > 0
                          /\ Categories(Warnings(rtl)) = Approved
                          /\ Traced(rtl)
    BY DEF PublishedIsGenerated
  <2> DEFINE x == out[o].summary.rtl
  <2>1. Publishable(x) /\ TracedIn(x, job, out)
    BY DEF PublishInv, IsPublication, Passed, Summary
  <2>2. x.marks > 0 /\ x.guarded /\ x.tlbnum = "32"
    BY <2>1, UnmarkedIsWarned
  <2>3. Traced(x)
    BY <2>1 DEF Traced, TracedIn
  <2> QED
    BY <2>1, <2>2, <2>3 DEF Publishable
<1> QED
  BY <1>1, <1>2, <1>3, ShapeInvariant, GenerationInvariant, RtlInvariant,
     AuditInvariant, PTL DEF Spec

-----------------------------------------------------------------------------
(* The iteration's evidence: what validate-iteration asks of the record is   *)
(* read from the commits and the raw file as they are, so that nothing that  *)
(* was true of them when the record was written is relied upon.              *)

(* A commit that is acceptable has the code of HEAD.                         *)
LEMMA AcceptableHasHeadsCode ==
  ASSUME NEW commit, Acceptable(commit) PROVE Code(commit) = Code(git.head)
BY DEF Acceptable, Code

(* In every state, a record that is accepted and whose review passed is of   *)
(* the code of HEAD, and the review's outcome is that of a finished event of *)
(* its own job, over all commits, merges and checkouts.                      *)
THEOREM ReviewIsOfThisCode == Spec => []AcceptedReviewIsOfThisCode
<1>1. AcceptedReviewIsOfThisCode
  <2> SUFFICES ASSUME Accepts
               PROVE  /\ record.review.status = "pass" =>
                            /\ Code(record.review.head) = Code(git.head)
                            /\ Code(record.head) = Code(git.head)
                      /\ \E n \in DOMAIN raw :
                            /\ raw[n].job = record.review.job /\ raw[n].done
                            /\ raw[n].status = "completed" <=>
                                  record.review.status = "pass"
    BY DEF AcceptedReviewIsOfThisCode
  <2>1. Code(record.head) = Code(git.head)
    BY AcceptableHasHeadsCode DEF Accepts, SummaryHolds
  <2>2. CASE record.review.status = "pass"
    <3>1. PassingReviewHolds(record.review)
      BY <2>2 DEF Accepts, ReviewHolds
    <3>2. Code(record.review.head) = Code(git.head)
      BY <3>1, AcceptableHasHeadsCode DEF PassingReviewHolds
    <3> QED
      BY <2>1, <2>2, <3>1, <3>2 DEF PassingReviewHolds, EventsOf
  <2>3. CASE record.review.status # "pass"
    <3>1. FailedReviewHolds(record.review)
      BY <2>3 DEF Accepts, ReviewHolds
    <3> QED
      BY <2>3, <3>1 DEF FailedReviewHolds, EventsOf
  <2> QED
    BY <2>2, <2>3
<1> QED
  BY <1>1, PTL DEF Spec
=============================================================================
