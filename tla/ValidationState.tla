-------------------------- MODULE ValidationState --------------------------
(* The files that the validation commands of tools/refactor.py and           *)
(* tools/identity_compare.py share: iteration lock files, reports with their *)
(* publication markers, overlay manifests, exported RTL, the isolated        *)
(* workspaces, the doctor report and the repository itself.  A file's SHA256 *)
(* is its content here, so a binding by hash is a comparison of values.      *)
EXTENDS Integers, Sequences, FiniteSets

CONSTANTS
    Runs,        \* invocations of the commands
    Outs, Works, \* OUT_DIRs and CHIPLAB_WORK_ROOTs
    Iterations,
    Scenarios,   \* who invokes what, at which of the two commits, with a
                 \* bound on interrupts and outside changes: records
                 \* [commands, head, events]
    None

Kinds == {"overlay", "smoke", "compare"}
LockNames == (Outs \cup Works) \X Iterations
ReportNames == Kinds \X Outs \X Iterations

(* None is not a run; a command that argparse let through names its roots     *)
(* and iterations, and a comparison two different ones (main).               *)
ASSUME NoneAssumption == None \notin Runs
ASSUME CommandAssumption ==
    \A s \in Scenarios, r \in Runs :
        s.commands[r] # None =>
            /\ s.commands[r].op \in Kinds \cup {"export"}
            /\ s.commands[r].out \in Outs
            /\ s.commands[r].work \in Works
            /\ s.commands[r].iter \in Iterations
            /\ s.commands[r].op = "compare" =>
                  s.commands[r].mixed \in Iterations \ {s.commands[r].iter}

VARIABLES
    command,     \* what each run was invoked for, or None
    lockFile,    \* the run whose lock file stands under a name, or None
    reports, markers, \* each report and what its publication marker hashes
    manifests,   \* chiplab-overlay-manifest.json of an iteration
    exports,     \* reference/golden-rtl of an iteration: RTL, then manifest
    workspace,   \* the isolated chiplab copies
    doctor,      \* chiplab-doctor.json of each OUT_DIR
    repo,        \* commit and cleanliness of this repository, and the version
                 \* of the installed tools
    run,         \* the control state of each run
    events       \* the interrupts and outside changes still to come

vars == << command, lockFile, reports, markers, manifests, exports,
           workspace, doctor, repo, run, events >>

NewRun == [pc |-> "idle", held |-> << >>, doctor |-> None, manifest |-> None,
           report |-> None, input |-> None, ok |-> TRUE, passed |-> FALSE]

NoExport == [files |-> None, manifest |-> None]

(* A directory counts as generated only with its marker; .git, the DUT under *)
(* IP/myCPU, everything official, and what the smoke commands generate.      *)
NoWorkspace ==
    [state |-> "absent", overlay |-> None, dut |-> None, official |-> TRUE,
     generated |-> {}, binary |-> None, builders |-> {}, smokeLock |-> None]

Init ==
    /\ \E s \in Scenarios :
            /\ command = s.commands /\ events = s.events
            /\ repo = [head |-> s.head, clean |-> TRUE, tools |-> 0]
            /\ doctor = [o \in Outs |->
                 [id |-> -1, head |-> s.head, tools |-> 0, pass |-> TRUE,
                  fresh |-> TRUE]]
    /\ lockFile = [name \in LockNames |-> None]
    /\ reports = [name \in ReportNames |-> None]
    /\ markers = [name \in ReportNames |-> None]
    /\ manifests = [o \in Outs, i \in Iterations |-> None]
    /\ exports = [o \in Outs, i \in Iterations |-> NoExport]
    /\ workspace = [at \in Works \X Iterations |-> NoWorkspace]
    /\ run = [r \in Runs |-> NewRun]

-----------------------------------------------------------------------------
(* The bytes of the replacement RTL committed at a head: the first commit    *)
(* holds a copy of the locked RTL, the second one a changed component.       *)
ReplacementAt(head) == IF head = 0 THEN "locked" ELSE "modified"

(* The RTL that Git holds for a source; head only matters for a mixed one.   *)
SourceFiles(source, head) ==
    CASE source = "candidate" -> "locked"
      [] source = "override" -> "override"
      [] source = "mixed" -> ReplacementAt(head)
      [] source = "official" -> "official"

Live(r) == run[r].pc \notin {"idle", "ended", "killed"}

(* One step of a run, told as the change of its record.                      *)
At(r, pc) == run[r].pc = pc
GoesTo(r, pc) == run' = [run EXCEPT ![r].pc = pc]

Out(r) == command[r].out
Work(r) == command[r].work
Iteration(r) == command[r].iter
WorkAt(r) == <<Work(r), Iteration(r)>>
ExportAt(r) == <<Out(r), Iteration(r)>>

(* Where a command publishes; the comparison under the mixed iteration.      *)
ReportOf(r) ==
    <<command[r].op, Out(r),
      IF command[r].op = "compare" THEN command[r].mixed ELSE Iteration(r)>>

(* require_report_publication: the report stands, and so does a marker of    *)
(* this very report.                                                         *)
Published(name) == reports[name] # None /\ markers[name] = reports[name]

(* require_clean_source_head.                                                *)
CleanHead(head) == repo.clean /\ repo.head = head

(* require_tool_fingerprints: the installed tools are those of a report.     *)
ToolsAre(version) == repo.tools = version

(* require_passing_chiplab_doctor: complete, of this commit and these tools, *)
(* recent.                                                                   *)
DoctorPasses(o) ==
    /\ doctor[o].pass /\ doctor[o].fresh
    /\ doctor[o].head = repo.head /\ ToolsAre(doctor[o].tools)

(* verify_overlay_files: the installed RTL is what the manifest lists.       *)
FilesInstalled(ws, m) == ws.dut = m.files

(* The manifest lists what Git holds now; for a mixed DUT the replacement    *)
(* plan is loaded again, which takes the very commit and a clean worktree.   *)
CandidateBindings(m) ==
    m.source \in {"candidate", "override"} /\ m.files = SourceFiles(m.source, 0)
OfficialBindings(m) ==
    m.source = "official" /\ m.files = SourceFiles("official", 0)
ReplacementBindings(m) ==
    /\ m.source = "mixed" /\ CleanHead(m.head)
    /\ m.files = SourceFiles("mixed", m.head)

(* verify_dut_source_bindings.  Mutant: Git is not asked again.              *)
InstalledAsListed(ws, m) == FilesInstalled(ws, m)
BindingsHold(ws, m) ==
    /\ FilesInstalled(ws, m)
    /\ CandidateBindings(m) \/ OfficialBindings(m) \/ ReplacementBindings(m)
=============================================================================
