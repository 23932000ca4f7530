------------------------------ MODULE GateState ----------------------------
(* The files that the Scala check (tools/scala_gate.py), the RTL generation  *)
(* (tools/spinal_generate.py) and the gates of the published core_top        *)
(* (tools/core_top_gate.py) share: the repository, the locked tools and the  *)
(* OUT_DIRs.  A file's SHA256 is its content here, so a binding by hash is a *)
(* comparison of values; a file that is only ever compared has a version.    *)
EXTENDS Integers, Sequences, FiniteSets

CONSTANTS
    Runs,      \* invocations of the tools
    Outs,      \* OUT_DIRs
    Sources,   \* versions of the Scala source
    Declares,  \* the TLBNUM that the RTL of a source declares: none, 32, other
    Lints,     \* Verilator's warnings about the RTL of a source, as pairs
               \* <<category, message>>
    Variants,  \* what an elaboration may add that the source does not tell
    Scenarios, \* who invokes what in which repository: [jobs, repo, events]
    None

VARIABLES
    job,    \* what each run was invoked for, or None
    run,    \* the control state of each run
    out,    \* the OUT_DIRs
    repo,   \* the repository, the tools and the dependency cache
    events  \* how many kills, interrupts and edits are still to come

gateVars == << job, run, out, repo, events >>

-----------------------------------------------------------------------------
(* RTL: the source it was elaborated from, the TLBNUM its core_top declares, *)
(* whether another TLBNUM holds it in reset, and how often it was annotated. *)
Elaborated(source, variant) ==
    [of |-> source, variant |-> variant, tlbnum |-> Declares[source],
     guarded |-> FALSE, marks |-> 0]

Rtls == [of : Sources, variant : Variants, tlbnum : {"none", "32", "other"},
         guarded : BOOLEAN, marks : Nat]

(* Unannotated, each module is reported for the name of the one file.        *)
Warnings(rtl) ==
    Lints[rtl.of] \cup
        (IF rtl.marks = 0 THEN {<<"DECLFILENAME", "core_top">>} ELSE {})

Categories(warnings) == {w[1] : w \in warnings}

ASSUME SourcesAssumption ==
    /\ Declares \in [Sources -> {"none", "32", "other"}]
    /\ Lints \in [Sources -> SUBSET (STRING \X STRING)]

-----------------------------------------------------------------------------
(* The tools, and among them the audits of core_top_gate, which begin alike. *)
Tools == {"scala", "generate", "contract", "package", "lint", "refresh", "port",
          "yosys", "publish", "install"}
Audits == {"lint", "refresh", "port", "yosys"}

(* A run is invoked for a tool, with an OUT_DIR, an OUT_DIR to read RTL from *)
(* (None: the tracked package), with a waiver or not, after other runs.      *)
Jobs == [gate : Tools, out : Outs, rtl : Outs \cup {None}, waived : BOOLEAN,
         after : SUBSET Runs]

(* As in the Makefile, an OUT_DIR is for one kind of evidence; an install    *)
(* writes none, and takes the RTL of some OUT_DIR.                           *)
ASSUME JobsAssumption ==
    \A s \in Scenarios :
        /\ s.jobs \in [Runs -> Jobs \cup {None}]
        /\ \A r \in {p \in Runs : s.jobs[p] # None} :
              s.jobs[r].gate = "install" => s.jobs[r].rtl \in Outs
        /\ \A q, r \in {p \in Runs : s.jobs[p] # None} :
              s.jobs[q].out = s.jobs[r].out =>
                 \/ s.jobs[q].gate = s.jobs[r].gate
                 \/ {s.jobs[q].gate, s.jobs[r].gate} \subseteq Audits
                 \/ "install" \in {s.jobs[q].gate, s.jobs[r].gate}

(* None is no run and no file.                                               *)
LintSummaries ==
    [gate : {"lint"}, by : Runs, pass : BOOLEAN, rtl : Rtls,
     warnings : {Lints[source] \cup named : source \in Sources,
                   named \in {{}, {<<"DECLFILENAME", "core_top">>}}},
     finished : BOOLEAN]
ASSUME NoneAssumption ==
    None \notin Runs /\ None \notin Rtls /\ None \notin LintSummaries

-----------------------------------------------------------------------------
NewOut == [made |-> FALSE, lock |-> None, workspaces |-> {}, rtl |-> None,
           snapshot |-> None, audit |-> None, summary |-> None]

NewRun == [pc |-> "idle", lock |-> None, before |-> None, copy |-> None,
           text |-> None, seen |-> None, results |-> << >>, passed |-> FALSE]

GateInit ==
    /\ \E s \in Scenarios : job = s.jobs /\ repo = s.repo /\ events = s.events
    /\ run = [r \in Runs |-> NewRun]
    /\ out = [o \in Outs |-> NewOut]

At(r, pc) == run[r].pc = pc
Live(r) == run[r].pc \notin {"idle", "ended", "killed"}
Out(r) == job[r].out

GoesTo(r, pc) == run' = [run EXCEPT ![r].pc = pc]

(* The process ends with exit code 0 or another one; its memory is gone.     *)
Exit(r, passed) ==
    run' = [run EXCEPT ![r] = [NewRun EXCEPT !.pc = "ended", !.passed = passed]]

OnlyRun == UNCHANGED << job, out, repo, events >>
RunAndOut == UNCHANGED << job, repo, events >>

(* Nothing is in the OUT_DIR yet.                                            *)
Fresh(o) == [out[o] EXCEPT !.made = FALSE] = NewOut

(* The tools and the dependency cache are those that a manifest locks.       *)
ToolsLocked(manifest) == repo.tools = manifest
CacheLocked(manifest) == repo.lock = manifest /\ repo.cache = repo.lock

(* A run begins once those it follows are over.                              *)
Invoke(r) ==
    /\ At(r, "idle") /\ job[r] # None
    /\ \A p \in job[r].after : run[p].pc \in {"ended", "killed"}
    /\ GoesTo(r, job[r].gate)
    /\ OnlyRun
=============================================================================
