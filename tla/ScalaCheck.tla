------------------------------ MODULE ScalaCheck ---------------------------
(* scala-check (tools/scala_gate.py): format check, compilation and tests of *)
(* an isolated copy of the Scala source, under a lock file in OUT_DIR, with  *)
(* the source, the copy and the dependency cache compared before and after.  *)
EXTENDS GateState, SequencesExt

-----------------------------------------------------------------------------
(* The audit of the Verilator command that a Scala simulation generated      *)
(* (verilator_script_policy): every warning the project relies on is         *)
(* enabled, and no file the command can reach through its RTL inputs and     *)
(* their includes switches one off.                                          *)
CONSTANTS
    RtlFiles,   \* the files beside a simulation
    IncludesOf, \* the names a file includes; a name without a file is missing
    Waiving     \* the files with an inline lint_off or lint_save

RequiredWarnings == {"WIDTH", "UNOPTFLAT", "CMPCONST", "UNSIGNED"}
ProhibitedWaivers == {"WIDTH", "LATCH", "UNDRIVEN", "UNOPTFLAT", "MULTIDRIVEN",
               "SYNCASYNCNET", "CLKDATA",
               "CDC"} \* which stands for every category with CDC in its name

(* A script: -Wall, its -Wwarn and -Wno categories (the last one counts, so  *)
(* none is in both), its RTL inputs, and whether it uses response files.     *)
FlagsPass(script) ==
    /\ script.wall
    /\ RequiredWarnings \subseteq script.wwarn
    /\ script.wno \cap ProhibitedWaivers = {}
    /\ ~script.response

(* The worklist: a file is read once, its includes are added to the pending. *)
(* Mutant: the inputs are read, their includes are not.                      *)
ScanInputs(inputs) == inputs
Scanned(inputs) ==
    LET scan[pending, scanned \in SUBSET RtlFiles] ==
          IF pending = {} THEN scanned ELSE
          LET path == CHOOSE f \in pending : TRUE
              included == IncludesOf[path] \cap RtlFiles
          IN  scan[(pending \cup included) \ (scanned \cup {path}),
                   scanned \cup {path}]
    IN  scan[inputs, {}]

Policy(script) ==
    LET scanned == Scanned(script.inputs \cap RtlFiles)
    IN  /\ FlagsPass(script)
        /\ script.inputs \subseteq RtlFiles
        /\ \A path \in scanned : IncludesOf[path] \subseteq RtlFiles
        /\ scanned \cap Waiving = {}

-----------------------------------------------------------------------------
(* The run.                                                                  *)
CONSTANTS
    Scripts,    \* the Verilator commands a simulation may have generated
    TestCounts, \* what ScalaTest may report: [total, succeeded, others]
    Verdicts,   \* what else may come of a task
    Reports     \* what the test suites may report of their JVM: sets of
                \* [properties, jna], each "own", "other" or none

Tasks == << "scalafmt", "compile", "test-compile", "test" >>

(* The exit code alone is not believed: every test must have succeeded, none *)
(* left out, each source have been compiled, and no warning been printed.    *)
TestsPassed(counts) ==
    counts.total > 0 /\ counts.succeeded = counts.total /\ counts.others = 0
TaskPassed(task, verdict, counts) ==
    /\ verdict \notin {"nonzero", "timeout", "warning"}
    /\ task = "test" => TestsPassed(counts)
    /\ task \in {"compile", "test-compile"} => verdict # "miscounted"

(* scala_test_runtime_isolation: every suite ran with the directories of     *)
(* this run, and JNA was loaded from them at least once and from nowhere     *)
(* else.                                                                     *)
Isolated(reports) ==
    /\ reports # {}
    /\ \A s \in reports : s.properties = "own"
    /\ {s.jna : s \in reports} \ {"none"} = {"own"}

NoSummary(r) == [gate |-> "scala", by |-> r, pass |-> FALSE, source |-> None,
                 results |-> << >>, script |-> None]

-----------------------------------------------------------------------------
(* acquire_gate_lock: an existing lock file, stale or not, ends the run.     *)
(* Mutant: an existing lock file is taken over.                              *)
TakeGateLock(r) ==
    /\ At(r, "scala")
    /\ out' = [out EXCEPT ![Out(r)].made = TRUE, ![Out(r)].lock = r]
    /\ GoesTo(r, "locked")
    /\ RunAndOut
AcquireGateLock(r) ==
    /\ At(r, "scala")
    /\ IF out[Out(r)].lock = None
       THEN /\ out' = [out EXCEPT ![Out(r)].made = TRUE, ![Out(r)].lock = r]
            /\ GoesTo(r, "locked")
       ELSE UNCHANGED out /\ Exit(r, FALSE)
    /\ RunAndOut

(* The manifest is parsed and the installed tools compared with it.          *)
VerifyToolchain(r) ==
    /\ At(r, "locked")
    /\ IF ToolsLocked(repo.manifest)
       THEN run' = [run EXCEPT ![r].lock = repo.manifest, ![r].pc = "fingerprint"]
       ELSE GoesTo(r, "failing")
    /\ OnlyRun

FingerprintSource(r) ==
    /\ At(r, "fingerprint")
    /\ run' = [run EXCEPT ![r].before = repo.source, ![r].pc = "copy"]
    /\ OnlyRun

(* copy_source_snapshot: the workspace is this run's own.                    *)
CopySource(r) ==
    /\ At(r, "copy")
    /\ run' = [run EXCEPT ![r].copy = repo.source, ![r].seen = repo.manifest,
                          ![r].pc = "compare"]
    /\ OnlyRun

(* The copies are compared with what was copied, the cache with its lock,    *)
(* and the version that Java reports with the manifest's.                    *)
CompareCopy(r) ==
    /\ At(r, "compare")
    /\ \E version \in BOOLEAN :
         GoesTo(r, IF /\ run[r].seen = repo.manifest
                      /\ run[r].copy = run[r].before
                      /\ CacheLocked(run[r].lock) /\ version
                   THEN "task" ELSE "failing")
    /\ OnlyRun

(* One SBT task in the copy, which a task may change; a summary that says    *)
(* fail replaces the one before.                                             *)
RunTask(r) ==
    /\ At(r, "task")
    /\ \E verdict \in Verdicts, counts \in TestCounts, kept \in BOOLEAN :
         LET n == Len(run[r].results) + 1
             passed == TaskPassed(Tasks[n], verdict, counts)
             results == Append(run[r].results,
                               [passed |-> passed, on |-> run[r].copy])
         IN  /\ run' = [run EXCEPT
                  ![r].results = results,
                  ![r].copy = IF kept THEN @ ELSE None,
                  ![r].pc = IF n = Len(Tasks) THEN "audit" ELSE "task"]
             /\ out' = [out EXCEPT ![Out(r)].summary =
                  [NoSummary(r) EXCEPT !.results = results]]
    /\ RunAndOut

(* The reports of the tests show the isolated JVM paths, the Verilator       *)
(* commands keep to the policy, and the simulation left artifacts.           *)
AuditSimulation(r) ==
    /\ At(r, "audit")
    /\ \E script \in Scripts, reports \in Reports :
         run' = [run EXCEPT
            ![r].text = IF Isolated(reports) /\ Policy(script)
                          THEN script ELSE None,
            ![r].pc = "after"]
    /\ OnlyRun

(* Mutant: nothing is fingerprinted again.                                   *)
CloseOnTasks(r) ==
    /\ At(r, "after")
    /\ run' = [run EXCEPT
         ![r].passed = /\ run[r].text # None
                       /\ \A n \in DOMAIN run[r].results :
                              run[r].results[n].passed,
         ![r].pc = "finish"]
    /\ OnlyRun
(* gate_ok: nothing failed, the source and its copy are what they were, and  *)
(* the dependency cache still is what the lock lists.                        *)
CloseFingerprints(r) ==
    /\ At(r, "after")
    /\ run' = [run EXCEPT
         ![r].passed = /\ run[r].text # None
                       /\ repo.source = run[r].before
                       /\ run[r].copy = run[r].before
                       /\ repo.cache = repo.lock /\ repo.cache = run[r].lock
                       /\ \A n \in DOMAIN run[r].results :
                              run[r].results[n].passed,
         ![r].pc = "finish"]
    /\ OnlyRun

(* finally: the runtime directory is removed, which may fail, the summary    *)
(* written and the lock file, whoever made it, removed.                      *)
WriteSummary(r) ==
    /\ At(r, "finish") \/ At(r, "failing")
    /\ \E cleaned \in BOOLEAN :
         LET passed == cleaned /\ At(r, "finish") /\ run[r].passed
         IN  /\ out' = [out EXCEPT ![Out(r)].summary =
                   [NoSummary(r) EXCEPT !.pass = passed,
                        !.source = run[r].before,
                        !.results = run[r].results,
                        !.script = run[r].text]]
             /\ run' = [run EXCEPT ![r].passed = passed, ![r].pc = "unlock"]
    /\ RunAndOut

RemoveGateLock(r) ==
    /\ At(r, "unlock")
    /\ out' = [out EXCEPT ![Out(r)].lock = None]
    /\ Exit(r, run[r].passed)
    /\ RunAndOut

ScalaStep(r) ==
    \/ AcquireGateLock(r) \/ VerifyToolchain(r) \/ FingerprintSource(r)
    \/ CopySource(r) \/ CompareCopy(r) \/ RunTask(r) \/ AuditSimulation(r)
    \/ CloseFingerprints(r) \/ WriteSummary(r) \/ RemoveGateLock(r)

(* The lines inside try; an exception there leads to finally.                *)
ScalaTry == {"locked", "fingerprint", "copy", "compare", "task", "audit", "after"}
=============================================================================
