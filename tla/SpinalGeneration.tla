-------------------------- MODULE SpinalGeneration -------------------------
(* spinal-generate (tools/spinal_generate.py): the RTL is elaborated at      *)
(* least twice, each time from a new copy of the Scala source, and published *)
(* when all elaborations gave the same bytes and nothing they read changed.  *)
EXTENDS ScalaCheck

CONSTANTS
    Elaborations, \* --runs
    Outputs       \* what sbt may do: [exit, lines], of the kinds of lines
                  \* those that matter

ASSUME RunsAreRepeated == Elaborations \in Nat /\ Elaborations >= 2

(* validate_request: OUT_DIR is fresh; two runs may both find it so.         *)
ValidateRequest(r) ==
    /\ At(r, "generate")
    /\ IF Fresh(Out(r)) THEN GoesTo(r, "parse") ELSE Exit(r, FALSE)
    /\ OnlyRun

(* OUT_DIR is made and the manifest parsed, before it is hashed.             *)
ParseManifest(r) ==
    /\ At(r, "parse")
    /\ out' = [out EXCEPT ![Out(r)].made = TRUE]
    /\ run' = [run EXCEPT ![r].lock = repo.manifest, ![r].pc = "before"]
    /\ RunAndOut

(* verify_scala_dependencies.                                                *)
DependenciesVerified(r) == CacheLocked(run[r].lock)

(* locked_tools: the SBT launcher and Java are those of the manifest that    *)
(* was parsed.                                                               *)
LockedTools(r) == ToolsLocked(run[r].lock)

(* What is fingerprinted before and after; protected RTL and HEAD included.  *)
Inputs == [manifest |-> repo.manifest, source |-> repo.source,
           lock |-> repo.lock, cache |-> repo.cache, tools |-> repo.tools,
           tracked |-> repo.tracked, head |-> repo.head]

FingerprintInputs(r) ==
    /\ At(r, "before")
    /\ IF DependenciesVerified(r) /\ LockedTools(r)
       THEN run' = [run EXCEPT ![r].before = Inputs, ![r].pc = "elaborate"]
       ELSE Exit(r, FALSE)
    /\ OnlyRun

(* copy_scala_snapshot: another run's workspace in this OUT_DIR is an error. *)
CopySnapshot(r) ==
    /\ At(r, "elaborate")
    /\ LET n == Len(run[r].results) + 1
       IN  IF n \in out[Out(r)].workspaces
           THEN Exit(r, FALSE) /\ UNCHANGED out
           ELSE /\ out' = [out EXCEPT ![Out(r)].workspaces = @ \cup {n}]
                /\ run' = [run EXCEPT
                     ![r].copy = [source |-> repo.source,
                                  manifest |-> repo.manifest, lock |-> repo.lock],
                     ![r].pc = "run main"]
    /\ RunAndOut

(* inspect_generated_rtl: a single file with one balanced module per name,   *)
(* or an error that is kept with the run.                                    *)
Inspected(rtl) == rtl # None

(* warning_lines and failure_marker_lines: nothing but the JVM's notice of   *)
(* the options this program gave it.                                         *)
Silent(output) == output.lines \subseteq {"own options"}

(* It exited with 0 and printed nothing to worry about, its copy was the     *)
(* source and stayed it, and the copied locks are those fingerprinted before.*)
ElaborationPassed(r, output, kept) ==
    /\ output.exit = 0 /\ Silent(output) /\ kept
    /\ run[r].copy.source = run[r].before.source
    /\ run[r].copy.manifest = run[r].before.manifest
    /\ run[r].copy.lock = run[r].before.lock

Elaborate(r) ==
    /\ At(r, "run main")
    /\ \E output \in Outputs, kept \in BOOLEAN,
          rtl \in {Elaborated(run[r].copy.source, x) : x \in Variants}
                    \cup {None} :
         LET results == Append(run[r].results,
               [passed |-> ElaborationPassed(r, output, kept) /\ Inspected(rtl),
                rtl |-> rtl])
         IN  run' = [run EXCEPT
               ![r].results = results, ![r].copy = None,
               ![r].pc = IF Len(results) = Elaborations THEN "inputs again"
                                                        ELSE "elaborate"]
    /\ OnlyRun

Payloads(r) == {run[r].results[n].rtl : n \in DOMAIN run[r].results}

(* Mutant: the last RTL is taken for that of all.                            *)
ReproducibleAtLast(r) == Inspected(Last(run[r].results).rtl)
Reproducible(r) == None \notin Payloads(r) /\ Cardinality(Payloads(r)) = 1

StableInputs(r) == run[r].before = Inputs

(* The cache is verified against the lock once more, which may be an error.  *)
FingerprintAgain(r) ==
    /\ At(r, "inputs again")
    /\ IF DependenciesVerified(r)
       THEN run' = [run EXCEPT
              ![r].passed = /\ \A n \in DOMAIN run[r].results :
                                    run[r].results[n].passed
                            /\ Reproducible(r) /\ StableInputs(r),
              ![r].pc = "publish rtl"]
       ELSE Exit(r, FALSE)
    /\ OnlyRun

PublishRtl(r) ==
    /\ At(r, "publish rtl")
    /\ out' = [out EXCEPT ![Out(r)].rtl =
                    IF run[r].passed THEN run[r].results[1].rtl ELSE @]
    /\ GoesTo(r, "summarise")
    /\ RunAndOut

SummariseGeneration(r) ==
    /\ At(r, "summarise")
    /\ out' = [out EXCEPT ![Out(r)].summary =
         [gate |-> "generate", by |-> r, pass |-> run[r].passed,
          source |-> run[r].before.source, head |-> run[r].before.head,
          rtl |-> out[Out(r)].rtl, results |-> run[r].results]]
    /\ Exit(r, run[r].passed)
    /\ RunAndOut

GenerateStep(r) ==
    \/ ValidateRequest(r) \/ ParseManifest(r) \/ FingerprintInputs(r)
    \/ CopySnapshot(r) \/ Elaborate(r) \/ FingerprintAgain(r)
    \/ PublishRtl(r) \/ SummariseGeneration(r)
=============================================================================
