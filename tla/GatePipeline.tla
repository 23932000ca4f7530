---------------------------- MODULE GatePipeline ---------------------------
(* The Scala check, the RTL generation and the core_top gates running side   *)
(* by side on one repository, with kills, interrupts and edits at any time;  *)
(* and the record of an iteration, which is judged on its own; and what the  *)
(* evidence of the tools means, however they overlap and whatever is edited  *)
(* meanwhile.                                                                *)
EXTENDS CoreTopGates, IterationEvidence, Relation

vars == << gateVars, iterationVars >>

RunStep(r) == Invoke(r) \/ ScalaStep(r) \/ GenerateStep(r) \/ GateStep(r)

(* A developer makes a packaged RTL the tracked one.                         *)
Install(r) ==
    /\ At(r, "install")
    /\ IF out[job[r].rtl].rtl = None THEN UNCHANGED repo
       ELSE repo' = [repo EXCEPT !.tracked = out[job[r].rtl].rtl]
    /\ Exit(r, TRUE)
    /\ UNCHANGED << job, out, events >>

Happens == events > 0 /\ events' = events - 1

(* The process dies: no finally clause runs and every file stays.            *)
Kill(r) ==
    /\ Happens /\ Live(r)
    /\ run' = [run EXCEPT ![r] = [NewRun EXCEPT !.pc = "killed"]]
    /\ UNCHANGED << job, out, repo >>

(* An exception inside the try of scala-check (an I/O error, Ctrl-C).        *)
Interrupt(r) ==
    /\ Happens /\ run[r].pc \in ScalaTry
    /\ GoesTo(r, "failing")
    /\ UNCHANGED << job, out, repo >>

(* Someone edits or restores an input, or replaces the tracked package.      *)
Edit ==
    /\ Happens
    /\ \/ \E v \in Sources \ {repo.source} : repo' = [repo EXCEPT !.source = v]
       \/ repo' = [repo EXCEPT !.manifest = 1 - @]
       \/ repo' = [repo EXCEPT !.cache = 1 - @]
       \/ repo' = [repo EXCEPT !.tools = 1 - @]
       \/ repo' = [repo EXCEPT !.head = 1 - @]
       \/ repo' = [repo EXCEPT !.ports = 1 - @]
       \/ \E o \in Outs : out[o].rtl \notin {None, repo.tracked}
                          /\ repo' = [repo EXCEPT !.tracked = out[o].rtl]
    /\ UNCHANGED << job, run, out >>

(* Nobody invokes a tool: the instance is about the iteration.               *)
Judging == \A r \in Runs : job[r] = None

(* Where the tools run, one draft of the record is as good as any.           *)
Init ==
    /\ GateInit /\ IterationInit
    /\ Judging \/ record.status = "blocked"

Next ==
    \/ /\ ~Judging
       /\ \/ \E r \in Runs : RunStep(r) \/ Install(r) \/ Kill(r) \/ Interrupt(r)
          \/ Edit
       /\ UNCHANGED iterationVars
    \/ Judging /\ IterationNext /\ UNCHANGED gateVars

Spec == Init /\ [][Next]_vars

-----------------------------------------------------------------------------
(* The promises.                                                             *)
Summary(o, gate) == out[o].summary # None /\ out[o].summary.gate = gate
Passed(o, gate) == Summary(o, gate) /\ out[o].summary.pass

-----------------------------------------------------------------------------
(* A passing scala-check stands for one source: each of its four tasks       *)
(* passed, and each one ran on a copy of the very source that the summary    *)
(* names, although the source, the copy and the cache can be edited between  *)
(* any two steps (main of tools/scala_gate.py).                              *)
ScalaPassIsOfOneSource ==
    \A o \in Outs : Passed(o, "scala") =>
        LET s == out[o].summary
        IN  /\ Len(s.results) = Len(Tasks)
            /\ \A n \in DOMAIN s.results :
                  s.results[n].passed /\ s.results[n].on = s.source

(* At most one scala-check works in an OUT_DIR, and after a killed one none  *)
(* ever does again: its logs and its summary are not mixed with another's.   *)
InGate(r) == run[r].pc \in ScalaTry \cup {"failing", "finish", "unlock"}
OneScalaRunPerOut ==
    \A r \in Runs : InGate(r) => out[Out(r)].lock = r

(* Behind a passing scala-check no RTL file that the simulation could reach, *)
(* through however many and even circular includes, switches a warning off   *)
(* (verilator_script_policy).                                                *)
NoWaiverIsReached ==
    LET closure == TransitiveClosure(
            [f, g \in RtlFiles |-> g \in IncludesOf[f]], RtlFiles)
    IN  \A o \in Outs : Passed(o, "scala") =>
            \A f \in out[o].summary.script.inputs, g \in Waiving :
                f # g /\ ~closure[f, g]

-----------------------------------------------------------------------------
(* A passing spinal-generate stands for one source: the RTL it published is  *)
(* what every elaboration gave, each from a copy of the source whose         *)
(* fingerprint and HEAD the summary names.  RTL in the OUT_DIR is of a run   *)
(* that passed, and two runs that both found the directory fresh do not both *)
(* publish into it.                                                          *)
GeneratedFromOneSource ==
    /\ \A o \in Outs : Passed(o, "generate") =>
          LET s == out[o].summary
          IN  /\ Len(s.results) = Elaborations
              /\ out[o].rtl = s.rtl
              /\ \A n \in DOMAIN s.results :
                    /\ s.results[n].passed /\ s.results[n].rtl = s.rtl
                    /\ s.results[n].rtl.of = s.source
    /\ \A o \in Outs : Summary(o, "generate") =>
          /\ out[o].rtl # None <=> out[o].summary.pass
          /\ \A r \in Runs :
                (run[r].pc \in {"publish rtl", "summarise"} /\ Out(r) = o)
                => r = out[o].summary.by

-----------------------------------------------------------------------------
(* When publish-check passes, the tracked package is held in reset for any   *)
(* TLBNUM but 32 and annotated, Verilator reports nothing about it but the   *)
(* categories that were reviewed, and it was elaborated by a generation that *)
(* still stands in an OUT_DIR, or with the package that was tracked at first.*)
(* (How often it was packaged is not said: nothing refuses a package.)       *)
Origin(rtl) == << rtl.of, rtl.variant >>
Traced(rtl) ==
    \/ \E p \in Outs : /\ out[p].rtl # None /\ ~out[p].rtl.guarded
                       /\ Origin(out[p].rtl) = Origin(rtl)
    \/ \E s \in Scenarios : s.jobs = job /\ Origin(s.repo.tracked) = Origin(rtl)
PublishedIsGenerated ==
    \A o \in Outs : Passed(o, "publish") =>
        LET rtl == out[o].summary.rtl
        IN  /\ rtl.tlbnum = "32" /\ rtl.guarded /\ rtl.marks > 0
            /\ Categories(Warnings(rtl)) = Approved
            /\ Traced(rtl)

(* The waiver always lists exactly the warnings of the RTL it is bound to,   *)
(* although the package can be replaced during a refresh and a refresh can   *)
(* be killed between the spec and the waiver.                                *)
WaiverDescribesItsRtl ==
    repo.waiver.warnings = Warnings(repo.waiver.rtl)

(* An accepted record whose review passed is about the code of HEAD: what    *)
(* was reviewed and what was tested is HEAD but for files of evidence,       *)
(* across commits, merges and checkouts; and its outcome is that of an event *)
(* of its own job in the raw file as it is now.                              *)
AcceptedReviewIsOfThisCode ==
    (Judging /\ Accepts) =>
        /\ record.review.status = "pass" =>
              /\ Code(record.review.head) = Code(git.head)
              /\ Code(record.head) = Code(git.head)
        /\ \E n \in DOMAIN raw :
              /\ raw[n].job = record.review.job /\ raw[n].done
              /\ raw[n].status = "completed" <=> record.review.status = "pass"
=============================================================================
