----------------------- MODULE ValidationProperties ------------------------
(* What the validation pipeline must guarantee however its commands overlap. *)
EXTENDS ValidationPipeline

(* The runs that may touch reports and workspaces: past their last lock.     *)
Working(r) == Live(r) /\ run[r].pc \notin {"acquire", "release"}
                      /\ command[r].op # "export"

-----------------------------------------------------------------------------
IterationsOf(c) == IF c.op = "compare" THEN {c.iter, c.mixed} ELSE {c.iter}

(* Two runs that share an OUT_DIR or a work root never work on one iteration *)
(* at a time, whichever of the two they share, through interrupts, kills and *)
(* the clearing of a dead run's locks (acquire_iteration_lock).              *)
OneRunPerIteration ==
    \A r, q \in Runs :
        (r # q /\ Working(r) /\ Working(q)
            /\ (Out(r) = Out(q) \/ Work(r) = Work(q)))
        => IterationsOf(command[r]) \cap IterationsOf(command[q]) = {}

(* A publication marker never stands beside a report it does not hash: not   *)
(* while a report is being replaced, and not after a kill between the two    *)
(* files (remove_stale_report_publication, write_publication_marker).        *)
MarkerHashesItsReport ==
    \A name \in ReportNames : markers[name] # None => Published(name)

(* From the moment a run generates anything until it publishes, no evidence  *)
(* stands under its name: what an earlier run published cannot be taken for  *)
(* the result of one that is under way or that failed.                       *)
NothingStandsMeanwhile ==
    \A r \in Runs :
        (Working(r) /\ run[r].pc \notin {"withdraw", "withdraw report", "confirm"})
        => ~Published(ReportOf(r))

-----------------------------------------------------------------------------
(* A published smoke report tells of a simulator that the same run built     *)
(* from exactly the RTL of the overlay it names, even when the workspace was *)
(* edited or another overlay wanted it (the re-check after the simulation);  *)
(* and no two runs ever build in one workspace: after an interrupted run its *)
(* lock, after a completed one the files it generated keep the next run out  *)
(* until an overlay has rebuilt the workspace.                               *)
SmokeRanItsOverlay ==
    /\ \A o \in Outs, i \in Iterations :
          LET smoke == reports[<<"smoke", o, i>>]
          IN  (Published(<<"smoke", o, i>>) /\ smoke.gate)
              => smoke.binary = [by |-> smoke.by,
                                 dut |-> smoke.overlay.manifest.files]
    /\ \A w \in Works, i \in Iterations : Cardinality(workspace[w, i].builders) <= 1

(* Evidence that counts for the gate is about the locked candidate, although *)
(* golden-export replaces the export directory of "standalone" under a       *)
(* running overlay and the workspace can be edited.                          *)
EligibleMeansLockedCandidate ==
    \A o \in Outs, i \in Iterations :
        LET overlay == reports[<<"overlay", o, i>>]
            smoke == reports[<<"smoke", o, i>>]
        IN  /\ (Published(<<"overlay", o, i>>) /\ overlay.manifest.eligible)
               => /\ overlay.manifest.files = "locked"
                  /\ overlay.manifest.doctor.pass
            /\ (Published(<<"smoke", o, i>>) /\ smoke.eligible /\ smoke.gate)
               => smoke.binary.dut = "locked"

-----------------------------------------------------------------------------
(* A published comparison that passed compared one eligible and one mixed    *)
(* overlay made under one doctor report and one commit, with equal RTL, each *)
(* with a smoke run of that very overlay and the same result.                *)
ComparisonIsOfOneState ==
    \A o \in Outs, i \in Iterations :
        LET c == reports[<<"compare", o, i>>]
            in == c.input
        IN  (Published(<<"compare", o, i>>) /\ c.pass) =>
            /\ in.lockedOverlay.manifest.eligible
            /\ in.mixedOverlay.manifest.source = "mixed"
            /\ in.mixedOverlay.manifest.files = "locked"
            /\ ReplacementAt(in.mixedOverlay.manifest.head) = "locked"
            /\ \A smoke \in {in.lockedSmoke, in.mixedSmoke} :
                  /\ smoke.binary.dut = "locked"
                  /\ smoke.doctor = in.mixedOverlay.manifest.doctor
                  /\ smoke.overlay.manifest.doctor = smoke.doctor
            /\ c.anchors.head = in.mixedOverlay.manifest.head
            /\ in.lockedSmoke.gate = in.mixedSmoke.gate

(* When a comparison is published, the four reports it compared still stand  *)
(* published: no overlay or smoke run has replaced one meanwhile.            *)
ComparedReportsStillStand ==
    [][\A o \in Outs, i \in Iterations :
         LET name == <<"compare", o, i>>
         IN  (~Published(name) /\ Published(name)') =>
             LET c == markers'[name]
                 side(kind, n, report) ==
                    Published(<<kind, o, n>>) /\ reports[<<kind, o, n>>] = report
             IN  /\ side("overlay", command[c.by].iter, c.input.lockedOverlay)
                 /\ side("smoke", command[c.by].iter, c.input.lockedSmoke)
                 /\ side("overlay", i, c.input.mixedOverlay)
                 /\ side("smoke", i, c.input.mixedSmoke)]_vars

-----------------------------------------------------------------------------
(* The pipeline implements the promise of EvidencePublication.               *)
Standing ==
    [name \in ReportNames |->
        IF Published(name) THEN reports[name].by ELSE None]
Holders ==
    [name \in ReportNames |->
        {r \in Runs : /\ run[r].held # << >> /\ ReportOf(r) = name
                      /\ <<name[2], name[3]>> \in Range(run[r].held)}]
Sole(set) == IF set = {} THEN None ELSE CHOOSE x \in set : TRUE
Author == [name \in ReportNames |-> Sole(Holders[name])]
Evidence == INSTANCE EvidencePublication WITH
    Names <- ReportNames, standing <- Standing, author <- Author
PublishesAsPromised == Evidence!Spec
=============================================================================
