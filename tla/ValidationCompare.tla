------------------------- MODULE ValidationCompare -------------------------
(* identity_compare.py: a locked and a mixed iteration, each with an overlay *)
(* and a smoke run, are compared; the result is published under the mixed    *)
(* iteration.                                                                *)
EXTENDS ValidationSmoke

InputNames(r) ==
    [lockedOverlay |-> <<"overlay", Out(r), Iteration(r)>>,
     lockedSmoke |-> <<"smoke", Out(r), Iteration(r)>>,
     mixedOverlay |-> <<"overlay", Out(r), command[r].mixed>>,
     mixedSmoke |-> <<"smoke", Out(r), command[r].mixed>>]

Inputs(r) == [n \in DOMAIN InputNames(r) |-> reports[InputNames(r)[n]]]

(* _runtime_anchors: a passing doctor and a clean commit.                    *)
Anchors(r) == [doctor |-> doctor[Out(r)], head |-> repo.head]
AnchorsHold(r) == DoctorPasses(Out(r)) /\ repo.clean

CompareFails(r) == GoesTo(r, "abort") /\ OnlyRun

CompareCheck(r) ==
    /\ At(r, "check") /\ command[r].op = "compare"
    /\ IF AnchorsHold(r)
       THEN /\ run' = [run EXCEPT ![r].doctor = Anchors(r),
                                  ![r].pc = "compare"]
            /\ OnlyRun
       ELSE CompareFails(r)

(* An input of the wrong kind is an error.                                   *)
CriticalShape(in) ==
    /\ in.lockedOverlay.manifest.eligible
    /\ in.mixedOverlay.manifest.source = "mixed"

(* Both overlays and both smoke runs were made under the doctor report and   *)
(* the mixed overlay at the commit of this comparison, and verifying both    *)
(* workspaces anew finds nothing moved.                                      *)
RuntimeBindings(r, in) ==
    /\ in.mixedOverlay.manifest.head = run[r].doctor.head
    /\ \A report \in {in.lockedOverlay.manifest, in.mixedOverlay.manifest,
                     in.lockedSmoke, in.mixedSmoke} :
            report.doctor = run[r].doctor.doctor
    /\ OverlayIntact(Out(r), Work(r), Iteration(r), FALSE, TRUE)
    /\ OverlayIntact(Out(r), Work(r), command[r].mixed, TRUE, TRUE)

(* The smoke run built a simulator, whatever the simulation said.            *)
SmokeContract(smoke) == smoke.binary # None

(* The workspace still holds the artifacts the smoke report hashes.          *)
PhysicalArtifacts(r, i, smoke) == workspace[Work(r), i].binary = smoke.binary

Comparable(r) ==
    LET in == Inputs(r)
    IN  /\ \A n \in DOMAIN in : Published(InputNames(r)[n])
        /\ CriticalShape(in)
        /\ RuntimeBindings(r, in)
        /\ SmokeContract(in.lockedSmoke) /\ SmokeContract(in.mixedSmoke)
        /\ PhysicalArtifacts(r, Iteration(r), in.lockedSmoke)
        /\ PhysicalArtifacts(r, command[r].mixed, in.mixedSmoke)

(* A smoke run of another overlay is a mismatch only.                        *)
HashChain(overlay, smoke) == smoke.overlay = overlay

(* So are different RTL, replacements that are not the locked bytes, and     *)
(* different results.                                                        *)
IdentityReplacements(in) ==
    in.mixedOverlay.manifest.files = SourceFiles("candidate", 0)
ProjectionsEqual(in) ==
    /\ in.lockedOverlay.manifest.files = in.mixedOverlay.manifest.files
    /\ in.lockedSmoke.gate = in.mixedSmoke.gate

(* Mutant: the RTL is not compared.                                          *)
MatchesResults(in) ==
    /\ HashChain(in.lockedOverlay, in.lockedSmoke)
    /\ HashChain(in.mixedOverlay, in.mixedSmoke)
    /\ in.lockedSmoke.gate = in.mixedSmoke.gate
Matches(in) ==
    /\ HashChain(in.lockedOverlay, in.lockedSmoke)
    /\ HashChain(in.mixedOverlay, in.mixedSmoke)
    /\ IdentityReplacements(in)
    /\ ProjectionsEqual(in)

Compare(r) ==
    /\ At(r, "compare")
    /\ IF Comparable(r)
       THEN /\ run' = [run EXCEPT ![r].input = Inputs(r),
                                  ![r].ok = Matches(Inputs(r)),
                                  ![r].pc = "anchors again"]
            /\ OnlyRun
       ELSE CompareFails(r)

(* The anchors and the six inputs must be what they were; then the report.   *)
CompareReport(r) ==
    /\ At(r, "anchors again")
    /\ IF AnchorsHold(r) /\ Anchors(r) = run[r].doctor
          /\ Inputs(r) = run[r].input
          /\ \A side \in {"lockedOverlay", "mixedOverlay"} :
                manifests[InputNames(r)[side][2], InputNames(r)[side][3]]
                  = run[r].input[side].manifest
       THEN /\ WriteReport(r, [by |-> r, input |-> run[r].input,
                               anchors |-> run[r].doctor, pass |-> run[r].ok],
                           "mark")
            /\ UNCHANGED << command, lockFile, markers, manifests, exports,
                            workspace, doctor, repo, events >>
       ELSE CompareFails(r)

CompareStep(r) == CompareCheck(r) \/ Compare(r) \/ CompareReport(r)
=============================================================================
