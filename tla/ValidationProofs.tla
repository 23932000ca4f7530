-------------------------- MODULE ValidationProofs --------------------------
(***************************************************************************)
(* Proofs about the validation pipeline, for any number of runs, OUT_DIRs,   *)
(* work roots and iterations, and any interrupts, kills and outside changes: *)
(* the lock files keep the runs of an iteration apart, and therefore what    *)
(* stands published is whole and never outlives the run that replaces it.    *)
(*                                                                           *)
(* The argument has two layers.  Whatever a run does between its last lock   *)
(* and the release of the locks is an InnerStep: it leaves the lock files    *)
(* alone and touches reports and markers only under its own name, in one of  *)
(* four ways.  The invariants, and then the refinement, are shown of         *)
(* InnerStep and of the few steps that handle locks.                         *)
(***************************************************************************)
EXTENDS ValidationProperties, FiniteSetTheorems, TLAPS

Unlocked == {"idle", "ended", "killed", "acquire", "release"}
ExportPcs ==
    {"idle", "export", "export files", "export manifest", "release", "ended",
     "killed"}

(***************************************************************************)
(* The inductive invariant.                                                  *)
(***************************************************************************)
Shape ==
    /\ \E s \in Scenarios : command = s.commands
    /\ DOMAIN lockFile = LockNames
    /\ DOMAIN reports = ReportNames
    /\ DOMAIN markers = ReportNames
    /\ DOMAIN run = Runs
    /\ \A r \in Runs : {"pc", "held", "report"} \subseteq DOMAIN run[r]

(* Who has begun was invoked; a golden-export knows no other steps than its  *)
(* own; who is about to mark a report wrote it.                              *)
Progress(r) ==
    /\ run[r].pc \notin {"idle", "ended", "killed"} => command[r] # None
    /\ command[r] # None /\ command[r].op = "export" => run[r].pc \in ExportPcs
    /\ run[r].pc = "acquire" => command[r].op # "export"
    /\ run[r].pc \in {"smoke release", "mark"} => run[r].report.by = r

(* The files a run holds are its own.  It takes its locks in their order, a  *)
(* run that works holds them all, and one that is over holds none.           *)
HoldsItsLocks(r) ==
    /\ run[r].held \in Seq(LockNames)
    /\ \A n \in 1 .. Len(run[r].held) : lockFile[run[r].held[n]] = r
    /\ \A m, n \in 1 .. Len(run[r].held) : run[r].held[m] = run[r].held[n] => m = n
    /\ Working(r) \/ run[r].pc = "acquire" =>
          \A n \in 1 .. Len(run[r].held) : run[r].held[n] = LocksOf(r)[n]
    /\ Working(r) => Len(run[r].held) = Len(LocksOf(r))
    /\ run[r].pc = "acquire" => Len(run[r].held) < Len(LocksOf(r))
    /\ run[r].pc \in {"idle", "ended", "killed"} => run[r].held = << >>

LockInv ==
    /\ Shape
    /\ \A r \in Runs : Progress(r) /\ HoldsItsLocks(r)

(* From its withdrawal to its publication a run has no marker.               *)
EvidenceInv ==
    /\ MarkerHashesItsReport
    /\ \A r \in Runs :
         Working(r) /\ run[r].pc \notin {"withdraw", "confirm"}
         => markers[ReportOf(r)] = None

(***************************************************************************)
(* The locks of a run.                                                       *)
(***************************************************************************)
LEMMA CommandTypes ==
  ASSUME Shape, NEW r \in Runs, command[r] # None
  PROVE  /\ command[r].op \in Kinds \cup {"export"}
         /\ command[r].out \in Outs /\ command[r].work \in Works
         /\ command[r].iter \in Iterations
         /\ command[r].op = "compare" =>
               command[r].mixed \in Iterations \ {command[r].iter}
BY CommandAssumption DEF Shape

(* Every lock is a file below one of the two roots, and both roots have one  *)
(* for every iteration of the command.                                       *)
LEMMA LocksCover ==
  ASSUME Shape, NEW r \in Runs, command[r] # None, command[r].op # "export"
  PROVE  /\ LocksOf(r) \in Seq(LockNames) /\ Len(LocksOf(r)) > 0
         /\ \A i \in IterationsOf(command[r]) :
               /\ \E n \in 1 .. Len(LocksOf(r)) : LocksOf(r)[n] = <<Out(r), i>>
               /\ \E n \in 1 .. Len(LocksOf(r)) : LocksOf(r)[n] = <<Work(r), i>>
<1> DEFINE c == command[r]
           ids == SortedIterations(c)
           N == Len(ids)
<1>1. /\ c.out \in Outs /\ c.work \in Works /\ c.iter \in Iterations
      /\ c.op = "compare" => c.mixed \in Iterations
  BY CommandTypes
<1>2. /\ ids \in Seq(Iterations) /\ N \in {1, 2}
      /\ \A i \in IterationsOf(c) : \E n \in 1 .. N : ids[n] = i
  BY <1>1 DEF SortedIterations, IterationsOf
<1>3. ASSUME NEW root \in Outs \cup Works
      PROVE  /\ Below(root, ids) \in Seq(LockNames)
             /\ Len(Below(root, ids)) = N
             /\ \A n \in 1 .. N : Below(root, ids)[n] = <<root, ids[n]>>
  <2> HIDE DEF ids
  <2>1. DOMAIN ids = 1 .. N /\ N \in Nat /\ \A n \in 1 .. N : ids[n] \in Iterations
    BY <1>2
  <2>2. \A n \in 1 .. N : <<root, ids[n]>> \in LockNames
    BY <2>1 DEF LockNames
  <2> QED
    BY <2>1, <2>2 DEF Below
<1> HIDE DEF ids
<1> DEFINE a == Below(c.out, ids)
           b == Below(c.work, ids)
<1>4. a \in Seq(LockNames) /\ b \in Seq(LockNames) /\ Len(a) = N /\ Len(b) = N
  BY <1>1, <1>3
<1>5. \A n \in 1 .. N : a[n] = <<c.out, ids[n]>> /\ b[n] = <<c.work, ids[n]>>
  BY <1>1, <1>3
<1>6. LocksOf(r) = a \o b
  BY DEF LocksOf, ids
<1> HIDE DEF a, b
<1>7. /\ a \o b \in Seq(LockNames) /\ Len(a \o b) = N + N
      /\ \A n \in 1 .. N : (a \o b)[n] = a[n] /\ (a \o b)[N + n] = b[n]
  BY <1>4, <1>2
<1>8. ASSUME NEW i \in IterationsOf(c)
      PROVE  /\ \E n \in 1 .. N + N : (a \o b)[n] = <<c.out, i>>
             /\ \E n \in 1 .. N + N : (a \o b)[n] = <<c.work, i>>
  <2>1. PICK n \in 1 .. N : ids[n] = i
    BY <1>2
  <2>2. n \in 1 .. N + N /\ N + n \in 1 .. N + N
    BY <1>2
  <2>3. (a \o b)[n] = <<c.out, i>> /\ (a \o b)[N + n] = <<c.work, i>>
    BY <1>5, <1>7, <2>1
  <2> QED
    BY <2>2, <2>3
<1> HIDE DEF N
<1>9. Len(LocksOf(r)) = N + N /\ N + N > 0
  <2>1. Len(LocksOf(r)) = N + N
    BY <1>6, <1>7
  <2>2. N = 1 \/ N = 2
    BY <1>2
  <2> QED
    BY <2>1, <2>2
<1>10. LocksOf(r) \in Seq(LockNames)
  BY <1>6, <1>7
<1>11. Out(r) = c.out /\ Work(r) = c.work
  BY DEF Out, Work
<1> QED
  BY <1>6, <1>8, <1>9, <1>10, <1>11

(* Two runs that hold locks of one iteration below a shared root would both  *)
(* be named by one lock file.                                                *)
LEMMA LocksExclude ==
  ASSUME LockInv
  PROVE  OneRunPerIteration
<1> SUFFICES ASSUME NEW r \in Runs, NEW q \in Runs, r # q,
                    Working(r), Working(q),
                    Out(r) = Out(q) \/ Work(r) = Work(q),
                    NEW i \in IterationsOf(command[r]),
                    i \in IterationsOf(command[q])
             PROVE  FALSE
  BY DEF OneRunPerIteration
<1>1. ASSUME NEW p \in {r, q}
      PROVE  /\ Shape /\ command[p] # None /\ command[p].op # "export"
             /\ \A n \in 1 .. Len(LocksOf(p)) : lockFile[LocksOf(p)[n]] = p
  <2>1. Working(p) /\ Progress(p) /\ HoldsItsLocks(p) /\ Shape
    BY DEF LockInv
  <2>2. command[p] # None /\ command[p].op # "export"
    BY <2>1 DEF Progress, Working, Live
  <2>3. \A n \in 1 .. Len(LocksOf(p)) : lockFile[LocksOf(p)[n]] = p
    BY <2>1 DEF HoldsItsLocks
  <2> QED
    BY <2>1, <2>2, <2>3
<1>2. ASSUME NEW p \in {r, q}
      PROVE  lockFile[<<Out(p), i>>] = p /\ lockFile[<<Work(p), i>>] = p
  <2>1. PICK n \in 1 .. Len(LocksOf(p)) : LocksOf(p)[n] = <<Out(p), i>>
    BY <1>1, LocksCover
  <2>2. PICK m \in 1 .. Len(LocksOf(p)) : LocksOf(p)[m] = <<Work(p), i>>
    BY <1>1, LocksCover
  <2> QED
    BY <1>1, <2>1, <2>2
<1> QED
  BY <1>2

(***************************************************************************)
(* What a run does between its locks.                                        *)
(***************************************************************************)
(* Only the record of run r changes, and it goes on to the step pc.          *)
RunMoves(r, pc) ==
    /\ DOMAIN run' = Runs
    /\ \A q \in Runs \ {r} : run'[q] = run[q]
    /\ {"pc", "held", "report"} \subseteq DOMAIN run'[r]
    /\ run'[r].pc = pc

(* It looks, withdraws, writes a report that has no marker, or publishes     *)
(* what stands.                                                              *)
EvidenceStep(r, pc) ==
    LET name == ReportOf(r)
    IN  \/ /\ UNCHANGED << reports, markers >>
           /\ pc \in {"confirm", "release"} \/ run[r].pc \notin {"withdraw", "confirm"}
        \/ /\ Working(r) /\ UNCHANGED reports
           /\ markers' = [markers EXCEPT ![name] = None]
        \/ /\ Working(r) /\ UNCHANGED markers
           /\ run[r].pc \notin {"withdraw", "confirm"}
           /\ \E report : reports' = [reports EXCEPT ![name] = report]
        \/ /\ Working(r) /\ UNCHANGED reports
           /\ run[r].pc = "mark" /\ pc \in {"confirm", "release"}
           /\ reports[name].by = r
           /\ markers' = [markers EXCEPT ![name] = reports[name]]

(* It keeps its locks, and marks only what it wrote.                         *)
InnerMoves(r, pc) ==
    /\ RunMoves(r, pc) /\ pc \notin {"idle", "ended", "killed", "acquire"}
    /\ run'[r].held = run[r].held
    /\ pc \in {"smoke release", "mark"} => run'[r].report.by = r

InnerStep(r) ==
    /\ UNCHANGED << command, lockFile >>
    /\ run[r].pc \notin Unlocked
    /\ \E pc :
         /\ InnerMoves(r, pc)
         /\ command[r].op = "export" => pc \in ExportPcs
         /\ EvidenceStep(r, pc)

(* A step GoesTo, and one that changes other fields of the record as well.   *)
LEMMA GoingMoves ==
  ASSUME Shape, NEW r \in Runs, NEW pc, GoesTo(r, pc)
  PROVE  /\ RunMoves(r, pc)
         /\ run'[r].held = run[r].held /\ run'[r].report = run[r].report
BY DEF Shape, GoesTo, RunMoves

LEMMA GoingInner ==
  ASSUME LockInv, NEW r \in Runs, NEW pc, GoesTo(r, pc),
         pc \notin {"idle", "ended", "killed", "acquire"},
         pc \in {"smoke release", "mark"} => run[r].pc \in {"smoke release", "mark"}
  PROVE  InnerMoves(r, pc)
BY GoingMoves DEF LockInv, Progress, InnerMoves

(* golden-export never is where a run withdraws, writes or publishes.        *)
LEMMA NoExportWorks ==
  ASSUME LockInv, NEW r \in Runs, run[r].pc \notin Unlocked,
         run[r].pc \notin ExportPcs
  PROVE  Working(r) /\ command[r].op # "export"
BY DEF LockInv, Progress, Working, Live, Unlocked

LEMMA MarkingIsInner ==
  ASSUME LockInv, NEW r \in Runs, At(r, "mark"), Marks(r),
         NEW pc \in {"confirm", "release"}, GoesTo(r, pc)
  PROVE  InnerStep(r)
<1>1. InnerMoves(r, pc)
  BY GoingInner
<1>2. Working(r) /\ command[r].op # "export"
  BY NoExportWorks DEF At, Unlocked, ExportPcs
<1>3. reports[ReportOf(r)].by = r
  BY DEF LockInv, Progress, At, Marks
<1>4. markers' = [markers EXCEPT ![ReportOf(r)] = reports[ReportOf(r)]]
  BY DEF Marks
<1>5. UNCHANGED << command, lockFile, reports >>
  BY DEF Marks
<1>6. EvidenceStep(r, pc)
  BY <1>2, <1>3, <1>4, <1>5 DEF EvidenceStep, At
<1> QED
  BY <1>1, <1>2, <1>5, <1>6 DEF InnerStep, At, Unlocked

LEMMA OverlayStepIsInner ==
  ASSUME LockInv, NEW r \in Runs, OverlayStep(r)
  PROVE  InnerStep(r)
<1> USE DEF At, Fails, OnlyRun, Unlocked, ExportPcs
<1>0. Shape
  BY DEF LockInv
<1>1. CASE Withdraw(r)
  BY <1>0, <1>1, GoingInner, NoExportWorks DEF Withdraw, InnerStep, EvidenceStep
<1>2. CASE OverlayCheck(r)
  <2>1. CASE GoesTo(r, "release")
    BY <1>0, <1>2, <2>1, GoingInner
       DEF OverlayCheck, InnerStep, EvidenceStep
  <2>2. CASE ~ GoesTo(r, "release")
    <3> DEFINE pc == IF command[r].source = "official" THEN "reset" ELSE "export"
    <3>1. InnerMoves(r, pc)
      BY <1>0, <1>2, <2>2 DEF OverlayCheck, InnerMoves, RunMoves, Shape
    <3> QED
      BY <1>2, <3>1, NoExportWorks DEF OverlayCheck, InnerStep, EvidenceStep
  <2> QED
    BY <2>1, <2>2
<1>3. CASE ExportRefused(r)
  BY <1>0, <1>3, GoingInner DEF ExportRefused, InnerStep, EvidenceStep
<1>4. CASE ExportReset(r)
  BY <1>0, <1>4, GoingInner DEF ExportReset, ExportStep, InnerStep, EvidenceStep
<1>5. CASE ExportFiles(r)
  BY <1>0, <1>5, GoingInner DEF ExportFiles, ExportStep, InnerStep, EvidenceStep
<1>6. CASE ExportManifest(r)
  BY <1>0, <1>6, GoingInner DEF ExportManifest, ExportStep, InnerStep, EvidenceStep
<1>7. CASE ResetWorkspace(r)
  BY <1>0, <1>7, GoingInner, NoExportWorks
     DEF ResetWorkspace, WorkspaceStep, InnerStep, EvidenceStep
<1>8. CASE CloneWorkspace(r)
  BY <1>0, <1>8, GoingInner, NoExportWorks
     DEF CloneWorkspace, WorkspaceStep, InnerStep, EvidenceStep
<1>9. CASE InstallDut(r)
  BY <1>0, <1>9, GoingInner, NoExportWorks
     DEF InstallDut, WorkspaceStep, InnerStep, EvidenceStep
<1>10. CASE BindOverlay(r)
  <2>1. InnerMoves(r, "mark work") \/ InnerMoves(r, "release")
    BY <1>0, <1>10 DEF BindOverlay, GoesTo, InnerMoves, RunMoves, Shape
  <2> QED
    BY <1>10, <2>1, NoExportWorks DEF BindOverlay, InnerStep, EvidenceStep
<1>11. CASE MarkWork(r)
  BY <1>0, <1>11, GoingInner, NoExportWorks
     DEF MarkWork, WorkspaceStep, InnerStep, EvidenceStep
<1>12. CASE OverlayReport(r)
  <2>1. CASE GoesTo(r, "release") /\ UNCHANGED << reports, markers >>
    BY <1>0, <1>12, <2>1, GoingInner, NoExportWorks
       DEF OverlayReport, InnerStep, EvidenceStep
  <2>2. CASE \E report : report.by = r /\ WriteReport(r, report, "mark") /\ UNCHANGED markers
    <3>1. InnerMoves(r, "mark")
      BY <1>0, <2>2 DEF WriteReport, InnerMoves, RunMoves, Shape
    <3> QED
      BY <1>12, <2>2, <3>1, NoExportWorks
         DEF OverlayReport, WriteReport, InnerStep, EvidenceStep
  <2> QED
    BY <1>12, <2>1, <2>2 DEF OverlayReport
<1>13. CASE MarkReport(r)
  BY <1>13, MarkingIsInner DEF MarkReport
<1>14. CASE Confirm(r)
  <2>1. InnerMoves(r, "release")
    BY <1>0, <1>14 DEF Confirm, InnerMoves, RunMoves, Shape
  <2> QED
    BY <1>14, <2>1 DEF Confirm, InnerStep, EvidenceStep
<1> QED
  BY <1>1, <1>2, <1>3, <1>4, <1>5, <1>6, <1>7, <1>8, <1>9, <1>10, <1>11,
     <1>12, <1>13, <1>14 DEF OverlayStep

(* A run that writes its report, or changes only its record, on the way to   *)
(* the step pc.                                                              *)
LEMMA WritingIsInner ==
  ASSUME LockInv, NEW r \in Runs, NEW report, NEW pc, WriteReport(r, report, pc),
         report.by = r,
         UNCHANGED << command, lockFile, markers >>,
         pc \notin {"idle", "ended", "killed", "acquire"},
         run[r].pc \notin Unlocked \cup ExportPcs \cup {"withdraw", "confirm"}
  PROVE  InnerStep(r)
<1>1. Working(r) /\ command[r].op # "export"
  BY NoExportWorks
<1>2. InnerMoves(r, pc)
  BY DEF WriteReport, InnerMoves, RunMoves, LockInv, Shape
<1> QED
  BY <1>1, <1>2 DEF WriteReport, InnerStep, EvidenceStep

LEMMA QuietIsInner ==
  ASSUME LockInv, NEW r \in Runs, NEW pc, InnerMoves(r, pc),
         UNCHANGED << command, lockFile, reports, markers >>,
         run[r].pc \notin Unlocked \cup ExportPcs \cup {"withdraw", "confirm"}
  PROVE  InnerStep(r)
BY NoExportWorks DEF InnerStep, EvidenceStep

LEMMA SmokeStepIsInner ==
  ASSUME LockInv, NEW r \in Runs, SmokeStep(r)
  PROVE  InnerStep(r)
<1> USE DEF At, Fails, OnlyRun, Unlocked, ExportPcs
<1>0. Shape
  BY DEF LockInv
<1>1. CASE SmokeCheck(r)
  <2>1. CASE GoesTo(r, "release")
    BY <1>1, <2>1, GoingInner, QuietIsInner DEF SmokeCheck
  <2>2. CASE ~ GoesTo(r, "release")
    <3>1. \E d, m : run' = [run EXCEPT ![r].input = m, ![r].doctor = d,
                                        ![r].pc = "smoke lock"]
      BY <1>1, <2>2 DEF SmokeCheck
    <3>2. InnerMoves(r, "smoke lock")
      BY <1>0, <3>1 DEF InnerMoves, RunMoves, Shape
    <3> QED
      BY <1>1, <3>2, QuietIsInner DEF SmokeCheck
  <2> QED
    BY <2>1, <2>2
<1>2. CASE LockSmoke(r)
  <2>1. InnerMoves(r, "configure") \/ InnerMoves(r, "release")
    BY <1>0, <1>2, GoingInner DEF LockSmoke
  <2> QED
    BY <1>2, <2>1, QuietIsInner DEF LockSmoke, WorkspaceStep
<1>3. CASE Configure(r)
  <2>1. InnerMoves(r, "build") \/ InnerMoves(r, "recheck")
    BY <1>0, <1>3 DEF Configure, InnerMoves, RunMoves, Shape
  <2> QED
    BY <1>3, <2>1, QuietIsInner DEF Configure, WorkspaceStep
<1>4. CASE Build(r)
  <2>1. InnerMoves(r, "simulate") \/ InnerMoves(r, "recheck")
    BY <1>0, <1>4 DEF Build, GoesTo, InnerMoves, RunMoves, Shape
  <2> QED
    BY <1>4, <2>1, QuietIsInner DEF Build, WorkspaceStep
<1>5. CASE Simulate(r)
  <2>1. InnerMoves(r, "recheck")
    BY <1>0, <1>5 DEF Simulate, InnerMoves, RunMoves, Shape
  <2> QED
    BY <1>5, <2>1, QuietIsInner DEF Simulate
<1>6. CASE SmokeReport(r)
  <2>1. CASE GoesTo(r, "abort") /\ OnlyRun
    BY <1>0, <1>6, <2>1, GoingInner, QuietIsInner DEF SmokeReport
  <2>2. CASE \E report : report.by = r /\ WriteReport(r, report, "smoke release")
                         /\ UNCHANGED << command, lockFile, markers >>
    BY <1>6, <2>2, WritingIsInner DEF SmokeReport
  <2> QED
    BY <1>6, <2>1, <2>2 DEF SmokeReport
<1>7. CASE ReleaseSmoke(r)
  <2>1. InnerMoves(r, "mark") \/ InnerMoves(r, "abort")
    BY <1>0, <1>7, GoingInner DEF ReleaseSmoke
  <2> QED
    BY <1>7, <2>1, QuietIsInner DEF ReleaseSmoke, WorkspaceStep
<1>8. CASE SmokeMark(r)
  BY <1>8, MarkingIsInner DEF SmokeMark
<1>9. CASE Abort(r)
  BY <1>0, <1>9, GoingInner, NoExportWorks DEF Abort, InnerStep, EvidenceStep
<1> QED
  BY <1>1, <1>2, <1>3, <1>4, <1>5, <1>6, <1>7, <1>8, <1>9 DEF SmokeStep

LEMMA CompareStepIsInner ==
  ASSUME LockInv, NEW r \in Runs, CompareStep(r)
  PROVE  InnerStep(r)
<1> USE DEF At, OnlyRun, Unlocked, ExportPcs
<1>0. Shape
  BY DEF LockInv
<1>1. CASE CompareCheck(r)
  <2>1. CASE CompareFails(r)
    BY <1>1, <2>1, GoingInner, QuietIsInner DEF CompareCheck, CompareFails
  <2>2. CASE ~ CompareFails(r)
    <3>1. \E d : run' = [run EXCEPT ![r].doctor = d, ![r].pc = "compare"]
      BY <1>1, <2>2 DEF CompareCheck
    <3>2. InnerMoves(r, "compare")
      BY <1>0, <3>1 DEF InnerMoves, RunMoves, Shape
    <3> QED
      BY <1>1, <2>2, <3>2, QuietIsInner DEF CompareCheck
  <2> QED
    BY <2>1, <2>2
<1>2. CASE Compare(r)
  <2>1. CASE CompareFails(r)
    BY <1>2, <2>1, GoingInner, QuietIsInner DEF Compare, CompareFails
  <2>2. CASE ~ CompareFails(r)
    <3>1. \E in, ok : run' = [run EXCEPT ![r].input = in, ![r].ok = ok,
                                          ![r].pc = "anchors again"]
      BY <1>2, <2>2 DEF Compare
    <3>2. InnerMoves(r, "anchors again")
      BY <1>0, <3>1 DEF InnerMoves, RunMoves, Shape
    <3> QED
      BY <1>2, <2>2, <3>2, QuietIsInner DEF Compare
  <2> QED
    BY <2>1, <2>2
<1>3. CASE CompareReport(r)
  <2>1. CASE CompareFails(r)
    BY <1>0, <1>3, <2>1, GoingInner, QuietIsInner DEF CompareReport, CompareFails
  <2>2. CASE \E report : report.by = r /\ WriteReport(r, report, "mark")
                         /\ UNCHANGED << command, lockFile, markers >>
    BY <1>3, <2>2, WritingIsInner DEF CompareReport
  <2> QED
    BY <1>3, <2>1, <2>2 DEF CompareReport
<1> QED
  BY <1>1, <1>2, <1>3 DEF CompareStep

(***************************************************************************)
(* The steps between the locks keep both invariants.                         *)
(***************************************************************************)
(* What the invariant says of a run depends on its own record, the command   *)
(* and the lock files only.                                                  *)
LEMMA OtherRunsKeepLocks ==
  ASSUME NEW q \in Runs, Progress(q), HoldsItsLocks(q),
         command' = command, run'[q] = run[q],
         \A name : lockFile[name] = q => lockFile'[name] = q
  PROVE  Progress(q)' /\ HoldsItsLocks(q)'
<1>1. LocksOf(q)' = LocksOf(q)
  BY DEF LocksOf
<1>2. Working(q)' <=> Working(q)
  BY DEF Working, Live
<1> QED
  BY <1>1, <1>2 DEF Progress, HoldsItsLocks

LEMMA InnerKeepsLocks ==
  ASSUME LockInv, NEW r \in Runs, InnerStep(r)
  PROVE  LockInv'
<1>1. PICK pc : /\ RunMoves(r, pc) /\ pc \notin {"idle", "ended", "killed", "acquire"}
                /\ run'[r].held = run[r].held
                /\ pc \in {"smoke release", "mark"} => run'[r].report.by = r
                /\ command[r].op = "export" => pc \in ExportPcs
                /\ EvidenceStep(r, pc)
  BY DEF InnerStep, InnerMoves
<1>2. command' = command /\ lockFile' = lockFile /\ run[r].pc \notin Unlocked
  BY DEF InnerStep
<1>3. Shape'
  <2>1. DOMAIN reports' = DOMAIN reports /\ DOMAIN markers' = DOMAIN markers
    BY <1>1 DEF EvidenceStep
  <2>2. ASSUME NEW q \in Runs  PROVE {"pc", "held", "report"} \subseteq DOMAIN run'[q]
    BY <1>1 DEF RunMoves, LockInv, Shape
  <2>3. DOMAIN run' = Runs
    BY <1>1 DEF RunMoves
  <2> QED
    BY <1>2, <2>1, <2>2, <2>3 DEF LockInv, Shape
<1>4. Progress(r)' /\ HoldsItsLocks(r)'
  <2>1. LocksOf(r)' = LocksOf(r)
    BY <1>2 DEF LocksOf
  <2>2. Working(r)' => Working(r)
    BY <1>2 DEF Working, Live, Unlocked
  <2>3. run'[r].pc = pc
    BY <1>1 DEF RunMoves
  <2>4. HoldsItsLocks(r)'
    <3>1. HoldsItsLocks(r)
      BY DEF LockInv
    <3>2. run'[r].pc \in {"idle", "ended", "killed"} => run[r].held = << >>
      BY <1>1, <2>3
    <3> QED
      BY <1>1, <1>2, <2>1, <2>2, <2>3, <3>1, <3>2 DEF HoldsItsLocks
  <2>5. command[r] # None
    BY <1>2 DEF LockInv, Progress, Unlocked
  <2>6. Progress(r)'
    BY <1>1, <1>2, <2>3, <2>5 DEF Progress
  <2> QED
    BY <2>4, <2>6
<1>5. ASSUME NEW q \in Runs \ {r}  PROVE Progress(q)' /\ HoldsItsLocks(q)'
  <2>1. run'[q] = run[q]
    BY <1>1 DEF RunMoves
  <2> QED
    BY <1>2, <2>1, OtherRunsKeepLocks DEF LockInv
<1> QED
  BY <1>3, <1>4, <1>5 DEF LockInv

LEMMA NameIsKnown ==
  ASSUME LockInv, NEW r \in Runs, Working(r)
  PROVE  ReportOf(r) \in ReportNames
<1>1. command[r] # None
  BY DEF LockInv, Progress, Working, Live
<1>2. /\ command[r].op \in Kinds /\ command[r].out \in Outs
      /\ command[r].iter \in Iterations
      /\ command[r].op = "compare" => command[r].mixed \in Iterations
  BY <1>1, CommandTypes DEF LockInv, Working
<1> QED
  BY <1>2 DEF ReportOf, ReportNames, Out, Iteration

(* Two working runs never publish under one name.                            *)
LEMMA NamesApart ==
  ASSUME LockInv, NEW r \in Runs, NEW q \in Runs, r # q, Working(r), Working(q),
         ReportOf(r) = ReportOf(q)
  PROVE  FALSE
<1>1. OneRunPerIteration
  BY LocksExclude
<1>2. command[r].op = command[q].op /\ Out(r) = Out(q)
  BY DEF ReportOf
<1>3. ReportOf(r)[3] \in IterationsOf(command[r]) \cap IterationsOf(command[q])
  BY <1>2 DEF ReportOf, IterationsOf, Iteration
<1> QED
  BY <1>1, <1>2, <1>3 DEF OneRunPerIteration

LEMMA InnerKeepsEvidence ==
  ASSUME LockInv, EvidenceInv, NEW r \in Runs, InnerStep(r)
  PROVE  EvidenceInv'
<1>1. PICK pc : RunMoves(r, pc) /\ EvidenceStep(r, pc)
  BY DEF InnerStep, InnerMoves
<1>2. /\ command' = command /\ run[r].pc \notin Unlocked /\ run'[r].pc = pc
      /\ \A q \in Runs \ {r} : run'[q] = run[q]
  BY <1>1 DEF InnerStep, RunMoves
<1>3. /\ \A q \in Runs : ReportOf(q)' = ReportOf(q)
      /\ \A q \in Runs \ {r} : Working(q)' <=> Working(q)
      /\ Working(r)' => Working(r) /\ pc # "release"
  BY <1>2 DEF ReportOf, Out, Iteration, Working, Live, Unlocked
<1>4. DOMAIN reports = ReportNames /\ DOMAIN markers = ReportNames
  BY DEF LockInv, Shape
<1> DEFINE name == ReportOf(r)
<1>5. ASSUME NEW q \in Runs \ {r}, Working(r), Working(q)
      PROVE  ReportOf(q) # name
  BY <1>5, NamesApart
<1> HIDE DEF name
<1>6. CASE /\ UNCHANGED << reports, markers >>
           /\ pc \in {"confirm", "release"} \/ run[r].pc \notin {"withdraw", "confirm"}
  <2>1. MarkerHashesItsReport'
    BY <1>6 DEF EvidenceInv, MarkerHashesItsReport, Published
  <2> QED
    BY <1>2, <1>3, <1>6, <2>1 DEF EvidenceInv
<1>7. CASE /\ Working(r) /\ UNCHANGED reports
           /\ markers' = [markers EXCEPT ![name] = None]
  <2>1. MarkerHashesItsReport'
    BY <1>4, <1>7 DEF EvidenceInv, MarkerHashesItsReport, Published
  <2>2. markers'[name] = None
    BY <1>4, <1>7, NameIsKnown DEF name
  <2>3. ASSUME NEW q \in Runs \ {r}, Working(q), run[q].pc \notin {"withdraw", "confirm"}
        PROVE  markers'[ReportOf(q)] = None
    BY <1>4, <1>5, <1>7, <2>3 DEF EvidenceInv
  <2> QED
    BY <1>2, <1>3, <2>1, <2>2, <2>3 DEF EvidenceInv, name
<1>8. CASE /\ Working(r) /\ UNCHANGED markers
           /\ run[r].pc \notin {"withdraw", "confirm"}
           /\ \E report : reports' = [reports EXCEPT ![name] = report]
  <2>1. markers[name] = None
    BY <1>8 DEF EvidenceInv, name
  <2>2. MarkerHashesItsReport'
    BY <1>4, <1>8, <2>1 DEF EvidenceInv, MarkerHashesItsReport, Published
  <2> QED
    BY <1>2, <1>3, <1>8, <2>2 DEF EvidenceInv
<1>9. CASE /\ Working(r) /\ UNCHANGED reports
           /\ run[r].pc = "mark" /\ pc \in {"confirm", "release"}
           /\ reports[name].by = r
           /\ markers' = [markers EXCEPT ![name] = reports[name]]
  <2>1. MarkerHashesItsReport'
    BY <1>4, <1>9 DEF EvidenceInv, MarkerHashesItsReport, Published
  <2>2. ASSUME NEW q \in Runs, Working(q)', run'[q].pc \notin {"withdraw", "confirm"}
        PROVE  (markers[ReportOf(q)] = None)'
    <3>1. q # r
      BY <1>2, <1>3, <1>9, <2>2
    <3> QED
      BY <1>2, <1>3, <1>5, <1>9, <2>2, <3>1 DEF EvidenceInv
  <2> QED
    BY <2>1, <2>2 DEF EvidenceInv
<1> QED
  BY <1>1, <1>6, <1>7, <1>8, <1>9 DEF EvidenceStep, name

(***************************************************************************)
(* The steps that handle locks, and what happens around the runs.            *)
(***************************************************************************)
(* Evidence is safe in a step that leaves it alone and in which no run gets  *)
(* past its withdrawal.                                                      *)
LEMMA QuietKeepsEvidence ==
  ASSUME EvidenceInv, UNCHANGED << command, reports, markers >>,
         \A q \in Runs :
            Working(q)' /\ run'[q].pc \notin {"withdraw", "confirm"}
            => Working(q) /\ run[q].pc \notin {"withdraw", "confirm"}
  PROVE  EvidenceInv'
<1>1. MarkerHashesItsReport'
  BY DEF EvidenceInv, MarkerHashesItsReport, Published
<1>2. \A q \in Runs : ReportOf(q)' = ReportOf(q)
  BY DEF ReportOf, Out, Iteration
<1> QED
  BY <1>1, <1>2 DEF EvidenceInv

(* A step of run r that takes or gives locks, with the other runs as they    *)
(* were: what is left to show of it is the run's own part of the invariant.  *)
LEMMA LockingKeeps ==
  ASSUME LockInv, EvidenceInv, NEW r \in Runs, NEW pc, RunMoves(r, pc),
         UNCHANGED << command, reports, markers >>,
         DOMAIN lockFile' = LockNames,
         \A q \in Runs \ {r} : \A name : lockFile[name] = q => lockFile'[name] = q,
         Progress(r)', HoldsItsLocks(r)',
         Working(r)' =>
            \/ pc = "withdraw"
            \/ Working(r) /\ run[r].pc \notin {"withdraw", "confirm"}
  PROVE  LockInv' /\ EvidenceInv'
<1>1. /\ DOMAIN run' = Runs /\ \A q \in Runs \ {r} : run'[q] = run[q]
      /\ {"pc", "held", "report"} \subseteq DOMAIN run'[r] /\ run'[r].pc = pc
  BY DEF RunMoves
<1>2. Shape'
  BY <1>1 DEF LockInv, Shape
<1>3. ASSUME NEW q \in Runs \ {r}  PROVE Progress(q)' /\ HoldsItsLocks(q)'
  BY <1>1, OtherRunsKeepLocks DEF LockInv
<1>4. LockInv'
  BY <1>2, <1>3 DEF LockInv
<1>5. \A q \in Runs \ {r} : Working(q)' <=> Working(q)
  BY <1>1 DEF Working, Live
<1>6. EvidenceInv'
  BY <1>1, <1>5, QuietKeepsEvidence
<1> QED
  BY <1>4, <1>6

(* A step of nobody.                                                         *)
LEMMA NobodyKeeps ==
  ASSUME LockInv, EvidenceInv, UNCHANGED << command, reports, markers, run >>,
         DOMAIN lockFile' = LockNames,
         \A q \in Runs, name \in LockNames :
            (run[q].pc # "killed" /\ lockFile[name] = q) => lockFile'[name] = q
  PROVE  LockInv' /\ EvidenceInv'
<1>1. Shape'
  BY DEF LockInv, Shape
<1>2. ASSUME NEW q \in Runs  PROVE Progress(q)' /\ HoldsItsLocks(q)'
  <2>1. LocksOf(q)' = LocksOf(q) /\ (Working(q)' <=> Working(q))
    BY DEF LocksOf, Working, Live
  <2>2. Progress(q) /\ HoldsItsLocks(q)
    BY DEF LockInv
  <2>3. \A n \in 1 .. Len(run[q].held) : lockFile'[run[q].held[n]] = q
    <3>1. CASE run[q].pc = "killed"
      BY <2>2, <3>1 DEF HoldsItsLocks
    <3>2. CASE run[q].pc # "killed"
      <4>1. \A n \in 1 .. Len(run[q].held) : run[q].held[n] \in LockNames
        BY <2>2 DEF HoldsItsLocks
      <4> QED
        BY <2>2, <3>2, <4>1 DEF HoldsItsLocks
    <3> QED
      BY <3>1, <3>2
  <2>4. HoldsItsLocks(q)'
    BY <2>1, <2>2, <2>3 DEF HoldsItsLocks
  <2>5. Progress(q)'
    BY <2>2 DEF Progress
  <2> QED
    BY <2>4, <2>5
<1>3. \A q \in Runs : Working(q)' <=> Working(q)
  BY DEF Working, Live
<1>4. EvidenceInv'
  BY <1>3, QuietKeepsEvidence
<1> QED
  BY <1>1, <1>2, <1>4 DEF LockInv

(* A run that holds nothing, and one that goes on with what it holds.        *)
LEMMA HoldsNothing ==
  ASSUME NEW r \in Runs, run'[r].held = << >>, ~ Working(r)',
         run'[r].pc = "acquire" => Len(LocksOf(r)') > 0
  PROVE  HoldsItsLocks(r)'
BY DEF HoldsItsLocks

LEMMA StillHolds ==
  ASSUME LockInv, NEW r \in Runs, run'[r].held = run[r].held,
         UNCHANGED << command, lockFile >>,
         run'[r].pc \notin {"idle", "ended", "killed", "acquire"},
         Working(r)' => Working(r)
  PROVE  HoldsItsLocks(r)'
<1>1. LocksOf(r)' = LocksOf(r)
  BY DEF LocksOf
<1> QED
  BY <1>1 DEF HoldsItsLocks, LockInv

LEMMA InvokeKeeps ==
  ASSUME LockInv, EvidenceInv, NEW r \in Runs, Invoke(r)
  PROVE  LockInv' /\ EvidenceInv'
<1> USE DEF At, OnlyRunAndLocks
<1>0. Shape /\ DOMAIN lockFile = LockNames /\ Progress(r) /\ HoldsItsLocks(r)
  BY DEF LockInv, Shape
<1> DEFINE pc == IF command[r].op = "export" THEN "export" ELSE "acquire"
<1>1. RunMoves(r, pc) /\ run'[r].held = << >>
  BY <1>0, GoingMoves DEF Invoke, HoldsItsLocks
<1>2. run'[r].pc = pc
  BY <1>1 DEF RunMoves
<1>3. command' = command /\ lockFile' = lockFile /\ command[r] # None
  BY DEF Invoke
<1>4. ~ Working(r)'
  BY <1>2, <1>3 DEF Working
<1>5. pc = "acquire" => Len(LocksOf(r)') > 0
  <2>1. LocksOf(r)' = LocksOf(r)
    BY <1>3 DEF LocksOf
  <2> QED
    BY <1>0, <1>3, <2>1, LocksCover
<1>6. HoldsItsLocks(r)'
  BY <1>1, <1>2, <1>4, <1>5, HoldsNothing
<1>7. Progress(r)'
  BY <1>2, <1>3 DEF Progress, ExportPcs
<1> QED
  BY <1>0, <1>1, <1>3, <1>4, <1>6, <1>7, LockingKeeps DEF Invoke

(* Creating a lock file: nobody held it, so no run loses one and the run     *)
(* holds no file twice.                                                      *)
LEMMA AcquireKeeps ==
  ASSUME LockInv, EvidenceInv, NEW r \in Runs, Acquire(r)
  PROVE  LockInv' /\ EvidenceInv'
<1> USE DEF At, OnlyRunAndLocks
<1>0. /\ Shape /\ DOMAIN lockFile = LockNames /\ DOMAIN run = Runs
      /\ {"pc", "held", "report"} \subseteq DOMAIN run[r]
      /\ Progress(r) /\ HoldsItsLocks(r)
  BY DEF LockInv, Shape
<1> DEFINE held == run[r].held
           name == NextLock(r)
           taken == Len(held) + 1
<1>1. /\ command[r] # None /\ command[r].op # "export" /\ held \in Seq(LockNames)
      /\ Len(held) \in Nat /\ Len(held) < Len(LocksOf(r))
      /\ \A n \in 1 .. Len(held) : lockFile[held[n]] = r /\ held[n] = LocksOf(r)[n]
      /\ \A m, n \in 1 .. Len(held) : held[m] = held[n] => m = n
  BY <1>0 DEF Acquire, Progress, HoldsItsLocks
<1>2. LocksOf(r) \in Seq(LockNames) /\ taken \in 1 .. Len(LocksOf(r))
  BY <1>0, <1>1, LocksCover
<1>3. name \in LockNames /\ name = LocksOf(r)[taken]
  BY <1>2 DEF NextLock
<1>4. LocksOf(r)' = LocksOf(r) /\ command' = command
  BY DEF Acquire, LocksOf
<1>5. CASE lockFile[name] # None
  <2>1. GoesTo(r, "release") /\ lockFile' = lockFile
    BY <1>5 DEF Acquire
  <2>2. RunMoves(r, "release") /\ run'[r].held = run[r].held
    BY <1>0, <2>1, GoingMoves
  <2>3. run'[r].pc = "release"
    BY <2>2 DEF RunMoves
  <2>4. ~ Working(r)' /\ Progress(r)'
    BY <1>1, <1>4, <2>3 DEF Working, Progress, ExportPcs
  <2>5. HoldsItsLocks(r)'
    BY <1>4, <2>1, <2>2, <2>3, <2>4, StillHolds
  <2> QED
    BY <1>0, <2>1, <2>2, <2>4, <2>5, LockingKeeps DEF Acquire
<1>6. CASE lockFile[name] = None
  <2> DEFINE pc == IF taken = Len(LocksOf(r)) THEN "withdraw" ELSE "acquire"
  <2>1. lockFile' = [lockFile EXCEPT ![name] = r]
    BY <1>6 DEF Acquire
  <2>2. RunMoves(r, pc) /\ run'[r].held = Append(held, name)
    BY <1>0, <1>6 DEF Acquire, RunMoves, Shape
  <2>3. run'[r].pc = pc
    BY <2>2 DEF RunMoves
  <2> HIDE DEF name
  <2>4. \A q \in Runs \ {r} : \A n : lockFile[n] = q => lockFile'[n] = q
    BY <1>0, <1>6, <2>1, NoneAssumption
  <2>5. /\ run'[r].held \in Seq(LockNames) /\ Len(run'[r].held) = taken
        /\ run'[r].held[taken] = name
        /\ \A n \in 1 .. Len(held) : run'[r].held[n] = held[n]
    BY <1>1, <1>3, <2>2
  <2>6. lockFile'[name] = r /\ \A n \in 1 .. Len(held) : lockFile'[held[n]] = r
    BY <1>0, <1>1, <1>3, <2>1
  <2>7. \A n \in 1 .. Len(held) : held[n] # name
    BY <1>1, <1>6, NoneAssumption
  <2>8. taken \in Nat /\ \A n \in 1 .. taken : n = taken \/ n \in 1 .. Len(held)
    BY <1>1
  <2> HIDE DEF held, taken
  <2>9. \A n \in 1 .. taken :
           lockFile'[run'[r].held[n]] = r /\ run'[r].held[n] = LocksOf(r)[n]
    BY <1>1, <1>3, <2>5, <2>6, <2>8
  <2>10. \A m, n \in 1 .. taken : run'[r].held[m] = run'[r].held[n] => m = n
    BY <1>1, <2>5, <2>7, <2>8
  <2>11. Working(r)' => pc = "withdraw"
    BY <2>3 DEF Working
  <2>12. taken # Len(LocksOf(r)) => taken < Len(LocksOf(r))
    BY <1>2
  <2>13. HoldsItsLocks(r)'
    BY <1>4, <2>3, <2>5, <2>9, <2>10, <2>11, <2>12 DEF HoldsItsLocks
  <2>14. Progress(r)'
    BY <1>1, <1>4, <2>3 DEF Progress
  <2> QED
    BY <1>0, <2>1, <2>2, <2>4, <2>11, <2>13, <2>14, LockingKeeps DEF Acquire
<1> QED
  BY <1>5, <1>6

(* Removing the last file a run holds: it holds the others still.            *)
LEMMA ReleaseKeeps ==
  ASSUME LockInv, EvidenceInv, NEW r \in Runs, Release(r)
  PROVE  LockInv' /\ EvidenceInv'
<1> USE DEF At, OnlyRunAndLocks
<1>0. /\ Shape /\ DOMAIN lockFile = LockNames /\ DOMAIN run = Runs
      /\ {"pc", "held", "report"} \subseteq DOMAIN run[r]
      /\ Progress(r) /\ HoldsItsLocks(r)
  BY DEF LockInv, Shape
<1> DEFINE held == run[r].held
           name == Last(held)
<1>1. /\ held \in Seq(LockNames) /\ held # << >>
      /\ \A n \in 1 .. Len(held) : lockFile[held[n]] = r
      /\ \A m, n \in 1 .. Len(held) : held[m] = held[n] => m = n
  BY <1>0 DEF Release, HoldsItsLocks
<1>2. /\ lockFile' = [lockFile EXCEPT ![name] = IF @ = r THEN None ELSE @]
      /\ run' = [run EXCEPT ![r].held = Front(@)]
      /\ run[r].pc = "release" /\ UNCHANGED << command, reports, markers >>
  BY DEF Release
<1>3. RunMoves(r, "release") /\ run'[r].held = Front(held)
  BY <1>0, <1>2 DEF RunMoves, Shape
<1>4. run'[r].pc = "release"
  BY <1>3 DEF RunMoves
<1>5. /\ Front(held) \in Seq(LockNames) /\ Len(Front(held)) = Len(held) - 1
      /\ \A n \in 1 .. Len(held) - 1 : Front(held)[n] = held[n]
      /\ Len(held) \in Nat \ {0} /\ name = held[Len(held)]
  BY <1>1 DEF Front, Last
<1> HIDE DEF name, held
<1>6. \A n \in 1 .. Len(held) - 1 :
         n \in 1 .. Len(held) /\ Len(held) \in 1 .. Len(held) /\ n # Len(held)
  BY <1>5
<1>7. \A n \in 1 .. Len(held) - 1 : lockFile'[held[n]] = r
  BY <1>0, <1>1, <1>2, <1>5, <1>6
<1>8. \A m, n \in 1 .. Len(held) - 1 : Front(held)[m] = Front(held)[n] => m = n
  BY <1>1, <1>5, <1>6
<1>9. ~ Working(r)' /\ Progress(r)'
  BY <1>0, <1>2, <1>4 DEF Working, Progress, ExportPcs
<1>10. HoldsItsLocks(r)'
  BY <1>3, <1>4, <1>5, <1>7, <1>8, <1>9 DEF HoldsItsLocks
<1>11. /\ DOMAIN lockFile' = LockNames
       /\ \A q \in Runs \ {r} : \A n : lockFile[n] = q => lockFile'[n] = q
  BY <1>0, <1>2
<1> QED
  BY <1>2, <1>3, <1>9, <1>10, <1>11, LockingKeeps

LEMMA EndKeeps ==
  ASSUME LockInv, EvidenceInv, NEW r \in Runs, End(r)
  PROVE  LockInv' /\ EvidenceInv'
<1>0. Shape /\ DOMAIN lockFile = LockNames
  BY DEF LockInv, Shape
<1>1. RunMoves(r, "ended") /\ run'[r].held = << >>
  BY <1>0 DEF End, NewRun, RunMoves, Shape
<1>2. run'[r].pc = "ended"
  BY <1>1 DEF RunMoves
<1>3. ~ Working(r)' /\ Progress(r)'
  BY <1>2 DEF Working, Live, Progress, ExportPcs
<1>4. HoldsItsLocks(r)'
  BY <1>1, <1>2, <1>3, HoldsNothing
<1> QED
  BY <1>0, <1>1, <1>3, <1>4, LockingKeeps DEF End, OnlyRunAndLocks

LEMMA LockStepKeeps ==
  ASSUME LockInv, EvidenceInv, NEW r \in Runs, LockStep(r)
  PROVE  LockInv' /\ EvidenceInv'
BY InvokeKeeps, AcquireKeeps, ReleaseKeeps, EndKeeps DEF LockStep

LEMMA OutsideKeeps ==
  ASSUME LockInv, EvidenceInv, Outside
  PROVE  LockInv' /\ EvidenceInv'
<1>0. Shape /\ DOMAIN lockFile = LockNames /\ DOMAIN run = Runs
  BY DEF LockInv, Shape
<1>1. ASSUME NEW r \in Runs, Interrupt(r)  PROVE LockInv' /\ EvidenceInv'
  <2>1. UNCHANGED << command, lockFile, reports, markers >> /\ Live(r)
    BY <1>1 DEF Interrupt
  <2>2. CASE GoesTo(r, "release")
    <3>1. RunMoves(r, "release") /\ run'[r].held = run[r].held
      BY <1>0, <2>2, GoingMoves
    <3>2. run'[r].pc = "release"
      BY <3>1 DEF RunMoves
    <3>3. ~ Working(r)' /\ Progress(r)'
      BY <2>1, <3>2 DEF Working, Live, Progress, LockInv, ExportPcs
    <3>4. HoldsItsLocks(r)'
      BY <2>1, <3>1, <3>2, <3>3, StillHolds
    <3> QED
      BY <1>0, <2>1, <3>1, <3>3, <3>4, LockingKeeps
  <2>3. CASE GoesTo(r, "abort")
    <3>1. RunMoves(r, "abort") /\ run'[r].held = run[r].held
      BY <1>0, <2>3, GoingMoves
    <3>2. run'[r].pc = "abort"
      BY <3>1 DEF RunMoves
    <3>3. /\ command[r].op # "export"
          /\ run[r].pc \notin Unlocked \cup {"withdraw", "confirm"}
      <4>1. "release" # "abort" /\ run'[r].pc # "release"
        BY <3>2
      <4>2. \/ command[r].op = "smoke" /\ run[r].pc \in AbortPcs
            \/ /\ command[r].op = "compare"
               /\ run[r].pc \in {"check", "compare", "anchors again", "mark"}
        BY <1>0, <1>1, <4>1 DEF Interrupt, GoesTo, Shape
      <4> QED
        BY <4>2 DEF AbortPcs, Unlocked
    <3>4. Working(r)
      BY <3>3 DEF Working, Live, Unlocked
    <3>5. Progress(r)'
      BY <2>1, <3>2, <3>3 DEF Progress, LockInv, Live
    <3>6. HoldsItsLocks(r)'
      BY <2>1, <3>1, <3>2, <3>4, StillHolds
    <3> QED
      BY <1>0, <2>1, <3>1, <3>3, <3>4, <3>5, <3>6, LockingKeeps
  <2> QED
    BY <1>1, <2>2, <2>3 DEF Interrupt
<1>2. ASSUME NEW r \in Runs, Kill(r)  PROVE LockInv' /\ EvidenceInv'
  <2>1. UNCHANGED << command, lockFile, reports, markers >>
    BY <1>2 DEF Kill
  <2>2. RunMoves(r, "killed") /\ run'[r].held = << >>
    BY <1>0, <1>2 DEF Kill, NewRun, RunMoves, Shape
  <2>3. run'[r].pc = "killed"
    BY <2>2 DEF RunMoves
  <2>4. ~ Working(r)' /\ Progress(r)'
    BY <2>3 DEF Working, Live, Progress, ExportPcs
  <2>5. HoldsItsLocks(r)'
    BY <2>2, <2>3, <2>4, HoldsNothing
  <2> QED
    BY <1>0, <2>1, <2>2, <2>4, <2>5, LockingKeeps
<1>3. ASSUME NEW r \in Runs, ClearLocks(r)  PROVE LockInv' /\ EvidenceInv'
  <2>1. /\ UNCHANGED << command, reports, markers, run >>
        /\ DOMAIN lockFile' = LockNames
    BY <1>3 DEF ClearLocks
  <2>2. ASSUME NEW q \in Runs, NEW name, run[q].pc # "killed", lockFile[name] = q,
               name \in LockNames
        PROVE  lockFile'[name] = q
    BY <1>3, <2>2 DEF ClearLocks
  <2> QED
    BY <2>1, <2>2, NobodyKeeps
<1>4. CASE UNCHANGED << command, lockFile, reports, markers, run >>
  BY <1>0, <1>4, NobodyKeeps
<1> QED
  BY <1>1, <1>2, <1>3, <1>4
     DEF Outside, RemoveUnmarked, Touch, Doctor, Expire, ChangeRepo

LEMMA StepKeeps ==
  ASSUME LockInv, EvidenceInv, [Next]_vars
  PROVE  LockInv' /\ EvidenceInv'
<1>1. CASE \E r \in Runs : LockStep(r)
  BY <1>1, LockStepKeeps
<1>2. CASE \E r \in Runs : InnerStep(r)
  BY <1>2, InnerKeepsLocks, InnerKeepsEvidence
<1>3. CASE Outside
  BY <1>3, OutsideKeeps
<1>4. CASE UNCHANGED vars
  BY <1>4, NobodyKeeps DEF vars, LockInv, Shape
<1> QED
  BY <1>1, <1>2, <1>3, <1>4, OverlayStepIsInner, SmokeStepIsInner,
     CompareStepIsInner DEF Next, RunStep

LEMMA InitiallyNobodyWorks ==
  ASSUME Init
  PROVE  LockInv /\ EvidenceInv
<1>1. Shape
  BY DEF Init, Shape, NewRun
<1>2. \A r \in Runs : run[r].pc = "idle" /\ run[r].held = << >>
  BY DEF Init, NewRun
<1>3. \A r \in Runs : Progress(r) /\ ~ Working(r)
  BY <1>2 DEF Progress, Working, Live, ExportPcs
<1>4. ASSUME NEW r \in Runs  PROVE HoldsItsLocks(r)
  <2>1. run[r].pc = "idle" /\ run[r].held = << >> /\ ~ Working(r)
    BY <1>2, <1>3
  <2>2. Len(run[r].held) = 0 /\ run[r].held \in Seq(LockNames)
    BY <2>1
  <2> QED
    BY <2>1, <2>2 DEF HoldsItsLocks
<1>5. MarkerHashesItsReport
  BY DEF Init, MarkerHashesItsReport
<1> QED
  BY <1>1, <1>3, <1>4, <1>5 DEF LockInv, EvidenceInv

(***************************************************************************)
(* The refinement: the author of a name is the run that holds its lock.      *)
(***************************************************************************)
OneHolder ==
    \A name \in ReportNames : \A q, r \in Runs :
       q \in Holders[name] /\ r \in Holders[name] => q = r

LEMMA HoldersAreOne == LockInv => OneHolder
<1> SUFFICES ASSUME LockInv, NEW name \in ReportNames, NEW q \in Runs, NEW r \in Runs,
                    q \in Holders[name], r \in Holders[name]
             PROVE  q = r
  BY DEF OneHolder
<1>1. ASSUME NEW p \in Runs, p \in Holders[name]
      PROVE  lockFile[<<name[2], name[3]>>] = p
  <2>1. /\ run[p].held \in Seq(LockNames) /\ DOMAIN run[p].held = 1 .. Len(run[p].held)
        /\ \A n \in 1 .. Len(run[p].held) : lockFile[run[p].held[n]] = p
    BY DEF LockInv, HoldsItsLocks
  <2>2. <<name[2], name[3]>> \in Range(run[p].held)
    BY <1>1 DEF Holders
  <2>3. PICK n \in DOMAIN run[p].held : run[p].held[n] = <<name[2], name[3]>>
    BY <2>2 DEF Range
  <2> QED
    BY <2>1, <2>3
<1> QED
  BY <1>1

LEMMA SoleOf == Sole({}) = None /\ \A x : Sole({x}) = x
BY DEF Sole

(* A run that works is the author of its name.                               *)
LEMMA WorkerIsAuthor ==
  ASSUME LockInv, NEW r \in Runs, Working(r)
  PROVE  Author[ReportOf(r)] = r
<1> DEFINE name == ReportOf(r)
<1>1. /\ Shape /\ command[r] # None /\ command[r].op # "export"
      /\ run[r].held \in Seq(LockNames) /\ Len(run[r].held) = Len(LocksOf(r))
      /\ \A n \in 1 .. Len(run[r].held) : run[r].held[n] = LocksOf(r)[n]
  BY DEF LockInv, Progress, HoldsItsLocks, Working, Live
<1>2. name \in ReportNames
  BY NameIsKnown
<1>3. name[2] = Out(r) /\ name[3] \in IterationsOf(command[r])
  BY DEF ReportOf, IterationsOf, Iteration
<1>4. \A i \in IterationsOf(command[r]) :
         \E n \in 1 .. Len(LocksOf(r)) : LocksOf(r)[n] = <<Out(r), i>>
  BY <1>1, LocksCover
<1>5. PICK n \in 1 .. Len(LocksOf(r)) : LocksOf(r)[n] = <<name[2], name[3]>>
  BY <1>3, <1>4
<1>6. n \in DOMAIN run[r].held /\ run[r].held[n] = <<name[2], name[3]>>
  BY <1>1, <1>5
<1>7. run[r].held # << >>
  BY <1>6
<1>8. r \in Holders[name]
  BY <1>2, <1>6, <1>7 DEF Holders, Range
<1>9. Holders[name] = {r}
  <2>1. Holders[name] \subseteq Runs
    BY <1>2 DEF Holders
  <2> QED
    BY <1>2, <1>8, <2>1, HoldersAreOne DEF OneHolder
<1> QED
  BY <1>2, <1>9, SoleOf DEF Author

(* Nobody but run r takes or gives locks, and no evidence moves: r becomes   *)
(* the author of its name, or stops being it, or nothing is seen.            *)
LEMMA AloneImplements ==
  ASSUME LockInv, OneHolder', NEW r \in Runs, UNCHANGED << command, reports, markers >>,
         \A q \in Runs \ {r} : run'[q] = run[q]
  PROVE  [Evidence!Next]_<<Standing, Author>>
<1> DEFINE name == ReportOf(r)
<1>1. Standing' = Standing
  BY DEF Standing, Published
<1>2. \A q \in Runs : ReportOf(q)' = ReportOf(q)
  BY DEF ReportOf, Out, Iteration
<1>3. \A n \in ReportNames : \A q \in Runs \ {r} : q \in Holders'[n] <=> q \in Holders[n]
  BY <1>2 DEF Holders
<1>4. \A n \in ReportNames : n # name => r \notin Holders'[n] /\ r \notin Holders[n]
  BY <1>2 DEF Holders
<1>5. \A n \in ReportNames : Holders[n] \subseteq Runs /\ Holders'[n] \subseteq Runs
  BY DEF Holders
<1>6. ASSUME NEW n \in ReportNames, r \in Holders'[n] <=> r \in Holders[n]
      PROVE  Holders'[n] = Holders[n]
  <2>1. \A q : q \in Holders'[n] <=> q \in Holders[n]
    BY <1>3, <1>5, <1>6
  <2> QED
    BY <2>1
<1>7. /\ Author = [n \in ReportNames |-> Sole(Holders[n])]
      /\ Author' = [n \in ReportNames |-> Sole(Holders'[n])]
  BY DEF Author
<1> HIDE DEF name
<1>8. CASE name \notin ReportNames \/ Holders'[name] = Holders[name]
  <2>1. \A n \in ReportNames : Holders'[n] = Holders[n]
    BY <1>4, <1>6, <1>8
  <2>2. Author' = Author
    BY <1>7, <2>1
  <2> QED
    BY <1>1, <2>2
<1>9. CASE name \in ReportNames /\ Holders'[name] # Holders[name]
  <2>1. \A n \in ReportNames : n # name => Author'[n] = Author[n]
    BY <1>4, <1>6, <1>7
  <2>2. Author' = [Author EXCEPT ![name] = Author'[name]]
    BY <1>7, <1>9, <2>1
  <2>3. CASE r \in Holders[name]
    <3>1. Holders[name] = {r}
      BY <1>5, <1>9, <2>3, HoldersAreOne DEF OneHolder
    <3>2. Holders'[name] = {}
      BY <1>3, <1>5, <1>9, <3>1
    <3>3. Author[name] = r /\ Author'[name] = None
      BY <1>7, <1>9, <3>1, <3>2, SoleOf
    <3> QED
      BY <1>1, <1>9, <2>2, <3>3, NoneAssumption DEF Evidence!Next, Evidence!Leave
  <2>4. CASE r \notin Holders[name]
    <3>1. r \in Holders'[name]
      BY <1>6, <1>9, <2>4
    <3>2. Holders'[name] = {r}
      BY <1>5, <1>9, <3>1 DEF OneHolder
    <3>3. Holders[name] = {}
      BY <1>3, <1>5, <1>9, <2>4, <3>2
    <3>4. Author[name] = None /\ Author'[name] = r
      BY <1>7, <1>9, <3>2, <3>3, SoleOf
    <3> QED
      BY <1>1, <1>9, <2>2, <3>4 DEF Evidence!Next, Evidence!Begin
  <2> QED
    BY <2>3, <2>4
<1> QED
  BY <1>8, <1>9

(* Between its locks a run withdraws or publishes under its own name, or     *)
(* does nothing a reader sees.                                               *)
LEMMA InnerImplements ==
  ASSUME LockInv, EvidenceInv, NEW r \in Runs, InnerStep(r)
  PROVE  [Evidence!Next]_<<Standing, Author>>
<1> DEFINE name == ReportOf(r)
<1>1. PICK pc : RunMoves(r, pc) /\ run'[r].held = run[r].held /\ EvidenceStep(r, pc)
  BY DEF InnerStep, InnerMoves
<1>2. Author' = Author
  <2>1. command' = command /\ \A q \in Runs : run'[q].held = run[q].held
    BY <1>1 DEF InnerStep, RunMoves
  <2>2. \A q \in Runs : ReportOf(q)' = ReportOf(q)
    BY <2>1 DEF ReportOf, Out, Iteration
  <2>3. Holders' = Holders
    BY <2>1, <2>2 DEF Holders
  <2> QED
    BY <2>3 DEF Author
<1>3. DOMAIN reports = ReportNames /\ DOMAIN markers = ReportNames
  BY DEF LockInv, Shape
<1>4. /\ Standing = [n \in ReportNames |-> IF Published(n) THEN reports[n].by ELSE None]
      /\ Standing' = [n \in ReportNames |-> IF Published(n)' THEN reports'[n].by ELSE None]
  BY DEF Standing
<1>5. Working(r) => name \in ReportNames /\ Author[name] = r
  BY NameIsKnown, WorkerIsAuthor
<1>6. Working(r) /\ run[r].pc \notin {"withdraw", "confirm"} =>
         ~ Published(name) /\ Standing[name] = None
  BY <1>4, <1>5 DEF EvidenceInv, Published
<1>7. ASSUME Working(r),
             \A n \in ReportNames : n # name =>
                reports'[n] = reports[n] /\ markers'[n] = markers[n]
      PROVE  Standing' = [Standing EXCEPT ![name] = Standing'[name]]
  <2>1. \A n \in ReportNames : n # name => Standing'[n] = Standing[n]
    BY <1>4, <1>7 DEF Published
  <2> QED
    BY <1>4, <1>5, <1>7, <2>1
<1> HIDE DEF name
<1>8. CASE UNCHANGED << reports, markers >>
  BY <1>2, <1>8 DEF Standing, Published
<1>9. CASE /\ Working(r) /\ UNCHANGED reports
           /\ markers' = [markers EXCEPT ![name] = None]
  <2>1. Standing'[name] = None
    BY <1>3, <1>4, <1>5, <1>9 DEF Published
  <2>2. Standing' = [Standing EXCEPT ![name] = None]
    BY <1>3, <1>7, <1>9, <2>1
  <2>3. CASE Standing[name] = None
    BY <1>2, <1>4, <1>5, <1>9, <2>2, <2>3
  <2>4. CASE Standing[name] # None
    BY <1>2, <1>5, <1>9, <2>2, <2>4, NoneAssumption DEF Evidence!Next, Evidence!Withdraw
  <2> QED
    BY <2>3, <2>4
<1>10. CASE /\ Working(r) /\ UNCHANGED markers
            /\ run[r].pc \notin {"withdraw", "confirm"}
            /\ \E report : reports' = [reports EXCEPT ![name] = report]
  <2>1. markers[name] = None
    BY <1>10 DEF EvidenceInv, name
  <2>2. Standing'[name] = Standing[name]
    BY <1>4, <1>5, <1>6, <1>10, <2>1 DEF Published
  <2>3. Standing' = Standing
    BY <1>3, <1>4, <1>5, <1>7, <1>10, <2>2
  <2> QED
    BY <1>2, <2>3
<1>11. CASE /\ Working(r) /\ UNCHANGED reports
            /\ run[r].pc = "mark" /\ reports[name].by = r
            /\ markers' = [markers EXCEPT ![name] = reports[name]]
  <2>1. Standing[name] = None
    BY <1>6, <1>11
  <2>2. Standing' = [Standing EXCEPT ![name] = Standing'[name]]
    BY <1>3, <1>7, <1>11
  <2>3. CASE reports[name] = None
    <3>1. Standing'[name] = None
      BY <1>4, <1>5, <1>11, <2>3 DEF Published
    <3> QED
      BY <1>2, <1>4, <1>5, <1>11, <2>1, <2>2, <3>1
  <2>4. CASE reports[name] # None
    <3>1. Standing'[name] = r
      BY <1>3, <1>4, <1>5, <1>11, <2>4 DEF Published
    <3> QED
      BY <1>2, <1>5, <1>11, <2>1, <2>2, <3>1, NoneAssumption
         DEF Evidence!Next, Evidence!Publish
  <2> QED
    BY <2>3, <2>4
<1> QED
  BY <1>1, <1>8, <1>9, <1>10, <1>11 DEF EvidenceStep, name

LEMMA StepImplements ==
  ASSUME LockInv, EvidenceInv, OneHolder', [Next]_vars
  PROVE  [Evidence!Next]_<<Standing, Author>>
<1>1. ASSUME NEW r \in Runs, LockStep(r) \/ Interrupt(r) \/ Kill(r)
      PROVE  [Evidence!Next]_<<Standing, Author>>
  <2>1. UNCHANGED << command, reports, markers >>
    BY <1>1 DEF LockStep, Invoke, Acquire, Release, End, Interrupt, Kill, OnlyRunAndLocks
  <2>2. \A q \in Runs \ {r} : run'[q] = run[q]
    BY <1>1 DEF LockStep, Invoke, Acquire, Release, End, Interrupt, Kill, GoesTo,
                LockInv, Shape
  <2> QED
    BY <2>1, <2>2, AloneImplements
<1>2. ASSUME NEW r \in Runs, InnerStep(r)
      PROVE  [Evidence!Next]_<<Standing, Author>>
  BY <1>2, InnerImplements
<1>3. CASE UNCHANGED << command, reports, markers, run >>
  <2>1. Standing' = Standing
    BY <1>3 DEF Standing, Published
  <2>2. Holders' = Holders
    BY <1>3 DEF Holders, ReportOf, Out, Iteration
  <2>3. Author' = Author
    BY <2>2 DEF Author
  <2> QED
    BY <2>1, <2>3
<1>4. CASE \E r \in Runs : RunStep(r)
  BY <1>1, <1>2, <1>4, OverlayStepIsInner, SmokeStepIsInner, CompareStepIsInner
     DEF RunStep
<1>5. CASE Outside
  BY <1>1, <1>3, <1>5
     DEF Outside, ClearLocks, RemoveUnmarked, Touch, Doctor, Expire, ChangeRepo
<1>6. CASE UNCHANGED vars
  BY <1>3, <1>6 DEF vars
<1> QED
  BY <1>4, <1>5, <1>6 DEF Next

LEMMA InitImplements ==
  ASSUME Init  PROVE Evidence!Init
<1>1. Standing = [name \in ReportNames |-> None]
  BY DEF Init, Standing, Published
<1>2. Holders = [name \in ReportNames |-> {}]
  BY DEF Init, Holders, NewRun
<1>3. Author = [name \in ReportNames |-> None]
  BY <1>2, SoleOf DEF Author
<1> QED
  BY <1>1, <1>3 DEF Evidence!Init

(***************************************************************************)
(* The theorems.                                                             *)
(***************************************************************************)
THEOREM LocksAreKept == Spec => [](LockInv /\ EvidenceInv)
<1>1. Init => LockInv /\ EvidenceInv
  BY InitiallyNobodyWorks
<1>2. LockInv /\ EvidenceInv /\ [Next]_vars => (LockInv /\ EvidenceInv)'
  BY StepKeeps
<1> QED
  BY <1>1, <1>2, PTL DEF Spec

(* Whatever the runs, roots and iterations: two runs that share a root never *)
(* work on one iteration at a time.                                          *)
THEOREM RunsKeptApart == Spec => []OneRunPerIteration
BY LocksAreKept, LocksExclude, PTL

(* No marker ever stands beside a report that it does not hash.              *)
THEOREM MarkersAreTrue == Spec => []MarkerHashesItsReport
<1>1. EvidenceInv => MarkerHashesItsReport
  BY DEF EvidenceInv
<1> QED
  BY <1>1, LocksAreKept, PTL

(* While a run generates, nothing stands published under its name.           *)
THEOREM EvidenceIsWithdrawn == Spec => []NothingStandsMeanwhile
<1>1. EvidenceInv => NothingStandsMeanwhile
  BY DEF EvidenceInv, NothingStandsMeanwhile, Published
<1> QED
  BY <1>1, LocksAreKept, PTL

(* The pipeline implements EvidencePublication.                              *)
THEOREM EvidencePublished == Spec => PublishesAsPromised
<1>1. Init => Evidence!Init
  BY InitImplements
<1>2. LockInv /\ EvidenceInv /\ OneHolder' /\ [Next]_vars
         => [Evidence!Next]_<<Standing, Author>>
  BY StepImplements
<1>3. Spec => []OneHolder
  BY LocksAreKept, HoldersAreOne, PTL
<1> QED
  BY <1>1, <1>2, <1>3, LocksAreKept, PTL DEF Spec, PublishesAsPromised, Evidence!Spec

(***************************************************************************)
(* What the runs know and what the reports say.  The second argument: what a *)
(* run read it read published, a report is written from what the run knows,  *)
(* and the workspace of a smoke run is its own for as long as it holds the   *)
(* locks of the iteration, but for what is edited in it by hand.             *)
(***************************************************************************)
RunFields ==
    {"pc", "held", "doctor", "manifest", "report", "input", "ok", "passed"}
WorkspaceFields ==
    {"state", "overlay", "dut", "official", "generated", "binary", "builders",
     "smokeLock"}

SmokePcs == {"smoke lock", "configure", "build", "simulate", "recheck"}
OverlayPcs ==
    {"export", "export files", "export manifest", "reset", "clone", "install",
     "bind"}

(* A manifest that was verified against Git when it was written, under a     *)
(* doctor report that passed.                                                *)
IsManifest(m) ==
    /\ m.eligible => m.source = "candidate"
    /\ m.doctor.pass
    /\ \/ CandidateBindings(m)
       \/ OfficialBindings(m)
       \/ m.source = "mixed" /\ m.files = SourceFiles("mixed", m.head)

(* The inputs of a comparison that passed.                                   *)
OfOneState(in, anchors) ==
    /\ in.lockedOverlay.manifest.eligible
    /\ in.mixedOverlay.manifest.source = "mixed"
    /\ in.mixedOverlay.manifest.files = "locked"
    /\ ReplacementAt(in.mixedOverlay.manifest.head) = "locked"
    /\ \A smoke \in {in.lockedSmoke, in.mixedSmoke} :
          /\ smoke.binary.dut = "locked"
          /\ smoke.doctor = in.mixedOverlay.manifest.doctor
          /\ smoke.overlay.manifest.doctor = smoke.doctor
    /\ anchors.head = in.mixedOverlay.manifest.head
    /\ in.lockedSmoke.gate = in.mixedSmoke.gate

(* The reports of each kind.  A simulator a smoke report names is its own,   *)
(* made of the RTL its overlay lists.                                        *)
RanItsOverlay(report) ==
    report.binary = [by |-> report.by, dut |-> report.overlay.manifest.files]
IsSmoke(report) ==
    /\ IsManifest(report.overlay.manifest)
    /\ report.eligible => report.overlay.manifest.eligible
    /\ report.gate \/ report.binary # None => RanItsOverlay(report)
IsReport(kind, report) ==
    /\ kind = "overlay" => IsManifest(report.manifest)
    /\ kind = "smoke" => IsSmoke(report)
    /\ kind = "compare" /\ report.pass => OfOneState(report.input, report.anchors)

(* What a run x that was invoked for c knows between its steps.              *)
Remembers(x, c) ==
    /\ RunFields \subseteq DOMAIN x
    /\ x.pc \in SmokePcs => c.op = "smoke" /\ IsManifest(x.input.manifest)
    /\ x.pc \in {"compare", "anchors again"} => c.op = "compare"
    /\ x.pc \in OverlayPcs /\ c.op # "export" => x.doctor.pass
    /\ x.pc \in {"mark work", "report"} => IsManifest(x.manifest)
    /\ x.pc = "anchors again" /\ x.ok => OfOneState(x.input, x.doctor)

MemoryInv ==
    /\ \A r \in Runs : Remembers(run[r], command[r])
    /\ \A name \in ReportNames :
          reports[name] # None => IsReport(name[1], reports[name])

(* The workspace ws of a smoke run r, x: nobody has built in it before the   *)
(* run does, and the simulator it then holds was made from the RTL that is   *)
(* still there, if that has not been edited.                                 *)
Simulator(r, ws) ==
    \E dut : ws.binary = [by |-> r, dut |-> dut] /\ ws.dut \in {dut, "edited"}
Built(r, x, ws) ==
    /\ x.pc \in {"smoke lock", "configure", "build"} => ws.builders = {}
    /\ x.pc = "build" => ws.binary = None
    /\ x.pc = "simulate" => Simulator(r, ws)
    /\ x.pc = "recheck" => Simulator(r, ws) \/ (ws.binary = None /\ ~x.ok)

(* At most one run has built in a workspace, and what it generated is there  *)
(* for the next one to find.                                                 *)
OneBuilder(ws) ==
    /\ WorkspaceFields \subseteq DOMAIN ws
    /\ \/ ws.builders = {}
       \/ "build" \in ws.generated /\ \E q \in Runs : ws.builders = {q}

WorkspaceInv ==
    /\ DOMAIN workspace = Works \X Iterations
    /\ \A at \in Works \X Iterations : OneBuilder(workspace[at])
    /\ \A r \in Runs : run[r].pc \in SmokePcs => Built(r, run[r], workspace[WorkAt(r)])

(* A comparison under way finds its four inputs published as it read them.   *)
Compared(r) ==
    /\ DOMAIN run[r].input = DOMAIN InputNames(r)
    /\ \A n \in DOMAIN InputNames(r) :
          /\ Published(InputNames(r)[n])
          /\ reports[InputNames(r)[n]] = run[r].input[n]
InputsInv ==
    \A r \in Runs :
       /\ run[r].pc = "anchors again" => Compared(r)
       /\ run[r].pc = "smoke release" => command[r].op # "compare"
       /\ run[r].pc = "mark" /\ command[r].op = "compare" =>
             Compared(r) /\ run[r].report.input = run[r].input

(***************************************************************************)
(* Lemmas about the predicates.                                              *)
(***************************************************************************)
LEMMA FilesAreGits ==
  ASSUME NEW m, IsManifest(m)
  PROVE  /\ m.files # "edited"
         /\ m.eligible => m.files = "locked"
         /\ m.source = "mixed" => m.files = ReplacementAt(m.head)
BY DEF IsManifest, CandidateBindings, OfficialBindings, SourceFiles, ReplacementAt

(* Where a run knows nothing that matters later.                             *)
Elsewhere ==
    {"idle", "ended", "killed", "acquire", "release", "withdraw",
     "withdraw report", "check", "smoke release", "mark", "confirm", "abort",
     "abort report"}

LEMMA ElsewhereRemembers ==
  ASSUME NEW x, NEW c, RunFields \subseteq DOMAIN x, x.pc \in Elsewhere
  PROVE  Remembers(x, c)
BY DEF Remembers, Elsewhere, SmokePcs, OverlayPcs

(* One run's record, changed in one field or more.                           *)
LEMMA GoingKeepsRecord ==
  ASSUME LockInv, MemoryInv, NEW r \in Runs, NEW pc, GoesTo(r, pc)
  PROVE  /\ RunFields \subseteq DOMAIN run'[r]
         /\ run'[r] = [run[r] EXCEPT !.pc = pc]
         /\ run'[r].pc = pc /\ run'[r].doctor = run[r].doctor
         /\ run'[r].manifest = run[r].manifest /\ run'[r].input = run[r].input
         /\ run'[r].ok = run[r].ok /\ run'[r].report = run[r].report
<1>1. DOMAIN run = Runs /\ RunFields \subseteq DOMAIN run[r]
  BY DEF LockInv, Shape, MemoryInv, Remembers
<1>2. run'[r] = [run[r] EXCEPT !.pc = pc]
  BY <1>1 DEF GoesTo
<1> QED
  BY <1>1, <1>2 DEF RunFields

LEMMA GoingElsewhere ==
  ASSUME LockInv, MemoryInv, NEW r \in Runs, NEW pc \in Elsewhere, GoesTo(r, pc)
  PROVE  Remembers(run'[r], command[r])
<1>1. RunFields \subseteq DOMAIN run'[r] /\ run'[r].pc = pc
  BY GoingKeepsRecord
<1> QED
  BY <1>1, ElsewhereRemembers

(* What a step of run r does to the reports.                                 *)
ReportsOf(r) ==
    \/ UNCHANGED reports
    \/ /\ Working(r)
       /\ \E report : /\ reports' = [reports EXCEPT ![ReportOf(r)] = report]
                      /\ report # None => IsReport(command[r].op, report)

LEMMA OverlayRemembers ==
  ASSUME LockInv, MemoryInv, NEW r \in Runs, OverlayStep(r)
  PROVE  Remembers(run'[r], command[r]) /\ ReportsOf(r)
<1>0. /\ DOMAIN run = Runs /\ RunFields \subseteq DOMAIN run[r]
      /\ Remembers(run[r], command[r])
  BY DEF LockInv, Shape, MemoryInv, Remembers
<1> USE DEF At, Fails, OnlyRun
<1> DEFINE x == run'[r]
<1>1. CASE Withdraw(r)
  <2>1. Remembers(x, command[r])
    BY <1>1, GoingElsewhere DEF Withdraw, Elsewhere
  <2>2. Working(r)
    BY <1>1, NoExportWorks DEF Withdraw, Unlocked, ExportPcs
  <2> QED
    BY <1>1, <2>1, <2>2 DEF Withdraw, ReportsOf
<1>2. CASE OverlayCheck(r)
  <2>1. CASE GoesTo(r, "release")
    BY <1>2, <2>1, GoingElsewhere DEF OverlayCheck, Elsewhere, ReportsOf
  <2>2. CASE ~ GoesTo(r, "release")
    <3> DEFINE plan == [source |-> command[r].source,
                        diagnostic |-> command[r].diagnostic,
                        head |-> repo.head, by |-> r]
               pc == IF command[r].source = "official" THEN "reset" ELSE "export"
    <3>1. run' = [run EXCEPT ![r].doctor = doctor[Out(r)],
                             ![r].manifest = plan, ![r].pc = pc]
      BY <1>2, <2>2 DEF OverlayCheck
    <3>a. pc \in {"reset", "export"}
      OBVIOUS
    <3>2. doctor[Out(r)].pass
      BY <1>2, <2>2 DEF OverlayCheck, DoctorPasses
    <3> HIDE DEF plan, pc
    <3>3. /\ RunFields \subseteq DOMAIN x
          /\ x.pc = pc /\ x.doctor = doctor[Out(r)]
      BY <1>0, <3>1 DEF RunFields
    <3>4. Remembers(x, command[r])
      BY <3>a, <3>2, <3>3 DEF Remembers, SmokePcs, OverlayPcs
    <3> QED
      BY <1>2, <3>4 DEF OverlayCheck, ReportsOf
  <2> QED
    BY <2>1, <2>2
<1>3. CASE ExportRefused(r)
  BY <1>3, GoingElsewhere DEF ExportRefused, Elsewhere, ReportsOf
<1>4. CASE ExportReset(r) \/ ExportFiles(r) \/ ExportManifest(r)
  <2>1. /\ run[r].pc \in {"export", "export files", "export manifest"}
        /\ UNCHANGED reports
    BY <1>4 DEF ExportReset, ExportFiles, ExportManifest, ExportStep
  <2>2. PICK pc \in {"export files", "export manifest", "reset", "release"} :
           GoesTo(r, pc)
    BY <1>4 DEF ExportReset, ExportFiles, ExportManifest, ExportStep
  <2>3. command[r].op # "export" => run[r].doctor.pass
    BY <1>0, <2>1 DEF Remembers, OverlayPcs
  <2>4. Remembers(x, command[r])
    BY <2>2, <2>3, GoingKeepsRecord DEF Remembers, SmokePcs, OverlayPcs
  <2> QED
    BY <2>1, <2>4 DEF ReportsOf
<1>5. CASE ResetWorkspace(r) \/ CloneWorkspace(r) \/ InstallDut(r)
  <2>1. /\ run[r].pc \in {"reset", "clone", "install"} /\ UNCHANGED reports
    BY <1>5 DEF ResetWorkspace, CloneWorkspace, InstallDut, WorkspaceStep
  <2>2. PICK pc \in {"clone", "install", "bind", "release"} : GoesTo(r, pc)
    BY <1>5 DEF ResetWorkspace, CloneWorkspace, InstallDut
  <2>3. command[r].op # "export" => run[r].doctor.pass
    BY <1>0, <2>1 DEF Remembers, OverlayPcs
  <2>4. Remembers(x, command[r])
    BY <2>2, <2>3, GoingKeepsRecord DEF Remembers, SmokePcs, OverlayPcs
  <2> QED
    BY <2>1, <2>4 DEF ReportsOf
<1>6. CASE BindOverlay(r)
  <2> DEFINE m == OverlayManifest(r)
  <2>1. CASE GoesTo(r, "release")
    BY <1>6, <2>1, GoingElsewhere DEF BindOverlay, Elsewhere, ReportsOf
  <2>2. CASE ~ GoesTo(r, "release")
    <3>1. /\ run' = [run EXCEPT ![r].manifest = m, ![r].pc = "mark work"]
          /\ BindingsHold(workspace[WorkAt(r)], m) /\ UNCHANGED reports
      BY <1>6, <2>2 DEF BindOverlay
    <3>2. m.eligible => m.source = "candidate"
      BY DEF OverlayManifest
    <3>3. m.doctor.pass
      <4>1. command[r].op # "export"
        BY <1>6, NoExportWorks DEF BindOverlay, Unlocked, ExportPcs
      <4>2. run[r].doctor.pass
        BY <1>0, <1>6, <4>1 DEF BindOverlay, Remembers, OverlayPcs
      <4> QED
        BY <4>2 DEF OverlayManifest
    <3>4. IsManifest(m)
      <4> HIDE DEF m
      <4> QED
        BY <3>1, <3>2, <3>3 DEF IsManifest, BindingsHold, ReplacementBindings
    <3>5. RunFields \subseteq DOMAIN x /\ x.pc = "mark work" /\ x.manifest = m
      <4> HIDE DEF m
      <4> QED
        BY <1>0, <3>1 DEF RunFields
    <3> QED
      BY <3>1, <3>4, <3>5 DEF Remembers, SmokePcs, OverlayPcs, ReportsOf
  <2> QED
    BY <2>1, <2>2
<1>7. CASE MarkWork(r)
  <2>1. IsManifest(run[r].manifest) /\ GoesTo(r, "report") /\ UNCHANGED reports
    BY <1>0, <1>7 DEF MarkWork, WorkspaceStep, Remembers
  <2>2. /\ RunFields \subseteq DOMAIN x /\ x.pc = "report"
        /\ x.manifest = run[r].manifest
    BY <2>1, GoingKeepsRecord
  <2> QED
    BY <2>1, <2>2 DEF Remembers, SmokePcs, OverlayPcs, ReportsOf
<1>8. CASE OverlayReport(r)
  <2>1. CASE GoesTo(r, "release") /\ UNCHANGED reports
    BY <2>1, GoingElsewhere DEF Elsewhere, ReportsOf
  <2>2. CASE ~ (GoesTo(r, "release") /\ UNCHANGED reports)
    <3> DEFINE report == [by |-> r, work |-> WorkAt(r), manifest |-> run[r].manifest]
    <3>1. WriteReport(r, report, "mark")
      BY <1>8, <2>2 DEF OverlayReport
    <3>2. IsManifest(report.manifest) /\ command[r].op = "overlay"
      BY <1>0, <1>8 DEF OverlayReport, Remembers
    <3> HIDE DEF report
    <3>3. RunFields \subseteq DOMAIN x /\ x.pc = "mark"
      BY <1>0, <3>1 DEF WriteReport, RunFields
    <3>4. Working(r)
      BY <1>8, NoExportWorks DEF OverlayReport, Unlocked, ExportPcs
    <3>5. IsReport(command[r].op, report)
      BY <3>2 DEF IsReport
    <3> QED
      BY <3>1, <3>3, <3>4, <3>5, ElsewhereRemembers
         DEF WriteReport, ReportsOf, Elsewhere
  <2> QED
    BY <2>1, <2>2
<1>9. CASE MarkReport(r)
  BY <1>9, GoingElsewhere DEF MarkReport, Marks, Elsewhere, ReportsOf
<1>10. CASE Confirm(r)
  <2>1. RunFields \subseteq DOMAIN x /\ x.pc = "release"
    BY <1>0, <1>10 DEF Confirm, RunFields
  <2> QED
    BY <1>10, <2>1, ElsewhereRemembers DEF Confirm, Elsewhere, ReportsOf
<1> QED
  BY <1>1, <1>2, <1>3, <1>4, <1>5, <1>6, <1>7, <1>8, <1>9, <1>10 DEF OverlayStep

(* What a smoke run finds after the simulation is told of the simulator that *)
(* it built, since Git has no RTL that reads "edited".                       *)
LEMMA SmokeReportIsTrue ==
  ASSUME NEW r, NEW x, NEW ws, NEW report, x.pc = "recheck", Built(r, x, ws),
         IsManifest(x.input.manifest), ws.dut = x.input.manifest.files,
         report.by = r, report.overlay = x.input, report.binary = ws.binary,
         report.gate => x.ok,
         report.eligible => x.input.manifest.eligible
  PROVE  IsSmoke(report)
<1>1. CASE Simulator(r, ws)
  <2>1. PICK dut : ws.binary = [by |-> r, dut |-> dut] /\ ws.dut \in {dut, "edited"}
    BY <1>1 DEF Simulator
  <2>2. dut = x.input.manifest.files
    BY <2>1, FilesAreGits
  <2>3. report.binary = [by |-> report.by, dut |-> report.overlay.manifest.files]
    BY <2>1, <2>2
  <2> QED
    BY <2>3 DEF IsSmoke, RanItsOverlay
<1>2. CASE ws.binary = None /\ ~x.ok
  BY <1>2 DEF IsSmoke
<1> QED
  BY <1>1, <1>2 DEF Built

LEMMA SmokeRemembers ==
  ASSUME LockInv, MemoryInv, WorkspaceInv, NEW r \in Runs, SmokeStep(r)
  PROVE  Remembers(run'[r], command[r]) /\ ReportsOf(r)
<1>0. /\ DOMAIN run = Runs /\ RunFields \subseteq DOMAIN run[r]
      /\ Remembers(run[r], command[r])
  BY DEF LockInv, Shape, MemoryInv, Remembers
<1> USE DEF At, Fails, OnlyRun
<1> DEFINE x == run'[r]
<1>1. CASE SmokeCheck(r)
  <2> DEFINE name == <<"overlay", Out(r), Iteration(r)>>
  <2>1. CASE GoesTo(r, "release")
    BY <1>1, <2>1, GoingElsewhere DEF SmokeCheck, Elsewhere, ReportsOf
  <2>2. CASE ~ GoesTo(r, "release")
    <3>1. run' = [run EXCEPT ![r].input = reports[name],
                             ![r].doctor = doctor[Out(r)], ![r].pc = "smoke lock"]
      BY <1>1, <2>2 DEF SmokeCheck
    <3>2. reports[name] # None
      BY <1>1, <2>2 DEF SmokeCheck, OverlayIntact, Published
    <3>3. command[r] # None /\ command[r].op = "smoke"
      BY <1>1 DEF SmokeCheck, LockInv, Progress
    <3>4. name \in ReportNames
      BY <3>3, CommandTypes DEF LockInv, Out, Iteration, ReportNames, Kinds
    <3>5. IsManifest(reports[name].manifest)
      <4>1. IsReport(name[1], reports[name])
        BY <3>2, <3>4 DEF MemoryInv
      <4>2. name[1] = "overlay"
        OBVIOUS
      <4> QED
        BY <4>1, <4>2 DEF IsReport
    <3> HIDE DEF name
    <3>6. RunFields \subseteq DOMAIN x /\ x.pc = "smoke lock" /\ x.input = reports[name]
      BY <1>0, <3>1 DEF RunFields
    <3>7. Remembers(x, command[r])
      BY <3>3, <3>5, <3>6 DEF Remembers, SmokePcs, OverlayPcs
    <3> QED
      BY <1>1, <3>7 DEF SmokeCheck, ReportsOf
  <2> QED
    BY <2>1, <2>2
<1>2. CASE LockSmoke(r)
  <2>1. CASE GoesTo(r, "release")
    BY <1>2, <2>1, GoingElsewhere DEF LockSmoke, WorkspaceStep, Elsewhere, ReportsOf
  <2>2. CASE GoesTo(r, "configure")
    <3>1. command[r].op = "smoke" /\ IsManifest(run[r].input.manifest)
      BY <1>0, <1>2 DEF LockSmoke, Remembers, SmokePcs
    <3>2. RunFields \subseteq DOMAIN x /\ x.pc = "configure" /\ x.input = run[r].input
      BY <2>2, GoingKeepsRecord
    <3>3. Remembers(x, command[r])
      BY <3>1, <3>2 DEF Remembers, SmokePcs, OverlayPcs
    <3> QED
      BY <1>2, <3>3 DEF LockSmoke, WorkspaceStep, ReportsOf
  <2> QED
    BY <1>2, <2>1, <2>2 DEF LockSmoke
<1>3. CASE Configure(r) \/ Build(r) \/ Simulate(r)
  <2>1. command[r].op = "smoke" /\ IsManifest(run[r].input.manifest)
    BY <1>0, <1>3 DEF Configure, Build, Simulate, Remembers, SmokePcs
  <2>2. /\ RunFields \subseteq DOMAIN x /\ x.pc \in {"build", "simulate", "recheck"}
        /\ x.input = run[r].input
    <3>1. CASE Configure(r)
      <4>1. PICK ok \in BOOLEAN, pc \in {"build", "recheck"} :
               run' = [run EXCEPT ![r].ok = ok, ![r].pc = pc]
        BY <3>1 DEF Configure
      <4> QED
        BY <1>0, <4>1 DEF RunFields
    <3>2. CASE Build(r)
      <4>1. CASE GoesTo(r, "simulate")
        BY <4>1, GoingKeepsRecord
      <4>2. CASE run' = [run EXCEPT ![r].ok = FALSE, ![r].pc = "recheck"]
        BY <1>0, <4>2 DEF RunFields
      <4> QED
        BY <3>2, <4>1, <4>2 DEF Build
    <3>3. CASE Simulate(r)
      <4>1. PICK ok \in BOOLEAN : run' = [run EXCEPT ![r].ok = ok, ![r].pc = "recheck"]
        BY <3>3 DEF Simulate
      <4> QED
        BY <1>0, <4>1 DEF RunFields
    <3> QED
      BY <1>3, <3>1, <3>2, <3>3
  <2>3. Remembers(x, command[r])
    BY <2>1, <2>2 DEF Remembers, SmokePcs, OverlayPcs
  <2> QED
    BY <1>3, <2>3 DEF Configure, Build, Simulate, WorkspaceStep, ReportsOf
<1>4. CASE SmokeReport(r)
  <2> DEFINE ws == workspace[WorkAt(r)]
             report == [by |-> r, overlay |-> run[r].input, doctor |-> run[r].doctor,
                        binary |-> ws.binary, gate |-> run[r].ok,
                        eligible |-> ~command[r].diagnostic
                                     /\ run[r].input.manifest.eligible]
  <2>1. CASE GoesTo(r, "abort") /\ UNCHANGED reports
    BY <2>1, GoingElsewhere DEF Elsewhere, ReportsOf
  <2>2. CASE ~ (GoesTo(r, "abort") /\ UNCHANGED reports)
    <3>1. WriteReport(r, report, "smoke release") /\ BindingsHold(ws, run[r].input.manifest)
      BY <1>4, <2>2 DEF SmokeReport
    <3>2. /\ run[r].pc = "recheck" /\ command[r].op = "smoke"
          /\ IsManifest(run[r].input.manifest) /\ Built(r, run[r], ws)
      BY <1>0, <1>4 DEF SmokeReport, Remembers, SmokePcs, WorkspaceInv
    <3>3. ws.dut = run[r].input.manifest.files
      BY <3>1 DEF BindingsHold, FilesInstalled
    <3>4. IsSmoke(report)
      <4>1. /\ report.by = r /\ report.overlay = run[r].input
            /\ report.binary = ws.binary /\ report.gate = run[r].ok
        OBVIOUS
      <4>2. report.eligible => run[r].input.manifest.eligible
        OBVIOUS
      <4> HIDE DEF ws, report
      <4> QED
        BY <3>2, <3>3, <4>1, <4>2, SmokeReportIsTrue
    <3> HIDE DEF ws, report
    <3>5. RunFields \subseteq DOMAIN x /\ x.pc = "smoke release"
      BY <1>0, <3>1 DEF WriteReport, RunFields
    <3>6. Working(r)
      BY <1>4, NoExportWorks DEF SmokeReport, Unlocked, ExportPcs
    <3>7. IsReport(command[r].op, report)
      BY <3>2, <3>4 DEF IsReport
    <3> QED
      BY <3>1, <3>5, <3>6, <3>7, ElsewhereRemembers
         DEF WriteReport, ReportsOf, Elsewhere
  <2> QED
    BY <2>1, <2>2
<1>5. CASE ReleaseSmoke(r)
  <2>1. PICK pc \in {"mark", "abort"} : GoesTo(r, pc)
    BY <1>5 DEF ReleaseSmoke
  <2>2. UNCHANGED reports
    BY <1>5 DEF ReleaseSmoke, WorkspaceStep
  <2> QED
    BY <2>1, <2>2, GoingElsewhere DEF Elsewhere, ReportsOf
<1>6. CASE SmokeMark(r)
  BY <1>6, GoingElsewhere DEF SmokeMark, Marks, Elsewhere, ReportsOf
<1>7. CASE Abort(r)
  <2>1. Remembers(x, command[r])
    BY <1>7, GoingElsewhere DEF Abort, Elsewhere
  <2>2. Working(r)
    BY <1>7, NoExportWorks DEF Abort, Unlocked, ExportPcs
  <2> QED
    BY <1>7, <2>1, <2>2 DEF Abort, ReportsOf
<1> QED
  BY <1>1, <1>2, <1>3, <1>4, <1>5, <1>6, <1>7 DEF SmokeStep

(* The four reports a comparison reads.                                      *)
LEMMA InputsRead ==
  ASSUME NEW r
  PROVE  /\ DOMAIN InputNames(r) =
               {"lockedOverlay", "lockedSmoke", "mixedOverlay", "mixedSmoke"}
         /\ DOMAIN Inputs(r) = DOMAIN InputNames(r)
         /\ Inputs(r).lockedOverlay = reports[<<"overlay", Out(r), Iteration(r)>>]
         /\ Inputs(r).lockedSmoke = reports[<<"smoke", Out(r), Iteration(r)>>]
         /\ Inputs(r).mixedOverlay = reports[<<"overlay", Out(r), command[r].mixed>>]
         /\ Inputs(r).mixedSmoke = reports[<<"smoke", Out(r), command[r].mixed>>]
BY DEF InputNames, Inputs

(* Whatever the simulations said: what the two overlays installed is what    *)
(* both simulators were made of, and it is the locked RTL.                   *)
LEMMA ComparisonHolds ==
  ASSUME NEW in, NEW anchors,
         IsManifest(in.lockedOverlay.manifest), IsManifest(in.mixedOverlay.manifest),
         IsSmoke(in.lockedSmoke), IsSmoke(in.mixedSmoke),
         CriticalShape(in), Matches(in),
         SmokeContract(in.lockedSmoke), SmokeContract(in.mixedSmoke),
         in.mixedOverlay.manifest.head = anchors.head,
         \A report \in {in.lockedOverlay.manifest, in.mixedOverlay.manifest,
                        in.lockedSmoke, in.mixedSmoke} :
            report.doctor = anchors.doctor
  PROVE  OfOneState(in, anchors)
<1>1. /\ in.mixedOverlay.manifest.files = "locked"
      /\ in.lockedOverlay.manifest.files = "locked"
  BY DEF Matches, IdentityReplacements, ProjectionsEqual, SourceFiles
<1>2. /\ in.lockedSmoke.overlay = in.lockedOverlay
      /\ in.mixedSmoke.overlay = in.mixedOverlay
      /\ in.lockedSmoke.gate = in.mixedSmoke.gate
  BY DEF Matches, HashChain, ProjectionsEqual
<1>3. ASSUME NEW smoke, IsSmoke(smoke), SmokeContract(smoke),
             smoke.overlay.manifest.files = "locked"
      PROVE  smoke.binary.dut = "locked"
  BY <1>3 DEF IsSmoke, SmokeContract, RanItsOverlay
<1>4. /\ in.lockedSmoke.binary.dut = "locked" /\ in.mixedSmoke.binary.dut = "locked"
  BY <1>1, <1>2, <1>3
<1>5. ReplacementAt(in.mixedOverlay.manifest.head) = "locked"
  BY <1>1, FilesAreGits DEF CriticalShape
<1>6. /\ in.lockedOverlay.manifest.doctor = anchors.doctor
      /\ in.mixedOverlay.manifest.doctor = anchors.doctor
      /\ in.lockedSmoke.doctor = anchors.doctor
      /\ in.mixedSmoke.doctor = anchors.doctor
  OBVIOUS
<1> QED
  BY <1>1, <1>2, <1>4, <1>5, <1>6 DEF OfOneState, CriticalShape

(* What Compare has read was true of all four reports.                       *)
LEMMA ComparableIsOfOneState ==
  ASSUME LockInv, MemoryInv, NEW r \in Runs, command[r] # None,
         command[r].op = "compare", Comparable(r), Matches(Inputs(r))
  PROVE  OfOneState(Inputs(r), run[r].doctor)
<1> DEFINE in == Inputs(r)
<1>1. /\ Out(r) \in Outs /\ Iteration(r) \in Iterations
      /\ command[r].mixed \in Iterations
  BY CommandTypes DEF LockInv, Out, Iteration
<1>2. ASSUME NEW kind \in {"overlay", "smoke"}, NEW i \in Iterations,
             reports[<<kind, Out(r), i>>] # None
      PROVE  IsReport(kind, reports[<<kind, Out(r), i>>])
  <2>1. <<kind, Out(r), i>> \in ReportNames
    BY <1>1 DEF ReportNames, Kinds
  <2>2. IsReport(<<kind, Out(r), i>>[1], reports[<<kind, Out(r), i>>])
    BY <1>2, <2>1 DEF MemoryInv
  <2> QED
    BY <2>2
<1>3. \A n \in DOMAIN InputNames(r) : reports[InputNames(r)[n]] # None
  BY InputsRead DEF Comparable, Published
<1>4. /\ InputNames(r).lockedOverlay = <<"overlay", Out(r), Iteration(r)>>
      /\ InputNames(r).lockedSmoke = <<"smoke", Out(r), Iteration(r)>>
      /\ InputNames(r).mixedOverlay = <<"overlay", Out(r), command[r].mixed>>
      /\ InputNames(r).mixedSmoke = <<"smoke", Out(r), command[r].mixed>>
  BY DEF InputNames
<1>5. /\ in.lockedOverlay # None /\ in.mixedOverlay # None
      /\ in.lockedSmoke # None /\ in.mixedSmoke # None
  BY <1>3, <1>4, InputsRead
<1>6. /\ IsReport("overlay", in.lockedOverlay) /\ IsReport("overlay", in.mixedOverlay)
      /\ IsReport("smoke", in.lockedSmoke) /\ IsReport("smoke", in.mixedSmoke)
  BY <1>1, <1>2, <1>5, InputsRead
<1>7. /\ IsManifest(in.lockedOverlay.manifest) /\ IsManifest(in.mixedOverlay.manifest)
      /\ IsSmoke(in.lockedSmoke) /\ IsSmoke(in.mixedSmoke)
  BY <1>6 DEF IsReport
<1>8. /\ CriticalShape(in) /\ RuntimeBindings(r, in)
      /\ SmokeContract(in.lockedSmoke) /\ SmokeContract(in.mixedSmoke)
  BY DEF Comparable
<1> HIDE DEF in
<1>9. /\ in.mixedOverlay.manifest.head = run[r].doctor.head
      /\ \A report \in {in.lockedOverlay.manifest, in.mixedOverlay.manifest,
                        in.lockedSmoke, in.mixedSmoke} :
            report.doctor = run[r].doctor.doctor
  BY <1>8 DEF RuntimeBindings
<1>10. Matches(in)
  BY DEF in
<1>11. OfOneState(in, run[r].doctor)
  BY <1>7, <1>8, <1>9, <1>10, ComparisonHolds
<1> QED
  BY <1>11 DEF in

LEMMA CompareRemembers ==
  ASSUME LockInv, MemoryInv, NEW r \in Runs, CompareStep(r)
  PROVE  Remembers(run'[r], command[r]) /\ ReportsOf(r)
<1>0. /\ DOMAIN run = Runs /\ RunFields \subseteq DOMAIN run[r]
      /\ Remembers(run[r], command[r])
  BY DEF LockInv, Shape, MemoryInv, Remembers
<1> USE DEF At, OnlyRun
<1> DEFINE x == run'[r]
<1>1. ASSUME CompareFails(r)  PROVE Remembers(x, command[r]) /\ ReportsOf(r)
  BY <1>1, GoingElsewhere DEF CompareFails, Elsewhere, ReportsOf
<1>2. CASE CompareCheck(r)
  <2>1. CASE ~ CompareFails(r)
    <3>1. run' = [run EXCEPT ![r].doctor = Anchors(r), ![r].pc = "compare"]
      BY <1>2, <2>1 DEF CompareCheck
    <3>2. RunFields \subseteq DOMAIN x /\ x.pc = "compare"
      BY <1>0, <3>1 DEF RunFields
    <3>3. command[r].op = "compare" /\ UNCHANGED reports
      BY <1>2, <2>1 DEF CompareCheck
    <3> QED
      BY <3>2, <3>3 DEF Remembers, SmokePcs, OverlayPcs, ReportsOf
  <2> QED
    BY <1>1, <2>1
<1>3. CASE Compare(r)
  <2>1. CASE ~ CompareFails(r)
    <3>1. /\ run' = [run EXCEPT ![r].input = Inputs(r),
                                ![r].ok = Matches(Inputs(r)),
                                ![r].pc = "anchors again"]
          /\ Comparable(r) /\ UNCHANGED reports
      BY <1>3, <2>1 DEF Compare
    <3>2. command[r].op = "compare" /\ command[r] # None
      BY <1>0, <1>3 DEF Compare, Remembers, LockInv, Progress
    <3>3. Matches(Inputs(r)) => OfOneState(Inputs(r), run[r].doctor)
      BY <3>1, <3>2, ComparableIsOfOneState
    <3>4. /\ RunFields \subseteq DOMAIN x /\ x.pc = "anchors again"
          /\ x.input = Inputs(r) /\ x.ok = Matches(Inputs(r))
          /\ x.doctor = run[r].doctor
      BY <1>0, <3>1 DEF RunFields
    <3> QED
      BY <3>1, <3>2, <3>3, <3>4 DEF Remembers, SmokePcs, OverlayPcs, ReportsOf
  <2> QED
    BY <1>1, <2>1
<1>4. CASE CompareReport(r)
  <2> DEFINE report == [by |-> r, input |-> run[r].input,
                        anchors |-> run[r].doctor, pass |-> run[r].ok]
  <2>1. CASE ~ CompareFails(r)
    <3>1. WriteReport(r, report, "mark")
      BY <1>4, <2>1 DEF CompareReport
    <3>2. /\ command[r].op = "compare"
          /\ run[r].ok => OfOneState(run[r].input, run[r].doctor)
      BY <1>0, <1>4 DEF CompareReport, Remembers
    <3>3. /\ report.pass = run[r].ok /\ report.input = run[r].input
          /\ report.anchors = run[r].doctor
      OBVIOUS
    <3> HIDE DEF report
    <3>4. IsReport(command[r].op, report)
      BY <3>2, <3>3 DEF IsReport
    <3>5. RunFields \subseteq DOMAIN x /\ x.pc = "mark"
      BY <1>0, <3>1 DEF WriteReport, RunFields
    <3>6. Working(r)
      BY <1>4, NoExportWorks DEF CompareReport, Unlocked, ExportPcs
    <3> QED
      BY <3>1, <3>4, <3>5, <3>6, ElsewhereRemembers
         DEF WriteReport, ReportsOf, Elsewhere
  <2> QED
    BY <1>1, <2>1
<1> QED
  BY <1>2, <1>3, <1>4 DEF CompareStep

(* The steps that handle locks, interrupts and kills.                        *)
LEMMA LockStepRemembers ==
  ASSUME LockInv, MemoryInv, NEW r \in Runs, LockStep(r)
  PROVE  /\ Remembers(run'[r], command[r]) /\ UNCHANGED << command, reports >>
         /\ \A q \in Runs \ {r} : run'[q] = run[q]
         /\ run'[r].pc \in {"acquire", "withdraw", "release", "ended", "export"}
<1>0. DOMAIN run = Runs /\ RunFields \subseteq DOMAIN run[r]
  BY DEF LockInv, Shape, MemoryInv, Remembers
<1> DEFINE x == run'[r]
<1> USE DEF At, OnlyRunAndLocks
<1>1. CASE Invoke(r)
  <2>1. CASE GoesTo(r, "acquire")
    <3>1. run'[r].pc = "acquire"
      BY <2>1, GoingKeepsRecord
    <3> QED
      BY <1>0, <1>1, <2>1, <3>1, GoingElsewhere DEF Invoke, Elsewhere, GoesTo
  <2>2. CASE command[r].op = "export" /\ GoesTo(r, "export")
    <3>1. RunFields \subseteq DOMAIN x /\ x.pc = "export"
      BY <2>2, GoingKeepsRecord
    <3>2. Remembers(x, command[r])
      BY <2>2, <3>1 DEF Remembers, SmokePcs, OverlayPcs
    <3> QED
      BY <1>0, <1>1, <2>2, <3>1, <3>2 DEF Invoke, GoesTo
  <2> QED
    BY <1>1, <2>1, <2>2 DEF Invoke
<1>2. CASE Acquire(r)
  <2>1. /\ RunFields \subseteq DOMAIN x /\ x.pc \in {"withdraw", "acquire", "release"}
        /\ \A q \in Runs \ {r} : run'[q] = run[q]
    BY <1>0, <1>2 DEF Acquire, GoesTo, RunFields
  <2> QED
    BY <1>2, <2>1, ElsewhereRemembers DEF Acquire, Elsewhere
<1>3. CASE Release(r)
  <2>1. /\ RunFields \subseteq DOMAIN x /\ x.pc = "release"
        /\ \A q \in Runs \ {r} : run'[q] = run[q]
    BY <1>0, <1>3 DEF Release, RunFields
  <2> QED
    BY <1>3, <2>1, ElsewhereRemembers DEF Release, Elsewhere
<1>4. CASE End(r)
  <2>1. /\ RunFields \subseteq DOMAIN x /\ x.pc = "ended"
        /\ \A q \in Runs \ {r} : run'[q] = run[q]
    BY <1>0, <1>4 DEF End, RunFields, NewRun
  <2> QED
    BY <1>4, <2>1, ElsewhereRemembers DEF End, Elsewhere
<1> QED
  BY <1>1, <1>2, <1>3, <1>4 DEF LockStep

LEMMA StopRemembers ==
  ASSUME LockInv, MemoryInv, NEW r \in Runs, Interrupt(r) \/ Kill(r)
  PROVE  /\ Remembers(run'[r], command[r]) /\ UNCHANGED << command, reports >>
         /\ \A q \in Runs \ {r} : run'[q] = run[q]
         /\ run'[r].pc \in {"abort", "release", "killed"}
<1>0. DOMAIN run = Runs /\ RunFields \subseteq DOMAIN run[r]
  BY DEF LockInv, Shape, MemoryInv, Remembers
<1>1. CASE Interrupt(r)
  <2>1. PICK pc \in {"abort", "release"} : GoesTo(r, pc)
    BY <1>1 DEF Interrupt
  <2>2. \A q \in Runs \ {r} : run'[q] = run[q]
    BY <1>0, <2>1 DEF GoesTo
  <2>3. Remembers(run'[r], command[r])
    BY <2>1, GoingElsewhere DEF Elsewhere
  <2>4. run'[r].pc \in {"abort", "release", "killed"}
    BY <2>1, GoingKeepsRecord
  <2> QED
    BY <1>1, <2>2, <2>3, <2>4 DEF Interrupt
<1>2. CASE Kill(r)
  <2>1. /\ RunFields \subseteq DOMAIN run'[r] /\ run'[r].pc = "killed"
        /\ \A q \in Runs \ {r} : run'[q] = run[q]
    BY <1>0, <1>2 DEF Kill, RunFields, NewRun
  <2> QED
    BY <1>2, <2>1, ElsewhereRemembers DEF Kill, Elsewhere
<1> QED
  BY <1>1, <1>2

(* A step of run r: its record and the report under its name are right, the  *)
(* rest is as it was.                                                        *)
LEMMA OneRunRemembers ==
  ASSUME LockInv, MemoryInv, NEW r \in Runs,
         Remembers(run'[r], command[r]), ReportsOf(r), command' = command,
         \A q \in Runs \ {r} : run'[q] = run[q]
  PROVE  MemoryInv'
<1>1. \A q \in Runs : Remembers(run'[q], command'[q])
  BY DEF MemoryInv
<1>2. CASE UNCHANGED reports
  BY <1>1, <1>2 DEF MemoryInv
<1>3. CASE Working(r) /\ \E report :
             /\ reports' = [reports EXCEPT ![ReportOf(r)] = report]
             /\ report # None => IsReport(command[r].op, report)
  <2>1. PICK report : /\ reports' = [reports EXCEPT ![ReportOf(r)] = report]
                      /\ report # None => IsReport(command[r].op, report)
    BY <1>3
  <2>2. DOMAIN reports = ReportNames
    BY DEF LockInv, Shape
  <2>3. ReportOf(r)[1] = command[r].op
    BY DEF ReportOf
  <2>4. ASSUME NEW name \in ReportNames, reports'[name] # None
        PROVE  IsReport(name[1], reports'[name])
    <3>1. CASE name = ReportOf(r)
      BY <2>1, <2>2, <2>3, <2>4, <3>1
    <3>2. CASE name # ReportOf(r)
      BY <2>1, <2>2, <2>4, <3>2 DEF MemoryInv
    <3> QED
      BY <3>1, <3>2
  <2> QED
    BY <1>1, <2>4 DEF MemoryInv
<1> QED
  BY <1>2, <1>3 DEF ReportsOf

LEMMA StepRemembers ==
  ASSUME LockInv, MemoryInv, WorkspaceInv, [Next]_vars
  PROVE  MemoryInv'
<1>1. ASSUME NEW r \in Runs, RunStep(r)  PROVE MemoryInv'
  <2>1. CASE LockStep(r)
    BY <2>1, LockStepRemembers, OneRunRemembers DEF ReportsOf
  <2>2. CASE OverlayStep(r) \/ SmokeStep(r) \/ CompareStep(r)
    <3>1. InnerStep(r)
      BY <2>2, OverlayStepIsInner, SmokeStepIsInner, CompareStepIsInner
    <3>2. command' = command /\ \A q \in Runs \ {r} : run'[q] = run[q]
      BY <3>1 DEF InnerStep, InnerMoves, RunMoves
    <3>3. Remembers(run'[r], command[r]) /\ ReportsOf(r)
      BY <2>2, OverlayRemembers, SmokeRemembers, CompareRemembers
    <3> QED
      BY <3>2, <3>3, OneRunRemembers
  <2> QED
    BY <1>1, <2>1, <2>2 DEF RunStep
<1>2. ASSUME NEW r \in Runs, Interrupt(r) \/ Kill(r)  PROVE MemoryInv'
  BY <1>2, StopRemembers, OneRunRemembers DEF ReportsOf
<1>3. ASSUME UNCHANGED << command, run, reports >>  PROVE MemoryInv'
  BY <1>3 DEF MemoryInv
<1>4. CASE Outside
  <2>1. CASE \E r \in Runs : Interrupt(r) \/ Kill(r)
    BY <1>2, <2>1
  <2>2. CASE \E r \in Runs : ClearLocks(r)
    BY <1>3, <2>2 DEF ClearLocks
  <2>3. CASE \E w \in Works, i \in Iterations : RemoveUnmarked(w, i) \/ Touch(w, i)
    BY <1>3, <2>3 DEF RemoveUnmarked, Touch
  <2>4. CASE \E o \in Outs : Doctor(o) \/ Expire(o)
    BY <1>3, <2>4 DEF Doctor, Expire
  <2>5. CASE ChangeRepo
    BY <1>3, <2>5 DEF ChangeRepo
  <2> QED
    BY <1>4, <2>1, <2>2, <2>3, <2>4, <2>5 DEF Outside
<1>5. CASE UNCHANGED vars
  BY <1>3, <1>5 DEF vars
<1> QED
  BY <1>1, <1>4, <1>5 DEF Next

(***************************************************************************)
(* The workspaces.                                                           *)
(***************************************************************************)
(* What a step of run r does to them.                                        *)
WorkspaceOf(r) ==
    /\ \/ UNCHANGED workspace
       \/ /\ Working(r)
          /\ \E ws : /\ workspace' = [workspace EXCEPT ![WorkAt(r)] = ws]
                     /\ OneBuilder(ws)
    /\ run'[r].pc \in SmokePcs => Built(r, run'[r], workspace'[WorkAt(r)])

LEMMA WorkspaceIsKnown ==
  ASSUME LockInv, WorkspaceInv, NEW r \in Runs, command[r] # None
  PROVE  /\ WorkAt(r) \in Works \X Iterations
         /\ OneBuilder(workspace[WorkAt(r)])
         /\ WorkspaceFields \subseteq DOMAIN workspace[WorkAt(r)]
         /\ DOMAIN workspace = Works \X Iterations
BY CommandTypes DEF LockInv, WorkAt, Work, Iteration, WorkspaceInv, OneBuilder

LEMMA WritingWorkspace ==
  ASSUME LockInv, WorkspaceInv, NEW r \in Runs, Working(r), NEW ws,
         WorkspaceStep(r, ws), OneBuilder(ws),
         run'[r].pc \in SmokePcs => Built(r, run'[r], ws)
  PROVE  WorkspaceOf(r)
<1>1. command[r] # None
  BY DEF Working, Live, LockInv, Progress
<1>2. workspace'[WorkAt(r)] = ws
  BY <1>1, WorkspaceIsKnown DEF WorkspaceStep
<1> QED
  BY <1>2 DEF WorkspaceOf, WorkspaceStep

LEMMA FreshHasNoBuilder ==
  ASSUME NEW ws, WorkspaceFields \subseteq DOMAIN ws, ws.builders = {}
  PROVE  OneBuilder(ws)
BY DEF OneBuilder

(* Where the steps of an overlay lead.                                       *)
Landings == SmokePcs \cup {"anchors again", "smoke release", "mark"}

LEMMA OverlayGoes ==
  ASSUME LockInv, MemoryInv, NEW r \in Runs, OverlayStep(r)
  PROVE  /\ run'[r].pc \in Landings => OverlayReport(r)
         /\ run'[r].pc \in Landings => run'[r].pc = "mark"
<1> USE DEF At, Fails, OnlyRun
<1> DEFINE Goes == run'[r].pc \notin Landings
<1>r. /\ DOMAIN run = Runs /\ RunFields \subseteq DOMAIN run[r]
      /\ Remembers(run[r], command[r])
  BY DEF LockInv, Shape, MemoryInv, Remembers
<1>0. ASSUME GoesTo(r, "release")  PROVE Goes
  <2>1. run'[r].pc = "release"
    BY <1>0, GoingKeepsRecord
  <2> QED
    BY <2>1 DEF Landings, SmokePcs
<1>1. CASE \E pc \in (Elsewhere \ {"mark", "smoke release"}) \cup OverlayPcs \cup {"report"} :
              GoesTo(r, pc)
  BY <1>1, GoingKeepsRecord DEF Elsewhere, OverlayPcs, Landings, SmokePcs
<1>2. CASE OverlayCheck(r)
  <2>1. CASE GoesTo(r, "release")
    BY <1>0, <2>1
  <2>2. CASE ~ GoesTo(r, "release")
    <3> DEFINE pc == IF command[r].source = "official" THEN "reset" ELSE "export"
    <3>1. \E plan, d : run' = [run EXCEPT ![r].doctor = d, ![r].manifest = plan,
                                          ![r].pc = pc]
      BY <1>2, <2>2 DEF OverlayCheck
    <3>2. pc \in {"reset", "export"}
      OBVIOUS
    <3> HIDE DEF pc
    <3>3. run'[r].pc = pc
      BY <1>r, <3>1 DEF RunFields
    <3> QED
      BY <3>2, <3>3 DEF Landings, SmokePcs
  <2> QED
    BY <2>1, <2>2
<1>3. CASE BindOverlay(r)
  <2>1. CASE GoesTo(r, "release")
    BY <1>0, <2>1
  <2>2. CASE \E m : run' = [run EXCEPT ![r].manifest = m, ![r].pc = "mark work"]
    BY <1>r, <2>2, ZenonT(60) DEF RunFields, Landings, SmokePcs
  <2> QED
    BY <1>3, <2>1, <2>2 DEF BindOverlay
<1>4. CASE OverlayReport(r)
  <2>1. CASE GoesTo(r, "release")
    BY <1>0, <2>1
  <2>2. CASE \E report : WriteReport(r, report, "mark")
    <3>1. run'[r].pc = "mark"
      BY <1>r, <2>2 DEF WriteReport, RunFields
    <3> QED
      BY <1>4, <3>1
  <2> QED
    BY <1>4, <2>1, <2>2 DEF OverlayReport
<1>5. CASE Confirm(r)
  BY <1>r, <1>5 DEF Confirm, RunFields, Landings, SmokePcs
<1>6. CASE Withdraw(r) \/ ExportRefused(r) \/ MarkWork(r) \/ MarkReport(r)
  BY <1>1, <1>6 DEF Withdraw, ExportRefused, MarkWork, MarkReport, Elsewhere
<1>7. CASE ExportReset(r) \/ ExportFiles(r) \/ ExportManifest(r)
  BY <1>1, <1>7 DEF ExportReset, ExportFiles, ExportManifest, ExportStep,
     OverlayPcs, Elsewhere
<1>8. CASE ResetWorkspace(r) \/ CloneWorkspace(r) \/ InstallDut(r)
  BY <1>1, <1>8 DEF ResetWorkspace, CloneWorkspace, InstallDut, OverlayPcs, Elsewhere
<1> QED
  BY <1>2, <1>3, <1>4, <1>5, <1>6, <1>7, <1>8 DEF OverlayStep

LEMMA OverlayWorkspace ==
  ASSUME LockInv, MemoryInv, WorkspaceInv, NEW r \in Runs, OverlayStep(r)
  PROVE  WorkspaceOf(r)
<1> USE DEF At, Fails, OnlyRun
<1> DEFINE ws == workspace[WorkAt(r)]
<1>0. /\ DOMAIN run = Runs /\ RunFields \subseteq DOMAIN run[r]
      /\ Remembers(run[r], command[r])
  BY DEF LockInv, Shape, MemoryInv, Remembers
<1>1. run'[r].pc \notin SmokePcs
  BY OverlayGoes DEF Landings, SmokePcs
<1>2. ASSUME run[r].pc \notin Unlocked, run[r].pc \notin ExportPcs
      PROVE  /\ Working(r) /\ OneBuilder(ws) /\ WorkspaceFields \subseteq DOMAIN ws
  <2>1. Working(r) /\ command[r] # None
    BY <1>2, NoExportWorks DEF LockInv, Progress, Unlocked
  <2> QED
    BY <2>1, WorkspaceIsKnown
<1>3. CASE UNCHANGED workspace
  BY <1>1, <1>3 DEF WorkspaceOf
<1>4. CASE ResetWorkspace(r) /\ ~ UNCHANGED workspace
  <2>1. Working(r)
    BY <1>2, <1>4 DEF ResetWorkspace, Unlocked, ExportPcs
  <2>2. WorkspaceStep(r, [NoWorkspace EXCEPT !.state = "unmarked"])
    BY <1>4 DEF ResetWorkspace
  <2>3. OneBuilder([NoWorkspace EXCEPT !.state = "unmarked"])
    BY FreshHasNoBuilder DEF NoWorkspace, WorkspaceFields
  <2> QED
    BY <1>1, <2>1, <2>2, <2>3, WritingWorkspace
<1>5. CASE CloneWorkspace(r)
  <2>1. Working(r)
    BY <1>2, <1>5 DEF CloneWorkspace, Unlocked, ExportPcs
  <2>2. CASE WorkspaceStep(r, [NoWorkspace EXCEPT !.state = "made", !.dut = "official"])
    <3>1. OneBuilder([NoWorkspace EXCEPT !.state = "made", !.dut = "official"])
      BY FreshHasNoBuilder DEF NoWorkspace, WorkspaceFields
    <3> QED
      BY <1>1, <2>1, <2>2, <3>1, WritingWorkspace
  <2>3. CASE \E left \in {"absent", "made"} :
                WorkspaceStep(r, [NoWorkspace EXCEPT !.state = left])
    <3>1. PICK left \in {"absent", "made"} :
             WorkspaceStep(r, [NoWorkspace EXCEPT !.state = left])
      BY <2>3
    <3>2. OneBuilder([NoWorkspace EXCEPT !.state = left])
      BY FreshHasNoBuilder DEF NoWorkspace, WorkspaceFields
    <3> QED
      BY <1>1, <2>1, <3>1, <3>2, WritingWorkspace
  <2> QED
    BY <1>5, <2>2, <2>3 DEF CloneWorkspace
<1>6. CASE InstallDut(r) /\ ~ UNCHANGED workspace
  <2>1. Working(r) /\ OneBuilder(ws) /\ WorkspaceFields \subseteq DOMAIN ws
    BY <1>2, <1>6 DEF InstallDut, Unlocked, ExportPcs
  <2>2. PICK dut : WorkspaceStep(r, [ws EXCEPT !.dut = dut])
    BY <1>6 DEF InstallDut
  <2>3. OneBuilder([ws EXCEPT !.dut = dut])
    BY <2>1 DEF OneBuilder, WorkspaceFields
  <2> QED
    BY <1>1, <2>1, <2>2, <2>3, WritingWorkspace
<1>7. CASE MarkWork(r)
  <2>1. Working(r) /\ OneBuilder(ws) /\ WorkspaceFields \subseteq DOMAIN ws
    BY <1>2, <1>7 DEF MarkWork, Unlocked, ExportPcs
  <2>2. PICK m : WorkspaceStep(r, [ws EXCEPT !.overlay = m])
    BY <1>7 DEF MarkWork
  <2>3. OneBuilder([ws EXCEPT !.overlay = m])
    BY <2>1 DEF OneBuilder, WorkspaceFields
  <2> QED
    BY <1>1, <2>1, <2>2, <2>3, WritingWorkspace
<1>8. CASE Withdraw(r) \/ OverlayCheck(r) \/ ExportRefused(r) \/ ExportReset(r)
           \/ ExportFiles(r) \/ ExportManifest(r) \/ BindOverlay(r)
           \/ OverlayReport(r) \/ MarkReport(r) \/ Confirm(r)
  BY <1>3, <1>8 DEF Withdraw, OverlayCheck, ExportRefused, ExportReset, ExportFiles,
     ExportManifest, ExportStep, BindOverlay, OverlayReport, MarkReport, Marks, Confirm
<1> QED
  BY <1>3, <1>4, <1>5, <1>6, <1>7, <1>8 DEF OverlayStep

LEMMA SmokeWorkspace ==
  ASSUME LockInv, MemoryInv, WorkspaceInv, NEW r \in Runs, SmokeStep(r)
  PROVE  WorkspaceOf(r)
<1> USE DEF At, Fails, OnlyRun
<1> DEFINE ws == workspace[WorkAt(r)]
           x == run'[r]
<1>0. DOMAIN run = Runs /\ RunFields \subseteq DOMAIN run[r]
  BY DEF LockInv, Shape, MemoryInv, Remembers
<1>1. /\ Working(r) /\ command[r] # None
  BY NoExportWorks DEF SmokeStep, SmokeCheck, LockSmoke, Configure, Build, Simulate,
     SmokeReport, ReleaseSmoke, SmokeMark, Abort, Unlocked, ExportPcs, LockInv, Progress
<1>2. OneBuilder(ws) /\ WorkspaceFields \subseteq DOMAIN ws
  BY <1>1, WorkspaceIsKnown
<1>3. run[r].pc \in SmokePcs => Built(r, run[r], ws)
  BY DEF WorkspaceInv
<1>4. ASSUME NEW pc \in {"release", "abort", "abort report", "mark", "confirm"},
             GoesTo(r, pc)
      PROVE  run'[r].pc \notin SmokePcs
  <2>1. run'[r].pc = pc
    BY <1>4, GoingKeepsRecord
  <2> QED
    BY <2>1 DEF SmokePcs
<1>5. CASE SmokeCheck(r)
  <2>1. CASE GoesTo(r, "release")
    BY <1>4, <1>5, <2>1 DEF SmokeCheck, WorkspaceOf
  <2>2. CASE ~ GoesTo(r, "release")
    <3> DEFINE in == reports[<<"overlay", Out(r), Iteration(r)>>]
    <3>1. /\ run' = [run EXCEPT ![r].input = in, ![r].doctor = doctor[Out(r)],
                                ![r].pc = "smoke lock"]
          /\ OverlayIntact(Out(r), Work(r), Iteration(r), command[r].diagnostic, FALSE)
          /\ workspace' = workspace
      BY <1>5, <2>2 DEF SmokeCheck
    <3>2. x.pc = "smoke lock"
      BY <1>0, <3>1 DEF RunFields
    <3>3. ws.generated = {}
      BY <3>1 DEF OverlayIntact, OfficialInputsIntact, WorkAt
    <3>4. ws.builders = {}
      BY <1>2, <3>3 DEF OneBuilder
    <3>5. Built(r, x, ws)
      BY <3>2, <3>4 DEF Built
    <3> QED
      BY <3>1, <3>5 DEF WorkspaceOf
  <2> QED
    BY <2>1, <2>2
<1>6. CASE LockSmoke(r)
  <2>1. CASE GoesTo(r, "release") /\ UNCHANGED workspace
    BY <1>4, <2>1 DEF WorkspaceOf
  <2>2. CASE ~ (GoesTo(r, "release") /\ UNCHANGED workspace)
    <3> DEFINE ws1 == [ws EXCEPT !.smokeLock = r]
    <3>1. WorkspaceStep(r, ws1) /\ GoesTo(r, "configure")
      BY <1>6, <2>2 DEF LockSmoke
    <3>2. ws.builders = {}
      BY <1>3, <1>6 DEF LockSmoke, Built, SmokePcs
    <3>3. x.pc = "configure"
      BY <3>1, GoingKeepsRecord
    <3>4. ws1.builders = {} /\ WorkspaceFields \subseteq DOMAIN ws1
      BY <1>2, <3>2 DEF WorkspaceFields
    <3>5. OneBuilder(ws1)
      BY <3>4, FreshHasNoBuilder
    <3>6. Built(r, x, ws1)
      BY <3>3, <3>4 DEF Built
    <3> QED
      BY <1>1, <3>1, <3>5, <3>6, WritingWorkspace
  <2> QED
    BY <2>1, <2>2
<1>7. CASE Configure(r)
  <2>1. PICK ok \in BOOLEAN, left \in SUBSET {"config"} :
           /\ WorkspaceStep(r, [ws EXCEPT !.generated = left, !.binary = None])
           /\ run' = [run EXCEPT ![r].ok = ok,
                                 ![r].pc = IF ok THEN "build" ELSE "recheck"]
    BY <1>7 DEF Configure
  <2> DEFINE ws1 == [ws EXCEPT !.generated = left, !.binary = None]
  <2>2. ws.builders = {}
    BY <1>3, <1>7 DEF Configure, Built, SmokePcs
  <2>3. ws1.builders = {} /\ ws1.binary = None /\ WorkspaceFields \subseteq DOMAIN ws1
    BY <1>2, <2>2 DEF WorkspaceFields
  <2>4. x.pc = (IF ok THEN "build" ELSE "recheck") /\ x.ok = ok
    BY <1>0, <2>1 DEF RunFields
  <2>5. OneBuilder(ws1)
    BY <2>3, FreshHasNoBuilder
  <2>6. Built(r, x, ws1)
    BY <2>3, <2>4 DEF Built
  <2> HIDE DEF ws1, x
  <2>7. WorkspaceStep(r, ws1)
    BY <2>1 DEF ws1
  <2> QED
    BY <1>1, <2>5, <2>6, <2>7, WritingWorkspace DEF x
<1>8. CASE Build(r)
  <2>1. ws.builders = {} /\ ws.binary = None
    BY <1>3, <1>8 DEF Build, Built, SmokePcs
  <2>2. CASE /\ WorkspaceStep(r, [ws EXCEPT !.generated = @ \cup {"build"},
                    !.binary = [by |-> r, dut |-> ws.dut],
                    !.builders = @ \cup {r}])
             /\ GoesTo(r, "simulate")
    <3> DEFINE ws1 == [ws EXCEPT !.generated = @ \cup {"build"},
                                 !.binary = [by |-> r, dut |-> ws.dut],
                                 !.builders = @ \cup {r}]
    <3>1. /\ WorkspaceFields \subseteq DOMAIN ws1
          /\ ws1.generated = ws.generated \cup {"build"} /\ ws1.builders = {r}
          /\ ws1.binary = [by |-> r, dut |-> ws.dut] /\ ws1.dut = ws.dut
      BY <1>2, <2>1 DEF WorkspaceFields
    <3>2. x.pc = "simulate"
      BY <2>2, GoingKeepsRecord
    <3>3. WorkspaceStep(r, ws1)
      BY <2>2
    <3> HIDE DEF ws1
    <3>4. OneBuilder(ws1)
      BY <3>1 DEF OneBuilder
    <3>5. Simulator(r, ws1)
      BY <3>1 DEF Simulator
    <3>6. Built(r, x, ws1)
      BY <3>2, <3>5 DEF Built
    <3> QED
      BY <1>1, <3>3, <3>4, <3>6, WritingWorkspace
  <2>3. CASE /\ WorkspaceStep(r, [ws EXCEPT !.generated = @ \cup {"build"},
                                            !.builders = @ \cup {r}])
             /\ run' = [run EXCEPT ![r].ok = FALSE, ![r].pc = "recheck"]
    <3> DEFINE ws1 == [ws EXCEPT !.generated = @ \cup {"build"},
                                 !.builders = @ \cup {r}]
    <3>1. /\ WorkspaceFields \subseteq DOMAIN ws1
          /\ ws1.generated = ws.generated \cup {"build"} /\ ws1.builders = {r}
          /\ ws1.binary = None
      BY <1>2, <2>1 DEF WorkspaceFields
    <3>2. x.pc = "recheck" /\ x.ok = FALSE
      BY <1>0, <2>3 DEF RunFields
    <3>3. WorkspaceStep(r, ws1)
      BY <2>3
    <3> HIDE DEF ws1
    <3>4. OneBuilder(ws1)
      BY <3>1 DEF OneBuilder
    <3>5. Built(r, x, ws1)
      BY <3>1, <3>2 DEF Built
    <3> QED
      BY <1>1, <3>3, <3>4, <3>5, WritingWorkspace
  <2> QED
    BY <1>8, <2>2, <2>3 DEF Build
<1>9. CASE Simulate(r)
  <2>1. Simulator(r, ws) /\ workspace' = workspace
    BY <1>3, <1>9 DEF Simulate, Built, SmokePcs
  <2>2. x.pc = "recheck"
    BY <1>0, <1>9 DEF Simulate, RunFields
  <2>3. Built(r, x, ws)
    BY <2>1, <2>2 DEF Built
  <2> QED
    BY <2>1, <2>3 DEF WorkspaceOf
<1>10. CASE SmokeReport(r)
  <2>1. CASE GoesTo(r, "abort")
    BY <1>4, <1>10, <2>1 DEF SmokeReport, WorkspaceOf
  <2>2. CASE \E report : WriteReport(r, report, "smoke release")
    <3>1. x.pc = "smoke release"
      BY <1>0, <2>2 DEF WriteReport, RunFields
    <3> QED
      BY <1>10, <3>1 DEF SmokeReport, WorkspaceOf, SmokePcs
  <2> QED
    BY <1>10, <2>1, <2>2 DEF SmokeReport
<1>11. CASE ReleaseSmoke(r)
  <2>1. x.pc \notin SmokePcs
    BY <1>4, <1>11 DEF ReleaseSmoke
  <2>2. CASE WorkspaceStep(r, [ws EXCEPT !.smokeLock = None])
    <3>1. OneBuilder([ws EXCEPT !.smokeLock = None])
      BY <1>2 DEF OneBuilder, WorkspaceFields
    <3> QED
      BY <1>1, <2>1, <2>2, <3>1, WritingWorkspace
  <2> QED
    BY <1>11, <2>1, <2>2 DEF ReleaseSmoke, WorkspaceOf
<1>12. CASE SmokeMark(r) \/ Abort(r)
  <2>1. x.pc \notin SmokePcs
    <3>1. \E pc \in {"confirm", "abort report", "release"} : GoesTo(r, pc)
      BY <1>12 DEF SmokeMark, Abort
    <3> QED
      BY <1>4, <3>1
  <2> QED
    BY <1>12, <2>1 DEF SmokeMark, Marks, Abort, WorkspaceOf
<1> QED
  BY <1>5, <1>6, <1>7, <1>8, <1>9, <1>10, <1>11, <1>12 DEF SmokeStep

LEMMA CompareWorkspace ==
  ASSUME LockInv, MemoryInv, WorkspaceInv, NEW r \in Runs, CompareStep(r)
  PROVE  WorkspaceOf(r)
<1> USE DEF At, OnlyRun
<1>0. DOMAIN run = Runs /\ RunFields \subseteq DOMAIN run[r]
  BY DEF LockInv, Shape, MemoryInv, Remembers
<1>1. UNCHANGED workspace
  BY DEF CompareStep, CompareCheck, Compare, CompareReport, CompareFails
<1>2. run'[r].pc \in {"compare", "anchors again", "mark", "abort"}
  <2>1. CASE CompareFails(r)
    BY <2>1, GoingKeepsRecord DEF CompareFails
  <2>2. CASE run' = [run EXCEPT ![r].doctor = Anchors(r), ![r].pc = "compare"]
    BY <1>0, <2>2 DEF RunFields
  <2>3. CASE run' = [run EXCEPT ![r].input = Inputs(r), ![r].ok = Matches(Inputs(r)),
                                ![r].pc = "anchors again"]
    BY <1>0, <2>3 DEF RunFields
  <2>4. CASE \E report : WriteReport(r, report, "mark")
    BY <1>0, <2>4 DEF WriteReport, RunFields
  <2> QED
    BY <2>1, <2>2, <2>3, <2>4 DEF CompareStep, CompareCheck, Compare, CompareReport
<1> QED
  BY <1>1, <1>2 DEF WorkspaceOf, SmokePcs

(* The lock below the work root is held by whoever works there.              *)
LEMMA WorkerHoldsWork ==
  ASSUME LockInv, NEW r \in Runs, Working(r)
  PROVE  lockFile[WorkAt(r)] = r
<1>1. Progress(r) /\ HoldsItsLocks(r) /\ Shape
  BY DEF LockInv
<1>2. command[r] # None /\ command[r].op # "export"
  BY <1>1 DEF Progress, Working, Live
<1>3. Iteration(r) \in IterationsOf(command[r])
  BY DEF Iteration, IterationsOf
<1>4. PICK n \in 1 .. Len(LocksOf(r)) : LocksOf(r)[n] = <<Work(r), Iteration(r)>>
  BY <1>1, <1>2, <1>3, LocksCover
<1>5. lockFile[LocksOf(r)[n]] = r
  BY <1>1 DEF HoldsItsLocks
<1> QED
  BY <1>4, <1>5 DEF WorkAt

LEMMA WorkspacesApart ==
  ASSUME LockInv, NEW r \in Runs, NEW q \in Runs, Working(r), Working(q),
         WorkAt(r) = WorkAt(q)
  PROVE  r = q
BY WorkerHoldsWork

LEMMA SmokeWorks ==
  ASSUME LockInv, NEW r \in Runs, run[r].pc \in SmokePcs
  PROVE  Working(r) /\ command[r] # None
BY NoExportWorks DEF SmokePcs, Unlocked, ExportPcs, LockInv, Progress

LEMMA OneRunWorks ==
  ASSUME LockInv, WorkspaceInv, NEW r \in Runs, command' = command,
         \A q \in Runs \ {r} : run'[q] = run[q], WorkspaceOf(r)
  PROVE  WorkspaceInv'
<1>1. \A q \in Runs : WorkAt(q)' = WorkAt(q)
  BY DEF WorkAt, Work, Iteration
<1>2. DOMAIN workspace = Works \X Iterations
  BY DEF WorkspaceInv
<1>3. /\ DOMAIN workspace' = Works \X Iterations
      /\ \A at \in Works \X Iterations : OneBuilder(workspace'[at])
  BY <1>2 DEF WorkspaceOf, WorkspaceInv
<1>4. ASSUME NEW q \in Runs, run'[q].pc \in SmokePcs
      PROVE  Built(q, run'[q], workspace'[WorkAt(q)])
  <2>1. CASE q = r
    BY <1>4, <2>1 DEF WorkspaceOf
  <2>2. CASE q # r
    <3>1. run'[q] = run[q] /\ run[q].pc \in SmokePcs
      BY <1>4, <2>2
    <3>2. Working(q) /\ WorkAt(q) \in Works \X Iterations
      BY <3>1, SmokeWorks, WorkspaceIsKnown
    <3>3. Built(q, run[q], workspace[WorkAt(q)])
      BY <3>1 DEF WorkspaceInv
    <3>4. Working(r) => WorkAt(r) # WorkAt(q)
      BY <2>2, <3>2, WorkspacesApart
    <3>5. workspace'[WorkAt(q)] = workspace[WorkAt(q)]
      BY <1>2, <3>2, <3>4 DEF WorkspaceOf
    <3> QED
      BY <3>1, <3>3, <3>5
  <2> QED
    BY <2>1, <2>2
<1> QED
  BY <1>1, <1>3, <1>4 DEF WorkspaceInv

(* What happens to a workspace with no run about: it is edited, or one that  *)
(* no run has locked is removed.                                             *)
LEMMA EditKeepsWorkspace ==
  ASSUME LockInv, WorkspaceInv, UNCHANGED << command, run >>,
         NEW w \in Works, NEW i \in Iterations, RemoveUnmarked(w, i) \/ Touch(w, i)
  PROVE  WorkspaceInv'
<1> DEFINE at == <<w, i>>
           ws == workspace[at]
<1>0. /\ DOMAIN workspace = Works \X Iterations /\ at \in Works \X Iterations
      /\ OneBuilder(ws) /\ WorkspaceFields \subseteq DOMAIN ws
  BY DEF WorkspaceInv, OneBuilder
<1>1. \A q \in Runs : WorkAt(q)' = WorkAt(q)
  BY DEF WorkAt, Work, Iteration
<1>2. PICK ws1 : workspace' = [workspace EXCEPT ![at] = ws1] /\ OneBuilder(ws1)
                 /\ (RemoveUnmarked(w, i) \/
                       /\ ws1.builders = ws.builders /\ ws1.binary = ws.binary
                       /\ ws1.dut \in {ws.dut, "edited"})
  <2>1. CASE RemoveUnmarked(w, i)
    <3>1. OneBuilder(NoWorkspace)
      BY FreshHasNoBuilder DEF NoWorkspace, WorkspaceFields
    <3> QED
      BY <2>1, <3>1 DEF RemoveUnmarked
  <2>2. CASE workspace' = [workspace EXCEPT ![at].dut = "edited"]
    <3> DEFINE ws1 == [ws EXCEPT !.dut = "edited"]
    <3>1. /\ WorkspaceFields \subseteq DOMAIN ws1 /\ ws1.builders = ws.builders
          /\ ws1.binary = ws.binary /\ ws1.dut = "edited"
          /\ ws1.generated = ws.generated
      BY <1>0 DEF WorkspaceFields
    <3>2. workspace' = [workspace EXCEPT ![at] = ws1]
      BY <1>0, <2>2
    <3> HIDE DEF ws1
    <3>3. OneBuilder(ws1)
      BY <1>0, <3>1 DEF OneBuilder
    <3> QED
      BY <3>1, <3>2, <3>3
  <2>3. CASE workspace' = [workspace EXCEPT ![at].official = FALSE]
    <3> DEFINE ws1 == [ws EXCEPT !.official = FALSE]
    <3>1. /\ WorkspaceFields \subseteq DOMAIN ws1 /\ ws1.builders = ws.builders
          /\ ws1.binary = ws.binary /\ ws1.dut = ws.dut
          /\ ws1.generated = ws.generated
      BY <1>0 DEF WorkspaceFields
    <3>2. workspace' = [workspace EXCEPT ![at] = ws1]
      BY <1>0, <2>3
    <3> HIDE DEF ws1
    <3>3. OneBuilder(ws1)
      BY <1>0, <3>1 DEF OneBuilder
    <3> QED
      BY <3>1, <3>2, <3>3
  <2> QED
    BY <2>1, <2>2, <2>3 DEF Touch
<1> HIDE DEF ws
<1>3. /\ DOMAIN workspace' = Works \X Iterations
      /\ \A p \in Works \X Iterations : OneBuilder(workspace'[p])
  BY <1>0, <1>2 DEF WorkspaceInv
<1>4. ASSUME NEW q \in Runs, run[q].pc \in SmokePcs
      PROVE  Built(q, run[q], workspace'[WorkAt(q)])
  <2>1. Working(q) /\ WorkAt(q) \in Works \X Iterations
    BY <1>4, SmokeWorks, WorkspaceIsKnown
  <2>2. Built(q, run[q], workspace[WorkAt(q)])
    BY <1>4 DEF WorkspaceInv
  <2>3. CASE WorkAt(q) # at
    BY <1>0, <1>2, <2>1, <2>2, <2>3
  <2>4. CASE WorkAt(q) = at
    <3>1. lockFile[at] = q
      BY <2>1, <2>4, WorkerHoldsWork
    <3>2. ~ RemoveUnmarked(w, i)
      BY <3>1 DEF RemoveUnmarked
    <3>3. /\ workspace'[WorkAt(q)] = ws1 /\ ws1.builders = ws.builders
          /\ ws1.binary = ws.binary /\ ws1.dut \in {ws.dut, "edited"}
      BY <1>0, <1>2, <2>4, <3>2
    <3>4. Built(q, run[q], ws)
      BY <2>2, <2>4 DEF ws
    <3>5. Simulator(q, ws) => Simulator(q, ws1)
      BY <3>3 DEF Simulator
    <3> QED
      BY <3>3, <3>4, <3>5 DEF Built
  <2> QED
    BY <2>3, <2>4
<1> QED
  BY <1>1, <1>3, <1>4 DEF WorkspaceInv

LEMMA StepWorks ==
  ASSUME LockInv, MemoryInv, WorkspaceInv, [Next]_vars
  PROVE  WorkspaceInv'
<1>1. ASSUME NEW r \in Runs, RunStep(r)  PROVE WorkspaceInv'
  <2>1. CASE LockStep(r)
    <3>1. /\ run'[r].pc \in {"acquire", "withdraw", "release", "ended", "export"}
          /\ command' = command
          /\ \A q \in Runs \ {r} : run'[q] = run[q]
      BY <2>1, LockStepRemembers
    <3>2. UNCHANGED workspace
      BY <2>1 DEF LockStep, Invoke, Acquire, Release, End, OnlyRunAndLocks
    <3>3. WorkspaceOf(r)
      BY <3>1, <3>2 DEF WorkspaceOf, SmokePcs
    <3> QED
      BY <3>1, <3>3, OneRunWorks
  <2>2. CASE OverlayStep(r) \/ SmokeStep(r) \/ CompareStep(r)
    <3>1. InnerStep(r)
      BY <2>2, OverlayStepIsInner, SmokeStepIsInner, CompareStepIsInner
    <3>2. command' = command /\ \A q \in Runs \ {r} : run'[q] = run[q]
      BY <3>1 DEF InnerStep, InnerMoves, RunMoves
    <3>3. WorkspaceOf(r)
      BY <2>2, OverlayWorkspace, SmokeWorkspace, CompareWorkspace
    <3> QED
      BY <3>2, <3>3, OneRunWorks
  <2> QED
    BY <1>1, <2>1, <2>2 DEF RunStep
<1>2. ASSUME NEW r \in Runs, Interrupt(r) \/ Kill(r)  PROVE WorkspaceInv'
  <2>1. /\ run'[r].pc \in {"abort", "release", "killed"} /\ command' = command
        /\ \A q \in Runs \ {r} : run'[q] = run[q]
    BY <1>2, StopRemembers
  <2>2. UNCHANGED workspace
    BY <1>2 DEF Interrupt, Kill
  <2>3. WorkspaceOf(r)
    BY <2>1, <2>2 DEF WorkspaceOf, SmokePcs
  <2> QED
    BY <2>1, <2>3, OneRunWorks
<1>3. ASSUME UNCHANGED << command, run, workspace >>  PROVE WorkspaceInv'
  <2>1. \A q \in Runs : WorkAt(q)' = WorkAt(q)
    BY <1>3 DEF WorkAt, Work, Iteration
  <2> QED
    BY <1>3, <2>1 DEF WorkspaceInv
<1>4. CASE Outside
  <2>1. CASE \E r \in Runs : Interrupt(r) \/ Kill(r)
    BY <1>2, <2>1
  <2>2. CASE \E r \in Runs : ClearLocks(r)
    BY <1>3, <2>2 DEF ClearLocks
  <2>3. CASE \E w \in Works, i \in Iterations : RemoveUnmarked(w, i) \/ Touch(w, i)
    <3>1. UNCHANGED << command, run >>
      BY <2>3 DEF RemoveUnmarked, Touch
    <3> QED
      BY <2>3, <3>1, EditKeepsWorkspace
  <2>4. CASE \E o \in Outs : Doctor(o) \/ Expire(o)
    BY <1>3, <2>4 DEF Doctor, Expire
  <2>5. CASE ChangeRepo
    BY <1>3, <2>5 DEF ChangeRepo
  <2> QED
    BY <1>4, <2>1, <2>2, <2>3, <2>4, <2>5 DEF Outside
<1>5. CASE UNCHANGED vars
  BY <1>3, <1>5 DEF vars
<1> QED
  BY <1>1, <1>4, <1>5 DEF Next

LEMMA InitiallyNothingIsKnown ==
  ASSUME Init  PROVE MemoryInv /\ WorkspaceInv
<1>1. \A r \in Runs : RunFields \subseteq DOMAIN run[r] /\ run[r].pc = "idle"
  BY DEF Init, NewRun, RunFields
<1>2. MemoryInv
  <2>1. \A r \in Runs : Remembers(run[r], command[r])
    BY <1>1, ElsewhereRemembers DEF Elsewhere
  <2>2. \A name \in ReportNames : reports[name] = None
    BY DEF Init
  <2> QED
    BY <2>1, <2>2 DEF MemoryInv
<1>3. WorkspaceInv
  <2>1. workspace = [at \in Works \X Iterations |-> NoWorkspace]
    BY DEF Init
  <2>2. OneBuilder(NoWorkspace)
    BY FreshHasNoBuilder DEF NoWorkspace, WorkspaceFields
  <2>3. /\ DOMAIN workspace = Works \X Iterations
        /\ \A at \in Works \X Iterations : workspace[at] = NoWorkspace
    BY <2>1
  <2> QED
    BY <1>1, <2>2, <2>3 DEF WorkspaceInv, SmokePcs
<1> QED
  BY <1>2, <1>3

THEOREM ContentsAreKept == Spec => [](MemoryInv /\ WorkspaceInv)
<1>1. Init => MemoryInv /\ WorkspaceInv
  BY InitiallyNothingIsKnown
<1>2. LockInv /\ MemoryInv /\ WorkspaceInv /\ [Next]_vars
         => (MemoryInv /\ WorkspaceInv)'
  BY StepRemembers, StepWorks
<1> QED
  BY <1>1, <1>2, LocksAreKept, PTL DEF Spec

(* A published smoke report that passed tells of a simulator its own run     *)
(* built from the RTL of its overlay, and at most one run ever builds in a   *)
(* workspace, whatever is edited by hand.                                    *)
THEOREM SmokesAreTrue == Spec => []SmokeRanItsOverlay
<1>1. MemoryInv /\ WorkspaceInv => SmokeRanItsOverlay
  <2> SUFFICES ASSUME MemoryInv, WorkspaceInv  PROVE SmokeRanItsOverlay
    OBVIOUS
  <2>1. ASSUME NEW o \in Outs, NEW i \in Iterations,
               Published(<<"smoke", o, i>>), reports[<<"smoke", o, i>>].gate
        PROVE  RanItsOverlay(reports[<<"smoke", o, i>>])
    <3>1. <<"smoke", o, i>> \in ReportNames /\ <<"smoke", o, i>>[1] = "smoke"
      BY DEF ReportNames, Kinds
    <3>2. IsSmoke(reports[<<"smoke", o, i>>])
      BY <2>1, <3>1 DEF MemoryInv, Published, IsReport
    <3> QED
      BY <2>1, <3>2 DEF IsSmoke
  <2>2. ASSUME NEW w \in Works, NEW i \in Iterations
        PROVE  Cardinality(workspace[w, i].builders) <= 1
    <3>1. OneBuilder(workspace[<<w, i>>])
      BY DEF WorkspaceInv
    <3>2. \/ workspace[w, i].builders = {}
          \/ \E q \in Runs : workspace[w, i].builders = {q}
      BY <3>1 DEF OneBuilder
    <3>3. Cardinality({}) = 0 /\ \A q \in Runs : Cardinality({q}) = 1
      BY FS_EmptySet, FS_Singleton
    <3>4. \/ Cardinality(workspace[w, i].builders) = 0
          \/ Cardinality(workspace[w, i].builders) = 1
      BY <3>2, <3>3
    <3>5. \A n : n = 0 \/ n = 1 => n <= 1
      OBVIOUS
    <3> QED
      BY <3>4, <3>5, Zenon
  <2> QED
    BY <2>1, <2>2 DEF SmokeRanItsOverlay, RanItsOverlay
<1> QED
  BY <1>1, ContentsAreKept, PTL

(* What counts for the gate is about the locked candidate.                   *)
THEOREM EligibleIsLocked == Spec => []EligibleMeansLockedCandidate
<1>1. MemoryInv => EligibleMeansLockedCandidate
  <2> SUFFICES ASSUME MemoryInv, NEW o \in Outs, NEW i \in Iterations
               PROVE  LET overlay == reports[<<"overlay", o, i>>]
                          smoke == reports[<<"smoke", o, i>>]
                      IN  /\ (Published(<<"overlay", o, i>>) /\ overlay.manifest.eligible)
                               => /\ overlay.manifest.files = "locked"
                                  /\ overlay.manifest.doctor.pass
                          /\ (Published(<<"smoke", o, i>>) /\ smoke.eligible /\ smoke.gate)
                               => smoke.binary.dut = "locked"
    BY DEF EligibleMeansLockedCandidate
  <2>1. /\ <<"overlay", o, i>> \in ReportNames /\ <<"overlay", o, i>>[1] = "overlay"
        /\ <<"smoke", o, i>> \in ReportNames /\ <<"smoke", o, i>>[1] = "smoke"
    BY DEF ReportNames, Kinds
  <2>2. ASSUME Published(<<"overlay", o, i>>),
               reports[<<"overlay", o, i>>].manifest.eligible
        PROVE  /\ reports[<<"overlay", o, i>>].manifest.files = "locked"
               /\ reports[<<"overlay", o, i>>].manifest.doctor.pass
    <3>1. IsManifest(reports[<<"overlay", o, i>>].manifest)
      BY <2>1, <2>2 DEF MemoryInv, Published, IsReport
    <3> QED
      BY <2>2, <3>1, FilesAreGits DEF IsManifest
  <2>3. ASSUME Published(<<"smoke", o, i>>), reports[<<"smoke", o, i>>].eligible,
               reports[<<"smoke", o, i>>].gate
        PROVE  reports[<<"smoke", o, i>>].binary.dut = "locked"
    <3>1. IsSmoke(reports[<<"smoke", o, i>>])
      BY <2>1, <2>3 DEF MemoryInv, Published, IsReport
    <3>2. reports[<<"smoke", o, i>>].overlay.manifest.files = "locked"
      BY <2>3, <3>1, FilesAreGits DEF IsSmoke
    <3> QED
      BY <2>3, <3>1, <3>2 DEF IsSmoke, RanItsOverlay
  <2> QED
    BY <2>2, <2>3
<1> QED
  BY <1>1, ContentsAreKept, PTL

(* A published comparison that passed compared one state of the repository,  *)
(* the doctor and the RTL.                                                   *)
THEOREM ComparisonsAreOfOneState == Spec => []ComparisonIsOfOneState
<1>1. MemoryInv => ComparisonIsOfOneState
  <2> SUFFICES ASSUME MemoryInv, NEW o \in Outs, NEW i \in Iterations,
                      Published(<<"compare", o, i>>), reports[<<"compare", o, i>>].pass
               PROVE  OfOneState(reports[<<"compare", o, i>>].input,
                                 reports[<<"compare", o, i>>].anchors)
    BY DEF ComparisonIsOfOneState, OfOneState
  <2>1. <<"compare", o, i>> \in ReportNames /\ <<"compare", o, i>>[1] = "compare"
    BY DEF ReportNames, Kinds
  <2> QED
    BY <2>1 DEF MemoryInv, Published, IsReport
<1> QED
  BY <1>1, ContentsAreKept, PTL

(***************************************************************************)
(* What a comparison compared stands until it publishes.                     *)
(***************************************************************************)
(* No run that works at the same time, nor the comparison itself, writes or  *)
(* withdraws one of its inputs.                                              *)
LEMMA InputsApart ==
  ASSUME LockInv, NEW r \in Runs, NEW q \in Runs, Working(r), Working(q),
         command[r].op = "compare", NEW n \in DOMAIN InputNames(r)
  PROVE  ReportOf(q) # InputNames(r)[n]
<1>1. /\ InputNames(r)[n][1] \in {"overlay", "smoke"}
      /\ InputNames(r)[n][2] = Out(r)
      /\ InputNames(r)[n][3] \in {Iteration(r), command[r].mixed}
  BY InputsRead DEF InputNames
<1>2. /\ ReportOf(q)[1] = command[q].op /\ ReportOf(q)[2] = Out(q)
      /\ ReportOf(q)[3] \in IterationsOf(command[q])
  BY DEF ReportOf, IterationsOf, Iteration
<1>3. CASE q = r
  BY <1>1, <1>2, <1>3
<1>4. CASE q # r
  <2>1. OneRunPerIteration
    BY LocksExclude
  <2>2. InputNames(r)[n][3] \in IterationsOf(command[r])
    BY <1>1 DEF IterationsOf, Iteration
  <2>3. ReportOf(q) = InputNames(r)[n] =>
           InputNames(r)[n][3] \in IterationsOf(command[r]) \cap IterationsOf(command[q])
    BY <1>2, <2>2
  <2>4. ReportOf(q) = InputNames(r)[n] => Out(q) = Out(r)
    BY <1>1, <1>2
  <2> QED
    BY <1>4, <2>1, <2>3, <2>4 DEF OneRunPerIteration
<1> QED
  BY <1>3, <1>4

(* A step of q leaves what another run compares, or what q itself compares,  *)
(* as it was.                                                                *)
LEMMA InputsStand ==
  ASSUME LockInv, NEW r \in Runs, NEW q \in Runs, Working(r), InnerStep(q),
         command[r].op = "compare", Compared(r), run'[r].input = run[r].input
  PROVE  Compared(r)'
<1>1. command' = command /\ \E pc : EvidenceStep(q, pc)
  BY DEF InnerStep
<1>2. InputNames(r)' = InputNames(r)
  BY <1>1 DEF InputNames, Out, Iteration
<1>3. DOMAIN reports = ReportNames /\ DOMAIN markers = ReportNames
  BY DEF LockInv, Shape
<1>4. ASSUME NEW n \in DOMAIN InputNames(r)
      PROVE  /\ reports'[InputNames(r)[n]] = reports[InputNames(r)[n]]
             /\ markers'[InputNames(r)[n]] = markers[InputNames(r)[n]]
  <2> DEFINE name == InputNames(r)[n]
             own == ReportOf(q)
  <2>1. Working(q) => own # name
    BY InputsApart
  <2> HIDE DEF name, own
  <2>2. \/ UNCHANGED << reports, markers >>
        \/ /\ Working(q) /\ UNCHANGED reports
           /\ \E report : markers' = [markers EXCEPT ![own] = report]
        \/ /\ Working(q) /\ UNCHANGED markers
           /\ \E report : reports' = [reports EXCEPT ![own] = report]
    BY <1>1 DEF EvidenceStep, own
  <2>3. reports'[name] = reports[name] /\ markers'[name] = markers[name]
    <3>1. CASE UNCHANGED << reports, markers >>
      BY <3>1
    <3>2. CASE /\ Working(q) /\ UNCHANGED reports
               /\ \E report : markers' = [markers EXCEPT ![own] = report]
      BY <2>1, <3>2
    <3>3. CASE /\ Working(q) /\ UNCHANGED markers
               /\ \E report : reports' = [reports EXCEPT ![own] = report]
      BY <2>1, <3>3
    <3> QED
      BY <2>2, <3>1, <3>2, <3>3
  <2> QED
    BY <2>3 DEF name
<1>5. \A n \in DOMAIN InputNames(r) :
         /\ Published(InputNames(r)[n])'
         /\ reports'[InputNames(r)[n]] = run'[r].input[n]
  BY <1>2, <1>4 DEF Compared, Published
<1> QED
  BY <1>2, <1>5 DEF Compared

InputsClause(r) ==
    /\ run[r].pc = "anchors again" => Compared(r)
    /\ run[r].pc = "smoke release" => command[r].op # "compare"
    /\ run[r].pc = "mark" /\ command[r].op = "compare" =>
          Compared(r) /\ run[r].report.input = run[r].input

LEMMA SmokeInputs ==
  ASSUME LockInv, MemoryInv, InputsInv, NEW r \in Runs, SmokeStep(r)
  PROVE  InputsClause(r)'
<1> USE DEF At, Fails, OnlyRun
<1> DEFINE x == run'[r]
<1>0. /\ DOMAIN run = Runs /\ RunFields \subseteq DOMAIN run[r]
      /\ Remembers(run[r], command[r])
  BY DEF LockInv, Shape, MemoryInv, Remembers
<1>1. command' = command
  BY SmokeStepIsInner DEF InnerStep
<1>2. ASSUME x.pc \notin {"anchors again", "smoke release", "mark"}
      PROVE  InputsClause(r)'
  BY <1>2 DEF InputsClause
<1>3. ASSUME command[r].op # "compare", x.pc # "anchors again"
      PROVE  InputsClause(r)'
  BY <1>1, <1>3 DEF InputsClause
<1>4. CASE GoesTo(r, "release") \/ GoesTo(r, "abort")
  <2>1. x.pc \in {"release", "abort"}
    BY <1>4, GoingKeepsRecord
  <2> QED
    BY <1>2, <2>1
<1>5. CASE SmokeCheck(r)
  <2>1. CASE ~ GoesTo(r, "release")
    <3>1. run' = [run EXCEPT ![r].input = reports[<<"overlay", Out(r), Iteration(r)>>],
                             ![r].doctor = doctor[Out(r)], ![r].pc = "smoke lock"]
      BY <1>5, <2>1 DEF SmokeCheck
    <3>2. x.pc = "smoke lock"
      BY <1>0, <3>1 DEF RunFields
    <3> QED
      BY <1>2, <3>2
  <2> QED
    BY <1>4, <2>1
<1>6. CASE LockSmoke(r) \/ Configure(r) \/ Build(r) \/ Simulate(r) \/ SmokeReport(r)
  <2>1. command[r].op = "smoke"
    BY <1>0, <1>6 DEF LockSmoke, Configure, Build, Simulate, SmokeReport,
       Remembers, SmokePcs
  <2>2. x.pc # "anchors again"
    <3>1. CASE LockSmoke(r)
      <4>1. \E pc \in {"configure", "release"} : GoesTo(r, pc)
        BY <3>1 DEF LockSmoke
      <4> QED
        BY <4>1, GoingKeepsRecord
    <3>2. CASE Configure(r)
      <4>1. PICK ok \in BOOLEAN, pc \in {"build", "recheck"} :
               run' = [run EXCEPT ![r].ok = ok, ![r].pc = pc]
        BY <3>2 DEF Configure
      <4>2. x.pc = pc
        BY <1>0, <4>1 DEF RunFields
      <4> QED
        BY <4>2
    <3>3. CASE Build(r)
      <4>1. CASE GoesTo(r, "simulate")
        <5>1. x.pc = "simulate"
          BY <4>1, GoingKeepsRecord
        <5> QED
          BY <5>1
      <4>2. CASE run' = [run EXCEPT ![r].ok = FALSE, ![r].pc = "recheck"]
        BY <1>0, <4>2 DEF RunFields
      <4> QED
        BY <3>3, <4>1, <4>2 DEF Build
    <3>4. CASE Simulate(r)
      BY <1>0, <3>4 DEF Simulate, RunFields
    <3>5. CASE SmokeReport(r)
      <4>1. CASE GoesTo(r, "abort")
        <5>1. x.pc = "abort"
          BY <4>1, GoingKeepsRecord
        <5> QED
          BY <5>1
      <4>2. CASE \E report : WriteReport(r, report, "smoke release")
        BY <1>0, <4>2 DEF WriteReport, RunFields
      <4> QED
        BY <3>5, <4>1, <4>2 DEF SmokeReport
    <3> QED
      BY <1>6, <3>1, <3>2, <3>3, <3>4, <3>5
  <2> QED
    BY <1>3, <2>1, <2>2
<1>7. CASE ReleaseSmoke(r)
  <2>1. command[r].op # "compare"
    BY <1>7 DEF ReleaseSmoke, InputsInv
  <2>2. \E pc \in {"mark", "abort"} : GoesTo(r, pc)
    BY <1>7 DEF ReleaseSmoke
  <2>3. x.pc # "anchors again"
    BY <2>2, GoingKeepsRecord
  <2> QED
    BY <1>3, <2>1, <2>3
<1>8. CASE SmokeMark(r) \/ Abort(r)
  <2>1. \E pc \in {"confirm", "abort report", "release"} : GoesTo(r, pc)
    BY <1>8 DEF SmokeMark, Abort
  <2>2. x.pc \in {"confirm", "abort report", "release"}
    BY <2>1, GoingKeepsRecord
  <2> QED
    BY <1>2, <2>2
<1> QED
  BY <1>5, <1>6, <1>7, <1>8 DEF SmokeStep

LEMMA CompareInputs ==
  ASSUME LockInv, MemoryInv, InputsInv, NEW r \in Runs, CompareStep(r)
  PROVE  InputsClause(r)'
<1> USE DEF At, OnlyRun
<1> DEFINE x == run'[r]
<1>0. /\ DOMAIN run = Runs /\ RunFields \subseteq DOMAIN run[r]
      /\ Remembers(run[r], command[r])
  BY DEF LockInv, Shape, MemoryInv, Remembers
<1>1. InnerStep(r) /\ command' = command
  BY CompareStepIsInner DEF InnerStep
<1>2. ASSUME x.pc \notin {"anchors again", "smoke release", "mark"}
      PROVE  InputsClause(r)'
  BY <1>2 DEF InputsClause
<1>3. CASE CompareFails(r)
  <2>1. x.pc = "abort"
    BY <1>3, GoingKeepsRecord DEF CompareFails
  <2> QED
    BY <1>2, <2>1
<1>4. CASE CompareCheck(r) /\ ~ CompareFails(r)
  <2>1. run' = [run EXCEPT ![r].doctor = Anchors(r), ![r].pc = "compare"]
    BY <1>4 DEF CompareCheck
  <2>2. x.pc = "compare"
    BY <1>0, <2>1 DEF RunFields
  <2> QED
    BY <1>2, <2>2
<1>5. CASE Compare(r) /\ ~ CompareFails(r)
  <2>1. /\ run' = [run EXCEPT ![r].input = Inputs(r),
                              ![r].ok = Matches(Inputs(r)),
                              ![r].pc = "anchors again"]
        /\ Comparable(r) /\ UNCHANGED << reports, markers >>
    BY <1>5 DEF Compare
  <2>2. x.pc = "anchors again" /\ x.input = Inputs(r)
    BY <1>0, <2>1 DEF RunFields
  <2>3. InputNames(r)' = InputNames(r)
    BY <1>1 DEF InputNames, Out, Iteration
  <2>4. \A n \in DOMAIN InputNames(r) :
           /\ Published(InputNames(r)[n])
           /\ Inputs(r)[n] = reports[InputNames(r)[n]]
    BY <2>1, InputsRead DEF Comparable, Inputs
  <2>5. DOMAIN x.input = DOMAIN InputNames(r)
    BY <2>2, InputsRead
  <2>6. \A n \in DOMAIN InputNames(r) :
           /\ Published(InputNames(r)[n])'
           /\ reports'[InputNames(r)[n]] = x.input[n]
    BY <2>1, <2>2, <2>3, <2>4 DEF Published
  <2>7. Compared(r)'
    BY <2>3, <2>5, <2>6 DEF Compared
  <2> QED
    BY <2>2, <2>7 DEF InputsClause
<1>6. CASE CompareReport(r) /\ ~ CompareFails(r)
  <2> DEFINE report == [by |-> r, input |-> run[r].input,
                        anchors |-> run[r].doctor, pass |-> run[r].ok]
  <2>1. WriteReport(r, report, "mark")
    BY <1>6 DEF CompareReport
  <2>2. report.input = run[r].input
    OBVIOUS
  <2> HIDE DEF report
  <2>3. x.pc = "mark" /\ x.report = report /\ x.input = run[r].input
    BY <1>0, <2>1 DEF WriteReport, RunFields
  <2>4. command[r].op = "compare" /\ Compared(r)
    BY <1>0, <1>6 DEF CompareReport, Remembers, InputsInv
  <2>5. Working(r)
    BY <1>6, NoExportWorks DEF CompareReport, Unlocked, ExportPcs
  <2>6. Compared(r)'
    BY <1>1, <2>3, <2>4, <2>5, InputsStand
  <2> QED
    BY <2>2, <2>3, <2>6 DEF InputsClause
<1> QED
  BY <1>3, <1>4, <1>5, <1>6 DEF CompareStep

(* Another run's step.                                                       *)
LEMMA OthersKeepInputs ==
  ASSUME LockInv, MemoryInv, InputsInv, NEW r \in Runs, NEW q \in Runs,
         InnerStep(q), run'[r] = run[r]
  PROVE  InputsClause(r)'
<1>1. command' = command
  BY DEF InnerStep
<1>2. CASE run[r].pc \in {"anchors again", "mark"} /\ command[r].op = "compare"
  <2>1. Working(r)
    BY <1>2, NoExportWorks DEF Unlocked, ExportPcs
  <2>2. Compared(r)
    BY <1>2 DEF InputsInv
  <2>3. Compared(r)'
    BY <1>2, <2>1, <2>2, InputsStand
  <2> QED
    BY <1>1, <2>3 DEF InputsInv, InputsClause
<1>3. CASE ~ (run[r].pc \in {"anchors again", "mark"} /\ command[r].op = "compare")
  <2>1. run[r].pc # "anchors again"
    BY <1>3 DEF MemoryInv, Remembers
  <2> QED
    BY <1>1, <1>3, <2>1 DEF InputsInv, InputsClause
<1> QED
  BY <1>2, <1>3

(* A step that leaves the evidence alone, for a run that it does not move.   *)
LEMMA QuietKeepsInputs ==
  ASSUME InputsInv, NEW r \in Runs, run'[r] = run[r],
         UNCHANGED << command, reports, markers >>
  PROVE  InputsClause(r)'
<1>1. InputNames(r)' = InputNames(r)
  BY DEF InputNames, Out, Iteration
<1>2. Compared(r)' <=> Compared(r)
  BY <1>1 DEF Compared, Published
<1> QED
  BY <1>2 DEF InputsInv, InputsClause

LEMMA StepKeepsInputs ==
  ASSUME LockInv, MemoryInv, InputsInv, [Next]_vars
  PROVE  InputsInv'
<1> SUFFICES ASSUME NEW r \in Runs  PROVE InputsClause(r)'
  BY DEF InputsInv, InputsClause
<1>1. ASSUME NEW q \in Runs, RunStep(q)  PROVE InputsClause(r)'
  <2>1. CASE LockStep(q)
    <3>1. UNCHANGED << command, reports, markers >>
      BY <2>1 DEF LockStep, Invoke, Acquire, Release, End, OnlyRunAndLocks
    <3>2. CASE q = r
      <4>1. run'[r].pc \in {"acquire", "withdraw", "release", "ended", "export"}
        BY <2>1, <3>2, LockStepRemembers
      <4> QED
        BY <4>1 DEF InputsClause
    <3>3. CASE q # r
      <4>1. run'[r] = run[r]
        BY <2>1, <3>3, LockStepRemembers
      <4> QED
        BY <3>1, <4>1, QuietKeepsInputs
    <3> QED
      BY <3>2, <3>3
  <2>2. CASE OverlayStep(q) \/ SmokeStep(q) \/ CompareStep(q)
    <3>1. InnerStep(q)
      BY <2>2, OverlayStepIsInner, SmokeStepIsInner, CompareStepIsInner
    <3>2. CASE q # r
      <4>1. run'[r] = run[r]
        BY <3>1, <3>2 DEF InnerStep, InnerMoves, RunMoves
      <4> QED
        BY <3>1, <4>1, OthersKeepInputs
    <3>3. CASE q = r /\ OverlayStep(q)
      <4>1. command' = command
        BY <3>1 DEF InnerStep
      <4>2. CASE run'[r].pc \in Landings
        <5>1. run'[r].pc = "mark" /\ command[r].op = "overlay"
          BY <3>3, <4>2, OverlayGoes DEF OverlayReport
        <5> QED
          BY <4>1, <5>1 DEF InputsClause
      <4>3. CASE run'[r].pc \notin Landings
        BY <4>3 DEF Landings, InputsClause
      <4> QED
        BY <4>2, <4>3
    <3> QED
      BY <2>2, <3>2, <3>3, SmokeInputs, CompareInputs
  <2> QED
    BY <1>1, <2>1, <2>2 DEF RunStep
<1>2. ASSUME NEW q \in Runs, Interrupt(q) \/ Kill(q)  PROVE InputsClause(r)'
  <2>1. UNCHANGED << command, reports, markers >>
    BY <1>2 DEF Interrupt, Kill
  <2>2. CASE q = r
    <3>1. run'[r].pc \in {"abort", "release", "killed"}
      BY <1>2, <2>2, StopRemembers
    <3> QED
      BY <3>1 DEF InputsClause
  <2>3. CASE q # r
    BY <1>2, <2>1, <2>3, StopRemembers, QuietKeepsInputs
  <2> QED
    BY <2>2, <2>3
<1>3. ASSUME UNCHANGED << command, run, reports, markers >>  PROVE InputsClause(r)'
  BY <1>3, QuietKeepsInputs
<1>4. CASE Outside
  <2>1. CASE \E q \in Runs : Interrupt(q) \/ Kill(q)
    BY <1>2, <2>1
  <2>2. CASE \E q \in Runs : ClearLocks(q)
    BY <1>3, <2>2 DEF ClearLocks
  <2>3. CASE \E w \in Works, i \in Iterations : RemoveUnmarked(w, i) \/ Touch(w, i)
    BY <1>3, <2>3 DEF RemoveUnmarked, Touch
  <2>4. CASE \E o \in Outs : Doctor(o) \/ Expire(o)
    BY <1>3, <2>4 DEF Doctor, Expire
  <2>5. CASE ChangeRepo
    BY <1>3, <2>5 DEF ChangeRepo
  <2> QED
    BY <1>4, <2>1, <2>2, <2>3, <2>4, <2>5 DEF Outside
<1>5. CASE UNCHANGED vars
  BY <1>3, <1>5 DEF vars
<1> QED
  BY <1>1, <1>4, <1>5 DEF Next

(* A marker is only ever written over the report that its own run wrote.     *)
LEMMA OnlyMarksPublish ==
  ASSUME LockInv, [Next]_vars, NEW name,
         markers'[name] # markers[name], markers'[name] # None
  PROVE  \E r \in Runs : At(r, "mark") /\ Marks(r) /\ name = ReportOf(r)
<1>0. DOMAIN markers = ReportNames
  BY DEF LockInv, Shape
<1>1. ASSUME NEW r \in Runs, RunStep(r), markers' # markers
      PROVE  \/ Working(r) /\ markers' = [markers EXCEPT ![ReportOf(r)] = None]
             \/ At(r, "mark") /\ Marks(r)
  <2>1. CASE LockStep(r)
    BY <1>1, <2>1 DEF LockStep, Invoke, Acquire, Release, End, OnlyRunAndLocks
  <2>2. CASE OverlayStep(r)
    <3>1. CASE Withdraw(r)
      <4>1. Working(r)
        BY <3>1, NoExportWorks DEF Withdraw, At, Unlocked, ExportPcs
      <4> QED
        BY <1>1, <3>1, <4>1 DEF Withdraw
    <3>2. CASE MarkReport(r)
      BY <3>2 DEF MarkReport
    <3>3. CASE ~ Withdraw(r) /\ ~ MarkReport(r)
      BY <1>1, <2>2, <3>3 DEF OverlayStep, OverlayCheck, ExportRefused, ExportReset,
         ExportFiles, ExportManifest, ExportStep, ResetWorkspace, CloneWorkspace,
         InstallDut, BindOverlay, MarkWork, WorkspaceStep, OverlayReport, Confirm,
         OnlyRun
    <3> QED
      BY <3>1, <3>2, <3>3
  <2>3. CASE SmokeStep(r)
    <3>1. CASE Abort(r)
      <4>1. Working(r)
        BY <3>1, NoExportWorks DEF Abort, At, Unlocked, ExportPcs
      <4> QED
        BY <1>1, <3>1, <4>1 DEF Abort
    <3>2. CASE SmokeMark(r)
      BY <3>2 DEF SmokeMark
    <3>3. CASE ~ Abort(r) /\ ~ SmokeMark(r)
      BY <1>1, <2>3, <3>3 DEF SmokeStep, SmokeCheck, LockSmoke, Configure, Build,
         Simulate, SmokeReport, ReleaseSmoke, WorkspaceStep, OnlyRun
    <3> QED
      BY <3>1, <3>2, <3>3
  <2>4. CASE CompareStep(r)
    BY <1>1, <2>4 DEF CompareStep, CompareCheck, Compare, CompareReport,
       CompareFails, OnlyRun
  <2> QED
    BY <1>1, <2>1, <2>2, <2>3, <2>4 DEF RunStep
<1>2. markers' # markers
  OBVIOUS
<1>3. PICK r \in Runs : RunStep(r)
  <2>1. CASE Outside
    BY <1>2, <2>1 DEF Outside, Interrupt, Kill, ClearLocks, RemoveUnmarked, Touch,
       Doctor, Expire, ChangeRepo
  <2>2. CASE UNCHANGED vars
    BY <1>2, <2>2 DEF vars
  <2> QED
    BY <2>1, <2>2 DEF Next
<1>4. CASE Working(r) /\ markers' = [markers EXCEPT ![ReportOf(r)] = None]
  <2>1. ReportOf(r) \in ReportNames
    BY <1>4, NameIsKnown
  <2> QED
    BY <1>0, <1>4, <2>1
<1>5. CASE At(r, "mark") /\ Marks(r)
  <2>1. name = ReportOf(r)
    BY <1>5 DEF Marks
  <2> QED
    BY <1>5, <2>1
<1> QED
  BY <1>1, <1>2, <1>3, <1>4, <1>5

(* The four reports that a comparison compared still stand published when it *)
(* is published itself.                                                      *)
THEOREM ComparedStillStand == Spec => ComparedReportsStillStand
<1> DEFINE Side(kind, o, n, report) ==
              Published(<<kind, o, n>>) /\ reports[<<kind, o, n>>] = report
           Stands == \A o \in Outs, i \in Iterations :
              LET name == <<"compare", o, i>>
              IN  (~Published(name) /\ Published(name)') =>
                  LET c == markers'[name]
                      side(kind, n, report) ==
                         Published(<<kind, o, n>>) /\ reports[<<kind, o, n>>] = report
                  IN  /\ side("overlay", command[c.by].iter, c.input.lockedOverlay)
                      /\ side("smoke", command[c.by].iter, c.input.lockedSmoke)
                      /\ side("overlay", i, c.input.mixedOverlay)
                      /\ side("smoke", i, c.input.mixedSmoke)
<1>1. LockInv /\ EvidenceInv /\ InputsInv /\ [Next]_vars => Stands
  <2> SUFFICES ASSUME LockInv, EvidenceInv, InputsInv, [Next]_vars,
                      NEW o \in Outs, NEW i \in Iterations,
                      ~ Published(<<"compare", o, i>>), Published(<<"compare", o, i>>)'
               PROVE  LET c == markers'[<<"compare", o, i>>]
                      IN  /\ Side("overlay", o, command[c.by].iter, c.input.lockedOverlay)
                          /\ Side("smoke", o, command[c.by].iter, c.input.lockedSmoke)
                          /\ Side("overlay", o, i, c.input.mixedOverlay)
                          /\ Side("smoke", o, i, c.input.mixedSmoke)
    OBVIOUS
  <2> DEFINE name == <<"compare", o, i>>
             c == markers'[name]
  <2>0. name \in ReportNames /\ name[1] = "compare" /\ name[2] = o /\ name[3] = i
    BY DEF ReportNames, Kinds
  <2> HIDE DEF name
  <2>1. markers'[name] # None /\ markers'[name] # markers[name]
    BY <2>0 DEF Published, EvidenceInv, MarkerHashesItsReport, name
  <2>2. PICK r \in Runs : At(r, "mark") /\ Marks(r) /\ name = ReportOf(r)
    BY <2>1, OnlyMarksPublish
  <2>3. /\ command[r].op = "compare" /\ Out(r) = o /\ command[r].mixed = i
    BY <2>0, <2>2 DEF ReportOf
  <2>4. c = run[r].report /\ c.by = r
    BY <2>0, <2>2 DEF Marks, At, LockInv, Shape, Progress
  <2>5. Compared(r) /\ c.input = run[r].input
    BY <2>2, <2>3, <2>4 DEF At, InputsInv
  <2>6. /\ InputNames(r).lockedOverlay = <<"overlay", o, command[r].iter>>
        /\ InputNames(r).lockedSmoke = <<"smoke", o, command[r].iter>>
        /\ InputNames(r).mixedOverlay = <<"overlay", o, i>>
        /\ InputNames(r).mixedSmoke = <<"smoke", o, i>>
    BY <2>3 DEF InputNames, Iteration
  <2>7. /\ Side("overlay", o, command[r].iter, c.input.lockedOverlay)
        /\ Side("smoke", o, command[r].iter, c.input.lockedSmoke)
        /\ Side("overlay", o, i, c.input.mixedOverlay)
        /\ Side("smoke", o, i, c.input.mixedSmoke)
    BY <2>5, <2>6, InputsRead DEF Compared
  <2> QED
    BY <2>4, <2>7 DEF name
<1>2. Spec => []InputsInv
  <2>1. ASSUME Init  PROVE InputsInv
    <3>1. \A r \in Runs : run[r].pc = "idle"
      BY <2>1 DEF Init, NewRun
    <3> QED
      BY <3>1 DEF InputsInv
  <2>2. LockInv /\ MemoryInv /\ InputsInv /\ [Next]_vars => InputsInv'
    BY StepKeepsInputs
  <2> QED
    BY <2>1, <2>2, LocksAreKept, ContentsAreKept, PTL DEF Spec
<1>3. Spec => [][Stands]_vars
  BY <1>1, <1>2, LocksAreKept, PTL DEF Spec
<1> QED
  BY <1>3 DEF ComparedReportsStillStand
===============================================================================
