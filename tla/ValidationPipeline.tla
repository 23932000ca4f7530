------------------------- MODULE ValidationPipeline ------------------------
(* The commands running side by side, and what happens around them: other    *)
(* tools and people that touch the doctor, the repository and the workspace, *)
(* interrupts, killed processes and the clearing of what those leave.        *)
EXTENDS ValidationCompare

RunStep(r) ==
    LockStep(r) \/ OverlayStep(r) \/ SmokeStep(r) \/ CompareStep(r)

Happens == events > 0 /\ events' = events - 1

(* An exception at any step (an I/O error, a timeout, Ctrl-C).  A smoke run  *)
(* that holds the smoke lock takes its publication away first; a comparison  *)
(* does so unless it was interrupted.                                        *)
Interrupt(r) ==
    /\ Happens /\ Live(r) /\ run[r].pc # "release"
    /\ \/ GoesTo(r, IF command[r].op = "smoke" /\ run[r].pc \in AbortPcs
                    THEN "abort" ELSE "release")
       \/ /\ command[r].op = "compare"
          /\ run[r].pc \in {"check", "compare", "anchors again", "mark"}
          /\ GoesTo(r, "abort")
    /\ UNCHANGED << command, lockFile, reports, markers, manifests, exports,
                    workspace, doctor, repo >>

(* The process dies: no finally clause runs and every file stays.            *)
Kill(r) ==
    /\ Happens /\ Live(r)
    /\ run' = [run EXCEPT ![r] = [NewRun EXCEPT !.pc = "killed"]]
    /\ UNCHANGED << command, lockFile, reports, markers, manifests, exports,
                    workspace, doctor, repo >>

(* Someone inspects the lock files of a dead process and removes them.       *)
ClearLocks(r) ==
    /\ run[r].pc = "killed"
    /\ \E name \in LockNames : lockFile[name] = r
    /\ lockFile' = [name \in LockNames |->
                        IF lockFile[name] = r THEN None ELSE lockFile[name]]
    /\ UNCHANGED << command, reports, markers, manifests, exports, workspace,
                    doctor, repo, run, events >>

(* An unmarked directory is removed by hand.                                 *)
RemoveUnmarked(w, i) ==
    /\ workspace[<<w, i>>].state = "unmarked"
    /\ \A r \in Runs : lockFile[<<w, i>>] # r
    /\ workspace' = [workspace EXCEPT ![<<w, i>>] = NoWorkspace]
    /\ UNCHANGED << command, lockFile, reports, markers, manifests, exports,
                    doctor, repo, run, events >>

(* A file of a workspace is edited, below the DUT or outside it.             *)
Touch(w, i) ==
    /\ Happens
    /\ workspace[<<w, i>>].state = "made"
    /\ \/ workspace' = [workspace EXCEPT ![<<w, i>>].dut = "edited"]
       \/ workspace' = [workspace EXCEPT ![<<w, i>>].official = FALSE]
    /\ UNCHANGED << command, lockFile, reports, markers, manifests, exports,
                    doctor, repo, run >>

(* chiplab-doctor holds no lock: it replaces its report at any time.         *)
Doctor(o) ==
    /\ Happens
    /\ \E pass \in BOOLEAN :
         doctor' = [doctor EXCEPT ![o] =
            [id |-> events, head |-> repo.head, tools |-> repo.tools,
             pass |-> pass, fresh |-> TRUE]]
    /\ UNCHANGED << command, lockFile, reports, markers, manifests, exports,
                    workspace, repo, run >>

Expire(o) ==
    /\ Happens /\ doctor[o].fresh
    /\ doctor' = [doctor EXCEPT ![o].fresh = FALSE]
    /\ UNCHANGED << command, lockFile, reports, markers, manifests, exports,
                    workspace, repo, run >>

(* The repository is edited, restored, or gains a commit; a tool is replaced. *)
ChangeRepo ==
    /\ Happens
    /\ \/ repo' = [repo EXCEPT !.clean = ~@]
       \/ repo.head = 0 /\ repo' = [repo EXCEPT !.head = 1]
       \/ repo.tools = 0 /\ repo' = [repo EXCEPT !.tools = 1]
    /\ UNCHANGED << command, lockFile, reports, markers, manifests, exports,
                    workspace, doctor, run >>

Outside ==
    \/ \E r \in Runs : Interrupt(r) \/ Kill(r) \/ ClearLocks(r)
    \/ \E w \in Works, i \in Iterations : RemoveUnmarked(w, i) \/ Touch(w, i)
    \/ \E o \in Outs : Doctor(o) \/ Expire(o)
    \/ ChangeRepo

Next == (\E r \in Runs : RunStep(r)) \/ Outside

Spec == Init /\ [][Next]_vars
=============================================================================
