-------------------------- MODULE ValidationLocks --------------------------
(* The lock files that keep two validation commands off one iteration.  A    *)
(* lock is an O_EXCL file below OUT_DIR or CHIPLAB_WORK_ROOT; a command      *)
(* takes all of its locks in order before it touches anything, fails at once *)
(* when one exists, and gives them back from the last to the first.          *)
EXTENDS ValidationState, SequencesExt

OnlyRunAndLocks ==
    UNCHANGED << command, reports, markers, manifests, exports, workspace,
                 doctor, repo, events >>

(* Mutants: locks below OUT_DIR only; a comparison that locks one iteration. *)
LocksBelowOut(r) ==
    IF command[r].op = "export" THEN << >> ELSE
    [n \in 1..(IF command[r].op = "compare" THEN 2 ELSE 1) |->
        <<command[r].out, IF n = 1 THEN command[r].iter ELSE command[r].mixed>>]
LocksOfOneIteration(r) ==
    IF command[r].op = "export" THEN << >>
    ELSE <<<<command[r].out, command[r].iter>>, <<command[r].work, command[r].iter>>>>
(* The comparison sorts the two iterations below each of its roots.          *)
SortedIterations(c) ==
    IF c.op # "compare" THEN <<c.iter>>
    ELSE IF c.iter < c.mixed THEN <<c.iter, c.mixed>> ELSE <<c.mixed, c.iter>>
Below(root, ids) == [n \in DOMAIN ids |-> <<root, ids[n]>>]
LocksOf(r) ==
    LET ids == SortedIterations(command[r])
    IN  IF command[r].op = "export" THEN << >>
        ELSE Below(command[r].out, ids) \o Below(command[r].work, ids)

NextLock(r) == LocksOf(r)[Len(run[r].held) + 1]

(* An invocation: refused arguments end it before any lock is asked for.     *)
Invoke(r) ==
    /\ At(r, "idle") /\ command[r] # None
    /\ \A p \in command[r].after : run[p].pc \in {"ended", "killed"}
    /\ GoesTo(r, IF command[r].op = "export" THEN "export" ELSE "acquire")
    /\ OnlyRunAndLocks /\ UNCHANGED lockFile

(* Mutant: an existing file is taken over.                                   *)
AcquireOver(r) ==
    /\ At(r, "acquire")
    /\ lockFile' = [lockFile EXCEPT ![NextLock(r)] = r]
    /\ run' = [run EXCEPT
         ![r].held = Append(@, NextLock(r)),
         ![r].pc = IF Len(run[r].held) + 1 = Len(LocksOf(r))
                   THEN "withdraw" ELSE "acquire"]
    /\ OnlyRunAndLocks
(* _acquire_validation_lock: the file is created, or it exists.              *)
Acquire(r) ==
    /\ At(r, "acquire")
    /\ IF lockFile[NextLock(r)] = None
       THEN /\ lockFile' = [lockFile EXCEPT ![NextLock(r)] = r]
            /\ run' = [run EXCEPT
                 ![r].held = Append(@, NextLock(r)),
                 ![r].pc = IF Len(run[r].held) + 1 = Len(LocksOf(r))
                           THEN "withdraw" ELSE "acquire"]
       ELSE GoesTo(r, "release") /\ UNCHANGED lockFile
    /\ OnlyRunAndLocks

(* release_validation_locks: the last lock first, and only the file this run *)
(* created; one that is gone or foreign is an error, and the others go on.   *)
Release(r) ==
    /\ At(r, "release") /\ run[r].held # << >>
    /\ LET name == Last(run[r].held)
       IN  lockFile' = [lockFile EXCEPT ![name] = IF @ = r THEN None ELSE @]
    /\ run' = [run EXCEPT ![r].held = Front(@)]
    /\ OnlyRunAndLocks

End(r) ==
    /\ At(r, "release") /\ run[r].held = << >>
    /\ run' = [run EXCEPT ![r] =
                [NewRun EXCEPT !.pc = "ended", !.passed = run[r].passed]]
    /\ OnlyRunAndLocks /\ UNCHANGED lockFile

LockStep(r) == Invoke(r) \/ Acquire(r) \/ Release(r) \/ End(r)
=============================================================================
