---------------------------- MODULE MCValidation ---------------------------
(* Small instances of the validation pipeline: who invokes which command,    *)
(* after which others.                                                       *)
EXTENDS ValidationProperties, TLC

CONSTANTS r1, r2, r3, r4, r5, r6, out1, out2, work1, work2

MCRuns == {r1, r2, r3, r4, r5, r6}
MCOuts == {out1, out2}
MCWorks == {work1}

Cmd(op, o, w, i, source, diagnostic, after) ==
    [op |-> op, out |-> o, work |-> w, iter |-> i, mixed |-> 2,
     source |-> source, diagnostic |-> diagnostic, after |-> after]
Overlay(o, i, source, after) ==
    Cmd("overlay", o, work1, i, source, source # "candidate", after)
Smoke(o, i, diagnostic, after) ==
    Cmd("smoke", o, work1, i, "candidate", diagnostic, after)

Invoked(n, head, table) ==
    [commands |-> [r \in MCRuns |-> IF r \in DOMAIN table THEN table[r] ELSE None],
     head |-> head, events |-> n]

(* A locked and a mixed iteration made one after the other, then compared.   *)
Steps ==
    r1 :> Overlay(out1, 1, "candidate", {})
 @@ r2 :> Smoke(out1, 1, FALSE, {r1})
 @@ r3 :> Overlay(out1, 2, "mixed", {r2})
 @@ r4 :> Smoke(out1, 2, TRUE, {r3})
 @@ r5 :> Cmd("compare", out1, work1, 1, "candidate", TRUE, {r4})
InOrder == Invoked(1, 0, Steps)

(* The same at the commit whose replacement differs from the locked RTL.      *)
Changed == Invoked(0, 1, Steps)

(* The first again, but another smoke run asks for the mixed iteration during the   *)
(* comparison.                                                               *)
Overtaken == Invoked(0, 0, Steps @@ r6 :> Smoke(out1, 2, TRUE, {r4}))

(* Two OUT_DIRs meet in one work root while a smoke run follows the first.   *)
SharedWork == Invoked(1, 0,
    r1 :> Overlay(out1, 1, "candidate", {})
 @@ r2 :> Overlay(out2, 1, "official", {})
 @@ r3 :> Smoke(out1, 1, FALSE, {r1}))

(* Two smoke runs after one overlay, and an overlay with refused arguments.  *)
SmokeTwice == Invoked(1, 0,
    r1 :> Overlay(out1, 1, "candidate", {})
 @@ r2 :> Smoke(out1, 1, FALSE, {r1})
 @@ r3 :> Smoke(out1, 1, FALSE, {r1})
 @@ r4 :> [Overlay(out1, 1, "official", {r2, r3}) EXCEPT !.diagnostic = FALSE])

(* Two things go wrong on the way from an overlay to its smoke run and to    *)
(* another overlay of the workspace.                                         *)
Rebuilt == Invoked(2, 0,
    r1 :> Overlay(out1, 1, "candidate", {})
 @@ r2 :> Smoke(out1, 1, FALSE, {r1})
 @@ r3 :> Overlay(out1, 1, "candidate", {r2}))

(* The overlay of the iteration "standalone", whose export directory is also *)
(* the one of golden-export, beside golden-exports of an override.           *)
Standalone == Invoked(1, 0,
    r1 :> Overlay(out1, 1, "candidate", {})
 @@ r2 :> Cmd("export", out1, work1, 1, "override", TRUE, {})
 @@ r3 :> Smoke(out1, 1, FALSE, {r1})
 @@ r4 :> Cmd("export", out1, work1, 1, "override", FALSE, {r3}))

MCScenarios ==
    {InOrder, Changed, Overtaken, SharedWork, SmokeTwice, Rebuilt, Standalone}
=============================================================================
