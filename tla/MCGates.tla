------------------------------- MODULE MCGates -----------------------------
(* Small instances of the tools: who invokes which one, after which others.  *)
EXTENDS GatePipeline, TLC

CONSTANTS r1, r2, r3, r4, r5, r6, out1, out2, out3, out4, out5

MCRuns == {r1, r2, r3, r4, r5, r6}
MCOuts == {out1, out2, out3, out4, out5}

(* Source 0 made the tracked package; source 1 gives other RTL with another  *)
(* reviewed warning; source 2 gives RTL that declares TLBNUM with a default  *)
(* that is not supported.                                                    *)
MCSources == 0..2
MCDeclares == [s \in MCSources |-> IF s = 2 THEN "other" ELSE "none"]
MCLints == [s \in MCSources |->
    {<<"CMPCONST", "a">>, <<"UNUSEDSIGNAL", "b">>}
        \cup (IF s = 1 THEN {<<"UNUSEDSIGNAL", "c">>} ELSE {})]

(* Three files in a circle, of which the second waives, and one beside it.   *)
MCRtlFiles == {"top", "unit", "defs", "alone"}
MCIncludesOf == "top" :> {"defs"} @@ "defs" :> {"unit"} @@ "unit" :> {"top"}
             @@ "alone" :> {}
MCScripts ==
    [wall : {TRUE}, wwarn : {RequiredWarnings}, wno : {{}, {"DECLFILENAME"}},
     response : {FALSE}, inputs : {{"top"}, {"alone"}}]
    \cup [wall : {TRUE}, wwarn : {RequiredWarnings}, wno : {{"LATCH"}},
          response : {FALSE}, inputs : {{"alone"}}]
MCReports ==
    LET suite(p, j) == [properties |-> p, jna |-> j]
    IN  {{suite("own", "own"), suite("own", "none")},
         {suite("own", "own"), suite("other", "other")}}
MCOutputs == {[exit |-> 0, lines |-> {"own options"}],
              [exit |-> 0, lines |-> {"warning"}]}
MCTestCounts == [total : {0, 2}, succeeded : {2}, others : {0}]

(* Two records that hold together, a gate that contradicts its counts, and a *)
(* command that ends before it starts.                                       *)
Gate(passed) ==
    "test" :> [status |-> "pass", planned |-> 2, executed |-> 2,
               passed |-> passed, failed |-> 2 - passed, skipped |-> 0]
Draft(status, passed, finished) ==
    [status |-> status, gates |-> Gate(passed),
     commands |-> << [started |-> 1, finished |-> finished] >>]
MCDrafts == {Draft("draft", 2, 1), Draft("ready", 2, 2), Draft("draft", 1, 1),
             Draft("blocked", 2, 0)}

-----------------------------------------------------------------------------
Job(gate, o, rtl, waived, after) ==
    [gate |-> gate, out |-> o, rtl |-> rtl, waived |-> waived, after |-> after]

Tracked == [Elaborated(0, 0) EXCEPT !.tlbnum = "32", !.guarded = TRUE, !.marks = 1]
RepoAt(source, package) ==
    [source |-> source, manifest |-> 0, lock |-> 0, cache |-> 0, tools |-> 0,
     head |-> 0, ports |-> 0, tracked |-> package, spec |-> Tracked,
     waiver |-> [rtl |-> Tracked, warnings |-> Warnings(Tracked)]]

Invoked(n, source, table) ==
    [jobs |-> [r \in MCRuns |-> IF r \in DOMAIN table THEN table[r] ELSE None],
     repo |-> RepoAt(source, Tracked), events |-> n]

(* Two Scala checks ask for one OUT_DIR.                                     *)
ScalaTwice == Invoked(1, 0,
    r1 :> Job("scala", out1, None, FALSE, {})
 @@ r2 :> Job("scala", out1, None, FALSE, {}))

(* Two generations into one OUT_DIR.                                         *)
GenerateTwice == Invoked(1, 0,
    r1 :> Job("generate", out1, None, FALSE, {})
 @@ r2 :> Job("generate", out1, None, FALSE, {}))

(* From a new source to its published and linted package.                    *)
Publication == Invoked(1, 1,
    r1 :> Job("generate", out1, None, FALSE, {})
 @@ r2 :> Job("package", out2, out1, FALSE, {r1})
 @@ r3 :> Job("install", out1, out2, FALSE, {r2})
 @@ r4 :> Job("refresh", out3, None, FALSE, {r3})
 @@ r5 :> Job("publish", out4, out2, FALSE, {r4})
 @@ r6 :> Job("lint", out5, None, TRUE, {r4}))

(* Two refreshes that overlap a change of the tracked package.               *)
RefreshTwice == Invoked(0, 1,
    r1 :> Job("generate", out1, None, FALSE, {})
 @@ r2 :> Job("package", out2, out1, FALSE, {r1})
 @@ r3 :> Job("install", out1, out2, FALSE, {r2})
 @@ r4 :> Job("refresh", out3, None, FALSE, {})
 @@ r5 :> Job("refresh", out4, None, FALSE, {r3}))

(* The RTL of the third source cannot be packaged.                           *)
Unsupported == Invoked(0, 2,
    r1 :> Job("generate", out1, None, FALSE, {})
 @@ r2 :> Job("package", out2, out1, FALSE, {r1}))

(* Two packagers of the tracked package in one OUT_DIR, and an attempt to    *)
(* publish the result.                                                       *)
PackageTwice == Invoked(1, 0,
    r1 :> Job("package", out1, None, FALSE, {})
 @@ r2 :> Job("package", out1, None, FALSE, {})
 @@ r3 :> Job("install", out2, out1, FALSE, {r1, r2})
 @@ r4 :> Job("publish", out2, out1, FALSE, {r3}))

(* The tracked package is packaged once more, installed and refreshed; both  *)
(* it and the package it replaced are tried for publication.                 *)
Repackage == Invoked(1, 0,
    r1 :> Job("package", out1, None, FALSE, {})
 @@ r2 :> Job("install", out1, out1, FALSE, {r1})
 @@ r3 :> Job("refresh", out2, out1, FALSE, {r1})
 @@ r4 :> Job("publish", out3, out1, FALSE, {r3}))

(* The audits of the package side by side.                                   *)
AuditsTogether == Invoked(1, 0,
    r1 :> Job("contract", out1, None, FALSE, {})
 @@ r2 :> Job("port", out2, None, FALSE, {})
 @@ r3 :> Job("yosys", out2, None, FALSE, {})
 @@ r4 :> Job("lint", out3, None, TRUE, {}))

(* No tool runs: the record of the iteration.                                *)
Record == Invoked(0, 0, << >>)

MCScenarios == {ScalaTwice, GenerateTwice, Publication, RefreshTwice,
                Unsupported, PackageTwice, Repackage, AuditsTogether,
                Record}
=============================================================================
