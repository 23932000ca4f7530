-------------------------- MODULE IterationEvidence ------------------------
(* The record of an iteration below logs/refactor and the command that       *)
(* judges it, validate-iteration of tools/refactor.py.  The record says of   *)
(* which commit it is, how its gates went, which artifacts it left and what  *)
(* an external reviewer said of which commit; commits and merges go on       *)
(* while it is written, also the one that commits the record.                *)
EXTENDS Integers, Sequences, FiniteSets

CONSTANTS
    CommitLimit, \* bound: commits made
    EventLimit,  \* bound: events in the raw review
    Codes,       \* versions of everything outside logs/refactor and status.yml
    Gates, Required, \* the gates of a summary, and those it calls required
    Drafts,      \* directories an author may start from: [status, gates,
                 \* commands]
    Absent

VARIABLES
    git,      \* [head, log]; a commit is its parents and its code
    files,    \* [version, size] of the one artifact file
    record,   \* what the iteration directory says
    raw       \* the events of reviews/claude-raw.md

iterationVars == << git, files, record, raw >>

IterationStatuses == {"draft", "blocked", "ready", "complete"}
GateStatuses == {"pass", "fail", "pending", "skipped", "unavailable", "warning"}

Code(commit) == git.log[commit].code

IterationInit ==
    /\ git = [head |-> 1, log |-> << [parents |-> {}, code |-> 0] >>]
    /\ files = 0 /\ raw = << >>
    /\ \E draft \in Drafts :
          record = [status |-> draft.status, gates |-> draft.gates,
                    commands |-> draft.commands, head |-> 1, target |-> Absent,
                    artifact |-> 0, review |-> Absent]

-----------------------------------------------------------------------------
(* What validate-iteration asks, one check of it per definition.             *)

(* _validate_gate: the counts add up and the status is not contradicted.     *)
GateConsistent(gate) ==
    /\ gate.status \in GateStatuses
    /\ gate.executed = gate.passed + gate.failed
    /\ gate.planned = gate.executed + gate.skipped /\ gate.planned > 0
    /\ gate.status = "pass" => gate.passed = gate.planned
    /\ gate.status = "fail" => gate.failed > 0
    /\ gate.status \in {"pending", "skipped"} => gate.executed = 0
    /\ gate.status = "unavailable" => gate.failed + gate.skipped > 0

GatePassed(gate) ==
    gate.status = "pass" /\ gate.passed = gate.planned /\ gate.failed = 0
                         /\ gate.skipped = 0

(* _validate_required_gates.                                                 *)
RequiredGatesHold(status, gates) ==
    /\ \A g \in Required : gates[g] # Absent
    /\ status \in {"ready", "complete"} =>
          Required # {} /\ \A g \in Required : GatePassed(gates[g])

(* _review_target_is_acceptable: HEAD itself, or a parent of it from which   *)
(* only evidence differs.  Mutant: a parent whatever differs.                *)
HeadOrParent(commit) ==
    commit = git.head \/ commit \in git.log[git.head].parents
Acceptable(commit) ==
    \/ commit = git.head
    \/ commit \in git.log[git.head].parents /\ Code(commit) = Code(git.head)

(* _validate_summary.                                                        *)
SummaryHolds ==
    /\ record.status \in IterationStatuses
    /\ Acceptable(record.head)
    /\ \E g \in Gates : record.gates[g] # Absent
    /\ \A g \in Gates : record.gates[g] # Absent => GateConsistent(record.gates[g])
    /\ RequiredGatesHold(record.status, record.gates)
    /\ record.status \in {"ready", "complete"} => record.target # Absent

(* _validate_commands: at least one, none that ends before it starts.        *)
CommandsHold ==
    /\ record.commands # << >>
    /\ \A n \in DOMAIN record.commands :
          record.commands[n].finished >= record.commands[n].started

(* _validate_artifacts: size and hash are those of the file.                 *)
ArtifactsHold == record.artifact = files

(* The commit a review has to be of: review_target_sha, else head_sha.       *)
Target == IF record.target = Absent THEN record.head ELSE record.target

EventsOf(review) == {n \in DOMAIN raw : raw[n].job = review.job}

(* _validate_review of a passing review: an event of the same job that ended *)
(* well, no blocking finding, of the target, which is still HEAD's code.     *)
PassingReviewHolds(review) ==
    /\ review.head = Target /\ Acceptable(Target)
    /\ \E n \in EventsOf(review) :
          raw[n].done /\ raw[n].status = "completed"
                      /\ raw[n].model = review.model /\ raw[n].response
    /\ review.blocking = 0 /\ review.fresh

(* Of one that failed or was unavailable: its error is that of an event, it  *)
(* blocks, and claims no freshness.                                          *)
FailedReviewHolds(review) ==
    /\ record.status \notin {"ready", "complete"}
    /\ \E n \in EventsOf(review) : raw[n].done /\ raw[n].status = "failed"
    /\ review.blocking >= 1 /\ ~review.fresh
    /\ review.head # Absent => review.head = Target /\ Acceptable(Target)

ReviewHolds ==
    LET review == record.review
    IN  /\ review # Absent /\ raw # << >>
        /\ review.raw = raw
        /\ EventsOf(review) # {}
        /\ IF review.status = "pass" THEN PassingReviewHolds(review)
                                     ELSE FailedReviewHolds(review)

(* command_validate_iteration: a status of ready or complete is never        *)
(* authorised, whatever the record shows.                                    *)
Accepts ==
    /\ SummaryHolds /\ ArtifactsHold /\ CommandsHold /\ ReviewHolds
    /\ record.status \notin {"ready", "complete"}

-----------------------------------------------------------------------------
(* The people and tools around it.                                           *)

Commit(parents, code) ==
    /\ Len(git.log) < CommitLimit
    /\ git' = [head |-> Len(git.log) + 1,
               log |-> Append(git.log, [parents |-> parents, code |-> code])]

CommitCode ==
    /\ \E code \in Codes \ {Code(git.head)} : Commit({git.head}, code)
    /\ UNCHANGED << files, record, raw >>

CommitEvidence ==
    Commit({git.head}, Code(git.head)) /\ UNCHANGED << files, record, raw >>

(* A merge takes the code of one side, or a mixture of its own.              *)
Merge ==
    /\ \E other \in DOMAIN git.log \ {git.head}, code \in Codes :
          Commit({git.head, other}, code)
    /\ UNCHANGED << files, record, raw >>

Checkout ==
    /\ \E commit \in DOMAIN git.log \ {git.head} :
          git' = [git EXCEPT !.head = commit]
    /\ UNCHANGED << files, record, raw >>

(* The author stamps the record with HEAD and the artifact.                  *)
WriteRecord ==
    /\ \E target \in {Absent, git.head} :
          record' = [record EXCEPT !.head = git.head, !.target = target,
                                   !.artifact = files]
    /\ UNCHANGED << git, files, raw >>

Regenerate ==
    /\ files = 0 /\ files' = 1
    /\ UNCHANGED << git, record, raw >>

(* The reviewer's job ends, and its event is added to the raw file.          *)
ReviewEnds ==
    /\ Len(raw) < EventLimit
    /\ \E status \in {"completed", "failed"}, done \in BOOLEAN :
          raw' = Append(raw, [job |-> Len(raw), status |-> status,
                   done |-> done, model |-> "claude",
                   response |-> status = "completed"])
    /\ UNCHANGED << git, files, record >>

(* The author sums the review up, as of any commit and of any job.           *)
SummariseReview ==
    /\ raw # << >>
    /\ \E status \in {"pass", "failed"}, commit \in DOMAIN git.log,
          job \in 0..Len(raw) :
         record' = [record EXCEPT !.review =
            [status |-> status, job |-> job, model |-> "claude",
             head |-> commit, raw |-> raw, fresh |-> status = "pass",
             blocking |-> IF status = "pass" THEN 0 ELSE 1]]
    /\ UNCHANGED << git, files, raw >>

IterationNext ==
    \/ CommitCode \/ CommitEvidence \/ Merge \/ Checkout
    \/ WriteRecord \/ Regenerate \/ ReviewEnds \/ SummariseReview
=============================================================================
