------------------------ MODULE EvidencePublication ------------------------
(* What the validation commands promise to a reader of their reports.  Under *)
(* each name at most one run at a time is the author.  Evidence appears      *)
(* whole, only where none stands, and as its author's; it disappears only by *)
(* an author's hand, is never replaced in place, and no longer changes once  *)
(* its author has left.                                                      *)
CONSTANTS Names, Runs, None

VARIABLES standing, \* the run whose evidence stands under a name, or None
          author    \* the run that works on the evidence of a name, or None

Init ==
    /\ standing = [n \in Names |-> None]
    /\ author = [n \in Names |-> None]

Begin(n) ==
    /\ author[n] = None /\ author'[n] \in Runs
    /\ author' = [author EXCEPT ![n] = author'[n]]
    /\ UNCHANGED standing

Withdraw(n) ==
    /\ author[n] # None /\ standing[n] # None
    /\ standing' = [standing EXCEPT ![n] = None]
    /\ UNCHANGED author

Publish(n) ==
    /\ author[n] # None /\ standing[n] = None
    /\ standing' = [standing EXCEPT ![n] = author[n]]
    /\ UNCHANGED author

(* It has published, has failed, or is dead.                                 *)
Leave(n) ==
    /\ author[n] # None
    /\ author' = [author EXCEPT ![n] = None]
    /\ UNCHANGED standing

Next ==
    \E n \in Names : Begin(n) \/ Withdraw(n) \/ Publish(n) \/ Leave(n)

Spec == Init /\ [][Next]_<<standing, author>>
=============================================================================
