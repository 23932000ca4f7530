--------------------------- MODULE InOrderRetirement ---------------------------
(***************************************************************************)
(* What the out-of-order core promises to the instruction stream, with no     *)
(* ring, pointer, epoch or pipeline register: uops leave in the order they    *)
(* entered, each only once it has its outcome; a uop that faults or was       *)
(* mispredicted is the last to leave; and then everything that entered after  *)
(* it is discarded at once, before anything else leaves or enters.            *)
(***************************************************************************)
EXTENDS Integers, Sequences

CONSTANTS EnterWidth, LeaveWidth

VARIABLES
    window,   \* uops that entered and have not left, oldest first
    squash    \* the next step discards the window

(* A uop that has no outcome yet, one that ended well, one that ends the      *)
(* stream; `alone` is known on entry: nothing leaves together after it.       *)
Uop == [alone : BOOLEAN, outcome : {"none", "good", "recover"}]

retirementVars == <<window, squash>>

RetirementInit == window = <<>> /\ squash = FALSE

May(n, w) ==
    /\ \A k \in 1 .. n : w[k].outcome # "none"
    /\ \A k \in 1 .. n - 1 : w[k].outcome = "good" /\ ~w[k].alone

(* A uop in the window keeps its identity and its outcome once it has one.    *)
Evolves(old, new) ==
    /\ new.alone = old.alone
    /\ old.outcome # "none" => new.outcome = old.outcome

Proceed ==
    /\ ~squash
    /\ \E n \in 0 .. LeaveWidth :
         LET left == Len(window) - n
         IN  /\ n <= Len(window)
             /\ May(n, window)
             /\ window' \in Seq(Uop)
             /\ Len(window') \in left .. left + EnterWidth
             /\ \A k \in 1 .. left : Evolves(window[n + k], window'[k])
             /\ \A k \in left + 1 .. Len(window') : window'[k].outcome # "good"
             /\ squash' \in IF n > 0 /\ window[n].outcome = "recover" THEN {TRUE}
                            ELSE IF n > 0 /\ window[n].alone THEN BOOLEAN
                            ELSE {FALSE}

Discard ==
    /\ squash
    /\ window' = <<>>
    /\ squash' \in BOOLEAN

RetirementSpec == RetirementInit /\ [][Proceed \/ Discard]_retirementVars
=============================================================================
