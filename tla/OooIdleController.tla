--------------------------- MODULE OooIdleController ---------------------------
(***************************************************************************)
(* privileged/OooIdleController.scala: an IDLE redirects one cycle after it  *)
(* retires and then keeps the core flushed until an interrupt is pending.    *)
(***************************************************************************)
VARIABLES enterPending, sleeping

idleVars == <<enterPending, sleeping>>

IdleInit == enterPending = FALSE /\ sleeping = FALSE

(* Mutant: it redirects only once.                                          *)
RedirectOnce == enterPending
IdleRedirect == enterPending \/ sleeping

IdleStep(enterValid, interruptPending) ==
    /\ enterPending' = enterValid
    /\ sleeping' = (~interruptPending /\ (enterPending \/ sleeping))
=============================================================================
