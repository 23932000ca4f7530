------------------------------ MODULE MCOooMemory ------------------------------
(* A load/store queue of two slots each.                                      *)
EXTENDS OooMemoryProperties

Answer(cancelled, exception, uncached, word, reserved) ==
    [cancelled |-> cancelled, exception |-> exception, uncached |-> uncached,
     word |-> word, reserved |-> reserved]

CachedAnswers == {Answer(FALSE, FALSE, FALSE, w, FALSE) : w \in Words}
FaultingAnswers ==
    {Answer(FALSE, FALSE, FALSE, 0, FALSE), Answer(FALSE, FALSE, TRUE, 0, FALSE),
     Answer(FALSE, TRUE, FALSE, 0, FALSE)}
(* With the reservation held, without it, or with a fault.                     *)
ReservedAnswers ==
    {Answer(FALSE, FALSE, FALSE, 0, TRUE), Answer(FALSE, FALSE, TRUE, 0, FALSE),
     Answer(FALSE, TRUE, FALSE, 0, FALSE)}
AllMasks == {{0}, {0, 1}}
=============================================================================
