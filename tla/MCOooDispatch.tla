----------------------------- MODULE MCOooDispatch -----------------------------
(* The four ports of the source, small queues, and the mixes of uops of the runs. *)
EXTENDS OooDispatchProperties, TLC

Shape(kind, back1, back2) == [kind |-> kind, back1 |-> back1, back2 |-> back2]

AllPorts == 0 .. 3
AllCapabilities ==
    (0 :> {"alu", "serial", "barrier"}) @@ (1 :> {"alu", "divide"})
      @@ (2 :> {"alu", "multiply"}) @@ (3 :> {"load", "ll", "store", "sc", "preload"})

(* An ALU uop that waits for both older uops, whatever they are.               *)
WakeShapes == {Shape("alu", 1, 2), Shape("multiply", 0, 0), Shape("divide", 0, 0),
               Shape("load", 0, 0), Shape("barrier", 0, 0), Shape("preload", 0, 0)}
StoreShapes == {Shape("store", 0, 1), Shape("alu", 1, 0)}
LiveShapes == {Shape("divide", 0, 0), Shape("alu", 1, 0), Shape("alu", 0, 0),
               Shape("store", 0, 1)}
=============================================================================
