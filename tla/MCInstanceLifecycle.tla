------------------------ MODULE MCInstanceLifecycle ------------------------
(* Instance of InstanceLifecycle for TLC. *)
EXTENDS InstanceLifecycle

CONSTANTS i1, i2, c1, w1, h1

(* The hooks choose the goroutine of the terminal phase, of a managed instance *)
(* without a collected graph; elsewhere nothing depends on them.               *)
Everything ==
    {c \in [adopted : BOOLEAN, collects : BOOLEAN, hooks : BOOLEAN] :
        c.hooks => c.adopted /\ ~c.collects}
=============================================================================
