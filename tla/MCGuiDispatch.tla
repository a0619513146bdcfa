--------------------------- MODULE MCGuiDispatch ---------------------------
(***************************************************************************)
(* GuiDispatch with four requests, one of them a runtime mutation: one can *)
(* be cancelled in the queue, one abandoned on the stack, one refused and  *)
(* one tried after the thread has become free again.                       *)
(***************************************************************************)
EXTENDS GuiDispatch, TLC

CONSTANTS q1, q2, q3, m1

MCRequests == {q1, q2, q3, m1}
MCMutating == {m1}

=============================================================================
