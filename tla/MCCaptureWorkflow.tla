-------------------------- MODULE MCCaptureWorkflow --------------------------
(* A small instance of CaptureWorkflow. *)
EXTENDS CaptureWorkflow

Plain == [undoes |-> FALSE, returnsAtOnce |-> FALSE, rollbackFails |-> FALSE]
Hasty == [undoes |-> FALSE, returnsAtOnce |-> TRUE, rollbackFails |-> FALSE]
\* A user who undoes and returns at once, and a storage that refuses rollbacks.
Troubled == {[Hasty EXCEPT !.undoes = TRUE], [Plain EXCEPT !.rollbackFails = TRUE]}
HastyUser == {Hasty}
PlainUser == {Plain}
=============================================================================
