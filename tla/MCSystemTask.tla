---------------------------- MODULE MCSystemTask ----------------------------
(***************************************************************************)
(* Background tasks for TLC: one task and functions that outlast a lease,  *)
(* or one task after another and functions that do not.                    *)
(***************************************************************************)
EXTENDS SystemTask

StallOrSucceed == {[tasks |-> 1, stall |-> 2], [tasks |-> 2, stall |-> 1]}
=============================================================================
