----------------------------- MODULE MCWebPages -----------------------------
(***************************************************************************)
(* The web pages for TLC.  Of the two options of the settings section the  *)
(* first is trimmed before it is written (the trailing slash of            *)
(* ServerAddress): a field that holds 2 is stored as 1.                    *)
(***************************************************************************)
EXTENDS WebPages

TrimmedFirst ==
  [k \in Keys |-> [v \in Values |-> IF k = "address" /\ v = 2 THEN 1 ELSE v]]
=============================================================================
