------------------------------- MODULE MCTopUp ------------------------------
(***************************************************************************)
(* Top-ups for TLC.  Transactions are interchangeable.                     *)
(***************************************************************************)
EXTENDS TopUp, TLC

TxnSymmetry == Permutations(Txns)
=============================================================================
