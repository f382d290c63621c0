----------------------------- MODULE MCMVCCScan -----------------------------
(***************************************************************************)
(* MVCC scans for TLC: the transactions that do not scan are               *)
(* interchangeable.                                                        *)
(***************************************************************************)
EXTENDS MVCCScan, TLC

Symmetry == Permutations(Txn \ Scanner)
=============================================================================
