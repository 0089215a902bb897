---------------------------- MODULE MCLockStore -----------------------------
(* Instances of LockStore for TLC.                                           *)
EXTENDS LockStore, TLC

\* Transactions are interchangeable: no operator of LockStore orders them.
Symmetry == Permutations(Requesters)
=============================================================================
