---------------------------- MODULE MCLockServer ----------------------------
(* Instances of LockServer for TLC.                                          *)
EXTENDS LockServer, TLC

\* Requesters are interchangeable: no operator of LockServer orders them.
Symmetry == Permutations(Requesters) \cup Permutations(Keys)
=============================================================================
