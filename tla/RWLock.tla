------------------------------- MODULE RWLock -------------------------------
(* What a table of reader/writer locks promises: per key, a set of holders   *)
(* in read mode and a set of holders in write mode, with a write holder      *)
(* excluding every other holder.  No queue, no timeouts, no retries: those   *)
(* are how store/common/backend/lockserver.cc chooses whom to admit.         *)
EXTENDS FiniteSets

CONSTANTS Keys, Requesters

VARIABLES rd, wr        \* holders of each key in read and in write mode

vars == << rd, wr >>

Init == /\ rd = [k \in Keys |-> {}]
        /\ wr = [k \in Keys |-> {}]

\* A reader is admitted when nobody else writes.
AcquireRead(k, r) ==
    /\ wr[k] \subseteq {r}
    /\ rd' = [rd EXCEPT ![k] = @ \cup {r}]
    /\ UNCHANGED wr

\* A writer is admitted when nobody else reads or writes.
AcquireWrite(k, r) ==
    /\ rd[k] \cup wr[k] \subseteq {r}
    /\ wr' = [wr EXCEPT ![k] = {r}]
    /\ UNCHANGED rd

ReleaseRead(k, r) ==
    /\ r \in rd[k]
    /\ rd' = [rd EXCEPT ![k] = @ \ {r}]
    /\ UNCHANGED wr

ReleaseWrite(k, r) ==
    /\ r \in wr[k]
    /\ wr' = [wr EXCEPT ![k] = {}]
    /\ UNCHANGED rd

Next == \E k \in Keys, r \in Requesters :
            \/ AcquireRead(k, r)
            \/ AcquireWrite(k, r)
            \/ ReleaseRead(k, r)
            \/ ReleaseWrite(k, r)

Spec == Init /\ [][Next]_vars
=============================================================================
