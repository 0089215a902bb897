---------------------------- MODULE MCTapirStore ----------------------------
(* Instances of TapirStore, and the serialization graph of what its store    *)
(* committed.                                                                *)
EXTENDS TapirStore, Graphs, TLC

CONSTANTS t1, t2, t3

\* Proposals, interleaved over the clients.  A client with two may retry at a
\* later timestamp; one with a single proposal retries at the same one.
TwoTxns == (t1 :> {1, 4}) @@ (t2 :> {2, 3})
ThreeTxns == (t1 :> {1, 4}) @@ (t2 :> {2}) @@ (t3 :> {3})

Symmetry == Permutations(Keys)      \* sound when all the keys are loaded

Installed == {t \in Txns : installed[t] # NoVersion}

\* t comes before u in any equivalent serial order: u read a version t wrote,
\* t read a version older than the one u wrote, or both wrote and t's version
\* is older.
Precedes(t, u) ==
    \E k \in Keys :
        \/ k \in txns[t].writes /\ txns[u].reads[k] = installed[t]
        \/ k \in txns[u].writes /\ txns[t].reads[k] # NoVersion
           /\ txns[t].reads[k] < installed[u]
        \/ k \in txns[t].writes \cap txns[u].writes /\ installed[t] < installed[u]

SerializationGraph ==
    [node |-> Installed,
     edge |-> {e \in Installed \X Installed : e[1] # e[2] /\ Precedes(e[1], e[2])}]

\* The transactions that the store committed are serializable: the conflicts
\* that Store::Prepare let through never form a cycle.
Serializable == IsDag(SerializationGraph)
=============================================================================
