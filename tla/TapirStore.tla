----------------------------- MODULE TapirStore -----------------------------
(* A one-replica TAPIR shard and the clients that run transactions on it:    *)
(* Store (StoreOps), Client::Commit and Client::Prepare of                   *)
(* tapirstore/client.cc, and the buffering and request handling of           *)
(* bufferclient.cc and tapirstore/shardclient.cc.  Each client runs one      *)
(* transaction, which may have other participants.                           *)
(*                                                                           *)
(* IRClient resends PREPARE, COMMIT and ABORT until they are executed and    *)
(* IRReplica executes each once, but nothing orders them: a PREPARE may be   *)
(* executed after the ABORT of a client that stopped waiting for it.  The    *)
(* client's promise itself never times out (Promise::GetReply).              *)
EXTENDS StoreOps

CONSTANTS Loaded,            \* the keys loaded before the transactions run
          CommitRetries,     \* COMMIT_RETRIES
          TsOf               \* the timestamps each transaction's client may propose

ASSUME TapirAssumption ==
    /\ Linearizable \in BOOLEAN
    /\ Loaded \subseteq Keys
    /\ CommitRetries \in Nat
    /\ TsOf \in [Txns -> SUBSET (Nat \ {0})]
    /\ \A t, u \in Txns : t # u => TsOf[t] \cap TsOf[u] = {}

VARIABLES store,       \* the replica's store
          txns,        \* each client's buffered Transaction
          status,      \* where each client is
          pending,     \* the clients whose last PREPARE is not executed yet
          proposed,    \* the timestamp of that PREPARE
          tries,       \* the PREPAREs each client has sent
          installed    \* history: when the store committed each transaction
vars == <<store, txns, status, pending, proposed, tries, installed>>

Status == {"active", "preparing", "committing", "committed", "aborting", "aborted"}

Init ==
    /\ store = [versions |-> [k \in Keys |-> IF k \in Loaded THEN {0} ELSE {}],
                lastReads |-> [k \in Keys |-> [v \in {} |-> 0]],
                prepared |-> [t \in Txns |-> NotPrepared]]
    /\ txns = [t \in Txns |-> Nothing]
    /\ status = [t \in Txns |-> "active"]
    /\ pending = {}
    /\ proposed = [t \in Txns |-> 0]
    /\ tries = [t \in Txns |-> 0]
    /\ installed = [t \in Txns |-> NoVersion]

-----------------------------------------------------------------------------
\* Client::Get through BufferClient::Get: a key that was neither read nor
\* written yet is read at its latest version.  A missing key, or an answer
\* that is lost, leaves the read set as it was.
Get(t, k) ==
    /\ status[t] = "active"
    /\ k \notin txns[t].writes
    /\ txns[t].reads[k] = NoVersion
    /\ \E v \in store.versions[k] :
          /\ IsLatest(store, k, v)
          /\ txns' = [txns EXCEPT ![t].reads[k] = v]
    /\ UNCHANGED <<store, status, pending, proposed, tries, installed>>

\* Client::Put: buffered.
Put(t, k) ==
    /\ status[t] = "active"
    /\ k \notin txns[t].writes
    /\ txns' = [txns EXCEPT ![t].writes = @ \cup {k}]
    /\ UNCHANGED <<store, status, pending, proposed, tries, installed>>

\* Mutant of SendPrepare: the counter of attempts wraps before its bound.
SendPrepareWraps(t, ts) ==
    /\ status' = [status EXCEPT ![t] = "preparing"]
    /\ pending' = pending \cup {t}
    /\ proposed' = [proposed EXCEPT ![t] = ts]
    /\ tries' = [tries EXCEPT ![t] = (@ + 1) % CommitRetries]

\* One round of the loop of Client::Commit: Client::Prepare sends PREPARE.
SendPrepare(t, ts) ==
    /\ status' = [status EXCEPT ![t] = "preparing"]
    /\ pending' = pending \cup {t}
    /\ proposed' = [proposed EXCEPT ![t] = ts]
    /\ tries' = [tries EXCEPT ![t] = @ + 1]

\* Client::Commit, up to the first PREPARE; now is the client's clock.
Begin2PC(t, now) ==
    /\ status[t] = "active"
    /\ CommitRetries > 0
    /\ SendPrepare(t, now)
    /\ UNCHANGED <<store, txns, installed>>

\* Client::Abort, called by the application.
UserAbort(t) ==
    /\ status[t] = "active"
    /\ status' = [status EXCEPT ![t] = "aborting"]
    /\ UNCHANGED <<store, txns, pending, proposed, tries, installed>>

\* ShardClient::TapirDecide on the reply of the one replica: IRClient calls it
\* on the slow path, when the reply comes late.
TapirDecide(r) == IF r.status = "ABSTAIN" THEN Reply("RETRY", 0) ELSE r

\* What Client::Prepare returns, from this shard's vote and from what it would
\* return without this shard.
Combine(vote, others) ==
    IF "FAIL" \in {vote, others} THEN "FAIL"
    ELSE IF "RETRY" \in {vote, others} THEN "RETRY"
    ELSE "OK"

\* The rest of the loop of Client::Commit: a retry is proposed at the
\* client's clock.
React(t, outcome, now) ==
    \/ /\ outcome = "OK"
       /\ status' = [status EXCEPT ![t] = "committing"]
       /\ pending' = pending \ {t}
       /\ UNCHANGED <<proposed, tries>>
    \/ /\ outcome = "FAIL" \/ (outcome = "RETRY" /\ tries[t] >= CommitRetries)
       /\ status' = [status EXCEPT ![t] = "aborting"]
       /\ pending' = pending \ {t}
       /\ UNCHANGED <<proposed, tries>>
    \/ /\ outcome = "RETRY" /\ tries[t] < CommitRetries
       /\ now >= proposed[t]
       /\ SendPrepare(t, now)

\* PREPARE is executed (Server::ExecConsensusUpcall) and its reply reaches the
\* client that waits for it (ShardClient::PrepareCallback), by the fast path
\* or by the slow path.
ExecPrepare(t, now) ==
    /\ status[t] = "preparing"
    /\ \E o \in Prepare(store, t, txns[t], proposed[t]), others \in {"OK", "FAIL", "RETRY"} :
          /\ store' = o.store
          /\ \E r \in {o.reply, TapirDecide(o.reply)} :
                React(t, Combine(r.status, others), now)
    /\ UNCHANGED <<txns, installed>>

\* Another participant answers FAIL first: Client::Prepare returns at once,
\* and ABORT is sent while the PREPARE is still under way.
OtherFails(t) ==
    /\ status[t] = "preparing"
    /\ status' = [status EXCEPT ![t] = "aborting"]
    /\ UNCHANGED <<store, txns, pending, proposed, tries, installed>>

\* That PREPARE is executed; nobody waits for the reply.
ExecLatePrepare(t) ==
    /\ t \in pending
    /\ status[t] \in {"aborting", "aborted"}
    /\ \E o \in Prepare(store, t, txns[t], proposed[t]) : store' = o.store
    /\ pending' = pending \ {t}
    /\ UNCHANGED <<txns, status, proposed, tries, installed>>

\* COMMIT is executed (Server::ExecInconsistentUpcall); it has no effect on a
\* transaction that is not prepared.
ExecCommit(t) ==
    /\ status[t] = "committing"
    /\ status' = [status EXCEPT ![t] = "committed"]
    /\ store' = Commit(store, t)
    /\ installed' = [installed EXCEPT ![t] = store.prepared[t].ts]
    /\ UNCHANGED <<txns, pending, proposed, tries>>

\* ABORT is executed.
ExecAbort(t) ==
    /\ status[t] = "aborting"
    /\ status' = [status EXCEPT ![t] = "aborted"]
    /\ store' = Abort(store, t)
    /\ UNCHANGED <<txns, pending, proposed, tries, installed>>

Next ==
    \E t \in Txns :
        \/ \E k \in Keys : Get(t, k) \/ Put(t, k)
        \/ \E now \in TsOf[t] : Begin2PC(t, now) \/ ExecPrepare(t, now)
        \/ UserAbort(t)
        \/ OtherFails(t)
        \/ ExecLatePrepare(t)
        \/ ExecCommit(t)
        \/ ExecAbort(t)

Spec == Init /\ [][Next]_vars

\* IRClient resends PREPARE, COMMIT and ABORT until they are executed and
\* answered, and the client's clock does not go back.
Fairness ==
    \A t \in Txns : /\ WF_vars(\E now \in TsOf[t] : ExecPrepare(t, now))
                    /\ WF_vars(ExecLatePrepare(t))
                    /\ WF_vars(ExecCommit(t) \/ ExecAbort(t))
FairSpec == Spec /\ Fairness

-----------------------------------------------------------------------------
TypeOK ==
    /\ store.versions \in [Keys -> SUBSET Nat]
    /\ store.prepared \in [Txns -> Prepared]
    /\ txns \in [Txns -> Transaction]
    /\ status \in [Txns -> Status]
    /\ pending \subseteq Txns
    /\ proposed \in [Txns -> Nat]
    /\ tries \in [Txns -> Nat]
    /\ installed \in [Txns -> Nat \cup {NoVersion}]

\* A version between the one a prepared transaction read and the transaction's
\* own timestamp is never committed: the range check and the pending-write
\* check of Store::Prepare, and the pending-read check of every later writer,
\* keep what was read valid until COMMIT or ABORT.
PreparedReadsStayValid ==
    \A t \in Txns, k \in Keys :
        LET p == store.prepared[t]
        IN  IsPrepared(store, t) /\ p.txn.reads[k] # NoVersion
              => \A w \in store.versions[k] : ~(p.txn.reads[k] < w /\ w < p.ts)

\* No two prepared transactions conflict in the timestamp order: a prepared
\* write never falls between what another prepared transaction read and that
\* transaction's timestamp, whichever of them Store::Prepare saw first.
PreparedDoNotConflict ==
    \A t, u \in Txns, k \in Keys :
        LET p == store.prepared[t]
            q == store.prepared[u]
        IN  /\ t # u /\ IsPrepared(store, t) /\ IsPrepared(store, u)
            /\ p.txn.reads[k] # NoVersion /\ k \in q.txn.writes
            => ~(p.txn.reads[k] < q.ts /\ q.ts < p.ts)

\* t is prepared, or the store committed it.
Accepted(t) == IsPrepared(store, t) \/ installed[t] # NoVersion

\* In linearizable mode no update is lost: two transactions that read the same
\* version of a key and overwrite it are never both prepared or committed.
NoLostUpdate ==
    Linearizable =>
        \A t, u \in Txns, k \in Keys :
            /\ t # u /\ Accepted(t) /\ Accepted(u)
            /\ k \in txns[t].writes \cap txns[u].writes
            /\ txns[t].reads[k] # NoVersion
            => txns[t].reads[k] # txns[u].reads[k]

\* A transaction whose client was told it committed has its writes in the
\* store.  Client::Prepare goes on to COMMIT when "all votes" are "YES".
CommittedWritesInstalled ==
    \A t \in Txns : status[t] = "committed" /\ txns[t].writes # {} => installed[t] # NoVersion

\* A transaction that the shard asks to retry at a later time is next proposed
\* no earlier than that time: Client::Prepare is to "collect any retry
\* timestamps".
RetryTimestampsCollected ==
    [][\A t \in Txns :
          status[t] = "preparing" /\ tries'[t] > tries[t] =>
              \A o \in Prepare(store, t, txns[t], proposed[t]) :
                  store' = o.store => proposed'[t] >= o.reply.ts]_vars

\* Every client that starts to commit gets its answer and its COMMIT or ABORT
\* is executed, however often the shards answer RETRY: COMMIT_RETRIES bounds
\* the loop.
EveryCommitEnds ==
    \A t \in Txns : status[t] = "preparing" ~> status[t] \in {"committed", "aborted"}
=============================================================================
