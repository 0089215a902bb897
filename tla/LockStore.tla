------------------------------ MODULE LockStore -----------------------------
(* The two-phase-locking store of strongstore (strongstore/lockstore.cc over  *)
(* common/backend/lockserver.cc and kvstore.cc), driven by transactional      *)
(* clients: Begin, Get, Put, Commit and Abort of strongstore/client.cc and    *)
(* the per-shard buffer of common/frontend/bufferclient.cc.                   *)
(*                                                                            *)
(* One shard, one server: the requests of different clients interleave and    *)
(* each is handled in one step.  A client may give up a Get (GetTimeout),     *)
(* which the server executes later or never, even after the transaction has   *)
(* ended; Prepare, Commit and Abort are resent by VRClient until they are     *)
(* answered.  A transaction may have participants other than this shard.      *)
EXTENDS LockOps, FiniteSets

CONSTANTS Keys,
          Loaded,           \* keys that Load put in the store
          CommitRetries,    \* COMMIT_RETRIES
          MaxLate,          \* bound: Gets given up and still under way
          NoValue, Initial  \* no value yet, and the value given by Load

ASSUME StoreAssumption == /\ Loaded \subseteq Keys
                          /\ CommitRetries \in Nat \ {0}
                          /\ NoValue \notin Requesters \cup {Initial}
                          /\ Initial \notin Requesters

Txns == Requesters          \* the lock server knows a transaction by its id
Values == Txns \cup {Initial}   \* a transaction writes its own id

NotPrepared == [reads |-> {}, writes |-> {}, held |-> FALSE]
Transaction == [reads : SUBSET Keys, writes : SUBSET Keys, held : BOOLEAN]

VARIABLES
    locks,      \* LockStore::locks
    store,      \* latest value of each key
    prepared,   \* LockStore::prepared, NotPrepared where there is no entry
    phase,      \* what the client of each transaction is doing
    readSet,    \* value returned by the client's successful Get of a key
    writeSet,   \* keys the client has buffered a Put for
    tries,      \* Prepare attempts made by Client::Commit
    lateGets    \* <<t, k>>: a Get under way that its client has given up

vars == << locks, store, prepared, phase, readSet, writeSet, tries, lateGets >>

Phases == {"active", "preparing", "committing", "aborting", "committed", "aborted"}

TypeOK == /\ locks \in [Keys -> Lock]
          /\ store \in [Keys -> Values \cup {NoValue}]
          /\ prepared \in [Txns -> Transaction]
          /\ phase \in [Txns -> Phases]
          /\ readSet \in [Txns -> [Keys -> Values \cup {NoValue}]]
          /\ writeSet \in [Txns -> SUBSET Keys]
          /\ tries \in [Txns -> 0..CommitRetries]
          /\ lateGets \subseteq Txns \X Keys

Init == /\ locks = [k \in Keys |-> NewLock]
        /\ store = [k \in Keys |-> IF k \in Loaded THEN Initial ELSE NoValue]
        /\ prepared = [t \in Txns |-> NotPrepared]
        /\ phase = [t \in Txns |-> "active"]
        /\ readSet = [t \in Txns |-> [k \in Keys |-> NoValue]]
        /\ writeSet = [t \in Txns |-> {}]
        /\ tries = [t \in Txns |-> 0]
        /\ lateGets = {}

ReadKeys(t) == {k \in Keys : readSet[t][k] # NoValue}

-----------------------------------------------------------------------------
(* The operations.                                                           *)

\* Mutant of Get: the value is returned whether or not the lock is granted.
GetUnlocked(t, k) ==
    /\ phase[t] = "active"
    /\ k \notin writeSet[t]
    /\ store[k] # NoValue
    /\ \E o \in lockForRead(locks[k], t) :
          /\ locks' = [locks EXCEPT ![k] = o.lock]
          /\ readSet' = IF readSet[t][k] = NoValue
                        THEN [readSet EXCEPT ![t][k] = store[k]]
                        ELSE readSet
    /\ UNCHANGED << store, prepared, phase, writeSet, tries, lateGets >>

\* Client::Get of a key the transaction has not written: LockStore::Get at the
\* server, then the reply.  A missing key fails without a lock.  A granted Get
\* enters the client's read set; a client that was told to retry may go on
\* with the transaction.
Get(t, k) ==
    /\ phase[t] = "active"
    /\ k \notin writeSet[t]
    /\ store[k] # NoValue
    /\ \E o \in lockForRead(locks[k], t) :
          /\ locks' = [locks EXCEPT ![k] = o.lock]
          /\ readSet' = IF o.granted /\ readSet[t][k] = NoValue
                        THEN [readSet EXCEPT ![t][k] = store[k]]
                        ELSE readSet
    /\ UNCHANGED << store, prepared, phase, writeSet, tries, lateGets >>

\* ShardClient::GetTimeout: the client goes on without an answer.
GetTimeout(t, k) ==
    /\ phase[t] = "active"
    /\ k \notin writeSet[t]
    /\ Cardinality(lateGets) < MaxLate
    /\ lateGets' = lateGets \cup {<<t, k>>}
    /\ UNCHANGED << locks, store, prepared, phase, readSet, writeSet, tries >>

\* LockStore::Get for a client that no longer waits for it: GetCallback is
\* not called, and the lock may be granted.
LateGet(t, k) ==
    /\ <<t, k>> \in lateGets
    /\ lateGets' = lateGets \ {<<t, k>>}
    /\ IF store[k] = NoValue
       THEN UNCHANGED locks
       ELSE \E o \in lockForRead(locks[k], t) : locks' = [locks EXCEPT ![k] = o.lock]
    /\ UNCHANGED << store, prepared, phase, readSet, writeSet, tries >>

\* Client::Put: buffered at the client.
Put(t, k) ==
    /\ phase[t] = "active"
    /\ writeSet' = [writeSet EXCEPT ![t] = @ \cup {k}]
    /\ UNCHANGED << locks, store, prepared, phase, readSet, tries, lateGets >>

\* getLocks on the entry of one key: the read lock if the key was read, then
\* the write lock if it is written; both are asked for whatever came before.
getReadLock(l, t, wanted) ==
    IF wanted THEN lockForRead(l, t) ELSE {Answer(l, TRUE, 0)}

getWriteLock(l, t, wanted) ==
    IF wanted THEN lockForWrite(l, t) ELSE {Answer(l, TRUE, 0)}

\* Mutant of getLock: the result of the write set's loop is lost.
getLockReads(t, k, reads, writes) ==
    UNION {{[lock |-> w.lock, ok |-> r.granted] :
                w \in getWriteLock(r.lock, t, k \in writes)} :
                r \in getReadLock(locks[k], t, k \in reads)}

getLock(t, k, reads, writes) ==
    UNION {{[lock |-> w.lock, ok |-> r.granted /\ w.granted] :
                w \in getWriteLock(r.lock, t, k \in writes)} :
                r \in getReadLock(locks[k], t, k \in reads)}

\* LockStore::getLocks: what it may find out for each key.
getLocks(t, reads, writes) ==
    {f \in [Keys -> UNION {getLock(t, k, reads, writes) : k \in Keys}] :
        \A k \in Keys : f[k] \in getLock(t, k, reads, writes)}

\* Mutant of NextTry: the attempts are not counted.
NextTryForever(t) == tries[t] < CommitRetries /\ UNCHANGED tries

\* The head of the retry loop of Client::Commit.
NextTry(t) ==
    /\ tries[t] < CommitRetries
    /\ tries' = [tries EXCEPT ![t] = @ + 1]

\* One round of Client::Prepare, called by Client::Commit up to CommitRetries
\* times until all the participants answer OK; others says whether the other
\* ones do (they may answer RETRY while this shard is prepared).
Prepare(t) ==
    /\ phase[t] \in {"active", "preparing"}
    /\ NextTry(t)
    /\ \E ok, others \in BOOLEAN :
          /\ IF prepared[t].held
             THEN ok /\ UNCHANGED << locks, prepared >>
             ELSE /\ \E f \in getLocks(t, ReadKeys(t), writeSet[t]) :
                        /\ ok = \A k \in Keys : f[k].ok
                        /\ locks' = [k \in Keys |-> f[k].lock]
                  /\ prepared' = IF ok
                                 THEN [prepared EXCEPT ![t] =
                                         [reads |-> ReadKeys(t), writes |-> writeSet[t],
                                          held |-> TRUE]]
                                 ELSE prepared
          /\ phase' = [phase EXCEPT ![t] =
                         IF ok /\ others THEN "committing"
                         ELSE IF tries'[t] = CommitRetries THEN "aborting"
                         ELSE "preparing"]
    /\ UNCHANGED << store, readSet, writeSet, lateGets >>

\* dropLocks on the entry of one key: the write lock first.
dropLock(t, k, reads, writes) ==
    LET w == IF k \in writes THEN releaseForWrite(locks[k], t) ELSE locks[k]
    IN  IF k \in reads THEN releaseForRead(w, t) ELSE w

\* Client::Commit after a successful Prepare, and LockStore::Commit.
Commit(t) ==
    /\ phase[t] = "committing"
    /\ store' = [k \in Keys |-> IF k \in prepared[t].writes THEN t ELSE store[k]]
    /\ locks' = [k \in Keys |-> dropLock(t, k, prepared[t].reads, prepared[t].writes)]
    /\ prepared' = [prepared EXCEPT ![t] = NotPrepared]
    /\ phase' = [phase EXCEPT ![t] = "committed"]
    /\ UNCHANGED << readSet, writeSet, tries, lateGets >>

\* What BufferClient::Abort sends along: a fresh Transaction().
AbortTransaction(t) == [reads |-> {}, writes |-> {}]

\* Client::Abort, by the application or after the last failed Prepare, and
\* LockStore::Abort with the transaction the client sent.
Abort(t) ==
    /\ phase[t] \in {"active", "aborting"}
    /\ locks' = [k \in Keys |-> dropLock(t, k, AbortTransaction(t).reads,
                                               AbortTransaction(t).writes)]
    /\ prepared' = [prepared EXCEPT ![t] = NotPrepared]
    /\ phase' = [phase EXCEPT ![t] = "aborted"]
    /\ UNCHANGED << store, readSet, writeSet, tries, lateGets >>

Next == \E t \in Txns :
            \/ \E k \in Keys : \/ Get(t, k) \/ GetTimeout(t, k) \/ LateGet(t, k)
                              \/ Put(t, k)
            \/ Prepare(t)
            \/ Commit(t)
            \/ Abort(t)

Spec == Init /\ [][Next]_vars

\* The application ends each transaction it began, and Client::Commit, once
\* called, runs to its end: VRClient resends each request until it is answered.
Fairness == \A t \in Txns : WF_vars(Prepare(t)) /\ WF_vars(Commit(t)) /\ WF_vars(Abort(t))

FairSpec == Spec /\ Fairness

-----------------------------------------------------------------------------
(* Properties.                                                               *)

Finished(t) == phase[t] \in {"committed", "aborted"}

\* First phase of two-phase locking: a prepared transaction holds, in the
\* right mode, the lock of every key it read or writes, until it ends.  It
\* got them over several Gets and Prepares, with other clients upgrading,
\* queueing and releasing in between.
PreparedHoldLocks ==
    \A t \in Txns : prepared[t].held =>
        /\ \A k \in prepared[t].reads : t \in ReadHolders(locks[k])
        /\ \A k \in prepared[t].writes : t \in WriteHolders(locks[k])

\* Two transactions prepared at the same time do not conflict: neither writes
\* a key the other read or writes.
PreparedConflictFree ==
    \A t, u \in Txns :
        t # u /\ prepared[t].held /\ prepared[u].held =>
            prepared[t].writes \cap (prepared[u].reads \cup prepared[u].writes) = {}

\* What a transaction read is still the current value of the key for as long
\* as it may commit: the value is returned together with a lock that keeps
\* writers away.  Commits are therefore serializable in commit order.
ReadsStayCurrent ==
    \A t \in Txns, k \in Keys :
        ~Finished(t) /\ readSet[t][k] # NoValue => store[k] = readSet[t][k]

\* Transactions that wait for each other do not wait for ever (two readers of
\* a key that both want to write it never get the lock): Client::Commit gives
\* up after CommitRetries attempts, so every transaction ends.
EveryTransactionEnds == \A t \in Txns : <>Finished(t)

\* Second phase of two-phase locking, on abort: lockstore.cc says of dropLocks
\* that it is "Used on commit and abort for second phase of 2PL", so that an
\* aborted transaction is left without locks.
AbortReleasesLocks ==
    \A t \in Txns, k \in Keys : phase[t] = "aborted" => t \notin locks[k].holders

\* ASSERT(waiters[requester].write == write) in Lock::tryAcquireLock: a
\* transaction admitted from the head of the queue of a free lock asks for the
\* mode it queued for.  (With entries left behind it, it was not pruned.)
AdmittedInQueuedMode ==
    [][\A k \in Keys, t \in Txns :
         LET old == locks[k]
             new == locks'[k]
         IN  /\ old.state = UNLOCKED /\ t \in new.holders
             /\ old.waiters[t] # NotWaiting /\ new.waitQ # << >>
             => (old.waiters[t] = Write <=> new.state = LOCKED_FOR_WRITE)]_vars
=============================================================================
