------------------------------ MODULE StoreOps ------------------------------
(* The optimistic concurrency control of a TAPIR replica, as operators on    *)
(* its store: class Store in tapirstore/store.cc over the multi-version      *)
(* store of common/backend/versionstore.cc.                                  *)
(*                                                                           *)
(* Timestamps are naturals.  The code orders (time, client) pairs, all       *)
(* distinct for distinct clients; 0 stands for Timestamp(), the version of   *)
(* the keys that were loaded before any transaction ran.                     *)
EXTENDS Integers, FiniteSets

CONSTANTS Keys, Txns,
          Linearizable      \* the server's -m mode: txn-l (TRUE) or txn-s (FALSE)

NoVersion == -1     \* the "version" of a key that was not read

\* The argument of PREPARE: the versions read and the keys written.
Transaction == [reads : [Keys -> Nat \cup {NoVersion}], writes : SUBSET Keys]
Nothing == [reads |-> [k \in Keys |-> NoVersion], writes |-> {}]

\* A store: the versions of each key, the map lastReads of the times at which
\* versions were last read by a committed transaction, and the prepared
\* transactions.  prepared[t].ts is NoVersion when t has no entry.
Prepared == [ts : Nat \cup {NoVersion}, txn : Transaction]

NotPrepared == [ts |-> NoVersion, txn |-> Nothing]
IsPrepared(s, t) == s.prepared[t].ts # NoVersion

\* GetPreparedWrites and GetPreparedReads for one key.
PreparedWrites(s, k) ==
    {s.prepared[t].ts : t \in {u \in Txns : IsPrepared(s, u) /\ k \in s.prepared[u].txn.writes}}
PreparedReads(s, k) ==
    {s.prepared[t].ts : t \in {u \in Txns : IsPrepared(s, u)
                                         /\ s.prepared[u].txn.reads[k] # NoVersion}}

\* v is the version VersionedKVStore::get returns: the latest one.
IsLatest(s, k, v) == v \in s.versions[k] /\ \A w \in s.versions[k] : w <= v

\* v is the version of k valid at time ts (VersionedKVStore::getValue).
IsValidAt(s, k, ts, v) ==
    v \in s.versions[k] /\ v <= ts /\ \A w \in s.versions[k] : w <= ts => w <= v

\* Mutant of ReadVerdict: no check that the version read is still valid.
ReadVerdictStale(s, k, v, ts) ==
    IF v \in s.versions[k] /\ IsLatest(s, k, v) /\ PreparedWrites(s, k) # {}
       /\ (Linearizable \/ \E w \in PreparedWrites(s, k) : w <= ts)
    THEN "ABSTAIN" ELSE "OK"

\* Mutant of ReadVerdict: no check of the pending writes of a current version.
ReadVerdictPending(s, k, v, ts) ==
    IF v \notin s.versions[k] \/ IsLatest(s, k, v)
    THEN "OK"
    ELSE IF Linearizable \/ \E w \in s.versions[k] : v < w /\ w < ts
    THEN "FAIL"
    ELSE IF \E w \in PreparedWrites(s, k) : v < w /\ w < ts
    THEN "ABSTAIN" ELSE "OK"

\* Mutant of ReadVerdict: no check of pending writes in the past of an
\* overwritten version.
ReadVerdictPast(s, k, v, ts) ==
    IF v \notin s.versions[k]
    THEN "OK"
    ELSE IF IsLatest(s, k, v)
    THEN IF PreparedWrites(s, k) # {}
            /\ (Linearizable \/ \E w \in PreparedWrites(s, k) : w <= ts)
         THEN "ABSTAIN" ELSE "OK"
    ELSE IF Linearizable \/ \E w \in s.versions[k] : v < w /\ w < ts
    THEN "FAIL" ELSE "OK"

\* The verdict of Store::Prepare on version v of one key of the read set.  A
\* version this replica does not have raises no conflict.  One that is no
\* longer the latest must still be valid at ts: no version follows it (the
\* end of getRange) before ts.
ReadVerdict(s, k, v, ts) ==
    IF v \notin s.versions[k]
    THEN "OK"
    ELSE IF IsLatest(s, k, v)
    THEN IF PreparedWrites(s, k) # {}
            /\ (Linearizable \/ \E w \in PreparedWrites(s, k) : w <= ts)
         THEN "ABSTAIN" ELSE "OK"
    ELSE IF Linearizable \/ \E w \in s.versions[k] : v < w /\ w < ts
    THEN "FAIL"
    ELSE IF \E w \in PreparedWrites(s, k) : v < w /\ w < ts
    THEN "ABSTAIN" ELSE "OK"

\* The times at which the version about to be overwritten was last read: of
\* the latest version when linearizable, of the version valid at ts otherwise.
LastRead(s, k, ts) ==
    {s.lastReads[k][v] : v \in {w \in s.versions[k] \cap DOMAIN s.lastReads[k] :
                                  IF Linearizable THEN IsLatest(s, k, w)
                                                  ELSE IsValidAt(s, k, ts, w)}}

\* The verdict of Store::Prepare on one key of the write set, and the
\* timestamps it may propose with a RETRY.
LaterWrites(s, k, ts) == {w \in PreparedWrites(s, k) : w > ts}

RetryAt(s, k, ts) ==
    IF Linearizable /\ \E v \in s.versions[k] : v > ts
    THEN {v \in s.versions[k] : IsLatest(s, k, v)}
    ELSE IF \E r \in LastRead(s, k, ts) : r > ts
    THEN {r \in LastRead(s, k, ts) : r > ts}
    ELSE IF Linearizable
    THEN {w \in LaterWrites(s, k, ts) : \A x \in LaterWrites(s, k, ts) : w <= x}
    ELSE {}

\* Mutant of WriteVerdict: no check of the pending reads.
WriteVerdictReads(s, k, ts) ==
    IF \/ Linearizable /\ \E v \in s.versions[k] : v > ts
       \/ \E r \in LastRead(s, k, ts) : r > ts
       \/ Linearizable /\ LaterWrites(s, k, ts) # {}
    THEN "RETRY" ELSE "OK"

WriteVerdict(s, k, ts) ==
    IF \/ Linearizable /\ \E v \in s.versions[k] : v > ts
       \/ \E r \in LastRead(s, k, ts) : r > ts
       \/ Linearizable /\ LaterWrites(s, k, ts) # {}
    THEN "RETRY"
    ELSE IF \E r \in PreparedReads(s, k) : r > ts THEN "ABSTAIN"
    ELSE "OK"

Reply(status, ts) == [status |-> status, ts |-> ts]

\* The possible replies of the OCC checks: the first conflict found in the
\* read set, else in the write set, else OK.  Both sets are hash maps, so any
\* of several conflicts may be the first one met.
Checks(s, txn, ts) ==
    LET badReads == {k \in Keys : /\ txn.reads[k] # NoVersion
                                  /\ ReadVerdict(s, k, txn.reads[k], ts) # "OK"}
        badWrites == {k \in txn.writes : WriteVerdict(s, k, ts) # "OK"}
    IN  IF badReads # {}
        THEN {Reply(ReadVerdict(s, k, txn.reads[k], ts), 0) : k \in badReads}
        ELSE IF badWrites # {}
        THEN UNION {IF WriteVerdict(s, k, ts) = "RETRY"
                    THEN {Reply("RETRY", p) : p \in RetryAt(s, k, ts)}
                    ELSE {Reply("ABSTAIN", 0)} : k \in badWrites}
        ELSE {Reply("OK", 0)}

WithPrepared(s, t, entry) ==
    [versions |-> s.versions, lastReads |-> s.lastReads,
     prepared |-> [s.prepared EXCEPT ![t] = entry]]

\* Mutant of Prepare: a transaction already prepared only moves to the new
\* timestamp, without new checks.
PrepareAgain(s, t, txn, ts) ==
    {[store |-> IF r.status = "OK" THEN WithPrepared(s, t, [ts |-> ts, txn |-> txn]) ELSE s,
      reply |-> r] : r \in IF IsPrepared(s, t) THEN {Reply("OK", 0)} ELSE Checks(s, txn, ts)}

\* Store::Prepare: the possible outcomes.  A transaction prepared at another
\* timestamp is first forgotten, so it stays forgotten if the checks fail.
Prepare(s, t, txn, ts) ==
    IF IsPrepared(s, t) /\ s.prepared[t].ts = ts
    THEN {[store |-> s, reply |-> Reply("OK", 0)]}
    ELSE LET base == WithPrepared(s, t, NotPrepared)
         IN  {[store |-> IF r.status = "OK"
                         THEN WithPrepared(base, t, [ts |-> ts, txn |-> txn])
                         ELSE base,
               reply |-> r] : r \in Checks(base, txn, ts)}

\* VersionedKVStore::commitGet for one key: raises the time of the last read
\* of the version read, if that version already has one.
commitGet(s, k, readTime, commit) ==
    [v \in DOMAIN s.lastReads[k] |->
        IF IsValidAt(s, k, readTime, v) /\ s.lastReads[k][v] < commit
        THEN commit ELSE s.lastReads[k][v]]

\* Mutant of Commit: installs the entry's timestamp on every key.
CommitAll(s, t) ==
    [versions |-> [k \in Keys |-> s.versions[k] \cup {s.prepared[t].ts}],
     lastReads |-> s.lastReads,
     prepared |-> [s.prepared EXCEPT ![t] = NotPrepared]]

\* Store::Commit: of the entry prepared under this id, which may be missing.
Commit(s, t) ==
    LET p == s.prepared[t]
    IN  [versions |-> [k \in Keys |-> IF k \in p.txn.writes THEN s.versions[k] \cup {p.ts}
                                      ELSE s.versions[k]],
         lastReads |-> [k \in Keys |-> commitGet(s, k, p.txn.reads[k], p.ts)],
         prepared |-> [s.prepared EXCEPT ![t] = NotPrepared]]

\* Store::Abort.
Abort(s, t) == WithPrepared(s, t, NotPrepared)
=============================================================================
