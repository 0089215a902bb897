-------------------------- MODULE TapirStoreProofs --------------------------
(* What Store::Prepare guarantees, for every set of keys, transactions and   *)
(* timestamps, in both modes, however late a PREPARE is executed.            *)
EXTENDS TapirStore, TLAPS

\* Every version read was in the store, and is not the reader's own.
ReadsExist ==
    \A t \in Txns, k \in Keys :
        txns[t].reads[k] # NoVersion =>
            txns[t].reads[k] \in store.versions[k] /\ txns[t].reads[k] \notin TsOf[t]

\* Versions come from the loader or from transactions that committed.
VersionsOwned ==
    \A k \in Keys : \A v \in store.versions[k] :
        v = 0 \/ \E u \in Txns : v \in TsOf[u] /\ status[u] = "committed"

\* An entry of prepared is what the client sent, at a timestamp it proposed.
EntriesSent ==
    \A t \in Txns :
        IF IsPrepared(store, t)
        THEN /\ store.prepared[t].ts \in TsOf[t]
             /\ store.prepared[t].txn = txns[t]
             /\ status[t] # "active"
        ELSE store.prepared[t] = NotPrepared

\* A PREPARE under way was sent by a client that has finished its reads.
RequestsSent ==
    \A t \in Txns : t \in pending \/ status[t] = "preparing" =>
        proposed[t] \in TsOf[t] /\ status[t] # "active"

\* What the store committed is in its versions.
InstalledVersions ==
    \A t \in Txns :
        installed[t] # NoVersion =>
            /\ status[t] = "committed"
            /\ \A k \in txns[t].writes : installed[t] \in store.versions[k]

\* In linearizable mode an accepted transaction overwrites only what it read
\* or something older.
WritesFollowReads ==
    Linearizable =>
        \A t \in Txns : \A k \in txns[t].writes :
            txns[t].reads[k] # NoVersion =>
                /\ IsPrepared(store, t) => txns[t].reads[k] < store.prepared[t].ts
                /\ installed[t] # NoVersion => txns[t].reads[k] < installed[t]

\* The inductive invariant.
IInv ==
    /\ TypeOK /\ ReadsExist /\ VersionsOwned /\ EntriesSent /\ RequestsSent
    /\ InstalledVersions /\ WritesFollowReads
    /\ PreparedReadsStayValid /\ PreparedDoNotConflict /\ NoLostUpdate
-----------------------------------------------------------------------------
PassesChecks(s, txn, ts) ==
    /\ \A k \in Keys : txn.reads[k] # NoVersion => ReadVerdict(s, k, txn.reads[k], ts) = "OK"
    /\ \A k \in txn.writes : WriteVerdict(s, k, ts) = "OK"

\* Store::Prepare leaves the versions alone, and adds an entry only if every
\* check passed with the transaction's own entry set aside.
LEMMA PrepareResult ==
    ASSUME NEW s, NEW t, NEW txn, NEW ts, NEW o \in Prepare(s, t, txn, ts)
    PROVE  /\ o.store.versions = s.versions
           /\ \/ o.store.prepared = s.prepared
              \/ o.store.prepared = [s.prepared EXCEPT ![t] = NotPrepared]
              \/ /\ o.store.prepared = [s.prepared EXCEPT ![t] = [ts |-> ts, txn |-> txn]]
                 /\ PassesChecks(WithPrepared(s, t, NotPrepared), txn, ts)
<1> DEFINE base == WithPrepared(s, t, NotPrepared)
           entry == [ts |-> ts, txn |-> txn]
           result(r) == IF r.status = "OK" THEN WithPrepared(base, t, entry) ELSE base
<1>1. CASE IsPrepared(s, t) /\ s.prepared[t].ts = ts
  BY <1>1 DEF Prepare
<1>2. CASE ~(IsPrepared(s, t) /\ s.prepared[t].ts = ts)
  <2>1. PICK r \in Checks(base, txn, ts) : o = [store |-> result(r), reply |-> r]
    BY <1>2, Zenon DEF Prepare
  <2>3. r.status = "OK" => PassesChecks(base, txn, ts)
    BY <2>1 DEF Checks, Reply, PassesChecks
  <2>4. base.versions = s.versions /\ base.prepared = [s.prepared EXCEPT ![t] = NotPrepared]
    BY Zenon DEF WithPrepared
  <2>5. WithPrepared(base, t, entry).versions = s.versions
    BY <2>4, Zenon DEF WithPrepared
  <2>6. WithPrepared(base, t, entry).prepared = [s.prepared EXCEPT ![t] = entry]
    <3>1. WithPrepared(base, t, entry).prepared = [base.prepared EXCEPT ![t] = entry]
      BY Zenon DEF WithPrepared
    <3> QED  BY <3>1, <2>4, Zenon
  <2> QED  BY <2>1, <2>3, <2>4, <2>5, <2>6, Zenon
<1> QED  BY <1>1, <1>2, Zenon

\* What the check of one read establishes.
LEMMA ReadPasses ==
    ASSUME NEW s, NEW k, NEW v \in Nat, NEW ts \in Nat,
           s.versions[k] \subseteq Nat, PreparedWrites(s, k) \subseteq Nat,
           v \in s.versions[k], ReadVerdict(s, k, v, ts) = "OK"
    PROVE  /\ \A w \in s.versions[k] : ~(v < w /\ w < ts)
           /\ \A w \in PreparedWrites(s, k) : ~(v < w /\ w < ts)
           /\ Linearizable => PreparedWrites(s, k) = {} /\ \A w \in s.versions[k] : w <= v
BY TapirAssumption DEF ReadVerdict, IsLatest

\* What the check of one write establishes.
LEMMA WritePasses ==
    ASSUME NEW s, NEW k, NEW ts \in Nat,
           s.versions[k] \subseteq Nat, PreparedReads(s, k) \subseteq Nat,
           WriteVerdict(s, k, ts) = "OK"
    PROVE  /\ \A r \in PreparedReads(s, k) : r <= ts
           /\ Linearizable => \A v \in s.versions[k] : v <= ts
BY TapirAssumption DEF WriteVerdict

\* NoLostUpdate for one pair of transactions that overwrite a key.
LEMMA NotBothAccepted ==
    ASSUME NoLostUpdate, Linearizable, NEW u \in Txns, NEW z \in Txns, NEW k \in Keys,
           u # z, Accepted(u), Accepted(z), k \in txns[u].writes \cap txns[z].writes,
           txns[u].reads[k] # NoVersion
    PROVE  txns[u].reads[k] # txns[z].reads[k]
BY DEF NoLostUpdate

-----------------------------------------------------------------------------
\* The order of timestamps.
LEMMA NotBefore == \A a, b \in Nat : a <= b => ~(b < a)
OBVIOUS

\* The loaded store satisfies the invariant.
LEMMA InitIInv == Init => IInv
<1> SUFFICES ASSUME Init PROVE IInv
  BY Zenon
<1> USE DEF Init
<1>1. Nothing \in Transaction
  BY Zenon DEF Nothing, Transaction, NoVersion
<1>2. TypeOK
  BY <1>1 DEF TypeOK, Prepared, NotPrepared, Status, NoVersion
<1>3. \A t \in Txns : ~IsPrepared(store, t) /\ store.prepared[t] = NotPrepared
  BY Zenon DEF IsPrepared, NotPrepared
<1>4. \A t \in Txns, k \in Keys : txns[t].reads[k] = NoVersion /\ txns[t].writes = {}
  BY Zenon DEF Nothing
<1>5. VersionsOwned
  BY Zenon DEF VersionsOwned
<1> QED
  BY <1>2, <1>3, <1>4, <1>5, Zenon
  DEF IInv, ReadsExist, EntriesSent, RequestsSent, InstalledVersions, WritesFollowReads,
      PreparedReadsStayValid, PreparedDoNotConflict, NoLostUpdate, Accepted

\* A client that goes from one step of Client::Commit to the next, without a
\* call to the store, preserves the invariant.
LEMMA ClientStep ==
    ASSUME IInv, NEW t \in Txns, UNCHANGED <<store, txns, installed>>,
           TypeOK', RequestsSent',
           status[t] \in {"active", "preparing"},
           NEW st \in {"preparing", "aborting"},
           status' = [status EXCEPT ![t] = st]
    PROVE  IInv'
<1> USE DEF IInv
<1>2. \A u \in Txns : /\ status[u] = "committed" => status'[u] = "committed"
                      /\ status[u] # "active" => status'[u] # "active"
  BY Zenon DEF TypeOK, Status
<1>3. \A u \in Txns : IsPrepared(store, u)' = IsPrepared(store, u)
  BY Zenon DEF IsPrepared
<1>4. ReadsExist' /\ VersionsOwned' /\ EntriesSent' /\ InstalledVersions'
  BY <1>2, <1>3 DEF ReadsExist, VersionsOwned, EntriesSent, InstalledVersions
<1>5. \A u \in Txns : Accepted(u)' = Accepted(u)
  BY <1>3, Zenon DEF Accepted
<1>6. WritesFollowReads'
  BY <1>5, Zenon DEF WritesFollowReads
<1>7. PreparedReadsStayValid'
  BY <1>3, Zenon DEF PreparedReadsStayValid
<1>8. PreparedDoNotConflict'
  BY <1>3, Zenon DEF PreparedDoNotConflict
<1>9. NoLostUpdate'
  BY <1>5, ZenonT(30) DEF NoLostUpdate
<1> QED  BY <1>4, <1>6, <1>7, <1>8, <1>9, Zenon

\* A read or a write buffered by an active client preserves the invariant: the
\* store knows nothing of the transaction yet.
LEMMA BufferStep ==
    ASSUME IInv, NEW t \in Txns, status[t] = "active",
           UNCHANGED <<store, status, pending, proposed, tries, installed>>,
           NEW txn \in Transaction, txns' = [txns EXCEPT ![t] = txn],
           \A k \in Keys : txn.reads[k] # NoVersion =>
               txn.reads[k] \in store.versions[k] /\ txn.reads[k] \notin TsOf[t]
    PROVE  IInv'
<1> USE DEF IInv
<1>1. TypeOK'
  BY Zenon DEF TypeOK
<1>2. ~IsPrepared(store, t) /\ installed[t] = NoVersion
  BY Zenon DEF EntriesSent, InstalledVersions
<1>3. \A u \in Txns : IsPrepared(store, u)' = IsPrepared(store, u)
  BY Zenon DEF IsPrepared
<1>4. \A u \in Txns : u # t => txns'[u] = txns[u]
  BY Zenon DEF TypeOK
<1>5. txns'[t] = txn
  BY Zenon DEF TypeOK
<1>6. ReadsExist'
  BY <1>4, <1>5, ZenonT(30) DEF ReadsExist
<1>7. VersionsOwned' /\ EntriesSent' /\ InstalledVersions' /\ RequestsSent'
  BY <1>2, <1>3, <1>4, ZenonT(30) DEF VersionsOwned, EntriesSent, InstalledVersions, RequestsSent
<1>8. PreparedReadsStayValid' /\ PreparedDoNotConflict'
  BY <1>3, Zenon DEF PreparedReadsStayValid, PreparedDoNotConflict
<1>9. WritesFollowReads'
  BY <1>2, <1>3, <1>4, Zenon DEF WritesFollowReads
<1>10. NoLostUpdate'
  BY <1>2, <1>3, <1>4 DEF NoLostUpdate, Accepted
<1> QED  BY <1>1, <1>6, <1>7, <1>8, <1>9, <1>10, Zenon

\* Client::Get preserves the invariant: the version read was not written by
\* the reader, which has not committed.
LEMMA GetPreserves ==
    ASSUME IInv, NEW t \in Txns, NEW k \in Keys, Get(t, k)
    PROVE  IInv'
<1>1. PICK v \in store.versions[k] : txns' = [txns EXCEPT ![t].reads[k] = v]
  BY Zenon DEF Get
<1> DEFINE txn == [txns[t] EXCEPT !.reads[k] = v]
<1>2. txns[t] \in Transaction /\ v \in Nat
  BY Zenon DEF IInv, TypeOK
<1>3. txn \in Transaction
  BY <1>2, Zenon DEF Transaction
<1>4. txns' = [txns EXCEPT ![t] = txn]
  BY <1>1, <1>2, Zenon DEF IInv, TypeOK, Transaction
<1>5. v \notin TsOf[t]
  BY TapirAssumption DEF Get, IInv, VersionsOwned
<1>6. txn.reads[k] = v /\ \A l \in Keys : l # k => txn.reads[l] = txns[t].reads[l]
  BY <1>2, Zenon DEF Transaction
<1>7. \A l \in Keys : txn.reads[l] # NoVersion =>
               txn.reads[l] \in store.versions[l] /\ txn.reads[l] \notin TsOf[t]
  BY <1>5, <1>6, Zenon DEF IInv, ReadsExist
<1> HIDE DEF txn
<1> QED  BY <1>3, <1>4, <1>7, BufferStep, Zenon DEF Get

\* Client::Put preserves the invariant.
LEMMA PutPreserves ==
    ASSUME IInv, NEW t \in Txns, NEW k \in Keys, Put(t, k)
    PROVE  IInv'
<1> DEFINE txn == [txns[t] EXCEPT !.writes = @ \cup {k}]
<1>1. txns[t] \in Transaction
  BY Zenon DEF IInv, TypeOK
<1>2. txn \in Transaction /\ txn.reads = txns[t].reads
  BY <1>1, Zenon DEF Transaction
<1>3. txns' = [txns EXCEPT ![t] = txn]
  BY Zenon DEF Put, IInv, TypeOK
<1>4. \A l \in Keys : txn.reads[l] # NoVersion =>
               txn.reads[l] \in store.versions[l] /\ txn.reads[l] \notin TsOf[t]
  BY <1>2, Zenon DEF IInv, ReadsExist
<1> HIDE DEF txn
<1> QED  BY <1>2, <1>3, <1>4, BufferStep, Zenon DEF Put

-----------------------------------------------------------------------------
\* Dropping an entry of prepared, or none, preserves the invariant.
LEMMA EraseStep ==
    ASSUME IInv, TypeOK', NEW t \in Txns,
           store'.versions = store.versions,
           \/ store'.prepared = store.prepared
           \/ store'.prepared = [store.prepared EXCEPT ![t] = NotPrepared],
           UNCHANGED <<txns, installed>>, RequestsSent',
           \A u \in Txns : /\ status[u] = "committed" => status'[u] = "committed"
                           /\ status[u] # "active" => status'[u] # "active"
    PROVE  IInv'
<1> USE DEF IInv
<1>1. \A u \in Txns : \/ store'.prepared[u] = store.prepared[u]
                      \/ store'.prepared[u] = NotPrepared
  BY Zenon DEF TypeOK
<1>2. \A u \in Txns : store'.prepared[u] = NotPrepared => ~IsPrepared(store, u)'
  BY DEF IsPrepared, NotPrepared
<1>3. \A u \in Txns : IsPrepared(store, u)' =>
                          IsPrepared(store, u) /\ store'.prepared[u] = store.prepared[u]
  BY <1>1, <1>2, Zenon DEF IsPrepared
<1>4. ReadsExist' /\ VersionsOwned' /\ InstalledVersions'
  BY Zenon DEF ReadsExist, VersionsOwned, InstalledVersions
<1>5. EntriesSent'
  <2> SUFFICES ASSUME NEW u \in Txns
               PROVE IF IsPrepared(store, u)'
                     THEN /\ store'.prepared[u].ts \in TsOf[u]
                          /\ store'.prepared[u].txn = txns'[u]
                          /\ status'[u] # "active"
                     ELSE store'.prepared[u] = NotPrepared
    BY Zenon DEF EntriesSent
  <2>1. CASE IsPrepared(store, u)'
    BY <2>1, <1>3, Zenon DEF EntriesSent
  <2>2. CASE ~IsPrepared(store, u)'
    BY <2>2, <1>1, Zenon DEF EntriesSent, IsPrepared
  <2> QED  BY <2>1, <2>2, Zenon
<1>6. PreparedReadsStayValid' /\ PreparedDoNotConflict'
  BY <1>3, ZenonT(30) DEF PreparedReadsStayValid, PreparedDoNotConflict
<1>7. WritesFollowReads' /\ NoLostUpdate'
  <2>1. \A u \in Txns : Accepted(u)' => Accepted(u)
    BY <1>3, Zenon DEF Accepted
  <2>2. WritesFollowReads'
    BY <1>3, ZenonT(30) DEF WritesFollowReads
  <2>3. NoLostUpdate'
    BY <2>1, SMTT(30) DEF NoLostUpdate
  <2> QED  BY <2>2, <2>3, Zenon
<1> QED  BY <1>4, <1>5, <1>6, <1>7, Zenon

\* Adding an entry that passed the checks preserves the invariant.
LEMMA AcceptStep ==
    ASSUME IInv, TypeOK', NEW t \in Txns, NEW ts \in TsOf[t], status[t] # "active",
           store'.versions = store.versions,
           store'.prepared = [store.prepared EXCEPT ![t] = [ts |-> ts, txn |-> txns[t]]],
           PassesChecks(WithPrepared(store, t, NotPrepared), txns[t], ts),
           UNCHANGED <<txns, installed>>, RequestsSent',
           \A u \in Txns : /\ status[u] = "committed" => status'[u] = "committed"
                           /\ status[u] # "active" => status'[u] # "active"
    PROVE  IInv'
<1> DEFINE base == WithPrepared(store, t, NotPrepared)
<1> USE DEF IInv
<1>1. ts \in Nat /\ txns[t] \in Transaction
  BY TapirAssumption, Zenon DEF TypeOK
<1>2. base.versions = store.versions /\ base.prepared[t] = NotPrepared
      /\ \A u \in Txns : u # t => base.prepared[u] = store.prepared[u]
  BY Zenon DEF WithPrepared, TypeOK
<1>3. store'.prepared[t] = [ts |-> ts, txn |-> txns[t]]
      /\ \A u \in Txns : u # t => store'.prepared[u] = store.prepared[u]
  BY Zenon DEF TypeOK
<1>4. IsPrepared(store, t)' /\ \A u \in Txns : u # t => IsPrepared(store, u)' = IsPrepared(store, u)
  BY <1>1, <1>3 DEF IsPrepared, NoVersion
<1>5. \A u \in Txns : \A k \in store.prepared[u].txn.writes :
          u # t /\ IsPrepared(store, u) => store.prepared[u].ts \in PreparedWrites(base, k)
  BY <1>2, ZenonT(30) DEF PreparedWrites, IsPrepared
<1>6. \A u \in Txns, k \in Keys :
          u # t /\ IsPrepared(store, u) /\ store.prepared[u].txn.reads[k] # NoVersion
            => store.prepared[u].ts \in PreparedReads(base, k)
  <2> SUFFICES ASSUME NEW u \in Txns, NEW k \in Keys, u # t, IsPrepared(store, u),
                      store.prepared[u].txn.reads[k] # NoVersion
               PROVE  store.prepared[u].ts \in PreparedReads(base, k)
    BY Zenon
  <2>1. base.prepared[u] = store.prepared[u]
    BY <1>2, Zenon
  <2> HIDE DEF base
  <2>2. IsPrepared(base, u) /\ base.prepared[u].txn.reads[k] # NoVersion
    BY <2>1, Zenon DEF IsPrepared
  <2> QED  BY <2>1, <2>2, Zenon DEF PreparedReads
<1>7. \A k \in Keys : /\ PreparedWrites(base, k) \subseteq Nat
                      /\ PreparedReads(base, k) \subseteq Nat
                      /\ base.versions[k] \subseteq Nat
  <2>1. ASSUME NEW u \in Txns, IsPrepared(base, u) PROVE base.prepared[u].ts \in Nat
    <3> HIDE DEF base
    <3>1. base.prepared[u].ts # NoVersion
      BY <2>1, Zenon DEF IsPrepared
    <3>2. u # t
      BY <3>1, <1>2 DEF NotPrepared
    <3>3. base.prepared[u] = store.prepared[u] /\ store.prepared[u] \in Prepared
      BY <3>2, <1>2, Zenon DEF TypeOK
    <3> QED  BY <3>1, <3>3, Zenon DEF Prepared
  <2> HIDE DEF base
  <2>2. \A k \in Keys : base.versions[k] \subseteq Nat
    BY <1>2, Zenon DEF TypeOK
  <2> QED  BY <2>1, <2>2, ZenonT(30) DEF PreparedWrites, PreparedReads
<1>8. \A k \in Keys : txns[t].reads[k] # NoVersion =>
          /\ txns[t].reads[k] \in Nat
          /\ \A w \in store.versions[k] : ~(txns[t].reads[k] < w /\ w < ts)
          /\ \A w \in PreparedWrites(base, k) : ~(txns[t].reads[k] < w /\ w < ts)
          /\ Linearizable => /\ PreparedWrites(base, k) = {}
                             /\ \A w \in store.versions[k] : w <= txns[t].reads[k]
  <2> SUFFICES ASSUME NEW k \in Keys, txns[t].reads[k] # NoVersion
               PROVE  /\ txns[t].reads[k] \in Nat
                      /\ \A w \in base.versions[k] : ~(txns[t].reads[k] < w /\ w < ts)
                      /\ \A w \in PreparedWrites(base, k) : ~(txns[t].reads[k] < w /\ w < ts)
                      /\ Linearizable => /\ PreparedWrites(base, k) = {}
                                         /\ \A w \in base.versions[k] : w <= txns[t].reads[k]
    BY <1>2, Zenon
  <2>1. txns[t].reads[k] \in Nat /\ txns[t].reads[k] \in base.versions[k]
    BY <1>1, <1>2, Zenon DEF Transaction, ReadsExist
  <2>2. ReadVerdict(base, k, txns[t].reads[k], ts) = "OK"
    BY Zenon DEF PassesChecks
  <2> HIDE DEF base
  <2> QED  BY <1>1, <1>7, <2>1, <2>2, ReadPasses, Zenon
<1>9. \A k \in txns[t].writes : /\ \A r \in PreparedReads(base, k) : r <= ts
                                /\ Linearizable => \A v \in store.versions[k] : v <= ts
  <2> SUFFICES ASSUME NEW k \in txns[t].writes
               PROVE  /\ \A r \in PreparedReads(base, k) : r <= ts
                      /\ Linearizable => \A v \in base.versions[k] : v <= ts
    BY <1>2, Zenon
  <2>1. k \in Keys /\ WriteVerdict(base, k, ts) = "OK"
    BY <1>1, Zenon DEF PassesChecks, Transaction
  <2> HIDE DEF base
  <2> QED  BY <1>1, <1>7, <2>1, WritePasses, Zenon
<1> HIDE DEF base
<1>entry. store'.prepared[t].ts = ts /\ store'.prepared[t].txn = txns[t]
  BY <1>3
<1>10. ReadsExist' /\ VersionsOwned' /\ InstalledVersions'
  BY Zenon DEF ReadsExist, VersionsOwned, InstalledVersions
<1>11. EntriesSent'
  <2> SUFFICES ASSUME NEW u \in Txns
               PROVE IF IsPrepared(store, u)'
                     THEN /\ store'.prepared[u].ts \in TsOf[u]
                          /\ store'.prepared[u].txn = txns'[u]
                          /\ status'[u] # "active"
                     ELSE store'.prepared[u] = NotPrepared
    BY Zenon DEF EntriesSent
  <2>1. CASE u = t
    BY <2>1, <1>3, <1>4, SMTT(30)
  <2>2. CASE u # t
    <3>1. store'.prepared[u] = store.prepared[u] /\ IsPrepared(store, u)' = IsPrepared(store, u)
      BY <2>2, <1>3, <1>4, Zenon
    <3> QED  BY <3>1, Zenon DEF EntriesSent
  <2> QED  BY <2>1, <2>2, Zenon
<1>12. PreparedReadsStayValid'
  <2> SUFFICES ASSUME NEW u \in Txns, NEW k \in Keys, IsPrepared(store, u)',
                      store'.prepared[u].txn.reads[k] # NoVersion,
                      NEW w \in store.versions[k]
               PROVE  ~(store'.prepared[u].txn.reads[k] < w /\ w < store'.prepared[u].ts)
    BY Zenon DEF PreparedReadsStayValid
  <2>1. CASE u = t
    <3>1. store'.prepared[u].ts = ts /\ store'.prepared[u].txn = txns[t]
      BY <2>1, <1>entry, Zenon
    <3>2. ~(txns[t].reads[k] < w /\ w < ts)
      BY <3>1, <1>8, Zenon
    <3> QED  BY <3>1, <3>2, Zenon
  <2>2. CASE u # t
    <3>1. store'.prepared[u] = store.prepared[u] /\ IsPrepared(store, u)
      BY <2>2, <1>3, <1>4, Zenon
    <3> QED  BY <3>1, Zenon DEF PreparedReadsStayValid
  <2> QED  BY <2>1, <2>2, Zenon
<1>13. PreparedDoNotConflict'
  <2> SUFFICES ASSUME NEW u \in Txns, NEW z \in Txns, NEW k \in Keys, u # z,
                      IsPrepared(store, u)', IsPrepared(store, z)',
                      store'.prepared[u].txn.reads[k] # NoVersion,
                      k \in store'.prepared[z].txn.writes
               PROVE  ~(/\ store'.prepared[u].txn.reads[k] < store'.prepared[z].ts
                        /\ store'.prepared[z].ts < store'.prepared[u].ts)
    BY Zenon DEF PreparedDoNotConflict
  <2>1. CASE u = t
    <3>1. store.prepared[z].ts \in PreparedWrites(base, k)
      BY <2>1, <1>3, <1>4, <1>5, Zenon
    <3>2. /\ store'.prepared[u].ts = ts /\ store'.prepared[u].txn = txns[t]
          /\ store'.prepared[z].ts = store.prepared[z].ts
      <4>1. z # t
        BY <2>1, Zenon
      <4>2. store'.prepared[z] = store.prepared[z]
        BY <4>1, <1>3, Zenon
      <4> QED  BY <2>1, <1>entry, <4>2, Zenon
    <3>3. ~(txns[t].reads[k] < store.prepared[z].ts /\ store.prepared[z].ts < ts)
      BY <3>1, <3>2, <1>8, Zenon
    <3> QED  BY <3>2, <3>3, Zenon
  <2>2. CASE z = t
    <3>1. store.prepared[u].ts \in PreparedReads(base, k)
      BY <2>2, <1>3, <1>4, <1>6, Zenon
    <3>2. /\ store'.prepared[z].ts = ts /\ store'.prepared[z].txn = txns[t]
          /\ store'.prepared[u].ts = store.prepared[u].ts
      <4>1. u # t
        BY <2>2, Zenon
      <4>2. store'.prepared[u] = store.prepared[u]
        BY <4>1, <1>3, Zenon
      <4> QED  BY <2>2, <1>entry, <4>2, Zenon
    <3>3. store.prepared[u].ts <= ts
      BY <3>1, <3>2, <1>9, Zenon
    <3>4. store.prepared[u].ts \in Nat
      BY <3>1, <1>7, Zenon
    <3>5. ~(ts < store.prepared[u].ts)
      BY <3>3, <3>4, <1>1, NotBefore, Zenon
    <3> QED  BY <3>2, <3>5, Zenon
  <2>3. CASE u # t /\ z # t
    <3>1. /\ store'.prepared[u] = store.prepared[u] /\ IsPrepared(store, u)
          /\ store'.prepared[z] = store.prepared[z] /\ IsPrepared(store, z)
      BY <2>3, <1>3, <1>4, Zenon
    <3> QED  BY <3>1, Zenon DEF PreparedDoNotConflict
  <2> QED  BY <2>1, <2>2, <2>3, Zenon
<1>14. WritesFollowReads'
  <2> SUFFICES ASSUME Linearizable, NEW u \in Txns, NEW k \in txns[u].writes,
                      txns[u].reads[k] # NoVersion
               PROVE  /\ IsPrepared(store, u)' => txns[u].reads[k] < store'.prepared[u].ts
                      /\ installed[u] # NoVersion => txns[u].reads[k] < installed[u]
    BY Zenon DEF WritesFollowReads
  <2>1. CASE u = t
    <3>1. k \in Keys
      BY <2>1, <1>1, Zenon DEF Transaction
    <3>2. txns[t].reads[k] \in store.versions[k] /\ txns[t].reads[k] # ts
      BY <2>1, <3>1, SMTT(30) DEF ReadsExist
    <3>3. txns[t].reads[k] <= ts /\ txns[t].reads[k] \in Nat
      BY <2>1, <3>1, <3>2, <1>8, <1>9, Zenon
    <3>4. txns[t].reads[k] < ts
      BY <3>2, <3>3, <1>1, SMTT(30)
    <3> QED  BY <2>1, <3>4, <1>entry, Zenon DEF WritesFollowReads
  <2>2. CASE u # t
    BY <2>2, <1>3, <1>4, Zenon DEF WritesFollowReads
  <2> QED  BY <2>1, <2>2, Zenon
<1>15. NoLostUpdate'
  <2>1. ASSUME Linearizable, NEW u \in Txns, u # t, Accepted(u), NEW k \in Keys,
               k \in txns[t].writes \cap txns[u].writes, txns[t].reads[k] # NoVersion,
               txns[t].reads[k] = txns[u].reads[k]
        PROVE  FALSE
    <3>1. CASE IsPrepared(store, u)
      BY <2>1, <3>1, <1>5, <1>8, Zenon DEF EntriesSent
    <3>2. CASE installed[u] # NoVersion
      <4>1. installed[u] \in store.versions[k] /\ txns[u].reads[k] < installed[u]
        BY <2>1, <3>2, Zenon DEF InstalledVersions, WritesFollowReads
      <4>2. installed[u] <= txns[t].reads[k] /\ txns[t].reads[k] \in Nat
        BY <2>1, <4>1, <1>8, Zenon
      <4>3. installed[u] \in Nat
        BY <4>1, <1>2, <1>7, Zenon
      <4>4. txns[t].reads[k] < installed[u]
        BY <2>1, <4>1, Zenon
      <4> QED  BY <4>2, <4>3, <4>4, NotBefore, Zenon
    <3> QED  BY <2>1, <3>1, <3>2, Zenon DEF Accepted
  <2>2. \A u \in Txns : u # t => Accepted(u)' = Accepted(u)
    BY <1>4, Zenon DEF Accepted
  <2> SUFFICES ASSUME Linearizable, NEW u \in Txns, NEW z \in Txns, NEW k \in Keys, u # z,
                      Accepted(u)', Accepted(z)', k \in txns[u].writes \cap txns[z].writes,
                      txns[u].reads[k] # NoVersion, txns[u].reads[k] = txns[z].reads[k]
               PROVE  FALSE
    BY Zenon DEF NoLostUpdate
  <2>3. CASE u = t
    BY <2>1, <2>2, <2>3, Zenon
  <2>4. CASE z = t
    BY <2>1, <2>2, <2>4, Zenon
  <2>5. CASE u # t /\ z # t
    <3>1. Accepted(u) /\ Accepted(z)
      BY <2>2, <2>5, Zenon
    <3>2. txns[u].reads[k] # txns[z].reads[k]
      BY <3>1, NotBothAccepted, SMTT(30)
    <3> QED  BY <3>2, Zenon
  <2> QED  BY <2>3, <2>4, <2>5, Zenon
<1> QED  BY <1>10, <1>11, <1>12, <1>13, <1>14, <1>15, Zenon

\* Store::Prepare preserves the invariant, whatever the client does next, and
\* even when it is executed after the client's ABORT.
LEMMA PrepareStep ==
    ASSUME IInv, NEW t \in Txns, t \in pending \/ status[t] = "preparing",
           NEW o \in Prepare(store, t, txns[t], proposed[t]), store' = o.store,
           status' \in [Txns -> Status], pending' \subseteq Txns,
           proposed' \in [Txns -> Nat], tries' \in [Txns -> Nat],
           UNCHANGED <<txns, installed>>, RequestsSent',
           \A u \in Txns : /\ status[u] = "committed" => status'[u] = "committed"
                           /\ status[u] # "active" => status'[u] # "active"
    PROVE  IInv'
<1> USE DEF IInv
<1>1. proposed[t] \in TsOf[t] /\ status[t] # "active" /\ proposed[t] \in Nat
  BY Zenon DEF TypeOK, RequestsSent
<1> DEFINE entry == [ts |-> proposed[t], txn |-> txns[t]]
<1>2. /\ store'.versions = store.versions
      /\ \/ store'.prepared = store.prepared
         \/ store'.prepared = [store.prepared EXCEPT ![t] = NotPrepared]
         \/ /\ store'.prepared = [store.prepared EXCEPT ![t] = entry]
            /\ PassesChecks(WithPrepared(store, t, NotPrepared), txns[t], proposed[t])
  <2>1. /\ o.store.versions = store.versions
        /\ \/ o.store.prepared = store.prepared
           \/ o.store.prepared = [store.prepared EXCEPT ![t] = NotPrepared]
           \/ /\ o.store.prepared = [store.prepared EXCEPT ![t] = entry]
              /\ PassesChecks(WithPrepared(store, t, NotPrepared), txns[t], proposed[t])
    BY PrepareResult, ZenonT(30)
  <2> QED  BY <2>1, Zenon
<1>3. TypeOK'
  <2>1. entry \in Prepared /\ NotPrepared \in Prepared
    BY <1>1, Zenon DEF TypeOK, Prepared, NotPrepared, Nothing, Transaction, NoVersion
  <2> HIDE DEF entry
  <2>2. store'.prepared \in [Txns -> Prepared]
    BY <1>2, <2>1, ZenonT(30) DEF TypeOK
  <2> QED  BY <1>2, <2>2, Zenon DEF TypeOK
<1>4. CASE \/ store'.prepared = store.prepared
           \/ store'.prepared = [store.prepared EXCEPT ![t] = NotPrepared]
  BY <1>2, <1>3, <1>4, EraseStep, Zenon
<1>5. CASE /\ store'.prepared = [store.prepared EXCEPT ![t] = entry]
           /\ PassesChecks(WithPrepared(store, t, NotPrepared), txns[t], proposed[t])
  BY <1>1, <1>2, <1>3, <1>5, AcceptStep, Zenon
<1> QED  BY <1>2, <1>4, <1>5, Zenon

\* Sending a PREPARE keeps the types, and concerns one transaction.
LEMMA SendPrepareTypes ==
    ASSUME TypeOK, NEW t \in Txns, NEW now \in TsOf[t], SendPrepare(t, now)
    PROVE  /\ status' \in [Txns -> Status] /\ pending' \subseteq Txns
           /\ proposed' \in [Txns -> Nat] /\ tries' \in [Txns -> Nat]
           /\ status'[t] = "preparing" /\ proposed'[t] = now
           /\ \A u \in Txns : u # t => /\ status'[u] = status[u] /\ proposed'[u] = proposed[u]
                                       /\ u \in pending' <=> u \in pending
<1>1. /\ status \in [Txns -> Status] /\ pending \subseteq Txns
      /\ proposed \in [Txns -> Nat] /\ tries \in [Txns -> Nat]
  BY Zenon DEF TypeOK
<1>2. now \in Nat
  BY TapirAssumption, Zenon
<1>3. /\ status' = [status EXCEPT ![t] = "preparing"] /\ pending' = pending \cup {t}
      /\ proposed' = [proposed EXCEPT ![t] = now] /\ tries' = [tries EXCEPT ![t] = @ + 1]
  BY Zenon DEF SendPrepare
<1>4. /\ status' \in [Txns -> Status] /\ status'[t] = "preparing"
      /\ \A u \in Txns : u # t => status'[u] = status[u]
  BY <1>1, <1>3, Zenon DEF Status
<1>5. /\ proposed' \in [Txns -> Nat] /\ proposed'[t] = now
      /\ \A u \in Txns : u # t => proposed'[u] = proposed[u]
  BY <1>1, <1>2, <1>3, Zenon
<1>6. tries' \in [Txns -> Nat]
  BY <1>1, <1>3
<1>7. pending' \subseteq Txns /\ \A u \in Txns : u # t => (u \in pending' <=> u \in pending)
  BY <1>1, <1>3, Zenon
<1> QED  BY <1>4, <1>5, <1>6, <1>7, Zenon

\* A PREPARE answered to its client preserves the invariant, and so does one
\* that nobody waits for.
LEMMA PreparePreserves ==
    ASSUME IInv, NEW t \in Txns,
           (\E now \in TsOf[t] : ExecPrepare(t, now)) \/ ExecLatePrepare(t)
    PROVE  IInv'
<1> USE DEF IInv
<1>1. ASSUME NEW now \in TsOf[t], ExecPrepare(t, now)
      PROVE  IInv'
  <2>1. PICK o \in Prepare(store, t, txns[t], proposed[t]) :
            store' = o.store /\ \E outcome : React(t, outcome, now)
    BY <1>1, Zenon DEF ExecPrepare
  <2>2. status[t] = "preparing" /\ UNCHANGED <<txns, installed>> /\ now \in Nat
    BY <1>1, TapirAssumption, Zenon DEF ExecPrepare
  <2>3. /\ status' \in [Txns -> Status] /\ pending' \subseteq Txns
        /\ proposed' \in [Txns -> Nat] /\ tries' \in [Txns -> Nat]
    <3>1. PICK outcome : React(t, outcome, now)
      BY <2>1, Zenon
    <3>2. CASE SendPrepare(t, now)
      BY <2>2, <3>2, SendPrepareTypes, Zenon
    <3>3. CASE /\ \E st \in {"committing", "aborting"} : status' = [status EXCEPT ![t] = st]
               /\ pending' = pending \ {t} /\ UNCHANGED <<proposed, tries>>
      BY <3>3, Zenon DEF TypeOK, Status
    <3> QED  BY <3>1, <3>2, <3>3, Zenon DEF React
  <2>4. /\ status'[t] # "active" /\ \A u \in Txns : u # t => status'[u] = status[u]
    BY <2>1, <2>2, Zenon DEF React, SendPrepare, TypeOK, Status
  <2>5. RequestsSent'
    <3>1. CASE status'[t] = "preparing" /\ proposed'[t] \in TsOf[t]
               /\ (pending' = pending \cup {t})
               /\ \A u \in Txns : u # t => proposed'[u] = proposed[u]
      BY <3>1, <2>4, Zenon DEF RequestsSent
    <3>2. CASE status'[t] # "preparing" /\ pending' = pending \ {t} /\ proposed' = proposed
      BY <3>2, <2>4, Zenon DEF RequestsSent
    <3> QED  BY <3>1, <3>2, <2>1, <2>2, Zenon DEF React, SendPrepare, TypeOK
  <2>6. \A u \in Txns : /\ status[u] = "committed" => status'[u] = "committed"
                        /\ status[u] # "active" => status'[u] # "active"
    BY <2>2, <2>4, Zenon
  <2> QED  BY <2>1, <2>2, <2>3, <2>5, <2>6, PrepareStep, Zenon
<1>2. ASSUME ExecLatePrepare(t)
      PROVE  IInv'
  <2>1. PICK o \in Prepare(store, t, txns[t], proposed[t]) : store' = o.store
    BY <1>2, Zenon DEF ExecLatePrepare
  <2>2. t \in pending /\ pending' = pending \ {t}
        /\ UNCHANGED <<txns, status, proposed, tries, installed>>
    BY <1>2, Zenon DEF ExecLatePrepare
  <2>3. RequestsSent' /\ pending' \subseteq Txns
    BY <2>2, Zenon DEF RequestsSent, TypeOK
  <2> QED  BY <2>1, <2>2, <2>3, PrepareStep, Zenon DEF TypeOK
<1> QED  BY <1>1, <1>2, Zenon

\* Store::Abort preserves the invariant.
LEMMA AbortPreserves ==
    ASSUME IInv, NEW t \in Txns, ExecAbort(t)
    PROVE  IInv'
<1> USE DEF IInv, ExecAbort
<1>1. store'.versions = store.versions
      /\ store'.prepared = [store.prepared EXCEPT ![t] = NotPrepared]
  BY Zenon DEF Abort, WithPrepared
<1>2. NotPrepared \in Prepared
  BY Zenon DEF Prepared, NotPrepared, Nothing, Transaction, NoVersion
<1>3. TypeOK'
  BY <1>1, <1>2, ZenonT(30) DEF TypeOK, Status
<1>4. \A u \in Txns : /\ status[u] = "committed" => status'[u] = "committed"
                      /\ status[u] # "active" => status'[u] # "active"
  BY Zenon DEF TypeOK
<1>5. RequestsSent'
  BY Zenon DEF RequestsSent, TypeOK
<1> QED  BY <1>1, <1>3, <1>4, <1>5, EraseStep, Zenon

\* Store::Commit preserves the invariant: the versions it adds are below what
\* the prepared readers read or above their timestamps.
LEMMA CommitPreserves ==
    ASSUME IInv, NEW t \in Txns, ExecCommit(t)
    PROVE  IInv'
<1> USE DEF IInv
<1> DEFINE p == store.prepared[t]
<1>0. /\ store.versions \in [Keys -> SUBSET Nat] /\ store.prepared \in [Txns -> Prepared]
      /\ status \in [Txns -> Status] /\ installed \in [Txns -> Nat \cup {NoVersion}]
  BY Zenon DEF TypeOK
<1>1. /\ status[t] = "committing" /\ status' = [status EXCEPT ![t] = "committed"]
      /\ installed' = [installed EXCEPT ![t] = p.ts]
      /\ UNCHANGED <<txns, pending, proposed, tries>>
  BY Zenon DEF ExecCommit
<1>2. /\ store'.versions = [k \in Keys |-> IF k \in p.txn.writes THEN store.versions[k] \cup {p.ts}
                                           ELSE store.versions[k]]
      /\ store'.prepared = [store.prepared EXCEPT ![t] = NotPrepared]
  BY Zenon DEF ExecCommit, Commit
<1>3. p \in Prepared /\ p.txn \in Transaction /\ NotPrepared \in Prepared /\ NotPrepared.ts = NoVersion
  BY Zenon DEF TypeOK, Prepared, NotPrepared, Nothing, Transaction, NoVersion
<1>4. CASE ~IsPrepared(store, t)
  <2>1. p = NotPrepared
    BY <1>4, Zenon DEF EntriesSent
  <2>2. p.ts = NoVersion /\ p.txn.writes = {}
    BY <2>1 DEF NotPrepared, Nothing
  <2>3. store'.versions = store.versions /\ installed' = installed
    <3>1. installed[t] = NoVersion
      BY <1>1, Zenon DEF InstalledVersions
    <3>2. installed' = installed
      BY <1>0, <1>1, <2>2, <3>1, Zenon
    <3>3. store'.versions = store.versions
      BY <1>0, <1>2, <2>2, Zenon
    <3> QED  BY <3>2, <3>3, Zenon
  <2>4. TypeOK'
    <3>1. store'.prepared \in [Txns -> Prepared]
      BY <1>0, <1>2, <1>3, Zenon
    <3>2. status' \in [Txns -> Status]
      BY <1>0, <1>1, Zenon DEF Status
    <3> QED  BY <1>1, <2>3, <3>1, <3>2, Zenon DEF TypeOK
  <2>5. \A u \in Txns : /\ status[u] = "committed" => status'[u] = "committed"
                        /\ status[u] # "active" => status'[u] # "active"
    BY <1>1, Zenon DEF TypeOK
  <2>6. RequestsSent'
    BY <1>1, Zenon DEF RequestsSent, TypeOK
  <2> QED  BY <1>1, <1>2, <2>3, <2>4, <2>5, <2>6, EraseStep, Zenon
<1>5. CASE IsPrepared(store, t)
  <2>1. p.ts \in Nat /\ p.ts \in TsOf[t] /\ p.txn = txns[t] /\ p.ts # NoVersion
    BY <1>3, <1>5, Zenon DEF EntriesSent, IsPrepared, Prepared
  <2> HIDE DEF p
  <2>2. \A k \in Keys : \A w \in store'.versions[k] :
            w \in store.versions[k] \/ (w = p.ts /\ k \in txns[t].writes)
    BY <1>2, <2>1
  <2>3. \A k \in Keys : /\ store.versions[k] \subseteq store'.versions[k]
                        /\ k \in txns[t].writes => p.ts \in store'.versions[k]
    BY <1>2, <2>1, ZenonT(30)
  <2>4. ~IsPrepared(store, t)' /\ \A u \in Txns : u # t =>
            store'.prepared[u] = store.prepared[u] /\ IsPrepared(store, u)' = IsPrepared(store, u)
    BY <1>2, <1>3, Zenon DEF IsPrepared, TypeOK
  <2>5. installed'[t] = p.ts /\ \A u \in Txns : u # t => installed'[u] = installed[u]
    BY <1>1, Zenon DEF TypeOK
  <2>6. status'[t] = "committed" /\ \A u \in Txns : u # t => status'[u] = status[u]
    BY <1>1, Zenon DEF TypeOK
  <2>7. TypeOK'
    <3>1. store'.versions \in [Keys -> SUBSET Nat]
      <4>1. \A k \in Keys : store'.versions[k] \subseteq Nat
        BY <1>0, <2>1, <2>2, Zenon
      <4>2. store'.versions = [k \in Keys |-> store'.versions[k]]
        BY <1>2, Zenon
      <4> QED  BY <4>1, <4>2, Zenon
    <3>2. store'.prepared \in [Txns -> Prepared]
      BY <1>0, <1>2, <1>3, Zenon
    <3>3. status' \in [Txns -> Status]
      BY <1>0, <1>1, Zenon DEF Status
    <3>4. installed' \in [Txns -> Nat \cup {NoVersion}]
      BY <1>0, <1>1, <2>1, Zenon
    <3> QED  BY <1>1, <3>1, <3>2, <3>3, <3>4, Zenon DEF TypeOK
  <2>8. /\ ReadsExist'
        /\ VersionsOwned'
        /\ RequestsSent'
    <3>1. ReadsExist'
      BY <1>1, <2>1, <2>3, <2>6, Zenon DEF ReadsExist
    <3>2. VersionsOwned'
      BY <1>1, <2>1, <2>2, <2>6 DEF VersionsOwned
    <3>3. RequestsSent'
      BY <1>1, <2>6, Zenon DEF RequestsSent
    <3> QED  BY <3>1, <3>2, <3>3, Zenon
  <2>9. EntriesSent'
    BY <1>1, <1>2, <2>4, <2>6, ZenonT(30) DEF EntriesSent, TypeOK
  <2>10. InstalledVersions'
    BY <1>1, <2>3, <2>5, <2>6, Zenon DEF InstalledVersions, TypeOK, Transaction
  <2>11. PreparedReadsStayValid'
    <3> SUFFICES ASSUME NEW u \in Txns, NEW k \in Keys, IsPrepared(store, u)',
                        store'.prepared[u].txn.reads[k] # NoVersion, NEW w \in store'.versions[k]
                 PROVE  ~(store'.prepared[u].txn.reads[k] < w /\ w < store'.prepared[u].ts)
      BY Zenon DEF PreparedReadsStayValid
    <3>1. CASE w \in store.versions[k]
      BY <3>1, <2>4, Zenon DEF PreparedReadsStayValid
    <3>2. CASE w = p.ts /\ k \in txns[t].writes
      BY <3>2, <1>5, <2>1, <2>4, Zenon DEF PreparedDoNotConflict, p
    <3> QED  BY <3>1, <3>2, <2>2, Zenon
  <2>12. PreparedDoNotConflict'
    BY <2>4, Zenon DEF PreparedDoNotConflict
  <2>13. WritesFollowReads'
    BY <1>1, <1>5, <2>1, <2>4, <2>5, Zenon DEF WritesFollowReads, p
  <2>14. NoLostUpdate'
    <3>1. \A u \in Txns : Accepted(u)' => Accepted(u)
      BY <1>5, <2>4, <2>5, Zenon DEF Accepted
    <3> QED  BY <1>1, <3>1, Zenon DEF NoLostUpdate
  <2> QED  BY <2>7, <2>8, <2>9, <2>10, <2>11, <2>12, <2>13, <2>14, Zenon
<1> QED  BY <1>4, <1>5, Zenon

-----------------------------------------------------------------------------
\* The steps of a client alone preserve the invariant.
LEMMA ClientPreserves ==
    ASSUME IInv, NEW t \in Txns,
           (\E now \in TsOf[t] : Begin2PC(t, now)) \/ UserAbort(t) \/ OtherFails(t)
    PROVE  IInv'
<1> USE DEF IInv
<1>1. ASSUME NEW now \in TsOf[t], Begin2PC(t, now)
      PROVE  IInv'
  <2>1. now \in Nat
    BY TapirAssumption, Zenon
  <2>2. TypeOK' /\ RequestsSent'
    <3>1. SendPrepare(t, now) /\ UNCHANGED <<store, txns, installed>>
      BY <1>1, Zenon DEF Begin2PC
    <3>2. TypeOK'
      BY <2>1, <3>1, SendPrepareTypes, Zenon DEF TypeOK
    <3>3. RequestsSent'
      BY <3>1, SendPrepareTypes, ZenonT(30) DEF RequestsSent
    <3> QED  BY <3>2, <3>3, Zenon
  <2> QED  BY <1>1, <2>2, ClientStep, Zenon DEF Begin2PC, SendPrepare
<1>2. ASSUME UserAbort(t) \/ OtherFails(t)
      PROVE  IInv'
  <2>1. TypeOK' /\ RequestsSent'
    BY <1>2, Zenon DEF UserAbort, OtherFails, TypeOK, Status, RequestsSent
  <2> QED  BY <1>2, <2>1, ClientStep, Zenon DEF UserAbort, OtherFails
<1> QED  BY <1>1, <1>2, Zenon

\* Every step preserves the invariant.
LEMMA NextIInv == IInv /\ [Next]_vars => IInv'
<1> SUFFICES ASSUME IInv, [Next]_vars PROVE IInv'
  BY Zenon
<1>1. ASSUME NEW t \in Txns, NEW k \in Keys, Get(t, k) \/ Put(t, k)
      PROVE  IInv'
  BY <1>1, GetPreserves, PutPreserves, Zenon
<1>2. ASSUME NEW t \in Txns, ExecCommit(t) \/ ExecAbort(t)
      PROVE  IInv'
  BY <1>2, CommitPreserves, AbortPreserves, Zenon
<1>3. ASSUME NEW t \in Txns, NEW now \in TsOf[t], Begin2PC(t, now) \/ ExecPrepare(t, now)
      PROVE  IInv'
  BY <1>3, ClientPreserves, PreparePreserves, Zenon
<1>4. ASSUME NEW t \in Txns, UserAbort(t) \/ OtherFails(t) \/ ExecLatePrepare(t)
      PROVE  IInv'
  BY <1>4, ClientPreserves, PreparePreserves, Zenon
<1>5. CASE UNCHANGED vars
  <2> USE <1>5 DEF vars, IInv
  <2>1. TypeOK' /\ ReadsExist' /\ VersionsOwned' /\ RequestsSent' /\ InstalledVersions'
    BY Zenon DEF TypeOK, ReadsExist, VersionsOwned, RequestsSent, InstalledVersions
  <2>2. EntriesSent' /\ WritesFollowReads'
    BY Zenon DEF EntriesSent, WritesFollowReads, IsPrepared
  <2>3. PreparedReadsStayValid' /\ PreparedDoNotConflict'
    BY Zenon DEF PreparedReadsStayValid, PreparedDoNotConflict, IsPrepared
  <2>4. NoLostUpdate'
    BY DEF NoLostUpdate, Accepted, IsPrepared
  <2> QED  BY <2>1, <2>2, <2>3, <2>4, Zenon
<1>6. CASE Next
  <2>1. PICK t \in Txns :
            \/ \E k \in Keys : Get(t, k) \/ Put(t, k)
            \/ \E now \in TsOf[t] : Begin2PC(t, now) \/ ExecPrepare(t, now)
            \/ UserAbort(t) \/ OtherFails(t) \/ ExecLatePrepare(t)
            \/ ExecCommit(t) \/ ExecAbort(t)
    BY <1>6, Zenon DEF Next
  <2> QED  BY <2>1, <1>1, <1>2, <1>3, <1>4, Zenon
<1> QED  BY <1>5, <1>6, Zenon

\* The invariant holds in every behaviour.
LEMMA Invariance == Spec => []IInv
BY InitIInv, NextIInv, PTL DEF Spec

\* In both modes, whatever Store::Prepare has accepted stays consistent with
\* the timestamp order until it commits or aborts: no version appears between
\* what a prepared transaction read and its timestamp, and no two prepared
\* transactions conflict.
THEOREM PreparedTransactionsStayValid ==
    Spec => [](PreparedReadsStayValid /\ PreparedDoNotConflict)
<1>1. IInv => PreparedReadsStayValid /\ PreparedDoNotConflict
  BY Zenon DEF IInv
<1> QED  BY <1>1, Invariance, PTL

\* In linearizable mode, two transactions that read the same version of a key
\* and overwrite it are never both prepared or committed.
THEOREM NoUpdateIsLost == Spec => []NoLostUpdate
<1>1. IInv => NoLostUpdate
  BY Zenon DEF IInv
<1> QED  BY <1>1, Invariance, PTL
=============================================================================
