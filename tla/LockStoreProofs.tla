--------------------------- MODULE LockStoreProofs --------------------------
(* Proofs about the two-phase-locking store, for any sets of keys and of     *)
(* transactions and any number of retries.                                   *)
EXTENDS LockStore, LockOpsProofs, TLAPS

Sound(l) == l \in Lock /\ QueueOK(l) /\ HoldersOK(l)

\* Every holder of l still holds m in the same mode.
Keeps(l, m) == /\ ReadHolders(l) \subseteq ReadHolders(m)
               /\ WriteHolders(l) \subseteq WriteHolders(m)

\* The lock of a key that a transaction has read stays with it until it ends:
\* what ties the client's read set to the server's lock table.
ReadersHold ==
    \A t \in Txns, k \in Keys :
        ~Finished(t) /\ readSet[t][k] # NoValue => t \in ReadHolders(locks[k])

\* The inductive invariant.
IInv == /\ TypeOK
        /\ \A k \in Keys : Sound(locks[k])
        /\ ReadersHold
        /\ PreparedHoldLocks
        /\ ReadsStayCurrent
        /\ \A t \in Txns : phase[t] = "committing" => prepared[t].held

-----------------------------------------------------------------------------
(* What the operations do to the entry of one key.                           *)

\* Asking for a read lock takes no lock from anybody.
LEMMA ReadStep ==
    ASSUME NEW l, Sound(l), NEW t \in Txns, NEW o \in lockForRead(l, t)
    PROVE  /\ Sound(o.lock)
           /\ Keeps(l, o.lock)
           /\ o.granted => t \in ReadHolders(o.lock)
BY LockForReadStep DEF Sound, Keeps, Txns

\* Asking for a write lock takes no lock from anybody.
LEMMA WriteStep ==
    ASSUME NEW l, Sound(l), NEW t \in Txns, NEW o \in lockForWrite(l, t)
    PROVE  /\ Sound(o.lock)
           /\ Keeps(l, o.lock)
           /\ o.granted => t \in WriteHolders(o.lock)
BY LockForWriteStep DEF Sound, Keeps, Txns

\* getLocks asks for the read lock and then for the write lock; if both are
\* granted the transaction holds both.
LEMMA GetLockStep ==
    ASSUME NEW t \in Txns, NEW k \in Keys, Sound(locks[k]),
           NEW R \in SUBSET Keys, NEW W \in SUBSET Keys,
           NEW o \in getLock(t, k, R, W)
    PROVE  /\ Sound(o.lock)
           /\ Keeps(locks[k], o.lock)
           /\ o.ok /\ k \in R => t \in ReadHolders(o.lock)
           /\ o.ok /\ k \in W => t \in WriteHolders(o.lock)
<1> DEFINE answers(r) == {[lock |-> w.lock, ok |-> r.granted /\ w.granted] :
                                w \in getWriteLock(r.lock, t, k \in W)}
<1>1. PICK r \in getReadLock(locks[k], t, k \in R) : o \in answers(r)
  BY Zenon DEF getLock
<1>2. PICK w \in getWriteLock(r.lock, t, k \in W) :
            o = [lock |-> w.lock, ok |-> r.granted /\ w.granted]
  BY <1>1, Zenon
<1>3. /\ Sound(r.lock)
      /\ Keeps(locks[k], r.lock)
      /\ r.granted /\ k \in R => t \in ReadHolders(r.lock)
  <2>1. CASE k \in R
    BY <1>1, <2>1, ReadStep, Zenon DEF getReadLock
  <2>2. CASE k \notin R
    BY <1>1, <2>2 DEF getReadLock, Answer, Keeps
  <2> QED BY <2>1, <2>2, Zenon
<1>4. /\ Sound(w.lock)
      /\ Keeps(r.lock, w.lock)
      /\ w.granted /\ k \in W => t \in WriteHolders(w.lock)
  <2>1. CASE k \in W
    BY <1>2, <1>3, <2>1, WriteStep, Zenon DEF getWriteLock
  <2>2. CASE k \notin W
    BY <1>2, <1>3, <2>2 DEF getWriteLock, Answer, Keeps
  <2> QED BY <2>1, <2>2, Zenon
<1>5. o.lock = w.lock /\ (o.ok <=> r.granted /\ w.granted)
  BY <1>2, Zenon
<1> QED BY <1>3, <1>4, <1>5, Zenon DEF Keeps

\* dropLocks takes no lock from another transaction.
LEMMA DropLockStep ==
    ASSUME NEW t \in Txns, NEW k \in Keys, Sound(locks[k]),
           NEW R \in SUBSET Keys, NEW W \in SUBSET Keys
    PROVE  LET m == dropLock(t, k, R, W)
           IN  /\ Sound(m)
               /\ ReadHolders(locks[k]) \ {t} \subseteq ReadHolders(m)
               /\ WriteHolders(locks[k]) \ {t} \subseteq WriteHolders(m)
<1> DEFINE w == IF k \in W THEN releaseForWrite(locks[k], t) ELSE locks[k]
           m == IF k \in R THEN releaseForRead(w, t) ELSE w
<1>1. \A l : Sound(l) => WriteHolders(l) = {} \/ \E r \in Requesters : WriteHolders(l) = {r}
  BY Zenon DEF Sound, HoldersOK, WriteHolders
<1>2. /\ Sound(w)
      /\ ReadHolders(locks[k]) \subseteq ReadHolders(w)
      /\ WriteHolders(locks[k]) \ {t} \subseteq WriteHolders(w)
  BY <1>1, ReleaseForWriteStep, Zenon DEF Sound, Txns
<1> HIDE DEF w
<1>3. /\ Sound(m)
      /\ ReadHolders(w) \ {t} \subseteq ReadHolders(m)
      /\ WriteHolders(w) \subseteq WriteHolders(m)
  BY <1>2, ReleaseForReadStep, Zenon DEF Sound, Txns
<1> HIDE DEF m
<1>4. dropLock(t, k, R, W) = m
  BY Zenon DEF dropLock, m, w
<1> QED BY <1>2, <1>3, <1>4, Zenon

\* In a sound entry a write holder is the only holder.
LEMMA WriterAlone ==
    ASSUME NEW l, Sound(l), NEW t, NEW u, t \in WriteHolders(l),
           u \in ReadHolders(l) \/ u \in WriteHolders(l)
    PROVE  t = u
BY Zenon DEF Sound, HoldersOK, WriteHolders, ReadHolders

-----------------------------------------------------------------------------
(* The inductive invariant.                                                  *)

\* The loaded store satisfies the invariant.
LEMMA InitIInv == Init => IInv
<1> SUFFICES ASSUME Init PROVE IInv
  BY Zenon
<1>1. NewLock \in Lock /\ HoldersOK(NewLock) /\ QueueOK(NewLock)
  BY DEF NewLock, Lock, LockState, Waiter, HoldersOK, QueueOK, WriteLocked,
         UNLOCKED, LOCKED_FOR_READ, LOCKED_FOR_WRITE, LOCKED_FOR_READ_WRITE
<1>2. TypeOK
  BY <1>1, StoreAssumption DEF Init, TypeOK, Transaction, NotPrepared, Phases, Values
<1>3. \A k \in Keys : Sound(locks[k])
  BY <1>1, Zenon DEF Init, Sound
<1>4. ReadersHold /\ PreparedHoldLocks /\ ReadsStayCurrent
  BY Zenon DEF Init, ReadersHold, PreparedHoldLocks, ReadsStayCurrent, NotPrepared
<1>5. \A t \in Txns : phase[t] = "committing" => prepared[t].held
  BY Zenon DEF Init
<1> QED BY <1>2, <1>3, <1>4, <1>5, Zenon DEF IInv

\* Locks never leave a transaction that has not ended, so what the invariant
\* says of locks survives a step in which every entry keeps its holders.
LEMMA LocksKept ==
    ASSUME IInv, \A k \in Keys : Keeps(locks[k], locks'[k]),
           NEW t \in Txns, NEW k \in Keys
    PROVE  /\ ~Finished(t) /\ readSet[t][k] # NoValue => t \in ReadHolders(locks'[k])
           /\ prepared[t].held /\ k \in prepared[t].reads => t \in ReadHolders(locks'[k])
           /\ prepared[t].held /\ k \in prepared[t].writes => t \in WriteHolders(locks'[k])
BY Zenon DEF IInv, ReadersHold, PreparedHoldLocks, Keeps

\* A step that changes only which Gets were given up preserves the invariant.
LEMMA IdlePreserves ==
    ASSUME IInv, UNCHANGED << locks, store, prepared, phase, readSet, writeSet, tries >>,
           lateGets' \subseteq Txns \X Keys
    PROVE  IInv'
<1> USE DEF IInv
<1>1. TypeOK' /\ \A k \in Keys : Sound(locks'[k])
  BY Zenon DEF TypeOK
<1>2. ReadersHold' /\ PreparedHoldLocks'
  BY Zenon DEF ReadersHold, PreparedHoldLocks, Finished
<1>3. ReadsStayCurrent'
  BY Zenon DEF ReadsStayCurrent, Finished
<1> QED BY <1>1, <1>2, <1>3, Zenon

\* LockStore::Get preserves the invariant, whether or not its reply is awaited
\* (got): a read lock pins the value read.
LEMMA ReadPreserves ==
    ASSUME IInv, NEW t \in Txns, NEW k \in Keys, NEW o \in lockForRead(locks[k], t),
           NEW got \in BOOLEAN, got => o.granted, store[k] # NoValue,
           locks' = [locks EXCEPT ![k] = o.lock],
           readSet' = IF got THEN [readSet EXCEPT ![t][k] = store[k]] ELSE readSet,
           UNCHANGED << store, prepared, phase, writeSet, tries >>,
           lateGets' \subseteq Txns \X Keys
    PROVE  IInv'
<1>1. TypeOK /\ Sound(locks[k])
  BY Zenon DEF IInv
<1>2. Sound(o.lock) /\ Keeps(locks[k], o.lock) /\ (o.granted => t \in ReadHolders(o.lock))
  BY <1>1, ReadStep, Zenon
<1>3. \A j \in Keys : locks'[j] = IF j = k THEN o.lock ELSE locks[j]
  BY <1>1, Zenon DEF TypeOK
<1>4. \A j \in Keys : Sound(locks'[j]) /\ Keeps(locks[j], locks'[j])
  BY <1>2, <1>3, Zenon DEF IInv, Keeps
<1>5. \A u \in Txns, j \in Keys :
         readSet'[u][j] = IF got /\ u = t /\ j = k THEN store[k] ELSE readSet[u][j]
  BY <1>1, Zenon DEF TypeOK
<1>6. TypeOK'
  <2>1. locks' \in [Keys -> Lock]
    BY <1>1, <1>2, Zenon DEF TypeOK, Sound
  <2>2. readSet' \in [Txns -> [Keys -> Values \cup {NoValue}]]
    BY <1>1, Zenon DEF TypeOK
  <2> QED BY <1>1, <2>1, <2>2, Zenon DEF TypeOK
<1>7. ReadersHold'
  BY <1>2, <1>3, <1>4, <1>5, LocksKept DEF ReadersHold, Finished, ReadHolders, ReadLocked
<1>8. PreparedHoldLocks'
  BY <1>1, <1>4, LocksKept, Zenon DEF PreparedHoldLocks, TypeOK, Transaction, ReadHolders,
     ReadLocked, WriteHolders, WriteLocked
<1>9. ReadsStayCurrent'
  BY <1>5 DEF IInv, ReadsStayCurrent, Finished
<1> QED BY <1>4, <1>6, <1>7, <1>8, <1>9, ZenonT(30) DEF IInv, Sound, QueueOK, HoldersOK, WriteLocked

\* A Get that is answered, or executed after its client gave it up.
LEMMA GetPreserves ==
    ASSUME IInv, NEW t \in Txns, NEW k \in Keys, Get(t, k) \/ LateGet(t, k)
    PROVE  IInv'
<1>1. CASE Get(t, k)
  <2>1. PICK o \in lockForRead(locks[k], t) :
          /\ locks' = [locks EXCEPT ![k] = o.lock]
          /\ readSet' = IF o.granted /\ readSet[t][k] = NoValue
                        THEN [readSet EXCEPT ![t][k] = store[k]]
                        ELSE readSet
    BY <1>1, Zenon DEF Get
  <2>2. /\ store[k] # NoValue /\ UNCHANGED << store, prepared, phase, writeSet, tries >>
        /\ lateGets' \subseteq Txns \X Keys
    BY <1>1, Zenon DEF Get, IInv, TypeOK
  <2>3. CASE o.granted /\ readSet[t][k] = NoValue
    BY <2>1, <2>2, <2>3, ReadPreserves, Zenon
  <2>4. CASE ~(o.granted /\ readSet[t][k] = NoValue)
    BY <2>1, <2>2, <2>4, ReadPreserves, Zenon
  <2> QED BY <2>3, <2>4, Zenon
<1>2. CASE LateGet(t, k) /\ store[k] # NoValue
  <2>1. PICK o \in lockForRead(locks[k], t) : locks' = [locks EXCEPT ![k] = o.lock]
    BY <1>2, Zenon DEF LateGet
  <2>2. /\ UNCHANGED << store, prepared, phase, readSet, writeSet, tries >>
        /\ lateGets' \subseteq Txns \X Keys
    BY <1>2, Zenon DEF LateGet, IInv, TypeOK
  <2> QED BY <1>2, <2>1, <2>2, ReadPreserves, Zenon
<1>3. CASE LateGet(t, k) /\ store[k] = NoValue
  <2>1. /\ UNCHANGED << locks, store, prepared, phase, readSet, writeSet, tries >>
        /\ lateGets' \subseteq Txns \X Keys
    BY <1>3, Zenon DEF LateGet, IInv, TypeOK
  <2> QED BY <2>1, IdlePreserves, Zenon
<1> QED BY <1>1, <1>2, <1>3, Zenon

\* A write buffered by the client changes nothing at the store.
LEMMA PutPreserves ==
    ASSUME IInv, NEW t \in Txns, NEW k \in Keys, Put(t, k)
    PROVE  IInv'
<1>1. /\ UNCHANGED << locks, store, prepared, phase, readSet, tries, lateGets >>
      /\ writeSet' = [writeSet EXCEPT ![t] = @ \cup {k}]
  BY Zenon DEF Put
<1>2. TypeOK'
  BY <1>1, Zenon DEF IInv, TypeOK
<1>3. ReadersHold' /\ PreparedHoldLocks' /\ ReadsStayCurrent'
  BY <1>1, Zenon DEF IInv, ReadersHold, PreparedHoldLocks, ReadsStayCurrent, Finished,
              ReadHolders, ReadLocked, WriteHolders, WriteLocked
<1>4. \A j \in Keys : Sound(locks'[j])
  BY <1>1, Zenon DEF IInv
<1>5. (\A j \in Keys : Sound(locks[j]))'
  BY <1>4, ZenonT(30) DEF Sound, HoldersOK, QueueOK, WriteLocked
<1>6. (\A u \in Txns : phase[u] = "committing" => prepared[u].held)'
  BY <1>1, Zenon DEF IInv
<1> QED BY <1>2, <1>3, <1>5, <1>6, Zenon DEF IInv

\* A round of PREPARE preserves the invariant: locks are only added.
LEMMA PreparePreserves ==
    ASSUME IInv, NEW t \in Txns, Prepare(t)
    PROVE  IInv'
<1> DEFINE entry == [reads |-> ReadKeys(t), writes |-> writeSet[t], held |-> TRUE]
<1>1. /\ phase[t] \in {"active", "preparing"}
      /\ tries[t] < CommitRetries
      /\ tries' = [tries EXCEPT ![t] = @ + 1]
      /\ UNCHANGED << store, readSet, writeSet, lateGets >>
  BY Zenon DEF Prepare, NextTry
<1>2. PICK ok \in BOOLEAN, others \in BOOLEAN :
        /\ IF prepared[t].held
           THEN ok /\ UNCHANGED << locks, prepared >>
           ELSE /\ \E f \in getLocks(t, ReadKeys(t), writeSet[t]) :
                      /\ ok = \A k \in Keys : f[k].ok
                      /\ locks' = [k \in Keys |-> f[k].lock]
                /\ prepared' = IF ok THEN [prepared EXCEPT ![t] = entry] ELSE prepared
        /\ phase' = [phase EXCEPT ![t] = IF ok /\ others THEN "committing"
                                         ELSE IF tries'[t] = CommitRetries THEN "aborting"
                                         ELSE "preparing"]
  BY Zenon DEF Prepare
<1>3. TypeOK
  BY Zenon DEF IInv
<1>4. ReadKeys(t) \in SUBSET Keys /\ writeSet[t] \in SUBSET Keys
  BY <1>3, Zenon DEF TypeOK, ReadKeys
<1>5. /\ \A k \in Keys : Sound(locks'[k]) /\ Keeps(locks[k], locks'[k])
      /\ locks' \in [Keys -> Lock]
      /\ prepared' = prepared \/ prepared' = [prepared EXCEPT ![t] = entry]
      /\ ok => prepared'[t].held
      /\ prepared' # prepared =>
            /\ \A k \in ReadKeys(t) : t \in ReadHolders(locks'[k])
            /\ \A k \in writeSet[t] : t \in WriteHolders(locks'[k])
  <2>1. CASE prepared[t].held
    BY <1>2, <1>3, <2>1, Zenon DEF IInv, Keeps, TypeOK
  <2>2. CASE ~prepared[t].held
    <3>1. PICK f \in getLocks(t, ReadKeys(t), writeSet[t]) :
                      /\ ok = \A k \in Keys : f[k].ok
                      /\ locks' = [k \in Keys |-> f[k].lock]
      BY <1>2, <2>2, Zenon
    <3>2. ASSUME NEW k \in Keys
          PROVE  /\ Sound(f[k].lock)
                 /\ Keeps(locks[k], f[k].lock)
                 /\ f[k].ok /\ k \in ReadKeys(t) => t \in ReadHolders(f[k].lock)
                 /\ f[k].ok /\ k \in writeSet[t] => t \in WriteHolders(f[k].lock)
      <4>1. f[k] \in getLock(t, k, ReadKeys(t), writeSet[t])
        BY Zenon DEF getLocks
      <4>2. Sound(locks[k])
        BY Zenon DEF IInv
      <4> QED BY <1>4, <4>1, <4>2, GetLockStep, Zenon
    <3>3. locks' \in [Keys -> Lock]
      BY <3>1, <3>2, Zenon DEF Sound
    <3>4. prepared' = IF ok THEN [prepared EXCEPT ![t] = entry] ELSE prepared
      BY <1>2, <2>2, Zenon
    <3>5. ok => prepared'[t].held
      BY <1>3, <3>4, Zenon DEF TypeOK
    <3> QED BY <1>4, <3>1, <3>2, <3>3, <3>4, <3>5, Zenon
  <2> QED BY <2>1, <2>2, Zenon
<1>6. \A u \in Txns : u # t => prepared'[u] = prepared[u] /\ phase'[u] = phase[u]
  BY <1>2, <1>3, <1>5, Zenon DEF TypeOK
<1>7. phase'[t] \in {"committing", "aborting", "preparing"} /\ (phase'[t] = "committing" => ok)
  BY <1>2, <1>3, Zenon DEF TypeOK
<1>8. TypeOK'
  <2>1. prepared' \in [Txns -> Transaction]
    <3>1. entry \in Transaction
      BY <1>4, Zenon DEF Transaction
    <3> HIDE DEF entry
    <3> QED BY <1>3, <1>5, <3>1, Zenon DEF TypeOK
  <2>2. phase' \in [Txns -> Phases]
    BY <1>2, <1>3, Zenon DEF TypeOK, Phases
  <2>3. tries' \in [Txns -> 0..CommitRetries]
    BY <1>1, <1>3, StoreAssumption DEF TypeOK
  <2> QED BY <1>1, <1>3, <1>5, <2>1, <2>2, <2>3, Zenon DEF TypeOK
<1>9. ReadersHold'
  <2> SUFFICES ASSUME NEW u \in Txns, NEW k \in Keys, ~Finished(u)', readSet'[u][k] # NoValue
               PROVE  u \in ReadHolders(locks'[k])
    BY Zenon DEF ReadersHold, ReadHolders, ReadLocked
  <2>1. ~Finished(u)
    BY <1>1, <1>6, Zenon DEF Finished
  <2> QED BY <1>1, <1>5, <2>1, LocksKept, Zenon
<1>10. PreparedHoldLocks'
  <2> SUFFICES ASSUME NEW u \in Txns, prepared'[u].held
               PROVE  /\ \A k \in prepared'[u].reads : u \in ReadHolders(locks'[k])
                      /\ \A k \in prepared'[u].writes : u \in WriteHolders(locks'[k])
    BY Zenon DEF PreparedHoldLocks, ReadHolders, ReadLocked, WriteHolders, WriteLocked
  <2>1. CASE prepared'[u] = prepared[u]
    BY <1>3, <1>5, <2>1, LocksKept, Zenon DEF TypeOK, Transaction
  <2>2. CASE prepared'[u] # prepared[u]
    <3>1. u = t /\ prepared' # prepared /\ prepared'[t] = entry
      BY <1>3, <1>5, <1>6, <2>2, Zenon DEF TypeOK
    <3> QED BY <1>5, <3>1, SMTT(30)
  <2> QED BY <2>1, <2>2, Zenon
<1>11. ReadsStayCurrent'
  BY <1>1, <1>6, Zenon DEF IInv, ReadsStayCurrent, Finished
<1>12. \A u \in Txns : phase'[u] = "committing" => prepared'[u].held
  BY <1>5, <1>6, <1>7, Zenon DEF IInv
<1> QED BY <1>5, <1>8, <1>9, <1>10, <1>11, <1>12, Zenon
        DEF IInv, Sound, QueueOK, HoldersOK, WriteLocked

\* A transaction that ends, releasing some of its own locks and writing keys
\* it holds for writing, disturbs no other transaction.
LEMMA EndPreserves ==
    ASSUME IInv, NEW t \in Txns, NEW R \in SUBSET Keys, NEW W \in SUBSET Keys,
           NEW p \in Phases, p \in {"committed", "aborted"},
           NEW C \in SUBSET Keys, \A k \in C : t \in WriteHolders(locks[k]),
           locks' = [k \in Keys |-> dropLock(t, k, R, W)],
           store' = [k \in Keys |-> IF k \in C THEN t ELSE store[k]],
           prepared' = [prepared EXCEPT ![t] = NotPrepared],
           phase' = [phase EXCEPT ![t] = p],
           UNCHANGED << readSet, writeSet, tries, lateGets >>
    PROVE  IInv'
<1>1. TypeOK
  BY Zenon DEF IInv
<1>2. \A k \in Keys : /\ Sound(locks'[k])
                       /\ ReadHolders(locks[k]) \ {t} \subseteq ReadHolders(locks'[k])
                       /\ WriteHolders(locks[k]) \ {t} \subseteq WriteHolders(locks'[k])
  BY DropLockStep, Zenon DEF IInv
<1>3. \A u \in Txns : u # t => prepared'[u] = prepared[u] /\ phase'[u] = phase[u]
  BY <1>1, Zenon DEF TypeOK
<1>4. prepared'[t] = NotPrepared /\ phase'[t] = p
  BY <1>1, Zenon DEF TypeOK
<1>5. TypeOK'
  <2>1. locks' \in [Keys -> Lock]
    BY <1>2, Zenon DEF Sound
  <2>2. store' \in [Keys -> Values \cup {NoValue}]
    BY <1>1, Zenon DEF TypeOK, Values
  <2>3. prepared' \in [Txns -> Transaction]
    BY <1>1, Zenon DEF TypeOK, Transaction, NotPrepared
  <2>4. phase' \in [Txns -> Phases]
    BY <1>1, Zenon DEF TypeOK
  <2> QED BY <1>1, <2>1, <2>2, <2>3, <2>4, Zenon DEF TypeOK
<1>6. \A u \in Txns : ~Finished(u)' => u # t /\ ~Finished(u)
  BY <1>3, <1>4, Zenon DEF Finished
<1>7. ReadersHold'
  <2> SUFFICES ASSUME NEW u \in Txns, NEW k \in Keys, ~Finished(u)', readSet'[u][k] # NoValue
               PROVE  u \in ReadHolders(locks'[k])
    BY Zenon DEF ReadersHold, ReadHolders, ReadLocked
  <2> QED BY <1>2, <1>6, Zenon DEF IInv, ReadersHold
<1>8. PreparedHoldLocks'
  <2> SUFFICES ASSUME NEW u \in Txns, prepared'[u].held
               PROVE  /\ \A k \in prepared'[u].reads : u \in ReadHolders(locks'[k])
                      /\ \A k \in prepared'[u].writes : u \in WriteHolders(locks'[k])
    BY Zenon DEF PreparedHoldLocks, ReadHolders, ReadLocked, WriteHolders, WriteLocked
  <2>1. u # t
    BY <1>4, SMTT(30) DEF NotPrepared
  <2> QED BY <1>1, <1>2, <1>3, <2>1, ZenonT(30) DEF IInv, PreparedHoldLocks, TypeOK, Transaction
<1>9. ReadsStayCurrent'
  <2> SUFFICES ASSUME NEW u \in Txns, NEW k \in Keys, ~Finished(u)', readSet'[u][k] # NoValue
               PROVE  store'[k] = readSet'[u][k]
    BY Zenon DEF ReadsStayCurrent
  <2>1. u # t /\ u \in ReadHolders(locks[k]) /\ store[k] = readSet[u][k]
    BY <1>6, Zenon DEF IInv, ReadersHold, ReadsStayCurrent
  <2>2. k \notin C
    BY <2>1, WriterAlone, Zenon DEF IInv
  <2> QED BY <2>1, <2>2, Zenon
<1>10. \A u \in Txns : phase'[u] = "committing" => prepared'[u].held
  BY <1>3, <1>4, Zenon DEF IInv
<1> QED BY <1>2, <1>5, <1>7, <1>8, <1>9, <1>10, ZenonT(30)
        DEF IInv, Sound, QueueOK, HoldersOK, WriteLocked

\* Every step preserves the invariant.
LEMMA NextIInv == IInv /\ [Next]_vars => IInv'
<1> SUFFICES ASSUME IInv, [Next]_vars PROVE IInv'
  BY Zenon
<1>1. TypeOK
  BY Zenon DEF IInv
<1>2. ASSUME NEW t \in Txns, Commit(t) PROVE IInv'
  <2>1. /\ prepared[t].reads \in SUBSET Keys
        /\ prepared[t].writes \in SUBSET Keys
    BY <1>1, Zenon DEF TypeOK, Transaction
  <2>2. \A k \in prepared[t].writes : t \in WriteHolders(locks[k])
    BY <1>2, Zenon DEF Commit, IInv, PreparedHoldLocks
  <2>3. /\ locks' = [k \in Keys |-> dropLock(t, k, prepared[t].reads, prepared[t].writes)]
        /\ store' = [k \in Keys |-> IF k \in prepared[t].writes THEN t ELSE store[k]]
        /\ prepared' = [prepared EXCEPT ![t] = NotPrepared]
        /\ phase' = [phase EXCEPT ![t] = "committed"]
        /\ UNCHANGED << readSet, writeSet, tries, lateGets >>
    BY <1>2, Zenon DEF Commit
  <2>4. "committed" \in Phases /\ "committed" \in {"committed", "aborted"}
    BY Zenon DEF Phases
  <2> QED BY <1>2, <2>1, <2>2, <2>3, <2>4, EndPreserves, ZenonT(30)
<1>3. ASSUME NEW t \in Txns, Abort(t) PROVE IInv'
  <2> DEFINE none == {}
  <2>1. /\ store' = [k \in Keys |-> IF k \in none THEN t ELSE store[k]]
        /\ none \in SUBSET Keys
        /\ \A k \in none : t \in WriteHolders(locks[k])
    BY <1>1, <1>3, Zenon DEF Abort, TypeOK
  <2>2. locks' = [k \in Keys |-> dropLock(t, k, none, none)]
    BY <1>3, Zenon DEF Abort, AbortTransaction
  <2>3. "aborted" \in Phases
    BY Zenon DEF Phases
  <2>4. /\ prepared' = [prepared EXCEPT ![t] = NotPrepared]
        /\ phase' = [phase EXCEPT ![t] = "aborted"]
        /\ UNCHANGED << readSet, writeSet, tries, lateGets >>
    BY <1>3, Zenon DEF Abort
  <2>5. "aborted" \in {"committed", "aborted"}
    BY Zenon
  <2> HIDE DEF none
  <2> QED BY <1>3, <2>1, <2>2, <2>3, <2>4, <2>5, EndPreserves, ZenonT(30)
<1>4. CASE UNCHANGED vars \/ \E t \in Txns, k \in Keys : GetTimeout(t, k)
  <2>1. /\ UNCHANGED << locks, store, prepared, phase, readSet, writeSet, tries >>
        /\ lateGets' \subseteq Txns \X Keys
    BY <1>4 DEF vars, GetTimeout, IInv, TypeOK
  <2> QED BY <2>1, IdlePreserves, Zenon
<1> QED BY <1>2, <1>3, <1>4, GetPreserves, PutPreserves, PreparePreserves, Zenon DEF Next

\* The invariant holds in every behaviour.
LEMMA Invariance == Spec => []IInv
<1> QED BY InitIInv, NextIInv, PTL DEF Spec

\* Prepared transactions hold their locks and do not conflict: the point of
\* LockStore::Prepare answering OK, however Gets, Prepares, Commits and Aborts
\* of any number of clients interleave, time out and are retried.
THEOREM PreparedTransactionsAreIsolated ==
    Spec => [](PreparedHoldLocks /\ PreparedConflictFree)
<1>1. IInv => PreparedHoldLocks /\ PreparedConflictFree
  <2> SUFFICES ASSUME IInv PROVE PreparedConflictFree
    BY Zenon DEF IInv
  <2> SUFFICES ASSUME NEW t \in Txns, NEW u \in Txns, t # u, prepared[t].held, prepared[u].held,
                      NEW k \in prepared[t].writes \cap (prepared[u].reads \cup prepared[u].writes)
               PROVE  FALSE
    BY Zenon DEF PreparedConflictFree
  <2>1. k \in Keys
    BY Zenon DEF IInv, TypeOK, Transaction
  <2>2. t \in WriteHolders(locks[k]) /\ (u \in ReadHolders(locks[k]) \/ u \in WriteHolders(locks[k]))
    BY Zenon DEF IInv, PreparedHoldLocks
  <2> QED BY <2>1, <2>2, WriterAlone, Zenon DEF IInv
<1> QED BY <1>1, Invariance, PTL

\* A transaction that can still commit has read current values: strict
\* two-phase locking as LockStore::Get and LockStore::Commit implement it
\* serializes transactions in the order of their commits.
THEOREM TransactionsReadCurrentValues == Spec => []ReadsStayCurrent
<1>1. IInv => ReadsStayCurrent
  BY Zenon DEF IInv
<1> QED BY <1>1, Invariance, PTL
=============================================================================
