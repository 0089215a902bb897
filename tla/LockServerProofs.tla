-------------------------- MODULE LockServerProofs --------------------------
(* Proofs about the lock server, for any set of keys and of requesters.      *)
EXTENDS LockServer, LockOpsProofs, TLAPS

-----------------------------------------------------------------------------
(* The lock server.                                                          *)

\* The inductive invariant: types, and each entry in order.  The two halves
\* of the entry are needed together: an upgrade or a downgrade keeps the
\* holders in order only in an entry whose holders were, and the queue lemmas
\* need an entry whose queue and map agree.
IInv == TypeOK /\ HoldersMatchState /\ QueueMatchesWaiters

\* The empty lock table satisfies the invariant.
LEMMA InitIInv == Init => IInv
<1> SUFFICES ASSUME Init PROVE IInv
  OBVIOUS
<1>1. NewLock \in Lock /\ HoldersOK(NewLock) /\ QueueOK(NewLock)
  BY DEF NewLock, Lock, LockState, Waiter, HoldersOK, QueueOK, WriteLocked,
         UNLOCKED, LOCKED_FOR_READ, LOCKED_FOR_WRITE, LOCKED_FOR_READ_WRITE
<1> QED BY <1>1 DEF Init, IInv, TypeOK, HoldersMatchState, QueueMatchesWaiters

\* An action that replaces one entry by a sound entry preserves the invariant.
LEMMA ReplaceEntry ==
    ASSUME IInv, NEW k \in Keys, NEW m \in Lock, HoldersOK(m), QueueOK(m),
           locks' = [locks EXCEPT ![k] = m], readers' \in Int, writers' \in Int
    PROVE  IInv'
BY DEF IInv, TypeOK, HoldersMatchState, QueueMatchesWaiters, HoldersOK, QueueOK, WriteLocked

\* The entry of a key is sound under the invariant.
LEMMA SoundEntry ==
    ASSUME IInv, NEW k \in Keys
    PROVE  locks[k] \in Lock /\ HoldersOK(locks[k]) /\ QueueOK(locks[k])
BY DEF IInv, TypeOK, HoldersMatchState, QueueMatchesWaiters

\* Each of the four calls preserves the invariant.
LEMMA NextIInv == IInv /\ [Next]_vars => IInv'
<1> SUFFICES ASSUME IInv, [Next]_vars PROVE IInv'
  OBVIOUS
<1>1. readers \in Int /\ writers \in Int
  BY DEF IInv, TypeOK
<1>2. ASSUME NEW k \in Keys, NEW r \in Requesters, LockForRead(k, r)
      PROVE  IInv'
  <2>1. PICK o \in lockForRead(locks[k], r) :
          /\ locks' = [locks EXCEPT ![k] = o.lock]
          /\ readers' = readers + o.inc
          /\ writers' = writers
    BY <1>2 DEF LockForRead
  <2>2. o.lock \in Lock /\ QueueOK(o.lock) /\ HoldersOK(o.lock) /\ o.inc \in {0, 1}
    BY SoundEntry, LockForReadStep
  <2> DEFINE m == o.lock
  <2>3. readers' \in Int /\ writers' \in Int /\ locks' = [locks EXCEPT ![k] = m]
    BY <1>1, <2>1, <2>2
  <2> HIDE DEF m
  <2>4. m \in Lock /\ QueueOK(m) /\ HoldersOK(m)
    BY <2>2 DEF m
  <2> QED BY <2>3, <2>4, ReplaceEntry
<1>3. ASSUME NEW k \in Keys, NEW r \in Requesters, LockForWrite(k, r)
      PROVE  IInv'
  <2>1. PICK o \in lockForWrite(locks[k], r) :
          /\ locks' = [locks EXCEPT ![k] = o.lock]
          /\ writers' = writers + o.inc
          /\ readers' = readers
    BY <1>3 DEF LockForWrite
  <2>2. o.lock \in Lock /\ QueueOK(o.lock) /\ HoldersOK(o.lock) /\ o.inc \in {0, 1}
    BY SoundEntry, LockForWriteStep
  <2> DEFINE m == o.lock
  <2>3. readers' \in Int /\ writers' \in Int /\ locks' = [locks EXCEPT ![k] = m]
    BY <1>1, <2>1, <2>2
  <2> HIDE DEF m
  <2>4. m \in Lock /\ QueueOK(m) /\ HoldersOK(m)
    BY <2>2 DEF m
  <2> QED BY <2>3, <2>4, ReplaceEntry
<1>4. ASSUME NEW k \in Keys, NEW r \in Requesters, ReleaseForRead(k, r)
      PROVE  IInv'
  <2> DEFINE m == releaseForRead(locks[k], r)
  <2>1. m \in Lock /\ HoldersOK(m) /\ QueueOK(m)
    BY SoundEntry, ReleaseForReadStep
  <2>2. /\ locks' = [locks EXCEPT ![k] = m]
        /\ readers' \in Int
        /\ writers' \in Int
    BY <1>1, <1>4 DEF ReleaseForRead
  <2> HIDE DEF m
  <2> QED BY <2>1, <2>2, ReplaceEntry
<1>5. ASSUME NEW k \in Keys, NEW r \in Requesters, ReleaseForWrite(k, r)
      PROVE  IInv'
  <2> DEFINE m == releaseForWrite(locks[k], r)
  <2>1. m \in Lock /\ HoldersOK(m) /\ QueueOK(m)
    BY SoundEntry, ReleaseForWriteStep
  <2>2. /\ locks' = [locks EXCEPT ![k] = m]
        /\ readers' \in Int
        /\ writers' \in Int
    BY <1>1, <1>5 DEF ReleaseForWrite
  <2> HIDE DEF m
  <2> QED BY <2>1, <2>2, ReplaceEntry
<1>6. CASE UNCHANGED vars
  BY <1>6 DEF vars, IInv, TypeOK, HoldersMatchState, QueueMatchesWaiters,
              HoldersOK, QueueOK, WriteLocked
<1> QED BY <1>2, <1>3, <1>4, <1>5, <1>6 DEF Next

\* Types, writer exclusion and a consistent queue in every reachable state:
\* lockForRead, lockForWrite, releaseForRead and releaseForWrite of
\* lockserver.cc, called in any order by any number of requesters.
THEOREM LockServerInvariant ==
    Spec => [](TypeOK /\ HoldersMatchState /\ QueueMatchesWaiters)
<1>1. Init => IInv
  BY InitIInv
<1>2. IInv /\ [Next]_vars => IInv'
  BY NextIInv
<1> QED BY <1>1, <1>2, PTL DEF Spec, IInv

\* While a requester holds a lock of lockserver.cc for writing nobody else holds
\* it in any mode, whatever the order of requests, timeouts, upgrades and
\* releases.
THEOREM WriterExclusion ==
    Spec => [](\A k \in Keys : \A r \in WriteHolders(locks[k]) : locks[k].holders = {r})
<1>1. HoldersMatchState =>
          \A k \in Keys : \A r \in WriteHolders(locks[k]) : locks[k].holders = {r}
  BY DEF HoldersMatchState, HoldersOK, WriteHolders
<1> QED BY <1>1, LockServerInvariant, PTL

\* Every call of lockserver.cc is an acquire, a release or no step of the
\* abstract table of reader/writer locks.
THEOREM LockServerImplementsRWLock == Spec => ImplementsRWLock
<1> DEFINE rdm == [k \in Keys |-> ReadHolders(locks[k])]
           wrm == [k \in Keys |-> WriteHolders(locks[k])]
<1>1. Init => RW!Init
  BY DEF Init, RW!Init, NewLock, ReadHolders, WriteHolders, ReadLocked, WriteLocked,
         UNLOCKED, LOCKED_FOR_READ, LOCKED_FOR_WRITE, LOCKED_FOR_READ_WRITE
<1>2. IInv /\ [Next]_vars => [RW!Next]_RW!vars
  <2> SUFFICES ASSUME IInv, [Next]_vars PROVE [RW!Next]_RW!vars
    OBVIOUS
  <2>1. locks \in [Keys -> Lock]
    BY DEF IInv, TypeOK
  <2>2. ASSUME NEW k \in Keys, NEW m, locks' = [locks EXCEPT ![k] = m]
        PROVE  /\ rdm' = [rdm EXCEPT ![k] = ReadHolders(m)]
               /\ wrm' = [wrm EXCEPT ![k] = WriteHolders(m)]
    <3>1. \A j \in Keys : locks'[j] = IF j = k THEN m ELSE locks[j]
      BY <2>1, <2>2
    <3>2. \A j \in Keys : ReadHolders(locks[j])' = ReadHolders(locks'[j])
      BY DEF ReadHolders, ReadLocked
    <3>3. \A j \in Keys : WriteHolders(locks[j])' = WriteHolders(locks'[j])
      BY DEF WriteHolders, WriteLocked
    <3> QED BY <3>1, <3>2, <3>3
  <2>3. ASSUME NEW k \in Keys, NEW r \in Requesters, LockForRead(k, r)
        PROVE  [RW!Next]_RW!vars
    <3>1. PICK o \in lockForRead(locks[k], r) : locks' = [locks EXCEPT ![k] = o.lock]
      BY <2>3 DEF LockForRead
    <3>2. /\ WriteHolders(o.lock) = WriteHolders(locks[k])
          /\ \/ ReadHolders(o.lock) = ReadHolders(locks[k])
             \/ /\ WriteHolders(locks[k]) \subseteq {r}
                /\ ReadHolders(o.lock) = ReadHolders(locks[k]) \cup {r}
      BY SoundEntry, LockForReadStep
    <3>3. wrm' = wrm
      BY <2>2, <3>1, <3>2
    <3>4. rdm' = [rdm EXCEPT ![k] = ReadHolders(o.lock)]
      BY <2>2, <3>1
    <3>5. CASE ReadHolders(o.lock) = ReadHolders(locks[k])
      BY <3>3, <3>4, <3>5 DEF RW!vars
    <3>6. CASE /\ WriteHolders(locks[k]) \subseteq {r}
               /\ ReadHolders(o.lock) = ReadHolders(locks[k]) \cup {r}
      BY <3>3, <3>4, <3>6 DEF RW!Next, RW!AcquireRead
    <3> QED BY <3>2, <3>5, <3>6
  <2>4. ASSUME NEW k \in Keys, NEW r \in Requesters, LockForWrite(k, r)
        PROVE  [RW!Next]_RW!vars
    <3>1. PICK o \in lockForWrite(locks[k], r) : locks' = [locks EXCEPT ![k] = o.lock]
      BY <2>4 DEF LockForWrite
    <3>2. /\ ReadHolders(o.lock) = ReadHolders(locks[k])
          /\ \/ WriteHolders(o.lock) = WriteHolders(locks[k])
             \/ /\ ReadHolders(locks[k]) \cup WriteHolders(locks[k]) \subseteq {r}
                /\ WriteHolders(o.lock) = {r}
      BY SoundEntry, LockForWriteStep
    <3>3. rdm' = rdm
      BY <2>2, <3>1, <3>2
    <3>4. wrm' = [wrm EXCEPT ![k] = WriteHolders(o.lock)]
      BY <2>2, <3>1
    <3>5. CASE WriteHolders(o.lock) = WriteHolders(locks[k])
      BY <3>3, <3>4, <3>5 DEF RW!vars
    <3>6. CASE /\ ReadHolders(locks[k]) \cup WriteHolders(locks[k]) \subseteq {r}
               /\ WriteHolders(o.lock) = {r}
      BY <3>3, <3>4, <3>6 DEF RW!Next, RW!AcquireWrite
    <3> QED BY <3>2, <3>5, <3>6
  <2>5. ASSUME NEW k \in Keys, NEW r \in Requesters, ReleaseForRead(k, r)
        PROVE  [RW!Next]_RW!vars
    <3> DEFINE m == releaseForRead(locks[k], r)
    <3>1. locks' = [locks EXCEPT ![k] = m]
      BY <2>5 DEF ReleaseForRead
    <3>2. /\ WriteHolders(m) = WriteHolders(locks[k])
          /\ ReadHolders(m) = ReadHolders(locks[k]) \ {r}
      BY SoundEntry, ReleaseForReadStep
    <3> HIDE DEF m
    <3>3. /\ wrm' = [wrm EXCEPT ![k] = WriteHolders(m)]
          /\ rdm' = [rdm EXCEPT ![k] = ReadHolders(m)]
      BY <2>2, <3>1
    <3>4. /\ wrm' = wrm
          /\ rdm' = [rdm EXCEPT ![k] = ReadHolders(locks[k]) \ {r}]
      BY <3>2, <3>3
    <3>5. CASE r \in ReadHolders(locks[k])
      BY <3>4, <3>5 DEF RW!Next, RW!ReleaseRead
    <3>6. CASE r \notin ReadHolders(locks[k])
      <4>1. ReadHolders(locks[k]) \ {r} = ReadHolders(locks[k])
        BY <3>6
      <4> QED BY <3>4, <4>1 DEF RW!vars
    <3> QED BY <3>5, <3>6
  <2>6. ASSUME NEW k \in Keys, NEW r \in Requesters, ReleaseForWrite(k, r)
        PROVE  [RW!Next]_RW!vars
    <3> DEFINE m == releaseForWrite(locks[k], r)
    <3>1. locks' = [locks EXCEPT ![k] = m]
      BY <2>6 DEF ReleaseForWrite
    <3>2. /\ ReadHolders(m) = ReadHolders(locks[k])
          /\ WriteHolders(m) = IF r \in WriteHolders(locks[k]) THEN {}
                               ELSE WriteHolders(locks[k])
      BY SoundEntry, ReleaseForWriteStep
    <3> HIDE DEF m
    <3>3. /\ wrm' = [wrm EXCEPT ![k] = WriteHolders(m)]
          /\ rdm' = [rdm EXCEPT ![k] = ReadHolders(m)]
      BY <2>2, <3>1
    <3>4. rdm' = rdm
      BY <3>2, <3>3
    <3>5. CASE r \in WriteHolders(locks[k])
      BY <3>2, <3>4, <3>5, <3>3 DEF RW!Next, RW!ReleaseWrite
    <3>6. CASE r \notin WriteHolders(locks[k])
      BY <3>2, <3>4, <3>6, <3>3 DEF RW!vars
    <3> QED BY <3>5, <3>6
  <2>7. CASE UNCHANGED vars
    BY <2>7 DEF vars, RW!vars, ReadHolders, WriteHolders, ReadLocked, WriteLocked
  <2> QED BY <2>3, <2>4, <2>5, <2>6, <2>7 DEF Next
<1>3. Spec => []IInv
  BY LockServerInvariant, PTL DEF IInv
<1> QED BY <1>1, <1>2, <1>3, PTL DEF Spec, RW!Spec, ImplementsRWLock
=============================================================================
