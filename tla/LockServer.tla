----------------------------- MODULE LockServer -----------------------------
(* The lock server of the TAPIR stores (class LockServer in                  *)
(* store/common/backend/lockserver.cc): a table of reader/writer locks with  *)
(* a FIFO queue of waiters per lock.  A request never blocks: it is granted, *)
(* or its caller is queued and expected to ask again.  A queued request that *)
(* is not repeated in time is dropped from the queue by whoever asks next.   *)
EXTENDS LockOps, Integers, FiniteSets, FiniteSetsExt

CONSTANTS Keys,         \* the locks
          MaxReaders    \* bound on the readers counter, see LockForRead

ASSUME MaxReadersAssumption == MaxReaders \in Nat

VARIABLES
    locks,      \* the table: locks[k] is the entry of key k
    readers,    \* the server's counters of granted read and write locks
    writers

vars == << locks, readers, writers >>

TypeOK == /\ locks \in [Keys -> Lock]
          /\ readers \in Int
          /\ writers \in Int

Init == /\ locks = [k \in Keys |-> NewLock]
        /\ readers = 0
        /\ writers = 0

\* A holder in write mode that asks for the read lock again and again
\* increments readers each time, so the counter is bounded here.
LockForRead(k, r) ==
    \E o \in lockForRead(locks[k], r) :
        /\ readers + o.inc <= MaxReaders
        /\ locks' = [locks EXCEPT ![k] = o.lock]
        /\ readers' = readers + o.inc
        /\ UNCHANGED writers

LockForWrite(k, r) ==
    \E o \in lockForWrite(locks[k], r) :
        /\ locks' = [locks EXCEPT ![k] = o.lock]
        /\ writers' = writers + o.inc
        /\ UNCHANGED readers

\* Mutant of ReleaseForRead: counts a release that released nothing.
ReleaseForReadCounted(k, r) ==
    /\ locks' = [locks EXCEPT ![k] = releaseForRead(@, r)]
    /\ readers' = readers - 1
    /\ UNCHANGED writers

ReleaseForRead(k, r) ==
    /\ locks' = [locks EXCEPT ![k] = releaseForRead(@, r)]
    /\ readers' = IF r \in locks[k].holders /\ ReadLocked(locks[k])
                  THEN readers - 1 ELSE readers
    /\ UNCHANGED writers

ReleaseForWrite(k, r) ==
    /\ locks' = [locks EXCEPT ![k] = releaseForWrite(@, r)]
    /\ writers' = IF r \in locks[k].holders /\ WriteLocked(locks[k])
                  THEN writers - 1 ELSE writers
    /\ UNCHANGED readers

Next == \E k \in Keys, r \in Requesters :
            \/ LockForRead(k, r)
            \/ LockForWrite(k, r)
            \/ ReleaseForRead(k, r)
            \/ ReleaseForWrite(k, r)

Spec == Init /\ [][Next]_vars

-----------------------------------------------------------------------------
(* Safety.                                                                   *)

\* The number of holders agrees with the lock's state: none when it is free,
\* exactly one when it is locked for writing, at least one when it is locked
\* for reading.  The ASSERTs on holders.size() in lockForRead, lockForWrite
\* and releaseForWrite claim parts of it; the upgrade and the two downgrades
\* of a read-write lock are where it could go wrong.
HoldersMatchState == \A k \in Keys : HoldersOK(locks[k])

\* The queue of a lock and its map of waiters hold the same requesters, each
\* queued once.  The pruning loops index the map with the head of the queue,
\* which would insert an entry with an uninitialized time if it were missing
\* (the ASSERTs on waiters.find in tryAcquireLock and isWriteNext).
QueueMatchesWaiters == \A k \in Keys : QueueOK(locks[k])

ReadHolds == MapThenSumSet(LAMBDA k : Cardinality(ReadHolders(locks[k])), Keys)

\* The unsigned counters never fall below zero: writers is exactly the number
\* of locks held for writing, and readers is at least the number of read
\* holds (lockForRead by a write holder counts a hold it already has, so
\* readers can exceed it and stays too high for ever).
CountersCoverHolds ==
    /\ writers = Cardinality({k \in Keys : WriteLocked(locks[k])})
    /\ readers >= ReadHolds

\* Admission is fair to whoever is still waiting.  A free lock goes to a
\* requester only if everybody left in the queue was queued behind it; a
\* further reader joins a read lock only if no writer heads the queue.
\* (Requesters in front whose wait timed out are pruned by the same call.)
NoOvertaking ==
    [][\A k \in Keys :
         LET old == locks[k]
             new == locks'[k]
         IN  /\ old.state = UNLOCKED /\ new.state # UNLOCKED =>
                    \A r \in new.holders, j \in DOMAIN new.waitQ :
                        \E m, n \in DOMAIN old.waitQ :
                            m < n /\ old.waitQ[m] = r /\ old.waitQ[n] = new.waitQ[j]
             /\ old.state = LOCKED_FOR_READ /\ ~(new.holders \subseteq old.holders) =>
                    new.waitQ = << >> \/ new.waiters[Head(new.waitQ)] = Read]_vars

\* The table is a table of reader/writer locks: reading the holders of an
\* entry as read holders, write holders or both, according to its state,
\* every call is an acquire, a release or no step of RWLock.
RW == INSTANCE RWLock WITH
        rd <- [k \in Keys |-> ReadHolders(locks[k])],
        wr <- [k \in Keys |-> WriteHolders(locks[k])]

ImplementsRWLock == RW!Spec
=============================================================================
