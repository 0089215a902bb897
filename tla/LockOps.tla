------------------------------ MODULE LockOps ------------------------------
(* The lock table entry of store/common/backend/lockserver.{h,cc} and what  *)
(* each function of the class does to it.                                   *)
(*                                                                          *)
(* The functions are written as operators on one lock record, so that the   *)
(* stand-alone lock server (LockServer) and the two-phase-locking store     *)
(* built on it (LockStore) share one translation.  A function whose result  *)
(* depends on the clock (which waiters have been queued for longer than     *)
(* LOCK_WAIT_TIMEOUT) yields the set of its possible outcomes.              *)
(*                                                                          *)
(* The build defines NASSERT, so an ASSERT of the code never stops it: the  *)
(* operators carry on where the code would.  What the assertions claim of   *)
(* holders, queue and waiters is stated as properties of LockServer and of  *)
(* LockStore; the one in checkTimeout is about the clock, which is left out.*)
EXTENDS Naturals, Sequences, Functions

CONSTANT Requesters     \* transaction identifiers that ask for locks

UNLOCKED == "UNLOCKED"
LOCKED_FOR_READ == "LOCKED_FOR_READ"
LOCKED_FOR_WRITE == "LOCKED_FOR_WRITE"
LOCKED_FOR_READ_WRITE == "LOCKED_FOR_READ_WRITE"

LockState == {UNLOCKED, LOCKED_FOR_READ, LOCKED_FOR_WRITE, LOCKED_FOR_READ_WRITE}

\* The Waiter entry of a requester: absent, or present with its write flag.
NotWaiting == "none"
Read == "read"
Write == "write"
Waiter == {NotWaiting, Read, Write}

Lock == [state : LockState, holders : SUBSET Requesters,
         waitQ : Seq(Requesters), waiters : [Requesters -> Waiter]]

\* Mutant of NewLock: the constructor leaves state uninitialized.
NewLockNoState == [state |-> "UNSET", holders |-> {}, waitQ |-> << >>,
                   waiters |-> [r \in Requesters |-> NotWaiting]]

\* Lock::Lock().
NewLock == [state |-> UNLOCKED, holders |-> {}, waitQ |-> << >>,
            waiters |-> [r \in Requesters |-> NotWaiting]]

WriteLocked(l) == l.state \in {LOCKED_FOR_WRITE, LOCKED_FOR_READ_WRITE}
ReadLocked(l) == l.state \in {LOCKED_FOR_READ, LOCKED_FOR_READ_WRITE}

\* The holders that may read and the holders that may write.
ReadHolders(l) == IF ReadLocked(l) THEN l.holders ELSE {}
WriteHolders(l) == IF WriteLocked(l) THEN l.holders ELSE {}

\* The pruning loop shared by tryAcquireLock and isWriteNext: waiters are
\* popped from the front while checkTimeout says they are too old.  Entries
\* are queued in time order, so the ones popped are a prefix; checkTimeout
\* returns true as soon as the seconds differ, so any prefix may be too old
\* however short the wait has been.
Pruned(l) ==
    {[l EXCEPT !.waitQ = SubSeq(@, n + 1, Len(@)),
               !.waiters = [r \in Requesters |->
                               IF \E i \in 1..n : l.waitQ[i] = r
                               THEN NotWaiting ELSE @[r]]] : n \in 0..Len(l.waitQ)}

waitForLock(l, r, mode) ==
    IF l.waiters[r] # NotWaiting
    THEN l
    ELSE [l EXCEPT !.waitQ = Append(@, r), !.waiters[r] = mode]

\* Mutant of tryAcquireLock: the admitted requester stays in the map waiters.
tryAcquireLockNoErase(l, r, mode) ==
    {IF p.waitQ = << >>
     THEN [lock |-> p, granted |-> TRUE]
     ELSE IF Head(p.waitQ) = r
     THEN [lock |-> [p EXCEPT !.waitQ = Tail(@)], granted |-> TRUE]
     ELSE [lock |-> waitForLock(p, r, mode), granted |-> FALSE] : p \in Pruned(l)}

\* Requester r finds the lock free: the outcomes after pruning.
tryAcquireLock(l, r, mode) ==
    {IF p.waitQ = << >>
     THEN [lock |-> p, granted |-> TRUE]
     ELSE IF Head(p.waitQ) = r
     THEN [lock |-> [p EXCEPT !.waitQ = Tail(@), !.waiters[r] = NotWaiting],
           granted |-> TRUE]
     ELSE [lock |-> waitForLock(p, r, mode), granted |-> FALSE] : p \in Pruned(l)}

\* Mutant of isWriteNext: readers never wait for a queued writer.
isWriteNextNever(p) == FALSE

\* The answer of isWriteNext once the queue is pruned.
isWriteNext(p) == p.waitQ # << >> /\ p.waiters[Head(p.waitQ)] = Write

\* An outcome of a lock function: the entry it leaves, its return value, and
\* what it adds to the server's counter of readers or of writers.
Answer(l, granted, inc) == [lock |-> l, granted |-> granted, inc |-> inc]

\* The entry with a new state and new holders.
Held(l, state, holders) == [l EXCEPT !.state = state, !.holders = holders]

lockForRead(l, r) ==
    CASE l.state = UNLOCKED ->
           {IF o.granted
            THEN Answer(Held(o.lock, LOCKED_FOR_READ, l.holders \cup {r}), TRUE, 1)
            ELSE Answer(o.lock, FALSE, 0) : o \in tryAcquireLock(l, r, Read)}
      [] l.state = LOCKED_FOR_READ ->
           IF r \in l.holders
           THEN {Answer(l, TRUE, 0)}
           ELSE {IF isWriteNext(p)
                 THEN Answer(waitForLock(p, r, Read), FALSE, 0)
                 ELSE Answer(Held(p, l.state, l.holders \cup {r}), TRUE, 1) : p \in Pruned(l)}
      [] WriteLocked(l) ->
           {IF r \in l.holders
            THEN Answer(Held(l, LOCKED_FOR_READ_WRITE, l.holders), TRUE, 1)
            ELSE Answer(waitForLock(l, r, Read), FALSE, 0)}

\* Mutant of lockForWrite: upgrades any read holder, not only the sole one.
lockForWriteShared(l, r) ==
    CASE l.state = UNLOCKED ->
           {IF o.granted
            THEN Answer(Held(o.lock, LOCKED_FOR_WRITE, l.holders \cup {r}), TRUE, 1)
            ELSE Answer(o.lock, FALSE, 0) : o \in tryAcquireLock(l, r, Write)}
      [] l.state = LOCKED_FOR_READ ->
           {IF r \in l.holders
            THEN Answer(Held(l, LOCKED_FOR_READ_WRITE, l.holders), TRUE, 1)
            ELSE Answer(waitForLock(l, r, Write), FALSE, 0)}
      [] WriteLocked(l) ->
           {IF r \in l.holders
            THEN Answer(l, TRUE, 0)
            ELSE Answer(waitForLock(l, r, Write), FALSE, 0)}

lockForWrite(l, r) ==
    CASE l.state = UNLOCKED ->
           {IF o.granted
            THEN Answer(Held(o.lock, LOCKED_FOR_WRITE, l.holders \cup {r}), TRUE, 1)
            ELSE Answer(o.lock, FALSE, 0) : o \in tryAcquireLock(l, r, Write)}
      [] l.state = LOCKED_FOR_READ ->
           {IF l.holders = {r}
            THEN Answer(Held(l, LOCKED_FOR_READ_WRITE, l.holders), TRUE, 1)
            ELSE Answer(waitForLock(l, r, Write), FALSE, 0)}
      [] WriteLocked(l) ->
           {IF r \in l.holders
            THEN Answer(l, TRUE, 0)
            ELSE Answer(waitForLock(l, r, Write), FALSE, 0)}

\* Mutant of releaseForRead: a read-write lock is dropped altogether.
releaseForReadAll(l, r) ==
    IF r \notin l.holders \/ ~ReadLocked(l)
    THEN l
    ELSE Held(l, IF l.holders = {r} THEN UNLOCKED ELSE l.state, l.holders \ {r})

releaseForRead(l, r) ==
    IF r \notin l.holders \/ ~ReadLocked(l)
    THEN l
    ELSE IF l.state = LOCKED_FOR_READ_WRITE
    THEN Held(l, LOCKED_FOR_WRITE, l.holders)
    ELSE Held(l, IF l.holders = {r} THEN UNLOCKED ELSE l.state, l.holders \ {r})

releaseForWrite(l, r) ==
    IF r \notin l.holders \/ ~WriteLocked(l)
    THEN l
    ELSE IF l.state = LOCKED_FOR_READ_WRITE
    THEN Held(l, LOCKED_FOR_READ, l.holders)
    ELSE Held(l, UNLOCKED, l.holders \ {r})
-----------------------------------------------------------------------------
(* What makes an entry sound: the two predicates the properties of the       *)
(* modules built on this one are stated with.                                *)

HoldersOK(l) ==
    /\ l.state = UNLOCKED => l.holders = {}
    /\ l.state = LOCKED_FOR_READ => l.holders # {}
    /\ WriteLocked(l) => \E r \in Requesters : l.holders = {r}

QueueOK(l) ==
    /\ \A i, j \in 1..Len(l.waitQ) : i # j => l.waitQ[i] # l.waitQ[j]
    /\ \A r \in Requesters :
           l.waiters[r] # NotWaiting <=> \E i \in 1..Len(l.waitQ) : l.waitQ[i] = r
=============================================================================
