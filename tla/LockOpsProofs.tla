--------------------------- MODULE LockOpsProofs ----------------------------
(* What the functions on one lock entry of lockserver.cc return and           *)
(* preserve, for any set of requesters.                                       *)
EXTENDS LockOps, TLAPS

\* Changing the state and the holders of an entry touches nothing else.
LEMMA HeldLock ==
    ASSUME NEW l \in Lock, QueueOK(l), NEW s \in LockState, NEW h \in SUBSET Requesters
    PROVE  /\ Held(l, s, h) \in Lock
           /\ Held(l, s, h).state = s
           /\ Held(l, s, h).holders = h
           /\ QueueOK(Held(l, s, h))
<1> DEFINE m == Held(l, s, h)
<1>1. /\ m \in Lock
      /\ m.state = s
      /\ m.holders = h
      /\ m.waitQ = l.waitQ
      /\ m.waiters = l.waiters
  BY DEF Lock, Held
<1> HIDE DEF m
<1>2. QueueOK(m)
  BY <1>1 DEF QueueOK
<1> QED BY <1>1, <1>2 DEF m

\* Pruning the queue leaves an entry whose state and holders are the same,
\* and keeps queue and map in agreement.
LEMMA PrunedLock ==
    ASSUME NEW l \in Lock, QueueOK(l), NEW p \in Pruned(l)
    PROVE  /\ p \in Lock
           /\ p.state = l.state
           /\ p.holders = l.holders
           /\ QueueOK(p)
<1>1. PICK n \in 0..Len(l.waitQ) :
        p = [l EXCEPT !.waitQ = SubSeq(l.waitQ, n + 1, Len(l.waitQ)),
                      !.waiters = [r \in Requesters |->
                               IF \E i \in 1..n : l.waitQ[i] = r
                               THEN NotWaiting ELSE l.waiters[r]]]
  BY DEF Pruned
<1>2. /\ l.state \in LockState
      /\ l.holders \in SUBSET Requesters
      /\ l.waitQ \in Seq(Requesters)
      /\ l.waiters \in [Requesters -> Waiter]
  BY DEF Lock
<1> DEFINE q == SubSeq(l.waitQ, n + 1, Len(l.waitQ))
<1>3. /\ q \in Seq(Requesters)
      /\ Len(q) = Len(l.waitQ) - n
      /\ \A i \in 1..Len(q) : q[i] = l.waitQ[n + i]
  BY <1>2
<1>4. /\ p.state = l.state
      /\ p.holders = l.holders
      /\ p.waitQ = q
      /\ p.waiters = [r \in Requesters |->
                               IF \E i \in 1..n : l.waitQ[i] = r
                               THEN NotWaiting ELSE l.waiters[r]]
  BY <1>1 DEF Lock
<1>5. p \in Lock
  BY <1>1, <1>2, <1>3 DEF Lock, Waiter
<1> HIDE DEF q
<1>6. \A i, j \in 1..Len(q) : i # j => q[i] # q[j]
  BY <1>2, <1>3 DEF QueueOK
<1>7. ASSUME NEW r \in Requesters
      PROVE  p.waiters[r] # NotWaiting <=> \E i \in 1..Len(q) : q[i] = r
  <2>1. p.waiters[r] # NotWaiting
          <=> (~\E i \in 1..n : l.waitQ[i] = r) /\ l.waiters[r] # NotWaiting
    BY <1>4
  <2>2. l.waiters[r] # NotWaiting <=> \E i \in 1..Len(l.waitQ) : l.waitQ[i] = r
    BY DEF QueueOK
  <2>3. ASSUME NEW i \in 1..Len(q), q[i] = r
        PROVE  (~\E m \in 1..n : l.waitQ[m] = r) /\ \E m \in 1..Len(l.waitQ) : l.waitQ[m] = r
    <3>1. n + i \in 1..Len(l.waitQ) /\ l.waitQ[n + i] = r
      <4>1. n + i \in 1..Len(l.waitQ)
        BY <1>2, <1>3, <2>3
      <4> QED BY SMTT(60), <1>3, <2>3, <4>1
    <3>2. ASSUME NEW m \in 1..n PROVE l.waitQ[m] # r
      <4>1. m \in 1..Len(l.waitQ) /\ m # n + i
        BY <1>2, <3>1
      <4> QED BY <3>1, <4>1 DEF QueueOK
    <3> QED BY <3>1, <3>2
  <2>4. ASSUME ~\E m \in 1..n : l.waitQ[m] = r, NEW m \in 1..Len(l.waitQ), l.waitQ[m] = r
        PROVE  \E i \in 1..Len(q) : q[i] = r
    <3>1. m - n \in 1..Len(q)
      BY <1>2, <1>3, <2>4
    <3>2. q[m - n] = l.waitQ[n + (m - n)] /\ n + (m - n) = m
      BY SMTT(60), <1>2, <1>3, <3>1
    <3> QED BY <2>4, <3>1, <3>2
  <2> QED BY <2>1, <2>2, <2>3, <2>4
<1> QED BY <1>4, <1>5, <1>6, <1>7 DEF QueueOK

\* Joining the queue changes neither the state nor the holders.
LEMMA WaitForLock ==
    ASSUME NEW l \in Lock, QueueOK(l), NEW r \in Requesters, NEW mode \in {Read, Write}
    PROVE  LET w == waitForLock(l, r, mode)
           IN  /\ w \in Lock
               /\ w.state = l.state
               /\ w.holders = l.holders
               /\ QueueOK(w)
<1> DEFINE w == waitForLock(l, r, mode)
<1>1. CASE l.waiters[r] # NotWaiting
  BY <1>1 DEF waitForLock
<1>2. CASE l.waiters[r] = NotWaiting
  <2>1. w = [l EXCEPT !.waitQ = Append(l.waitQ, r), !.waiters[r] = mode]
    BY <1>2 DEF waitForLock
  <2>2. /\ l.waitQ \in Seq(Requesters)
        /\ l.waiters \in [Requesters -> Waiter]
    BY DEF Lock
  <2>3. /\ w.state = l.state
        /\ w.holders = l.holders
        /\ w.waitQ = Append(l.waitQ, r)
        /\ w.waiters = [l.waiters EXCEPT ![r] = mode]
    BY <2>1 DEF Lock
  <2>8. w \in Lock
    <3>1. [l.waiters EXCEPT ![r] = mode] \in [Requesters -> Waiter]
      BY <2>2 DEF Waiter
    <3>2. Append(l.waitQ, r) \in Seq(Requesters)
      BY <2>2
    <3>3. w = [l EXCEPT !.waitQ = Append(l.waitQ, r),
                        !.waiters = [l.waiters EXCEPT ![r] = mode]]
      BY <2>1 DEF Lock
    <3> QED BY <3>1, <3>2, <3>3 DEF Lock
  <2>4. /\ Len(w.waitQ) = Len(l.waitQ) + 1
        /\ w.waitQ[Len(l.waitQ) + 1] = r
        /\ \A i \in 1..Len(l.waitQ) : w.waitQ[i] = l.waitQ[i]
    BY <2>2, <2>3
  <2>5. \A i \in 1..Len(l.waitQ) : l.waitQ[i] # r
    BY <1>2 DEF QueueOK
  <2>6. \A i, j \in 1..Len(w.waitQ) : i # j => w.waitQ[i] # w.waitQ[j]
    <3> SUFFICES ASSUME NEW i \in 1..Len(w.waitQ), NEW j \in 1..Len(w.waitQ), i # j
                 PROVE  w.waitQ[i] # w.waitQ[j]
      OBVIOUS
    <3>1. \A m \in 1..Len(w.waitQ) : m \in 1..Len(l.waitQ) \/ m = Len(l.waitQ) + 1
      BY <2>2, <2>4
    <3>2. CASE i \in 1..Len(l.waitQ) /\ j \in 1..Len(l.waitQ)
      BY <2>4, <3>2 DEF QueueOK
    <3>3. CASE i = Len(l.waitQ) + 1
      BY <2>4, <2>5, <3>1, <3>3
    <3>4. CASE j = Len(l.waitQ) + 1
      BY <2>4, <2>5, <3>1, <3>4
    <3> QED BY <3>1, <3>2, <3>3, <3>4
  <2>7. ASSUME NEW s \in Requesters
        PROVE  w.waiters[s] # NotWaiting <=> \E i \in 1..Len(w.waitQ) : w.waitQ[i] = s
    <3>1. CASE s = r
      <4>1. w.waiters[s] # NotWaiting
        BY <2>2, <2>3, <3>1 DEF Read, Write, NotWaiting
      <4>2. Len(l.waitQ) + 1 \in 1..Len(w.waitQ)
        BY <2>2, <2>4
      <4> QED BY <2>4, <3>1, <4>1, <4>2
    <3>2. CASE s # r
      <4>1. w.waiters[s] = l.waiters[s]
        BY <2>2, <2>3, <3>2
      <4>2. (\E i \in 1..Len(w.waitQ) : w.waitQ[i] = s)
              <=> \E i \in 1..Len(l.waitQ) : l.waitQ[i] = s
        BY <2>2, <2>4, <3>2
      <4> QED BY <4>1, <4>2 DEF QueueOK
    <3> QED BY <3>1, <3>2
  <2> QED BY <2>3, <2>6, <2>7, <2>8 DEF QueueOK
<1> QED BY <1>1, <1>2

\* A requester that finds the lock free is admitted or queued; either way the
\* entry stays free and without holders until the caller records the grant.
LEMMA TryAcquireLock ==
    ASSUME NEW l \in Lock, QueueOK(l), NEW r \in Requesters, NEW mode \in {Read, Write},
           NEW o \in tryAcquireLock(l, r, mode)
    PROVE  /\ o.lock \in Lock
           /\ o.lock.state = l.state
           /\ o.lock.holders = l.holders
           /\ QueueOK(o.lock)
           /\ o.granted \in BOOLEAN
<1> DEFINE popped(p) == [p EXCEPT !.waitQ = Tail(p.waitQ), !.waiters[r] = NotWaiting]
<1>1. PICK p \in Pruned(l) :
        o = IF p.waitQ = << >>
            THEN [lock |-> p, granted |-> TRUE]
            ELSE IF Head(p.waitQ) = r
            THEN [lock |-> popped(p), granted |-> TRUE]
            ELSE [lock |-> waitForLock(p, r, mode), granted |-> FALSE]
  BY DEF tryAcquireLock
<1>2. p \in Lock /\ p.state = l.state /\ p.holders = l.holders /\ QueueOK(p)
  BY PrunedLock
<1>3. CASE p.waitQ = << >>
  BY <1>1, <1>2, <1>3
<1>4. CASE p.waitQ # << >> /\ Head(p.waitQ) = r
  <2>1. o.lock = popped(p) /\ o.granted = TRUE
    BY <1>1, <1>4
  <2>2. /\ p.waitQ \in Seq(Requesters)
        /\ p.waiters \in [Requesters -> Waiter]
    BY <1>2 DEF Lock
  <2> DEFINE q == Tail(p.waitQ)
             w == [p.waiters EXCEPT ![r] = NotWaiting]
  <2>3. /\ o.lock.state = p.state
        /\ o.lock.holders = p.holders
        /\ o.lock.waitQ = q
        /\ o.lock.waiters = w
    BY <1>2, <2>1 DEF Lock
  <2>4. /\ q \in Seq(Requesters)
        /\ Len(p.waitQ) >= 1
        /\ Len(q) = Len(p.waitQ) - 1
        /\ \A i \in 1..Len(q) : q[i] = p.waitQ[i + 1]
        /\ p.waitQ[1] = r
    BY <1>4, <2>2
  <2>5. o.lock \in Lock
    <3>1. w \in [Requesters -> Waiter]
      BY <2>2 DEF Waiter
    <3>2. o.lock = [p EXCEPT !.waitQ = q, !.waiters = w]
      BY <1>2, <2>1 DEF Lock
    <3> QED BY <1>2, <2>4, <3>1, <3>2 DEF Lock
  <2> HIDE DEF q
  <2>6. \A i, j \in 1..Len(q) : i # j => q[i] # q[j]
    BY <1>2, <2>2, <2>4 DEF QueueOK
  <2>7. ASSUME NEW s \in Requesters
        PROVE  w[s] # NotWaiting <=> \E i \in 1..Len(q) : q[i] = s
    <3>1. CASE s = r
      <4>1. w[s] = NotWaiting
        BY <2>2, <3>1
      <4>2. \A i \in 1..Len(q) : q[i] # r
        BY SMTT(60), <1>2, <2>2, <2>4 DEF QueueOK
      <4> QED BY <3>1, <4>1, <4>2
    <3>2. CASE s # r
      <4>1. w[s] = p.waiters[s]
        BY <2>2, <3>2
      <4>2. ASSUME NEW i \in 1..Len(p.waitQ), p.waitQ[i] = s
            PROVE  \E j \in 1..Len(q) : q[j] = s
        <5>1. i - 1 \in 1..Len(q) /\ q[i - 1] = s
          BY <2>2, <2>4, <3>2, <4>2
        <5> QED BY <5>1
      <4>3. ASSUME NEW j \in 1..Len(q), q[j] = s
            PROVE  \E i \in 1..Len(p.waitQ) : p.waitQ[i] = s
        <5>1. j + 1 \in 1..Len(p.waitQ) /\ p.waitQ[j + 1] = s
          BY <2>2, <2>4, <4>3
        <5> QED BY <5>1
      <4> QED BY <1>2, <4>1, <4>2, <4>3 DEF QueueOK
    <3> QED BY <3>1, <3>2
  <2> HIDE DEF w, popped
  <2>8. QueueOK(o.lock)
    BY <2>3, <2>6, <2>7 DEF QueueOK
  <2> QED BY <1>2, <2>1, <2>3, <2>5, <2>8
<1>5. CASE p.waitQ # << >> /\ Head(p.waitQ) # r
  BY <1>1, <1>2, <1>5, WaitForLock
<1> QED BY <1>3, <1>4, <1>5

\* Granting a read lock: the requester joins the readers, and nobody else
\* holds the lock for writing.  Otherwise the holders stay as they are.
LEMMA LockForReadStep ==
    ASSUME NEW l \in Lock, QueueOK(l), HoldersOK(l), NEW r \in Requesters,
           NEW o \in lockForRead(l, r)
    PROVE  /\ o.lock \in Lock
           /\ QueueOK(o.lock)
           /\ HoldersOK(o.lock)
           /\ o.inc \in {0, 1}
           /\ o.granted => r \in ReadHolders(o.lock)
           /\ WriteHolders(o.lock) = WriteHolders(l)
           /\ \/ ReadHolders(o.lock) = ReadHolders(l)
              \/ /\ WriteHolders(l) \subseteq {r}
                 /\ ReadHolders(o.lock) = ReadHolders(l) \cup {r}
<1> USE DEF HoldersOK, WriteLocked, ReadLocked, WriteHolders, ReadHolders, Answer,
            UNLOCKED, LOCKED_FOR_READ, LOCKED_FOR_WRITE, LOCKED_FOR_READ_WRITE
<1>1. l.holders \in SUBSET Requesters /\ l.holders \cup {r} \in SUBSET Requesters
  BY DEF Lock
<1>2. l.state \in LockState
  BY DEF Lock
<1>3. CASE l.state = UNLOCKED
  <2>1. PICK t \in tryAcquireLock(l, r, Read) :
          o = IF t.granted
              THEN Answer(Held(t.lock, LOCKED_FOR_READ, l.holders \cup {r}), TRUE, 1)
              ELSE Answer(t.lock, FALSE, 0)
    BY <1>3 DEF lockForRead
  <2>2. /\ t.lock \in Lock
        /\ t.lock.state = l.state
        /\ t.lock.holders = l.holders
        /\ QueueOK(t.lock)
        /\ t.granted \in BOOLEAN
    BY TryAcquireLock
  <2>3. CASE t.granted
    <3>1. o.lock = Held(t.lock, LOCKED_FOR_READ, {r}) /\ o.inc = 1
      BY <1>3, <2>1, <2>3
    <3>2. /\ o.lock \in Lock
          /\ o.lock.state = LOCKED_FOR_READ
          /\ o.lock.holders = {r}
          /\ QueueOK(o.lock)
      BY <2>2, <3>1, HeldLock DEF LockState
    <3> QED BY <1>3, <3>1, <3>2
  <2>4. CASE ~t.granted
    BY <1>3, <2>1, <2>2, <2>4
  <2> QED BY <2>2, <2>3, <2>4
<1>4. CASE l.state = LOCKED_FOR_READ
  <2>1. CASE r \in l.holders
    BY <1>4, <2>1 DEF lockForRead
  <2>2. CASE r \notin l.holders
    <3>1. PICK p \in Pruned(l) :
            o = IF isWriteNext(p)
                THEN Answer(waitForLock(p, r, Read), FALSE, 0)
                ELSE Answer(Held(p, l.state, l.holders \cup {r}), TRUE, 1)
      BY <1>4, <2>2 DEF lockForRead
    <3>2. p \in Lock /\ p.state = l.state /\ p.holders = l.holders /\ QueueOK(p)
      BY PrunedLock
    <3>3. CASE isWriteNext(p)
      <4>1. o.lock = waitForLock(p, r, Read) /\ o.inc = 0 /\ o.granted = FALSE
        BY <3>1, <3>3
      <4>2. /\ o.lock \in Lock
            /\ o.lock.state = l.state
            /\ o.lock.holders = l.holders
            /\ QueueOK(o.lock)
        BY <3>2, <4>1, WaitForLock
      <4> QED BY <4>1, <4>2
    <3>4. CASE ~isWriteNext(p)
      <4>1. o.lock = Held(p, l.state, l.holders \cup {r}) /\ o.inc = 1
        BY <3>1, <3>4
      <4>2. /\ o.lock \in Lock
            /\ o.lock.state = l.state
            /\ o.lock.holders = l.holders \cup {r}
            /\ QueueOK(o.lock)
        BY <1>1, <1>2, <3>2, <4>1, HeldLock
      <4> QED BY <1>4, <4>1, <4>2
    <3> QED BY <3>3, <3>4
  <2> QED BY <2>1, <2>2
<1>5. CASE WriteLocked(l)
  <2>1. CASE r \in l.holders
    <3>1. o.lock = Held(l, LOCKED_FOR_READ_WRITE, l.holders) /\ o.inc = 1
      BY <1>5, <2>1 DEF lockForRead
    <3>2. /\ o.lock \in Lock
          /\ o.lock.state = LOCKED_FOR_READ_WRITE
          /\ o.lock.holders = l.holders
          /\ QueueOK(o.lock)
      BY <1>1, <3>1, HeldLock DEF LockState
    <3>3. l.holders = {r}
      BY <1>5, <2>1
    <3> QED BY <1>5, <3>1, <3>2, <3>3
  <2>2. CASE r \notin l.holders
    <3>1. o.lock = waitForLock(l, r, Read) /\ o.inc = 0 /\ o.granted = FALSE
      BY <1>5, <2>2 DEF lockForRead
    <3>2. /\ o.lock \in Lock
          /\ o.lock.state = l.state
          /\ o.lock.holders = l.holders
          /\ QueueOK(o.lock)
      BY <3>1, WaitForLock
    <3> QED BY <3>1, <3>2
  <2> QED BY <2>1, <2>2
<1> QED BY <1>2, <1>3, <1>4, <1>5 DEF LockState

\* Granting a write lock: the requester becomes the only holder for writing,
\* and nobody else held the lock.  Otherwise the holders stay as they are.
LEMMA LockForWriteStep ==
    ASSUME NEW l \in Lock, QueueOK(l), HoldersOK(l), NEW r \in Requesters,
           NEW o \in lockForWrite(l, r)
    PROVE  /\ o.lock \in Lock
           /\ QueueOK(o.lock)
           /\ HoldersOK(o.lock)
           /\ o.inc \in {0, 1}
           /\ o.granted => r \in WriteHolders(o.lock)
           /\ ReadHolders(o.lock) = ReadHolders(l)
           /\ \/ WriteHolders(o.lock) = WriteHolders(l)
              \/ /\ ReadHolders(l) \cup WriteHolders(l) \subseteq {r}
                 /\ WriteHolders(o.lock) = {r}
<1> USE DEF HoldersOK, WriteLocked, ReadLocked, WriteHolders, ReadHolders, Answer,
            UNLOCKED, LOCKED_FOR_READ, LOCKED_FOR_WRITE, LOCKED_FOR_READ_WRITE
<1>1. l.holders \in SUBSET Requesters
  BY DEF Lock
<1>2. l.state \in LockState
  BY DEF Lock
<1>3. CASE l.state = UNLOCKED
  <2>1. PICK t \in tryAcquireLock(l, r, Write) :
          o = IF t.granted
              THEN Answer(Held(t.lock, LOCKED_FOR_WRITE, l.holders \cup {r}), TRUE, 1)
              ELSE Answer(t.lock, FALSE, 0)
    BY <1>3 DEF lockForWrite
  <2>2. /\ t.lock \in Lock
        /\ t.lock.state = l.state
        /\ t.lock.holders = l.holders
        /\ QueueOK(t.lock)
        /\ t.granted \in BOOLEAN
    BY TryAcquireLock
  <2>3. CASE t.granted
    <3>1. o.lock = Held(t.lock, LOCKED_FOR_WRITE, {r}) /\ o.inc = 1
      BY <1>3, <2>1, <2>3
    <3>2. /\ o.lock \in Lock
          /\ o.lock.state = LOCKED_FOR_WRITE
          /\ o.lock.holders = {r}
          /\ QueueOK(o.lock)
      BY <2>2, <3>1, HeldLock DEF LockState
    <3> QED BY <1>3, <3>1, <3>2
  <2>4. CASE ~t.granted
    BY <1>3, <2>1, <2>2, <2>4
  <2> QED BY <2>2, <2>3, <2>4
<1>4. CASE l.state = LOCKED_FOR_READ
  <2>1. CASE l.holders = {r}
    <3>1. o.lock = Held(l, LOCKED_FOR_READ_WRITE, l.holders) /\ o.inc = 1
      BY <1>4, <2>1 DEF lockForWrite
    <3>2. /\ o.lock \in Lock
          /\ o.lock.state = LOCKED_FOR_READ_WRITE
          /\ o.lock.holders = l.holders
          /\ QueueOK(o.lock)
      BY <1>1, <3>1, HeldLock DEF LockState
    <3> QED BY <1>4, <2>1, <3>1, <3>2
  <2>2. CASE l.holders # {r}
    <3>1. o.lock = waitForLock(l, r, Write) /\ o.inc = 0 /\ o.granted = FALSE
      BY <1>4, <2>2 DEF lockForWrite
    <3>2. /\ o.lock \in Lock
          /\ o.lock.state = l.state
          /\ o.lock.holders = l.holders
          /\ QueueOK(o.lock)
      BY <3>1, WaitForLock
    <3> QED BY <3>1, <3>2
  <2> QED BY <2>1, <2>2
<1>5. CASE WriteLocked(l)
  <2>1. CASE r \in l.holders
    BY <1>5, <2>1 DEF lockForWrite
  <2>2. CASE r \notin l.holders
    <3>1. o.lock = waitForLock(l, r, Write) /\ o.inc = 0 /\ o.granted = FALSE
      BY <1>5, <2>2 DEF lockForWrite
    <3>2. /\ o.lock \in Lock
          /\ o.lock.state = l.state
          /\ o.lock.holders = l.holders
          /\ QueueOK(o.lock)
      BY <3>1, WaitForLock
    <3> QED BY <3>1, <3>2
  <2> QED BY <2>1, <2>2
<1> QED BY <1>2, <1>3, <1>4, <1>5 DEF LockState

\* Releasing a read lock removes the caller from the readers and nobody else.
LEMMA ReleaseForReadStep ==
    ASSUME NEW l \in Lock, QueueOK(l), HoldersOK(l), NEW r \in Requesters
    PROVE  LET m == releaseForRead(l, r)
           IN  /\ m \in Lock
               /\ QueueOK(m)
               /\ HoldersOK(m)
               /\ WriteHolders(m) = WriteHolders(l)
               /\ ReadHolders(m) = ReadHolders(l) \ {r}
<1> USE DEF HoldersOK, WriteLocked, ReadLocked, WriteHolders, ReadHolders,
            UNLOCKED, LOCKED_FOR_READ, LOCKED_FOR_WRITE, LOCKED_FOR_READ_WRITE
<1> DEFINE m == releaseForRead(l, r)
<1>1. l.holders \in SUBSET Requesters /\ l.state \in LockState
  BY DEF Lock
<1>2. CASE r \notin l.holders \/ ~ReadLocked(l)
  BY <1>2 DEF releaseForRead
<1>3. CASE r \in l.holders /\ l.state = LOCKED_FOR_READ_WRITE
  <2>1. m = Held(l, LOCKED_FOR_WRITE, l.holders)
    BY <1>3 DEF releaseForRead
  <2>2. /\ m \in Lock
        /\ m.state = LOCKED_FOR_WRITE
        /\ m.holders = l.holders
        /\ QueueOK(m)
    BY <1>1, <2>1, HeldLock DEF LockState
  <2>3. l.holders = {r}
    BY <1>3
  <2> HIDE DEF m
  <2>4. HoldersOK(m) /\ WriteHolders(m) = {r} /\ ReadHolders(m) = {}
    BY <2>2, <2>3
  <2>5. WriteHolders(l) = {r} /\ ReadHolders(l) = {r}
    BY <1>3, <2>3
  <2> QED BY <2>2, <2>4, <2>5 DEF m
<1>4. CASE r \in l.holders /\ l.state = LOCKED_FOR_READ
  <2> DEFINE s == IF l.holders = {r} THEN UNLOCKED ELSE l.state
  <2>1. m = Held(l, s, l.holders \ {r})
    BY <1>4 DEF releaseForRead
  <2>2. s \in LockState /\ l.holders \ {r} \in SUBSET Requesters
    BY <1>1 DEF LockState
  <2> HIDE DEF s
  <2>3. /\ m \in Lock
        /\ m.state = s
        /\ m.holders = l.holders \ {r}
        /\ QueueOK(m)
    BY <2>1, <2>2, HeldLock
  <2> HIDE DEF m
  <2>4. HoldersOK(m) /\ WriteHolders(m) = {} /\ ReadHolders(m) = l.holders \ {r}
    BY <1>4, <2>3 DEF s
  <2>5. WriteHolders(l) = {} /\ ReadHolders(l) = l.holders
    BY <1>4
  <2> QED BY <2>3, <2>4, <2>5 DEF m
<1> QED BY <1>1, <1>2, <1>3, <1>4 DEF LockState

\* Releasing a write lock leaves the lock without a write holder if the caller
\* was one, and changes nothing otherwise.
LEMMA ReleaseForWriteStep ==
    ASSUME NEW l \in Lock, QueueOK(l), HoldersOK(l), NEW r \in Requesters
    PROVE  LET m == releaseForWrite(l, r)
           IN  /\ m \in Lock
               /\ QueueOK(m)
               /\ HoldersOK(m)
               /\ ReadHolders(m) = ReadHolders(l)
               /\ WriteHolders(m) = IF r \in WriteHolders(l) THEN {} ELSE WriteHolders(l)
<1> USE DEF HoldersOK, WriteLocked, ReadLocked, WriteHolders, ReadHolders,
            UNLOCKED, LOCKED_FOR_READ, LOCKED_FOR_WRITE, LOCKED_FOR_READ_WRITE
<1> DEFINE m == releaseForWrite(l, r)
<1>1. l.holders \in SUBSET Requesters /\ l.state \in LockState
  BY DEF Lock
<1>2. CASE r \notin l.holders \/ ~WriteLocked(l)
  BY <1>2 DEF releaseForWrite
<1>3. CASE r \in l.holders /\ WriteLocked(l)
  <2> DEFINE s == IF l.state = LOCKED_FOR_READ_WRITE THEN LOCKED_FOR_READ ELSE UNLOCKED
             h == IF l.state = LOCKED_FOR_READ_WRITE THEN {r} ELSE {}
  <2>1. l.holders = {r} /\ l.holders \ {r} = {}
    BY <1>3
  <2>2. m = Held(l, s, h)
    BY <1>3, <2>1 DEF releaseForWrite
  <2>3. s \in LockState /\ h \in SUBSET Requesters
    BY <1>1 DEF LockState
  <2> HIDE DEF s, h
  <2>4. m \in Lock /\ m.state = s /\ m.holders = h /\ QueueOK(m)
    BY <2>2, <2>3, HeldLock
  <2> HIDE DEF m
  <2>5. HoldersOK(m) /\ WriteHolders(m) = {} /\ ReadHolders(m) = h
    BY <2>4 DEF s, h
  <2>6. WriteHolders(l) = {r} /\ ReadHolders(l) = h
    BY <1>3, <2>1 DEF h
  <2> QED BY <2>4, <2>5, <2>6 DEF m
<1> QED BY <1>2, <1>3
=============================================================================
