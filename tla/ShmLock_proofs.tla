---------------------------- MODULE ShmLock_proofs ----------------------------
(***************************************************************************)
(* For any connections, read marks and numbers of timeouts: the locks       *)
(* exclude each other, every sleeper is queued, and the queue is empty      *)
(* when no lock is held.                                                    *)
(***************************************************************************)
EXTENDS ShmLock, TLAPS

\* Only an open connection holds a lock.
HoldersAreOpen ==
  \A l \in Lock : excl[l] \in open \cup {None} /\ shrd[l] \subseteq open

IInv == TypeOK /\ HoldersAreOpen /\ SleepersAreQueued /\ QueueEmptyWhenFree

\* A queue that is not empty has somebody who holds a lock.
LEMMA HeldByOpen ==
  ASSUME TypeOK, HoldersAreOpen, NEW l \in Lock, excl[l] # None \/ shrd[l] # {}
  PROVE  \E c \in open : Held(c) # {}
  BY DEF TypeOK, HoldersAreOpen, Held

\* An entry that another thread's signal leaves in the queue is that thread's.
LEMMA TailKeepsOthers ==
  ASSUME NEW S, NEW q \in Seq(S), q # <<>>, NEW i \in 1..Len(q), q[i] # Head(q)
  PROVE  /\ Tail(q) \in Seq(S)
         /\ i - 1 \in 1..Len(Tail(q)) /\ Tail(q)[i - 1] = q[i]
  OBVIOUS

\* WCDBOsShmSignal keeps the queue in order.
LEMMA SignalKeeps ==
  ASSUME TypeOK, SleepersAreQueued, queue # <<>>, Signal
  PROVE  /\ queue' \in Seq(Entry) /\ asleep' \subseteq asleep
         /\ \A c \in asleep' : \E i \in 1..Len(queue') : queue'[i].conn = c
<1>1. queue \in Seq(Entry)
  BY DEF TypeOK
<1>2. queue' = Tail(queue) /\ asleep' = asleep \ {Head(queue).conn}
  BY DEF Signal
<1>3. ASSUME NEW c \in asleep'
      PROVE  \E i \in 1..Len(queue') : queue'[i].conn = c
  <2>1. PICK i \in 1..Len(queue) : queue[i].conn = c
    BY <1>2, <1>3 DEF SleepersAreQueued
  <2>2. queue[i] # Head(queue)
    BY <1>2, <1>3, <2>1
  <2>3. i - 1 \in 1..Len(Tail(queue)) /\ Tail(queue)[i - 1] = queue[i]
    BY <1>1, <2>2, TailKeepsOthers
  <2> QED BY <1>2, <2>1, <2>3
<1> QED BY <1>1, <1>2, <1>3

\* After WCDBOsShmTrySignal the front, if any, cannot have its lock: somebody
\* has one.
LEMMA TrySignalKeeps ==
  ASSUME TypeOK, SleepersAreQueued, NEW STATE ex, NEW STATE sh, TrySignal(ex, sh)
  PROVE  /\ queue' \in Seq(Entry) /\ asleep' \subseteq asleep
         /\ \A c \in asleep' : \E i \in 1..Len(queue') : queue'[i].conn = c
         /\ queue' # <<>> => \E l \in Lock : ex[l] # None \/ sh[l] # {}
<1>2. queue \in Seq(Entry) /\ Len(queue) \in Nat
  BY DEF TypeOK
<1>1. PICK stop \in 1..Len(queue) + 1 :
        /\ stop <= Len(queue) => ~Grantable(queue[stop].locks, queue[stop].excl, ex, sh)
        /\ queue' = SubSeq(queue, stop, Len(queue))
        /\ asleep' = asleep \ {queue[i].conn : i \in 1..stop - 1}
  BY DEF TrySignal
<1>4. /\ queue' \in Seq(Entry) /\ Len(queue') = Len(queue) + 1 - stop
      /\ \A i \in 1..Len(queue') : queue'[i] = queue[stop + i - 1]
  BY <1>1, <1>2
<1>5. ASSUME NEW c \in asleep'
      PROVE  \E i \in 1..Len(queue') : queue'[i].conn = c
  <2>1. PICK i \in 1..Len(queue) : queue[i].conn = c
    BY <1>1, <1>5 DEF SleepersAreQueued
  <2>2. i >= stop
    BY <1>1, <1>2, <1>5, <2>1
  <2>3. i - stop + 1 \in 1..Len(queue')
    BY <1>2, <1>4, <2>2
  <2>4. queue'[i - stop + 1] = queue[i]
    BY <1>4, <2>2, <2>3
  <2> QED BY <2>1, <2>3, <2>4
<1>6. ASSUME queue' # <<>>
      PROVE  \E l \in Lock : ex[l] # None \/ sh[l] # {}
  <2>1. stop <= Len(queue)
    BY <1>2, <1>4, <1>6
  <2>2. queue[stop] \in Entry /\ ~Grantable(queue[stop].locks, queue[stop].excl, ex, sh)
    BY <1>1, <1>2, <2>1
  <2> QED BY <2>2 DEF Grantable, Entry
<1> QED BY <1>1, <1>4, <1>5, <1>6

\* A lock call that gets its lock disturbs no other holder; one that waits has
\* found a holder.
LEMMA RequestKeeps ==
  ASSUME IInv, NEW c \in Conn, NEW ls \in SUBSET Lock, NEW wantExcl \in BOOLEAN,
         NEW bWait \in BOOLEAN, Request(c, ls, wantExcl, bWait)
  PROVE  IInv'
<1> USE DEF IInv
<1>1. /\ c \in open \ asleep /\ c # None
      /\ open' = open /\ timeouts' = timeouts
  BY ShmLockAssumption DEF Request
<1>2. CASE Grantable(ls, wantExcl, excl, shrd)
  <2>1. Take(c, ls, wantExcl) /\ queue' = queue /\ asleep' = asleep
    BY <1>2 DEF Request
  <2>2. /\ excl' \in [Lock -> Conn \cup {None}] /\ shrd' \in [Lock -> SUBSET Conn]
        /\ \A l \in Lock : excl'[l] # None => shrd'[l] = {}
        /\ HoldersAreOpen'
        /\ \A l \in Lock : excl[l] # None => excl'[l] = excl[l]
        /\ \A l \in Lock : shrd[l] \subseteq shrd'[l]
    <3>1. CASE wantExcl
      <4>1. excl' = [l \in Lock |-> IF l \in ls THEN c ELSE excl[l]] /\ shrd' = shrd
        BY <2>1, <3>1 DEF Take
      <4> QED BY <1>1, <1>2, <3>1, <4>1 DEF TypeOK, HoldersAreOpen, Grantable
    <3>2. CASE ~wantExcl
      <4>1. excl' = excl /\ shrd' = [l \in Lock |-> IF l \in ls THEN shrd[l] \cup {c} ELSE shrd[l]]
        BY <2>1, <3>2 DEF Take
      <4> QED BY <1>1, <1>2, <3>2, <4>1 DEF TypeOK, HoldersAreOpen, Grantable
    <3> QED BY <3>1, <3>2
  <2>3. TypeOK' /\ SleepersAreQueued'
    BY <1>1, <2>1, <2>2 DEF TypeOK, SleepersAreQueued
  <2>4. \A d \in Conn : Held(d) \subseteq Held(d)'
    BY <2>2, ShmLockAssumption DEF Held
  <2>5. QueueEmptyWhenFree'
    BY <1>1, <2>1, <2>4 DEF QueueEmptyWhenFree, TypeOK
  <2> QED BY <2>2, <2>3, <2>5
<1>3. CASE ~Grantable(ls, wantExcl, excl, shrd)
  <2>1. Wait(c, ls, wantExcl) /\ excl' = excl /\ shrd' = shrd
    BY <1>3 DEF Request
  <2>2. HoldersAreOpen' /\ \A d \in Conn : Held(d)' = Held(d)
    BY <1>1, <2>1 DEF HoldersAreOpen, Held
  <2>3. \E d \in open : Held(d) # {}
    BY <1>3, HeldByOpen DEF Grantable
  <2>4. /\ queue' \in Seq(Entry) /\ asleep' \subseteq open
        /\ SleepersAreQueued'
    <3>1. CASE queue # <<>> /\ Signal
      BY <3>1, SignalKeeps DEF TypeOK, SleepersAreQueued
    <3>2. ASSUME NEW e \in Entry, e.conn = c, asleep' = asleep \cup {c},
                 queue' = <<e>> \o queue \/ queue' = Append(queue, e)
          PROVE  /\ queue' \in Seq(Entry) /\ asleep' \subseteq open
                 /\ SleepersAreQueued'
      <4>1. queue \in Seq(Entry) /\ asleep \subseteq open
        BY DEF TypeOK
      <4>2. CASE queue' = <<e>> \o queue
        <5>1. /\ queue' \in Seq(Entry) /\ queue'[1] = e /\ 1 \in 1..Len(queue')
              /\ \A i \in 1..Len(queue) : i + 1 \in 1..Len(queue') /\ queue'[i + 1] = queue[i]
          BY <4>1, <4>2
        <5>2. queue' \in Seq(Entry) /\ asleep' \subseteq open
          BY <1>1, <3>2, <4>1, <5>1
        <5>3. ASSUME NEW d \in asleep'
              PROVE  \E i \in 1..Len(queue') : queue'[i].conn = d
          <6>1. CASE d = c
            BY <3>2, <5>1, <6>1
          <6>2. CASE d \in asleep
            <7>1. PICK i \in 1..Len(queue) : queue[i].conn = d
              BY <6>2 DEF SleepersAreQueued
            <7> QED BY <5>1, <7>1
          <6> QED BY <3>2, <5>3, <6>1, <6>2
        <5> QED BY <5>2, <5>3 DEF SleepersAreQueued
      <4>3. CASE queue' = Append(queue, e)
        <5>1. /\ queue' \in Seq(Entry) /\ Len(queue) + 1 \in 1..Len(queue')
              /\ queue'[Len(queue) + 1] = e
              /\ \A i \in 1..Len(queue) : i \in 1..Len(queue') /\ queue'[i] = queue[i]
          BY <4>1, <4>3
        <5> QED BY <1>1, <3>2, <4>1, <5>1 DEF SleepersAreQueued
      <4> QED BY <3>2, <4>2, <4>3
    <3>3. [conn |-> c, locks |-> ls, excl |-> wantExcl, dead |-> FALSE] \in Entry
      BY DEF Entry
    <3>4. queue = <<>> => ~(TRUE \in Crossed(c, ls, wantExcl))
      BY DEF Crossed
    <3> QED BY <2>1, <3>1, <3>2, <3>3, <3>4 DEF Wait
  <2>5. TypeOK'
    BY <1>1, <2>1, <2>4 DEF TypeOK
  <2>6. QueueEmptyWhenFree'
    BY <1>1, <2>2, <2>3 DEF QueueEmptyWhenFree, TypeOK
  <2> QED BY <2>2, <2>4, <2>5, <2>6
<1> QED BY <1>2, <1>3

\* An unlock leaves in the queue only waiters behind one that a holder blocks.
LEMMA UnlockKeeps ==
  ASSUME IInv, NEW c \in Conn, NEW ls \in SUBSET Lock, Unlock(c, ls)
  PROVE  IInv'
<1> USE DEF IInv
<1>1. /\ c \in open \ asleep /\ open' = open /\ timeouts' = timeouts
      /\ excl' = [l \in Lock |-> IF l \in ls /\ excl[l] = c THEN None ELSE excl[l]]
      /\ shrd' = [l \in Lock |-> IF l \in ls THEN shrd[l] \ {c} ELSE shrd[l]]
      /\ TrySignal(excl', shrd')
  BY DEF Unlock
<1>2. /\ queue' \in Seq(Entry) /\ asleep' \subseteq asleep
      /\ SleepersAreQueued'
      /\ queue' # <<>> => \E l \in Lock : excl'[l] # None \/ shrd'[l] # {}
  BY <1>1, TrySignalKeeps DEF SleepersAreQueued
<1>3. TypeOK' /\ HoldersAreOpen'
  BY <1>1, <1>2 DEF TypeOK, HoldersAreOpen
<1>4. QueueEmptyWhenFree'
  BY <1>1, <1>2, <1>3 DEF QueueEmptyWhenFree, HoldersAreOpen, TypeOK, Held
<1> QED BY <1>2, <1>3, <1>4

\* Closing its file only marks an entry.
LEMMA EntryMarked ==
  ASSUME NEW e \in Entry, NEW b \in BOOLEAN
  PROVE  [e EXCEPT !.dead = b] \in Entry /\ [e EXCEPT !.dead = b].conn = e.conn
  BY DEF Entry

LEMMA HeldAreLocks == ASSUME NEW c PROVE Held(c) \subseteq Lock
  BY DEF Held

LEMMA StepKeeps ==
  ASSUME IInv, NEW c \in Conn, Step(c)
  PROVE  IInv'
<1> USE DEF IInv
<1>1. \A r \in Reads : {r} \in SUBSET Lock
  BY DEF Lock
<1>2. \A l \in Lock : {l} \in SUBSET Lock /\ Lock \ {l} \in SUBSET Lock
  OBVIOUS
<1>3. {WriteLock, CkptLock, RecoverLock} \subseteq Lock /\ Marks \subseteq Lock
  BY DEF Lock, Reads
<1>4. CASE LockToRead(c)
  <2>1. PICK r \in Reads : Request(c, {r}, FALSE, TRUE) \/ Request(c, {r}, FALSE, FALSE)
    BY <1>4 DEF LockToRead
  <2> QED BY <1>1, <2>1, RequestKeeps
<1>5. CASE LockToClaim(c)
  <2>1. PICK r \in Marks : Request(c, {r}, TRUE, FALSE)
    BY <1>5 DEF LockToClaim
  <2> QED BY <1>3, <2>1, RequestKeeps
<1>6. CASE LockToWrite(c)
  BY <1>3, <1>6, RequestKeeps DEF LockToWrite
<1>7. CASE LockToRestart(c)
  BY <1>3, <1>7, RequestKeeps DEF LockToRestart
<1>8. CASE LockForHeader(c) \/ LockForHeaderOfCheckpoint(c)
  BY <1>3, <1>8, RequestKeeps DEF LockForHeader, LockForHeaderOfCheckpoint
<1>9. CASE LockBehindRecovery(c)
  BY <1>3, <1>9, RequestKeeps DEF LockBehindRecovery
<1>10. CASE LockToRecover(c) \/ RecoverInCheckpoint(c)
  BY <1>10, RequestKeeps DEF LockToRecover, RecoverInCheckpoint
<1>11. CASE LockToCheckpoint(c)
  <2>1. \/ Request(c, {CkptLock}, TRUE, FALSE)
        \/ \E r \in Reads : Request(c, {r}, TRUE, FALSE)
    BY <1>11 DEF LockToCheckpoint
  <2> QED BY <1>1, <1>3, <2>1, RequestKeeps
<1>12. CASE Release(c)
  <2>1. PICK ls \in SUBSET Lock : Unlock(c, ls)
    BY <1>12, HeldAreLocks DEF Release
  <2> QED BY <2>1, UnlockKeeps
<1>13. CASE Timeout(c)
  <2>1. /\ asleep' = asleep \ {c} /\ timeouts' = timeouts + 1 /\ timeouts < MaxTimeouts
        /\ UNCHANGED <<excl, shrd, queue, open>>
    BY <1>13 DEF Timeout
  <2>2. TypeOK' /\ SleepersAreQueued'
    BY <2>1, ShmLockAssumption DEF TypeOK, SleepersAreQueued
  <2>3. HoldersAreOpen' /\ QueueEmptyWhenFree'
    BY <2>1 DEF HoldersAreOpen, QueueEmptyWhenFree, Held
  <2> QED BY <2>2, <2>3
<1>14. CASE Close(c)
  <2>1. /\ c \in open \ asleep /\ Held(c) = {} /\ open' = open \ {c}
        /\ queue' = [i \in 1..Len(queue) |-> [queue[i] EXCEPT !.dead = @ \/ queue[i].conn = c]]
        /\ UNCHANGED <<excl, shrd, asleep, timeouts>>
    BY <1>14 DEF Close
  <2>2. queue \in Seq(Entry)
    BY DEF TypeOK
  <2>3. /\ queue' \in Seq(Entry) /\ Len(queue') = Len(queue)
        /\ \A i \in 1..Len(queue) : queue'[i].conn = queue[i].conn
    <3>1. ASSUME NEW i \in 1..Len(queue)
          PROVE  /\ queue'[i] \in Entry /\ queue'[i].conn = queue[i].conn
      <4>1. queue[i] \in Entry
        BY <2>2
      <4>2. (queue[i].dead \/ queue[i].conn = c) \in BOOLEAN
        OBVIOUS
      <4>3. queue'[i] = [queue[i] EXCEPT !.dead = (queue[i].dead \/ queue[i].conn = c)]
        BY <2>1
      <4> QED BY <4>1, <4>2, <4>3, EntryMarked
    <3> QED BY <2>1, <2>2, <3>1
  <2>4. TypeOK' /\ SleepersAreQueued'
    BY <2>1, <2>2, <2>3 DEF TypeOK, SleepersAreQueued
  <2>5. HoldersAreOpen'
    BY <2>1 DEF HoldersAreOpen, Held, TypeOK
  <2>6. QueueEmptyWhenFree'
    <3>1. \A d \in Conn : Held(d)' = Held(d)
      BY <2>1 DEF Held
    <3> QED BY <2>1, <2>2, <2>3, <3>1 DEF QueueEmptyWhenFree, TypeOK
  <2> QED BY <2>4, <2>5, <2>6
<1>15. CASE Open(c)
  <2>1. open' = open \cup {c} /\ UNCHANGED <<excl, shrd, queue, asleep, timeouts>>
    BY <1>15 DEF Open
  <2>2. TypeOK' /\ SleepersAreQueued'
    BY <2>1 DEF TypeOK, SleepersAreQueued
  <2>3. HoldersAreOpen' /\ QueueEmptyWhenFree'
    BY <2>1 DEF HoldersAreOpen, QueueEmptyWhenFree, Held
  <2> QED BY <2>2, <2>3
<1> QED
  BY <1>4, <1>5, <1>6, <1>7, <1>8, <1>9, <1>10, <1>11, <1>12, <1>13, <1>14, <1>15 DEF Step

LEMMA IInvHolds == Spec => []IInv
<1>1. Init => IInv
  BY ShmLockAssumption DEF Init, IInv, TypeOK, HoldersAreOpen, SleepersAreQueued,
     QueueEmptyWhenFree, Entry
<1>2. IInv /\ [Next]_vars => IInv'
  <2>1. ASSUME IInv, UNCHANGED vars PROVE IInv'
    BY <2>1 DEF IInv, vars, TypeOK, HoldersAreOpen, SleepersAreQueued, QueueEmptyWhenFree, Held
  <2> QED BY <2>1, StepKeeps DEF Next
<1> QED BY <1>1, <1>2, PTL DEF Spec

\* unixShmLock's masks are disjoint, and the queue holds what it should.
THEOREM LocksExclude == Spec => []TypeOK
  BY IInvHolds, PTL DEF IInv

\* A thread that sleeps in WCDBOsShmWait has an entry in the queue, whatever
\* entries other waits and timeouts have left there.
THEOREM NoSleeperIsForgotten == Spec => []SleepersAreQueued
  BY IInvHolds, PTL DEF IInv

\* Closing the last connection never meets the endless loop of unixShmPurge.
THEOREM PurgeFindsNobody == Spec => []QueueEmptyWhenFree
  BY IInvHolds, PTL DEF IInv
=============================================================================
