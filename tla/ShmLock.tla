------------------------------- MODULE ShmLock -------------------------------
(***************************************************************************)
(* The wal-index locks of one database as WCDB's SQLCipher takes them:      *)
(* unixShmLock, and the queue in which a connection that wants to wait      *)
(* sleeps until an unlock signals it (os_wcdb.c, queue.c).  A lock call     *)
(* runs under the mutex of the shared-memory node, so each is one action;   *)
(* a connection is also the thread that uses it.                            *)
(***************************************************************************)
EXTENDS Integers, Sequences, FiniteSets, SequencesExt

CONSTANTS
  Conn,         \* connections to the database
  Main,         \* those used by the main thread
  Users,        \* those that read and write
  Background,   \* those that checkpoint
  Marks,        \* the WAL_READ_LOCKs of the read marks
  MaxTimeouts,  \* bound: waits that end by their ten seconds
  None

ASSUME ShmLockAssumption ==
  /\ Main \subseteq Conn /\ Users \subseteq Conn /\ Background \subseteq Conn
  /\ Marks \subseteq Nat \ 0..3 /\ None \notin Conn
  /\ MaxTimeouts \in Nat

WriteLock == 0
CkptLock == 1
RecoverLock == 2
ReadLock0 == 3                            \* that of readers without the log
Reads == {ReadLock0} \cup Marks
Lock == {WriteLock, CkptLock, RecoverLock} \cup Reads

VARIABLES
  excl,     \* who holds each lock exclusively (exclMask), or None
  shrd,     \* who holds each lock shared (sharedMask)
  queue,    \* qWaitQueue, front first
  asleep,   \* connections in pthreadCondWait
  open,     \* connections on the node's list
  timeouts  \* waits so far that ended by themselves

vars == <<excl, shrd, queue, asleep, open, timeouts>>

\* A WCDBShmWaitInfo; dead: its pFile has been freed.
Entry == [conn : Conn, locks : SUBSET Lock, excl : BOOLEAN, dead : BOOLEAN]

Init ==
  /\ excl = [l \in Lock |-> None] /\ shrd = [l \in Lock |-> {}]
  /\ queue = <<>> /\ asleep = {}
  /\ open = Conn /\ timeouts = 0

Held(c) == {l \in Lock : excl[l] = c \/ c \in shrd[l]}

GrantableBesideReaders(ls, wantExcl, ex, sh) == \A l \in ls : ex[l] = None   \* mutant

\* Nobody's masks are in the way of a lock on ls, given who holds what.
Grantable(ls, wantExcl, ex, sh) ==
  \A l \in ls : ex[l] = None /\ (wantExcl => sh[l] = {})

-----------------------------------------------------------------------------
(* The queue.                                                              *)

SignalNobody == queue' = Tail(queue) /\ UNCHANGED asleep                 \* mutant

\* WCDBOsShmSignal: the front entry goes and its thread is woken.
Signal == queue' = Tail(queue) /\ asleep' = asleep \ {Head(queue).conn}

\* Mutants: only the front is looked at; an unlock does not look at all.
TrySignalFront(ex, sh) ==
  IF queue # <<>> /\ Grantable(Head(queue).locks, Head(queue).excl, ex, sh)
  THEN Signal ELSE UNCHANGED <<queue, asleep>>
TrySignalLater(ex, sh) == UNCHANGED <<queue, asleep>>

\* WCDBOsShmTrySignal, from the front up to the first that cannot have its lock.
TrySignal(ex, sh) ==
  LET grantable(i) == Grantable(queue[i].locks, queue[i].excl, ex, sh)
  IN \E stop \in 1..Len(queue) + 1 :
       /\ \A i \in 1..stop - 1 : grantable(i)
       /\ stop <= Len(queue) => ~grantable(stop)
       /\ queue' = SubSeq(queue, stop, Len(queue))
       /\ asleep' = asleep \ {queue[i].conn : i \in 1..stop - 1}

\* WCDBOsShmWait takes two waits for a deadlock if one of them holds what the
\* other wants.  The masks of a freed file read as anything.
Crossed(c, ls, wantExcl) ==
  IF queue = <<>> THEN {FALSE} ELSE
  LET front == Head(queue)
      holdsIt == front.excl /\ Held(c) \cap front.locks # {}
      held == wantExcl /\ Held(front.conn) \cap ls # {}
  IN IF front.dead /\ wantExcl THEN {holdsIt, TRUE} ELSE {holdsIt \/ held}

Wait(c, ls, wantExcl) ==
  \/ /\ TRUE \in Crossed(c, ls, wantExcl)
     /\ Signal
  \/ /\ FALSE \in Crossed(c, ls, wantExcl)
     /\ LET e == [conn |-> c, locks |-> ls, excl |-> wantExcl, dead |-> FALSE]
        IN queue' = IF c \in Main THEN <<e>> \o queue ELSE Append(queue, e)
     /\ asleep' = asleep \cup {c}

-----------------------------------------------------------------------------
(* unixShmLock.  It answers SQLITE_BUSY after a wait as without one, and    *)
(* the caller tries again or gives up.                                      *)

Take(c, ls, wantExcl) ==
  IF wantExcl
  THEN excl' = [l \in Lock |-> IF l \in ls THEN c ELSE excl[l]] /\ UNCHANGED shrd
  ELSE shrd' = [l \in Lock |-> IF l \in ls THEN shrd[l] \cup {c} ELSE shrd[l]] /\ UNCHANGED excl

Request(c, ls, wantExcl, bWait) ==
  /\ c \in open \ asleep
  /\ IF Grantable(ls, wantExcl, excl, shrd)
     THEN Take(c, ls, wantExcl) /\ UNCHANGED <<queue, asleep>>
     ELSE /\ bWait /\ Wait(c, ls, wantExcl)
          /\ UNCHANGED <<excl, shrd>>
  /\ UNCHANGED <<open, timeouts>>

Unlock(c, ls) ==
  /\ c \in open \ asleep
  /\ LET ex == [l \in Lock |-> IF l \in ls /\ excl[l] = c THEN None ELSE excl[l]]
         sh == [l \in Lock |-> IF l \in ls THEN shrd[l] \ {c} ELSE shrd[l]]
     IN excl' = ex /\ shrd' = sh /\ TrySignal(ex, sh)
  /\ UNCHANGED <<open, timeouts>>

\* pthreadCondWait ends by itself; the entry stays in the queue.
Timeout(c) ==
  /\ c \in asleep /\ timeouts < MaxTimeouts
  /\ asleep' = asleep \ {c} /\ timeouts' = timeouts + 1
  /\ UNCHANGED <<excl, shrd, queue, open>>

-----------------------------------------------------------------------------
(* The callers, by what they hold: only within sqlite3BtreeBeginTrans do    *)
(* they wait.                                                               *)

\* walTryBeginRead: ReadLock(0), or the mark's lock; walRestartLog's call of
\* it holds the write lock and does not wait.
LockToRead(c) ==
  \E r \in Reads :
    \/ Held(c) = {} /\ Request(c, {r}, FALSE, TRUE)
    \/ Held(c) = {WriteLock} /\ r \in Marks /\ Request(c, {r}, FALSE, FALSE)

\* Claiming a mark switches waiting off.
LockToClaim(c) ==
  /\ Held(c) \in {{}, {WriteLock}}
  /\ \E r \in Marks : Request(c, {r}, TRUE, FALSE)

\* sqlite3WalBeginWriteTransaction, by a reader.
LockToWrite(c) ==
  /\ \E r \in Reads : Held(c) = {r} /\ c \in shrd[r]
  /\ Request(c, {WriteLock}, TRUE, TRUE)

\* walIndexReadHdr, for a header that is being written or is not there.
LockForHeader(c) == Held(c) = {} /\ Request(c, {WriteLock}, TRUE, TRUE)
LockForHeaderOfCheckpoint(c) == Held(c) = {CkptLock} /\ Request(c, {WriteLock}, TRUE, FALSE)

\* A reader that got SQLITE_BUSY for the header asks if a recovery is on.
LockBehindRecovery(c) == Held(c) = {} /\ Request(c, {RecoverLock}, FALSE, TRUE)

\* walIndexRecover: nobody has a read lock on a wal-index that is not there.
NoIndex == \A r \in Reads : excl[r] = None /\ shrd[r] = {}
LockToRecover(c) ==
  /\ NoIndex /\ Held(c) = {WriteLock}
  /\ Request(c, Lock \ {WriteLock}, TRUE, TRUE)
RecoverInCheckpoint(c) ==
  /\ NoIndex /\ Held(c) = {WriteLock, CkptLock}
  /\ Request(c, Lock \ {WriteLock, CkptLock}, TRUE, FALSE)

\* sqlite3WalCheckpoint, and walCheckpoint for a mark or ReadLock(0).
LockToCheckpoint(c) ==
  \/ Held(c) = {} /\ Request(c, {CkptLock}, TRUE, FALSE)
  \/ Held(c) = {CkptLock} /\ \E r \in Reads : Request(c, {r}, TRUE, FALSE)

\* walRestartLog: every mark, by a writer with ReadLock(0).
LockToRestart(c) ==
  /\ Held(c) = {WriteLock, ReadLock0} /\ c \in shrd[ReadLock0]
  /\ Request(c, Marks, TRUE, FALSE)

\* Shared locks go one at a time, exclusive ones also together.
Release(c) ==
  \E ls \in {{l} : l \in Held(c)} \cup {Held(c) \cap Reads, Held(c) \ {WriteLock, CkptLock},
                                        Held(c) \ {WriteLock}} :
    ls # {} /\ Unlock(c, ls)

\* unixShmUnmap of a connection without locks; at the last one unixShmPurge
\* frees the node, and would not end if a waiter were left.
Close(c) ==
  /\ c \in open \ asleep /\ Held(c) = {}
  /\ open' = open \ {c}
  /\ queue' = [i \in 1..Len(queue) |-> [queue[i] EXCEPT !.dead = @ \/ queue[i].conn = c]]
  /\ UNCHANGED <<excl, shrd, asleep, timeouts>>

\* unixOpenSharedMemory.
Open(c) ==
  /\ c \notin open
  /\ open' = open \cup {c}
  /\ UNCHANGED <<excl, shrd, queue, asleep, timeouts>>

Step(c) ==
  \/ /\ c \in Users
     /\ \/ LockToRead(c) \/ LockToClaim(c) \/ LockToWrite(c) \/ LockToRestart(c)
        \/ LockForHeader(c) \/ LockBehindRecovery(c) \/ LockToRecover(c)
  \/ /\ c \in Background
     /\ LockToCheckpoint(c) \/ LockForHeaderOfCheckpoint(c) \/ RecoverInCheckpoint(c)
  \/ Release(c) \/ Timeout(c) \/ Close(c) \/ Open(c)

Next == \E c \in Conn : Step(c)

Spec == Init /\ [][Next]_vars

\* Who is awake and holds locks gives back the write lock, the checkpoint
\* lock, and something of the rest: transactions and checkpoints end.
ReleaseOf(c, l) == l \in Held(c) /\ Release(c) /\ l \notin Held(c)'
Fairness ==
  \A c \in Conn : /\ WF_vars(Release(c))
                  /\ \A l \in {WriteLock, CkptLock} : WF_vars(ReleaseOf(c, l))
FairSpec == Spec /\ Fairness

-----------------------------------------------------------------------------
(* Properties.                                                             *)

\* The state keeps its type, and an exclusive lock is not shared (the masks
\* that unixShmLock asserts to be disjoint).
TypeOK ==
  /\ excl \in [Lock -> Conn \cup {None}] /\ shrd \in [Lock -> SUBSET Conn]
  /\ \A l \in Lock : excl[l] # None => shrd[l] = {}
  /\ queue \in Seq(Entry)
  /\ asleep \subseteq open /\ open \subseteq Conn
  /\ timeouts \in 0..MaxTimeouts

\* A thread that sleeps has an entry in the queue: no signal went to another.
SleepersAreQueued ==
  \A c \in asleep : \E i \in 1..Len(queue) : queue[i].conn = c

\* Somebody holds a lock while anybody is queued, and will signal when giving
\* it back; so unixShmPurge, whose loop over the queue takes nothing out of
\* it, always finds the queue empty.
QueueEmptyWhenFree ==
  queue # <<>> => \E c \in open : Held(c) # {}

\* Without the ten seconds, a sleeper is signalled once those who are awake
\* give their locks back; but the wait of a recovery, for every lock at once,
\* may be passed over for ever by holders who take turns, and all behind it.
RecoveryWaits == \E i \in 1..Len(queue) : CkptLock \in queue[i].locks
SleepersWake == \A c \in Users : c \in asleep ~> c \notin asleep \/ RecoveryWaits
=============================================================================
