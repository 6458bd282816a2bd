----------------------------- MODULE HandlePool -----------------------------
(***************************************************************************)
(* WCDB's pool of SQLite handles for one database: every operation takes a *)
(* handle out under the read side of RWLock and gives it back, close and   *)
(* blockade take the write side, a memory warning purges.                  *)
(*                                                                         *)
(* pc is where a thread is, named for what it does next.  Handles are      *)
(* counted, not named: those in the list (free) and one for each thread at *)
(* a place in Holding; one that is in the list may still be referenced by  *)
(* the thread that put it there.  A thread that has a handle may make      *)
(* another call to the pool (bound: one level), for whose time it is in    *)
(* nested.  A critical section of the lock's mutex or the list's spin lock *)
(* is one step, and so is an access to the atomic count.                   *)
(***************************************************************************)
EXTENDS Integers, FiniteSets

CONSTANTS
  Users,           \* threads with statements and transactions to run
  Keepers,         \* threads that close, blockade and purge
  Capacity,        \* s_hardwareConcurrency, the length of the free list
  MaxConcurrency,  \* s_maxConcurrency
  MaxCloses,       \* bound: closes and blockades
  MaxFailures,     \* bound: handles lost to a configuration that fails
  CloseSeparately  \* keepers close between blockade and unblockade

ASSUME HandlePoolAssumption ==
  /\ IsFiniteSet(Users) /\ IsFiniteSet(Keepers)
  /\ Capacity \in Nat /\ MaxConcurrency \in Nat
  /\ MaxCloses \in Nat /\ MaxFailures \in Nat
  /\ CloseSeparately \in BOOLEAN

Threads == Users \cup Keepers

VARIABLES
  reader, writer, pending, \* m_reader, m_writer, m_pending
  queued,   \* writers that are counted in m_pending
  asleep,   \* threads in m_cond's wait
  pc,
  free,     \* m_handles
  alive,    \* m_aliveHandleCount
  cleared,  \* what m_handles.clear() returned, until it is subtracted
  threaded, \* threads with a handle in s_threadedHandle
  nested,   \* threads in a call they made while they keep a handle
  closes,   \* closes and blockades so far
  lost      \* history: handles that invoke dropped

lockVars == <<reader, writer, pending, queued, asleep>>
poolVars == <<free, alive, cleared, threaded, nested, closes, lost>>
vars == <<lockVars, pc, poolVars>>

ReadCalls == {"flowOut", "purge", "fillOne"}
WriteCalls == {"drain", "blockade", "drainBlockaded"}
\* flowOut and flowBack, purgeFreeHandles, fillOne with the read lock held.
Reading ==
  {"popBack", "checkCount", "generate", "count", "invoke", "using", "transaction",
   "pushBack", "unlockRefused", "clear", "subtract", "open", "push", "fillCount",
   "unlockKept", "unlockRead"}
\* drain and blockade with the write lock held.
Writing == {"drainClear", "drainSubtract", "onDrained", "blockaded", "drainBlockaded"}

\* Where a thread has a pointer to a handle; at the last three it has given the
\* lock back, or is about to, and the handle may be in the list.
Holding == {"count", "invoke", "using", "transaction", "pushBack", "push", "fillCount",
            "unlockRefused", "uncount", "unlockKept", "release"}

TypeOK ==
  /\ reader \in Nat /\ writer \in Nat /\ pending \in Nat
  /\ queued \subseteq Threads /\ asleep \subseteq Threads
  /\ pc \in [Threads -> {"idle", "uncount", "release"} \cup ReadCalls \cup WriteCalls
                          \cup Reading \cup Writing]
  /\ free \in 0..Capacity /\ alive \in Int
  /\ cleared \in [Threads -> 0..Capacity]
  /\ threaded \subseteq Users /\ nested \subseteq Threads
  /\ closes \in 0..MaxCloses /\ lost \in 0..MaxFailures

Init ==
  /\ reader = 0 /\ writer = 0 /\ pending = 0 /\ queued = {} /\ asleep = {}
  /\ pc = [t \in Threads |-> "idle"]
  /\ free = 0 /\ alive = 0 /\ cleared = [t \in Threads |-> 0]
  /\ threaded = {} /\ nested = {} /\ closes = 0 /\ lost = 0

Goto(t, place) == pc' = [pc EXCEPT ![t] = place]

\* A call to the pool, by a thread that has no handle or, while it iterates over
\* a select, in a transaction or with a WCTTransaction, by one that keeps its own.
Enter(t, call) ==
  /\ \/ pc[t] = "idle" /\ UNCHANGED nested
     \/ pc[t] \in {"using", "transaction"} /\ t \notin nested /\ nested' = nested \cup {t}
  /\ Goto(t, call)

Return(t) ==
  /\ Goto(t, IF t \notin nested THEN "idle"
             ELSE IF t \in threaded THEN "transaction" ELSE "using")
  /\ nested' = nested \ {t}

-----------------------------------------------------------------------------
(* RWLock.                                                                 *)

CanRead == writer = 0 /\ pending = 0

\* (Mutant: a writer waits only for writers.)
CanWriteAmongReaders == writer = 0
CanWrite == writer = 0 /\ reader = 0

\* (Mutant: nobody is notified.)
NotifyNone == UNCHANGED asleep
NotifyAll == asleep' = {}

Entered(call) ==
  CASE call = "flowOut" -> "popBack"
    [] call = "purge" -> "clear"
    [] call = "fillOne" -> "open"
    [] call = "blockade" -> "blockaded"
    [] OTHER -> "drainClear"

LockRead(t) ==
  /\ pc[t] \in ReadCalls /\ t \notin asleep
  /\ \/ /\ CanRead
        /\ reader' = reader + 1
        /\ Goto(t, Entered(pc[t]))
        /\ UNCHANGED asleep
     \/ /\ ~CanRead
        /\ asleep' = asleep \cup {t}
        /\ UNCHANGED <<reader, pc>>
  /\ UNCHANGED <<writer, pending, queued, poolVars>>

\* The first test and those after each wait; a waiting writer is counted once.
LockWrite(t) ==
  /\ pc[t] \in WriteCalls /\ t \notin asleep
  /\ \/ /\ CanWrite
        /\ writer' = writer + 1
        /\ pending' = IF t \in queued THEN pending - 1 ELSE pending
        /\ queued' = queued \ {t}
        /\ Goto(t, Entered(pc[t]))
        /\ UNCHANGED asleep
     \/ /\ ~CanWrite
        /\ pending' = IF t \in queued THEN pending ELSE pending + 1
        /\ queued' = queued \cup {t}
        /\ asleep' = asleep \cup {t}
        /\ UNCHANGED <<writer, pc>>
  /\ UNCHANGED <<reader, poolVars>>

\* A wait on a condition variable may end by itself.
Wake(t) ==
  /\ t \in asleep
  /\ asleep' = asleep \ {t}
  /\ UNCHANGED <<reader, writer, pending, queued, pc, poolVars>>

UnlockRead ==
  /\ reader' = reader - 1
  /\ IF reader = 1 THEN NotifyAll ELSE UNCHANGED asleep
  /\ UNCHANGED <<writer, pending, queued>>

UnlockWrite ==
  /\ writer' = writer - 1
  /\ NotifyAll
  /\ UNCHANGED <<reader, pending, queued>>

-----------------------------------------------------------------------------
(* flowOut, by a statement outside a transaction, by begin, and by         *)
(* getTransaction, which takes a new handle whatever the thread has.       *)
FlowOut(t) ==
  /\ Enter(t, "flowOut")
  /\ UNCHANGED <<lockVars, free, alive, cleared, threaded, closes, lost>>

PopBack(t) ==
  /\ pc[t] = "popBack"
  /\ IF free > 0 THEN free' = free - 1 /\ Goto(t, "invoke")
                 ELSE UNCHANGED free /\ Goto(t, "checkCount")
  /\ UNCHANGED <<lockVars, alive, cleared, threaded, nested, closes, lost>>

\* The count may change before the handle is made and counted.
CheckCount(t) ==
  /\ pc[t] = "checkCount"
  /\ Goto(t, IF alive < MaxConcurrency THEN "generate" ELSE "unlockRead")
  /\ UNCHANGED <<lockVars, poolVars>>

\* Opening the file or configuring the handle may fail.
Generate(t) ==
  /\ pc[t] = "generate"
  /\ \/ Goto(t, "count") \/ Goto(t, "unlockRead")
  /\ UNCHANGED <<lockVars, poolVars>>

Count(t) ==
  /\ pc[t] = "count"
  /\ alive' = alive + 1
  /\ Goto(t, "invoke")
  /\ UNCHANGED <<lockVars, free, cleared, threaded, nested, closes, lost>>

Invoke(t) ==
  /\ pc[t] = "invoke"
  /\ Goto(t, "using")
  /\ UNCHANGED <<lockVars, poolVars>>

\* The configuration has changed and fails on this handle, which is closed and
\* stays in the count.
InvokeFails(t) ==
  /\ pc[t] = "invoke" /\ lost < MaxFailures
  /\ lost' = lost + 1
  /\ Goto(t, "unlockRead")
  /\ UNCHANGED <<lockVars, free, alive, cleared, threaded, nested, closes>>

\* begin succeeds: the handle is kept for the thread.
Begin(t) ==
  /\ pc[t] = "using" /\ t \notin threaded
  /\ threaded' = threaded \cup {t}
  /\ Goto(t, "transaction")
  /\ UNCHANGED <<lockVars, free, alive, cleared, nested, closes, lost>>

\* (Mutant: each call takes a handle of its own from the pool.)
HandleFromPool(t) == CanRead
\* Database::flowOut inside a transaction: the thread's handle, without the lock.
HandleAtHand(t) == t \in threaded

\* commit, or rollback, by whose end the thread's handle has been dropped.
EndTransaction(t) ==
  /\ pc[t] = "transaction" /\ HandleAtHand(t)
  /\ threaded' = threaded \ {t}
  /\ Goto(t, "pushBack")
  /\ UNCHANGED <<lockVars, free, alive, cleared, nested, closes, lost>>

EndStatement(t) ==
  /\ pc[t] = "using"
  /\ Goto(t, "pushBack")
  /\ UNCHANGED <<lockVars, poolVars>>

\* The last reference is gone: flowBack.  A full list refuses the handle.
\* (Mutant: the lock is given back first.)
UnlockThenPush(t) ==
  \/ /\ pc[t] = "pushBack"
     /\ UnlockRead
     /\ Goto(t, "release")
     /\ UNCHANGED poolVars
  \/ /\ pc[t] = "release"
     /\ IF free < Capacity THEN free' = free + 1 ELSE UNCHANGED free
     /\ Return(t)
     /\ UNCHANGED <<lockVars, alive, cleared, threaded, closes, lost>>
PushBack(t) ==
  /\ pc[t] = "pushBack"
  /\ IF free < Capacity THEN free' = free + 1 /\ Goto(t, "unlockKept")
                        ELSE UNCHANGED free /\ Goto(t, "unlockRefused")
  /\ UNCHANGED <<lockVars, alive, cleared, threaded, nested, closes, lost>>

\* The end of flowBack and of fillOne: whoever called still has the pointer.
FlowedBack(t) ==
  /\ \/ pc[t] = "unlockKept" /\ Goto(t, "release")
     \/ pc[t] = "unlockRefused" /\ Goto(t, "uncount")
  /\ UnlockRead
  /\ UNCHANGED poolVars

\* A flowOut or fillOne that got no handle, and purgeFreeHandles.
NothingKept(t) ==
  /\ pc[t] = "unlockRead"
  /\ UnlockRead
  /\ Return(t)
  /\ UNCHANGED <<free, alive, cleared, threaded, closes, lost>>

\* (Mutant: refused handles stay in the count.)
UncountNothing(t) ==
  /\ pc[t] = "uncount"
  /\ Goto(t, "release")
  /\ UNCHANGED <<lockVars, poolVars>>
Uncount(t) ==
  /\ pc[t] = "uncount"
  /\ alive' = alive - 1
  /\ Goto(t, "release")
  /\ UNCHANGED <<lockVars, free, cleared, threaded, nested, closes, lost>>

\* Recyclable's m_value and fillOne's handleWrap go; a handle that is not in the
\* list, because it was refused or the list was cleared since, is closed now.
Release(t) ==
  /\ pc[t] = "release"
  /\ Return(t)
  /\ UNCHANGED <<lockVars, free, alive, cleared, threaded, closes, lost>>

-----------------------------------------------------------------------------
(* canOpen with fillOne, and purgeFreeHandles.                             *)
CanOpen(t) ==
  /\ alive = 0
  /\ Enter(t, "fillOne")
  /\ UNCHANGED <<lockVars, free, alive, cleared, threaded, closes, lost>>

FillOpen(t) ==
  /\ pc[t] = "open"
  /\ \/ Goto(t, "push") \/ Goto(t, "unlockRead")
  /\ UNCHANGED <<lockVars, poolVars>>

\* (Mutant: the list takes any number.)
FillPushAny(t) ==
  /\ pc[t] = "push"
  /\ free' = free + 1
  /\ Goto(t, "fillCount")
  /\ UNCHANGED <<lockVars, alive, cleared, threaded, nested, closes, lost>>
\* A handle that the list refuses was never counted.
FillPush(t) ==
  /\ pc[t] = "push"
  /\ IF free < Capacity THEN free' = free + 1 /\ Goto(t, "fillCount")
                        ELSE UNCHANGED free /\ Goto(t, "unlockKept")
  /\ UNCHANGED <<lockVars, alive, cleared, threaded, nested, closes, lost>>

FillCount(t) ==
  /\ pc[t] = "fillCount"
  /\ alive' = alive + 1
  /\ Goto(t, "unlockKept")
  /\ UNCHANGED <<lockVars, free, cleared, threaded, nested, closes, lost>>

Purge(t) ==
  /\ Enter(t, "purge")
  /\ UNCHANGED <<lockVars, free, alive, cleared, threaded, closes, lost>>

\* m_handles.clear(), in purgeFreeHandles and in drain.
Clear(t) ==
  /\ \/ pc[t] = "clear" /\ Goto(t, "subtract")
     \/ pc[t] = "drainClear" /\ Goto(t, "drainSubtract")
  /\ cleared' = [cleared EXCEPT ![t] = free]
  /\ free' = 0
  /\ UNCHANGED <<lockVars, alive, threaded, nested, closes, lost>>

Subtract(t) ==
  /\ \/ pc[t] = "subtract" /\ Goto(t, "unlockRead")
     \/ pc[t] = "drainSubtract" /\ Goto(t, "onDrained")
  /\ alive' = alive - cleared[t]
  /\ cleared' = [cleared EXCEPT ![t] = 0]
  /\ UNCHANGED <<lockVars, free, threaded, nested, closes, lost>>

-----------------------------------------------------------------------------
(* close and blockade.                                                     *)
Close(t) ==
  /\ \/ Enter(t, "drain")
     \/ /\ pc[t] = "blockaded" /\ CloseSeparately
        /\ Goto(t, "drainBlockaded")
        /\ UNCHANGED nested
  /\ closes < MaxCloses /\ closes' = closes + 1
  /\ UNCHANGED <<lockVars, free, alive, cleared, threaded, lost>>

Blockade(t) ==
  /\ Enter(t, "blockade")
  /\ closes < MaxCloses /\ closes' = closes + 1
  /\ UNCHANGED <<lockVars, free, alive, cleared, threaded, lost>>

\* The end of the onClosed block, and unblockade.
Unblock(t) ==
  /\ pc[t] \in {"onDrained", "blockaded"}
  /\ UnlockWrite
  /\ Return(t)
  /\ UNCHANGED <<free, alive, cleared, threaded, closes, lost>>

Call(t) ==
  \/ t \in Users /\ (FlowOut(t) \/ CanOpen(t))
  \/ t \in Keepers /\ (Purge(t) \/ Close(t) \/ Blockade(t))

\* What a call goes on to do.
GoOn(t) ==
  \/ LockRead(t) \/ LockWrite(t)
  \/ PopBack(t) \/ CheckCount(t) \/ Generate(t) \/ Count(t) \/ Invoke(t)
  \/ InvokeFails(t) \/ EndTransaction(t) \/ EndStatement(t)
  \/ PushBack(t) \/ FlowedBack(t) \/ NothingKept(t) \/ Uncount(t) \/ Release(t)
  \/ FillOpen(t) \/ FillPush(t) \/ FillCount(t) \/ Clear(t) \/ Subtract(t)
  \/ Unblock(t)

Next ==
  \/ \E t \in Threads : Call(t) \/ GoOn(t) \/ Wake(t)
  \/ \E t \in Users : Begin(t)

Spec == Init /\ [][Next]_vars

\* Threads are scheduled, users finish with their handles and blockades end.
FairSpec == Spec /\ \A t \in Threads : WF_vars(GoOn(t))
-----------------------------------------------------------------------------
(* Properties.                                                             *)

At(places) == {t \in Threads : pc[t] \in places}

\* A thread in a nested call reads for the handle that it keeps.
Lock == INSTANCE ReadersWriter WITH
  readers <- At(Reading) \cup nested, writers <- At(Writing)

\* The three counters and the condition variable keep the lock's promise on
\* every path through the pool: who is between lockRead and unlockRead shares
\* it, who is between lockWrite and unlockWrite is alone.
LockExcludes == Lock!Spec

\* Where a thread has a handle that the count has and the list has not, besides
\* the one it keeps during a nested call.
InUse == {"invoke", "using", "transaction", "pushBack", "unlockRefused", "uncount"}

\* What clear() returned and nobody has subtracted yet, handle by handle.
ToSubtract == UNION {{t} \X (1..cleared[t]) : t \in Threads}

\* The count is right whatever threads race: it is the handles in the list and
\* with users, less those made and not yet counted, plus those dropped and not
\* yet subtracted, and the ones a failed configuration lost for good.
CountsAgree ==
  alive = free + lost + Cardinality(At(InUse)) + Cardinality(nested)
          - Cardinality(At({"fillCount"})) + Cardinality(ToSubtract)

Owners == At(Holding) \cup nested

\* In the onClosed block the list is empty and nobody uses a handle: the handles
\* still open are those whose owners gave them back, and the lock after them,
\* and have yet to let go of the pointer.
ClosedForCallback ==
  \A t \in Threads : pc[t] = "onDrained" =>
    free = 0 /\ Owners \subseteq At({"uncount", "release"}) \ nested

\* A thread keeps a handle while it waits for the lock: for ever, if a close or a
\* blockade waits for that handle.
KeepsAndWaits(t) == t \in nested /\ pc[t] \in ReadCalls \cup WriteCalls

\* A close returns: its wait ends when the handles are back, although readers
\* keep coming, transactions ask for handles meanwhile and wakes are shared.
\* The one exception is a thread that waits with a handle, for good.
EveryCloseReturns ==
  \A t \in Keepers :
    pc[t] \in {"drain", "drainBlockaded"} ~>
      \/ pc[t] \in {"idle", "using", "transaction"}
      \/ [](\E u \in Users : KeepsAndWaits(u))

\* A statement that waits for a close or a blockade gets its turn, with the same
\* exception.
EveryUserServed ==
  \A t \in Users :
    pc[t] = "flowOut" ~> pc[t] = "popBack" \/ [](\E u \in Users : KeepsAndWaits(u))
=============================================================================
