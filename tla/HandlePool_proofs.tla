------------------------- MODULE HandlePool_proofs -------------------------
(***************************************************************************)
(* Proofs about HandlePool, for any finite sets of threads, any limits and *)
(* any number of closes and of handles lost.                               *)
(***************************************************************************)
EXTENDS HandlePool, FiniteSetTheorems, TLAPS

\* Where a thread can be.
Places == {"idle", "uncount", "release"} \cup ReadCalls \cup WriteCalls
            \cup Reading \cup Writing

\* The threads at some places are finitely many, whatever happens.
LEMMA AtFinite ==
  ASSUME NEW places
  PROVE  At(places) \subseteq Threads /\ IsFiniteSet(At(places)) /\ IsFiniteSet(Threads)
  <1>1. IsFiniteSet(Threads)
    BY HandlePoolAssumption, FS_Union DEF Threads
  <1>2. At(places) \subseteq Threads
    BY DEF At
  <1> QED
    BY <1>1, <1>2, FS_Subset

\* One thread goes to one place: what that means for a set of places.
LEMMA AtGoto ==
  ASSUME NEW t \in Threads, NEW place, NEW places,
         pc \in [Threads -> Places], Goto(t, place)
  PROVE  At(places)' = IF place \in places THEN At(places) \cup {t} ELSE At(places) \ {t}
  <1>1. \A u \in Threads : pc'[u] = IF u = t THEN place ELSE pc[u]
    BY DEF Goto
  <1> QED
    BY <1>1 DEF At

\* ------------------------------------------------------------- the counters

\* Who reads: a thread in a nested call does so for the handle that it keeps.
Readers == At(Reading) \cup nested

\* The lock's counters are the numbers of calls that they are meant to count, a
\* thread between lockRead and unlockRead and one that keeps a handle meanwhile,
\* and readers and writers are never in together.
LockInv ==
  /\ reader = Cardinality(At(Reading)) + Cardinality(nested)
  /\ writer = Cardinality(At(Writing))
  /\ pending = Cardinality(queued)
  /\ queued \subseteq At(WriteCalls)
  /\ Readers = {} \/ At(Writing) = {}

PlacesOK == pc \in [Threads -> Places] /\ nested \subseteq Threads

\* A step inside a call: the lock is not touched, and the thread stays inside,
\* or outside, the lock, or its own reading becomes the one it does for the
\* handle that it keeps, or the other way round.
Moves(t, place) ==
  \/ nested' = nested /\ (pc[t] \in Reading <=> place \in Reading)
  \/ t \notin nested /\ nested' = nested \cup {t} /\ pc[t] \in Reading /\ place \notin Reading
  \/ t \in nested /\ nested' = nested \ {t} /\ pc[t] \notin Reading /\ place \in Reading

Inner(t) ==
  /\ UNCHANGED lockVars
  /\ pc[t] \notin WriteCalls
  /\ \E place \in Places :
       /\ Goto(t, place)
       /\ Moves(t, place)
       /\ pc[t] \in Writing <=> place \in Writing

\* How many threads keep a handle during a call, when one is added or gone.
LEMMA NestedCount ==
  ASSUME NEW t \in Threads, PlacesOK
  PROVE  /\ Cardinality(nested) \in Nat /\ IsFiniteSet(nested)
         /\ t \notin nested => Cardinality(nested \cup {t}) = Cardinality(nested) + 1
         /\ t \in nested => Cardinality(nested \ {t}) = Cardinality(nested) - 1
  <1>1. IsFiniteSet(nested)
    BY AtFinite, FS_Subset DEF PlacesOK
  <1> QED
    BY <1>1, FS_CardinalityType, FS_AddElement, FS_RemoveElement

\* What is common to the steps inside a call.
LEMMA InnerKeeps ==
  ASSUME NEW t \in Threads, PlacesOK, LockInv, Inner(t)
  PROVE  /\ PlacesOK' /\ LockInv'
         /\ Readers' = Readers /\ At(Writing)' = At(Writing)
  <1>1. PICK place \in Places :
          Goto(t, place) /\ Moves(t, place) /\ (pc[t] \in Writing <=> place \in Writing)
    BY DEF Inner
  <1>2. /\ t \in At(Reading) <=> pc[t] \in Reading
        /\ t \in At(Writing) <=> place \in Writing
        /\ t \notin queued
    BY <1>1 DEF At, LockInv, Inner
  <1>3. /\ At(Reading)' = IF place \in Reading THEN At(Reading) \cup {t} ELSE At(Reading) \ {t}
        /\ At(Writing)' = At(Writing)
    <2>1. At(Reading)' = IF place \in Reading THEN At(Reading) \cup {t} ELSE At(Reading) \ {t}
      BY <1>1, AtGoto DEF PlacesOK
    <2>2. At(Writing)' = IF place \in Writing THEN At(Writing) \cup {t} ELSE At(Writing) \ {t}
      BY <1>1, AtGoto DEF PlacesOK
    <2> QED
      BY <1>2, <2>1, <2>2
  <1>4. /\ Readers' = Readers
        /\ Cardinality(At(Reading)') + Cardinality(nested')
             = Cardinality(At(Reading)) + Cardinality(nested)
    <2>0. /\ Cardinality(At(Reading)) \in Nat /\ IsFiniteSet(At(Reading))
          /\ Cardinality(nested) \in Nat
      BY AtFinite, FS_CardinalityType, NestedCount
    <2>1. CASE nested' = nested /\ (pc[t] \in Reading <=> place \in Reading)
      <3>1. At(Reading)' = At(Reading)
        BY <1>2, <1>3, <2>1
      <3> QED
        BY <2>1, <3>1 DEF Readers
    <2>2. CASE t \notin nested /\ nested' = nested \cup {t} /\ pc[t] \in Reading /\ place \notin Reading
      <3>1. At(Reading)' = At(Reading) \ {t} /\ t \in At(Reading)
        BY <1>2, <1>3, <2>2
      <3>2. Cardinality(At(Reading)') = Cardinality(At(Reading)) - 1
        BY <2>0, <3>1, FS_RemoveElement
      <3>3. Cardinality(nested') = Cardinality(nested) + 1
        BY <2>2, NestedCount
      <3>4. Readers' = Readers
        BY <2>2, <3>1 DEF Readers
      <3> QED
        BY <2>0, <3>2, <3>3, <3>4
    <2>3. CASE t \in nested /\ nested' = nested \ {t} /\ pc[t] \notin Reading /\ place \in Reading
      <3>1. At(Reading)' = At(Reading) \cup {t} /\ t \notin At(Reading)
        BY <1>2, <1>3, <2>3
      <3>2. Cardinality(At(Reading)') = Cardinality(At(Reading)) + 1
        BY <2>0, <3>1, FS_AddElement
      <3>3. Cardinality(nested') = Cardinality(nested) - 1
        BY <2>3, NestedCount
      <3>4. Readers' = Readers
        BY <2>3, <3>1 DEF Readers
      <3> QED
        BY <2>0, <3>2, <3>3, <3>4
    <2> QED
      BY <1>1, <2>1, <2>2, <2>3 DEF Moves
  <1>5. queued \subseteq At(WriteCalls)'
    <2>1. At(WriteCalls)' = IF place \in WriteCalls THEN At(WriteCalls) \cup {t}
                            ELSE At(WriteCalls) \ {t}
      BY <1>1, AtGoto DEF PlacesOK
    <2> QED
      BY <1>2, <2>1 DEF LockInv
  <1>6. PlacesOK'
    BY <1>1 DEF PlacesOK, Goto, Moves
  <1> QED
    BY <1>3, <1>4, <1>5, <1>6 DEF LockInv, Inner, lockVars

\* The steps that leave the lock alone: calls made, handles found, made, used,
\* counted, put back, purged, closed.
InnerStep(t) ==
  \/ FlowOut(t) \/ CanOpen(t) \/ Purge(t) \/ Close(t) \/ Blockade(t) \/ Begin(t)
  \/ PopBack(t) \/ CheckCount(t) \/ Generate(t) \/ Count(t) \/ Invoke(t)
  \/ InvokeFails(t) \/ EndTransaction(t) \/ EndStatement(t)
  \/ PushBack(t) \/ Uncount(t) \/ Release(t)
  \/ FillOpen(t) \/ FillPush(t) \/ FillCount(t) \/ Clear(t) \/ Subtract(t)

LEMMA InnerSteps ==
  ASSUME NEW t \in Threads, PlacesOK, InnerStep(t)
  PROVE  Inner(t)
  <1> USE DEF Places, ReadCalls, WriteCalls, Reading, Writing, Inner, Moves, poolVars
  <1>1. CASE FlowOut(t) BY <1>1 DEF FlowOut, Enter
  <1>2. CASE CanOpen(t) BY <1>2 DEF CanOpen, Enter
  <1>3. CASE Purge(t) BY <1>3 DEF Purge, Enter
  <1>4. CASE Close(t) BY <1>4 DEF Close, Enter
  <1>5. CASE Blockade(t) BY <1>5 DEF Blockade, Enter
  <1>6. CASE Begin(t) BY <1>6 DEF Begin
  <1>7. CASE PopBack(t) BY <1>7 DEF PopBack
  <1>8. CASE CheckCount(t) BY <1>8 DEF CheckCount
  <1>9. CASE Generate(t) BY <1>9 DEF Generate
  <1>10. CASE Count(t) BY <1>10 DEF Count
  <1>11. CASE Invoke(t) BY <1>11 DEF Invoke
  <1>12. CASE InvokeFails(t) BY <1>12 DEF InvokeFails
  <1>13. CASE EndTransaction(t) BY <1>13 DEF EndTransaction
  <1>14. CASE EndStatement(t) BY <1>14 DEF EndStatement
  <1>15. CASE PushBack(t) BY <1>15 DEF PushBack
  <1>16. CASE Uncount(t) BY <1>16 DEF Uncount
  <1>17. CASE Release(t) BY <1>17 DEF Release, Return
  <1>18. CASE FillOpen(t) BY <1>18 DEF FillOpen
  <1>19. CASE FillPush(t) BY <1>19 DEF FillPush
  <1>20. CASE FillCount(t) BY <1>20 DEF FillCount
  <1>21. CASE Clear(t) BY <1>21 DEF Clear
  <1>22. CASE Subtract(t) BY <1>22 DEF Subtract
  <1> QED
    BY <1>1, <1>2, <1>3, <1>4, <1>5, <1>6, <1>7, <1>8, <1>9, <1>10, <1>11, <1>12,
       <1>13, <1>14, <1>15, <1>16, <1>17, <1>18, <1>19, <1>20, <1>21, <1>22
       DEF InnerStep

\* Every step is one inside a call or one of the lock's.
LEMMA StepKinds ==
  ASSUME Next
  PROVE  \E t \in Threads : InnerStep(t) \/ LockRead(t) \/ LockWrite(t) \/ Wake(t)
                              \/ FlowedBack(t) \/ NothingKept(t) \/ Unblock(t)
  BY DEF Next, Call, GoOn, InnerStep, Threads

-----------------------------------------------------------------------------
\* lockRead: the thread joins the readers when no writer is in, or waits.
LEMMA LockReadKeeps ==
  ASSUME NEW t \in Threads, PlacesOK, LockInv, LockRead(t)
  PROVE  /\ PlacesOK' /\ LockInv'
         /\ At(Writing)' = At(Writing)
         /\ \/ Readers' = Readers
            \/ /\ At(Writing) = {} /\ t \notin Readers
               /\ Readers' = Readers \cup {t}
  <1>1. CASE ~CanRead
    <2>1. UNCHANGED <<reader, writer, pending, queued, pc, nested>>
      BY <1>1 DEF LockRead, poolVars
    <2> QED
      BY <2>1 DEF LockInv, PlacesOK, Readers, At
  <1>2. CASE CanRead
    <2>1. /\ writer = 0 /\ reader' = reader + 1
          /\ UNCHANGED <<writer, pending, queued, nested>>
          /\ pc[t] \in ReadCalls /\ Goto(t, Entered(pc[t]))
      BY <1>2 DEF LockRead, CanRead, poolVars
    <2>2. /\ Entered(pc[t]) \in Reading /\ Entered(pc[t]) \notin Writing
          /\ Entered(pc[t]) \notin WriteCalls
      BY <2>1 DEF Entered, ReadCalls, Reading, Writing, WriteCalls
    <2>3. /\ t \notin At(Reading) /\ t \notin At(Writing) /\ t \notin queued
      BY <2>1 DEF At, LockInv, ReadCalls, Reading, Writing, WriteCalls
    <2>4. /\ At(Reading)' = At(Reading) \cup {t}
          /\ At(Writing)' = At(Writing)
          /\ At(WriteCalls)' = At(WriteCalls) \ {t}
      <3>1. /\ At(Reading)' = At(Reading) \cup {t}
            /\ At(Writing)' = At(Writing) \ {t}
            /\ At(WriteCalls)' = At(WriteCalls) \ {t}
        BY <2>1, <2>2, AtGoto DEF PlacesOK
      <3> QED
        BY <2>3, <3>1
    <2>5. At(Writing) = {}
      BY <2>1, AtFinite, FS_EmptySet DEF LockInv
    <2>6. Cardinality(At(Reading)') = Cardinality(At(Reading)) + 1
      BY <2>3, <2>4, AtFinite, FS_AddElement
    <2>9. Cardinality(At(Reading)) \in Nat /\ Cardinality(nested) \in Nat
      BY AtFinite, FS_CardinalityType, NestedCount
    <2>7. PlacesOK'
      BY <2>1, <2>2 DEF PlacesOK, Goto, Places
    <2>11. Cardinality(nested') = Cardinality(nested) /\ queued' = queued
      BY <2>1
    <2>12. reader' = Cardinality(At(Reading)') + Cardinality(nested')
      BY <2>1, <2>6, <2>9, <2>11 DEF LockInv
    <2>8. LockInv'
      BY <2>1, <2>3, <2>4, <2>5, <2>11, <2>12 DEF LockInv
    <2>10. Readers' = Readers \cup {t}
      BY <2>1, <2>4 DEF Readers
    <2> QED
      BY <2>4, <2>5, <2>7, <2>8, <2>10
  <1> QED
    BY <1>1, <1>2

\* lockWrite: the thread is alone when nobody is in, or waits and is counted
\* once among the pending.
LEMMA LockWriteKeeps ==
  ASSUME NEW t \in Threads, PlacesOK, LockInv, LockWrite(t)
  PROVE  /\ PlacesOK' /\ LockInv'
         /\ Readers' = Readers
         /\ \/ At(Writing)' = At(Writing)
            \/ /\ Readers = {} /\ At(Writing) = {}
               /\ At(Writing)' = {t}
  <1>0. IsFiniteSet(queued)
    BY AtFinite, FS_Subset DEF LockInv
  <1>1. CASE ~CanWrite
    <2>1. /\ UNCHANGED <<reader, writer, pc, nested>> /\ pc[t] \in WriteCalls
          /\ queued' = queued \cup {t}
          /\ pending' = IF t \in queued THEN pending ELSE pending + 1
      BY <1>1 DEF LockWrite, poolVars
    <2>2. Cardinality(queued') = pending'
      BY <1>0, <2>1, FS_AddElement DEF LockInv
    <2> QED
      BY <2>1, <2>2 DEF LockInv, PlacesOK, Readers, At
  <1>2. CASE CanWrite
    <2>1. /\ writer = 0 /\ reader = 0 /\ writer' = writer + 1 /\ UNCHANGED <<reader, nested>>
          /\ pending' = IF t \in queued THEN pending - 1 ELSE pending
          /\ queued' = queued \ {t}
          /\ pc[t] \in WriteCalls /\ Goto(t, Entered(pc[t]))
      BY <1>2 DEF LockWrite, CanWrite, poolVars
    <2>2. At(Reading) = {} /\ nested = {} /\ At(Writing) = {}
      <3>1. /\ Cardinality(At(Reading)) \in Nat /\ Cardinality(nested) \in Nat
            /\ IsFiniteSet(At(Reading)) /\ IsFiniteSet(nested) /\ IsFiniteSet(At(Writing))
        BY AtFinite, FS_CardinalityType, NestedCount
      <3>2. Cardinality(At(Reading)) = 0 /\ Cardinality(nested) = 0 /\ Cardinality(At(Writing)) = 0
        BY <2>1, <3>1 DEF LockInv
      <3> QED
        BY <3>1, <3>2, FS_EmptySet
    <2>3. /\ Entered(pc[t]) \in Writing /\ Entered(pc[t]) \notin Reading
          /\ Entered(pc[t]) \notin WriteCalls
      BY <2>1 DEF Entered, ReadCalls, Reading, Writing, WriteCalls
    <2>4. /\ At(Reading)' = {}
          /\ At(Writing)' = {t}
          /\ At(WriteCalls)' = At(WriteCalls) \ {t}
      <3>1. /\ At(Reading)' = At(Reading) \ {t}
            /\ At(Writing)' = At(Writing) \cup {t}
            /\ At(WriteCalls)' = At(WriteCalls) \ {t}
        BY <2>1, <2>3, AtGoto DEF PlacesOK
      <3> QED
        BY <2>2, <3>1
    <2>5. Cardinality(queued') = pending'
      BY <1>0, <2>1, FS_RemoveElement DEF LockInv
    <2>6. Cardinality(At(Writing)') = writer'
      <3>1. Cardinality({t}) = 1
        BY FS_Singleton
      <3> QED
        BY <2>1, <2>4, <3>1
    <2>7. PlacesOK'
      BY <2>1, <2>3 DEF PlacesOK, Goto, Places
    <2>8. LockInv'
      BY <2>1, <2>2, <2>4, <2>5, <2>6 DEF LockInv, Readers
    <2> QED
      BY <2>1, <2>2, <2>4, <2>7, <2>8 DEF Readers
  <1> QED
    BY <1>1, <1>2

\* unlockRead: one reader fewer, unless the thread reads for a handle as well.
LEMMA FlowedBackKeeps ==
  ASSUME NEW t \in Threads, PlacesOK, LockInv, FlowedBack(t)
  PROVE  /\ PlacesOK' /\ LockInv'
         /\ At(Writing)' = At(Writing) /\ (Readers' = Readers \/ Readers' = Readers \ {t})
  <1>1. PICK place \in {"release", "uncount"} : Goto(t, place)
    BY DEF FlowedBack
  <1>2. /\ reader' = reader - 1 /\ UNCHANGED <<writer, pending, queued, nested>>
        /\ pc[t] \in {"unlockKept", "unlockRefused"}
    BY DEF FlowedBack, UnlockRead, poolVars
  <1>3. t \in At(Reading) /\ t \notin At(Writing) /\ t \notin queued
    BY <1>2 DEF At, LockInv, Reading, Writing, WriteCalls
  <1>4. /\ At(Reading)' = At(Reading) \ {t} /\ At(Writing)' = At(Writing)
        /\ At(WriteCalls)' = At(WriteCalls) \ {t}
    <2>1. place \notin Reading /\ place \notin Writing /\ place \notin WriteCalls
      BY DEF Reading, Writing, WriteCalls
    <2>2. /\ At(Reading)' = At(Reading) \ {t} /\ At(Writing)' = At(Writing) \ {t}
          /\ At(WriteCalls)' = At(WriteCalls) \ {t}
      BY <1>1, <2>1, AtGoto DEF PlacesOK
    <2> QED
      BY <1>3, <2>2
  <1>5. Cardinality(At(Reading)') + Cardinality(nested) = reader'
    <2>1. /\ IsFiniteSet(At(Reading)) /\ Cardinality(At(Reading)) \in Nat
          /\ Cardinality(nested) \in Nat
      BY AtFinite, FS_CardinalityType, NestedCount
    <2>2. Cardinality(At(Reading)') = Cardinality(At(Reading)) - 1
      BY <1>3, <1>4, <2>1, FS_RemoveElement
    <2> QED
      BY <1>2, <2>1, <2>2 DEF LockInv
  <1>6. PlacesOK'
    BY <1>1, <1>2 DEF PlacesOK, Goto, Places
  <1>7. LockInv'
    BY <1>2, <1>3, <1>4, <1>5 DEF LockInv, Readers
  <1> QED
    BY <1>2, <1>4, <1>6, <1>7 DEF Readers

\* The same where the call ends with the unlock: a thread that keeps a handle
\* goes back to it.
LEMMA NothingKeptKeeps ==
  ASSUME NEW t \in Threads, PlacesOK, LockInv, NothingKept(t)
  PROVE  /\ PlacesOK' /\ LockInv'
         /\ At(Writing)' = At(Writing) /\ (Readers' = Readers \/ Readers' = Readers \ {t})
  <1>1. PICK place \in {"idle", "using", "transaction"} :
          Goto(t, place) /\ (place = "idle" <=> t \notin nested)
    BY DEF NothingKept, Return
  <1>2. /\ reader' = reader - 1 /\ UNCHANGED <<writer, pending, queued>>
        /\ pc[t] = "unlockRead" /\ nested' = nested \ {t}
    BY DEF NothingKept, Return, UnlockRead
  <1>3. t \in At(Reading) /\ t \notin At(Writing) /\ t \notin queued
    BY <1>2 DEF At, LockInv, Reading, Writing, WriteCalls
  <1>4. /\ At(Reading)' = IF t \in nested THEN At(Reading) ELSE At(Reading) \ {t}
        /\ At(Writing)' = At(Writing)
        /\ At(WriteCalls)' = At(WriteCalls) \ {t}
    <2>1. /\ place \in Reading <=> t \in nested
          /\ place \notin Writing /\ place \notin WriteCalls
      BY <1>1 DEF Reading, Writing, WriteCalls
    <2>2. /\ At(Reading)' = IF place \in Reading THEN At(Reading) \cup {t} ELSE At(Reading) \ {t}
          /\ At(Writing)' = At(Writing) \ {t}
          /\ At(WriteCalls)' = At(WriteCalls) \ {t}
      BY <1>1, <2>1, AtGoto DEF PlacesOK
    <2> QED
      BY <1>3, <2>1, <2>2
  <1>5. Cardinality(At(Reading)') + Cardinality(nested') = reader'
    <2>1. /\ IsFiniteSet(At(Reading)) /\ Cardinality(At(Reading)) \in Nat
          /\ Cardinality(nested) \in Nat
      BY AtFinite, FS_CardinalityType, NestedCount
    <2>2. CASE t \in nested
      <3>1. Cardinality(nested') = Cardinality(nested) - 1
        BY <1>2, <2>2, NestedCount
      <3> QED
        BY <1>2, <1>4, <2>1, <2>2, <3>1 DEF LockInv
    <2>3. CASE t \notin nested
      <3>1. Cardinality(At(Reading)') = Cardinality(At(Reading)) - 1
        BY <1>3, <1>4, <2>1, <2>3, FS_RemoveElement
      <3>2. nested' = nested
        BY <1>2, <2>3
      <3>3. Cardinality(nested') = Cardinality(nested)
        BY <3>2
      <3> QED
        BY <1>2, <2>1, <3>1, <3>3 DEF LockInv
    <2> QED
      BY <2>2, <2>3
  <1>6. PlacesOK'
    BY <1>1, <1>2 DEF PlacesOK, Goto, Places, Reading
  <1>7. LockInv'
    BY <1>2, <1>3, <1>4, <1>5 DEF LockInv, Readers
  <1>8. Readers' = Readers \/ Readers' = Readers \ {t}
    BY <1>2, <1>3, <1>4 DEF Readers
  <1> QED
    BY <1>4, <1>6, <1>7, <1>8

\* unlockWrite: nobody writes.
LEMMA UnblockKeeps ==
  ASSUME NEW t \in Threads, PlacesOK, LockInv, Unblock(t)
  PROVE  /\ PlacesOK' /\ LockInv'
         /\ Readers' = Readers /\ At(Writing)' = At(Writing) \ {t}
  <1>0. t \notin nested
    BY DEF Unblock, LockInv, Readers, At, Writing
  <1>1. /\ writer' = writer - 1 /\ UNCHANGED <<reader, pending, queued, nested>>
        /\ pc[t] \in {"onDrained", "blockaded"} /\ Goto(t, "idle")
    BY <1>0 DEF Unblock, UnlockWrite, Return
  <1>2. t \in At(Writing) /\ t \notin At(Reading) /\ t \notin queued
    BY <1>1 DEF At, LockInv, Reading, Writing, WriteCalls
  <1>3. /\ At(Reading)' = At(Reading) /\ At(Writing)' = At(Writing) \ {t}
        /\ At(WriteCalls)' = At(WriteCalls) \ {t}
    <2>1. "idle" \notin Reading /\ "idle" \notin Writing /\ "idle" \notin WriteCalls
      BY DEF Reading, Writing, WriteCalls
    <2>2. /\ At(Reading)' = At(Reading) \ {t} /\ At(Writing)' = At(Writing) \ {t}
          /\ At(WriteCalls)' = At(WriteCalls) \ {t}
      BY <1>1, <2>1, AtGoto DEF PlacesOK
    <2> QED
      BY <1>2, <2>2
  <1>4. Cardinality(At(Writing)') = writer'
    BY <1>1, <1>2, <1>3, AtFinite, FS_RemoveElement DEF LockInv
  <1>5. PlacesOK'
    BY <1>1 DEF PlacesOK, Goto, Places
  <1>6. LockInv'
    BY <1>1, <1>2, <1>3, <1>4 DEF LockInv, Readers
  <1> QED
    BY <1>1, <1>3, <1>5, <1>6 DEF Readers

LEMMA LockInitially == Init => PlacesOK /\ LockInv
  <1> SUFFICES ASSUME Init PROVE PlacesOK /\ LockInv
    OBVIOUS
  <1>1. PlacesOK
    BY DEF Init, PlacesOK, Places
  <1>2. At(Reading) = {} /\ nested = {} /\ At(Writing) = {}
    BY DEF Init, At, Reading, Writing
  <1> QED
    BY <1>1, <1>2, FS_EmptySet DEF Init, LockInv, Readers

\* Every step of the pool is a step of the abstract lock, or none.
LEMMA LockStep ==
  PlacesOK /\ LockInv /\ [Next]_vars
    => PlacesOK' /\ LockInv' /\ [Lock!Next]_(Lock!vars)
  <1> SUFFICES ASSUME PlacesOK, LockInv, [Next]_vars
               PROVE  PlacesOK' /\ LockInv' /\ [Lock!Next]_(Lock!vars)
    OBVIOUS
  <1> USE DEF Lock!Next, Lock!vars, Readers
  <1>1. CASE UNCHANGED vars
    BY <1>1 DEF vars, lockVars, poolVars, PlacesOK, LockInv, At
  <1>2. ASSUME NEW t \in Threads, InnerStep(t)
        PROVE  PlacesOK' /\ LockInv' /\ [Lock!Next]_(Lock!vars)
    BY <1>2, InnerSteps, InnerKeeps
  <1>3. ASSUME NEW t \in Threads, LockRead(t)
        PROVE  PlacesOK' /\ LockInv' /\ [Lock!Next]_(Lock!vars)
    BY <1>3, LockReadKeeps DEF Lock!Read
  <1>4. ASSUME NEW t \in Threads, LockWrite(t)
        PROVE  PlacesOK' /\ LockInv' /\ [Lock!Next]_(Lock!vars)
    BY <1>4, LockWriteKeeps DEF Lock!Write
  <1>5. ASSUME NEW t \in Threads, Wake(t)
        PROVE  PlacesOK' /\ LockInv' /\ [Lock!Next]_(Lock!vars)
    BY <1>5 DEF Wake, poolVars, PlacesOK, LockInv, At
  <1>6. ASSUME NEW t \in Threads, FlowedBack(t) \/ NothingKept(t)
        PROVE  PlacesOK' /\ LockInv' /\ [Lock!Next]_(Lock!vars)
    <2>1. t \notin At(Writing)
      BY <1>6 DEF FlowedBack, NothingKept, At, Writing
    <2> QED
      BY <1>6, <2>1, FlowedBackKeeps, NothingKeptKeeps DEF Lock!Leave
  <1>7. ASSUME NEW t \in Threads, Unblock(t)
        PROVE  PlacesOK' /\ LockInv' /\ [Lock!Next]_(Lock!vars)
    <2>1. t \notin Readers
      BY <1>7 DEF Unblock, LockInv, At, Writing
    <2> QED
      BY <1>7, <2>1, UnblockKeeps DEF Lock!Leave
  <1> QED
    BY <1>1, <1>2, <1>3, <1>4, <1>5, <1>6, <1>7, StepKinds

\* RWLock, as the pool uses it, implements the exclusion of readers and a
\* writer: the refinement mapping sends a thread between lockRead and unlockRead,
\* or with a handle that it keeps during another call, to a reader and one between
\* lockWrite and unlockWrite to a writer.
THEOREM LockImplemented == Spec => LockExcludes
  <1>1. Init => Lock!Init
    <2> SUFFICES ASSUME Init PROVE At(Reading) = {} /\ nested = {} /\ At(Writing) = {}
      BY DEF Lock!Init
    <2> QED
      BY DEF Init, At, Reading, Writing
  <1> QED
    BY <1>1, LockInitially, LockStep, PTL DEF Spec, LockExcludes, Lock!Spec

-----------------------------------------------------------------------------
\* TypeOK without what LockInv says of the lock and PlacesOK of the threads.
PoolTypes ==
  /\ asleep \subseteq Threads
  /\ free \in 0..Capacity /\ alive \in Int
  /\ cleared \in [Threads -> 0..Capacity]
  /\ threaded \subseteq Users
  /\ closes \in 0..MaxCloses /\ lost \in 0..MaxFailures

\* A waiting thread sleeps among the threads, a wake takes it out.
LEMMA AsleepTypes ==
  ASSUME asleep \subseteq Threads, [Next]_vars
  PROVE  asleep' \subseteq Threads
  <1>1. CASE UNCHANGED vars
    BY <1>1 DEF vars, lockVars
  <1>2. ASSUME NEW t \in Threads, InnerStep(t) PROVE asleep' \subseteq Threads
    <2>1. UNCHANGED lockVars
      BY <1>2 DEF InnerStep, FlowOut, CanOpen, Purge, Close, Blockade, Begin, PopBack,
                  CheckCount, Generate, Count, Invoke, InvokeFails, EndTransaction,
                  EndStatement, PushBack, Uncount, Release, FillOpen, FillPush,
                  FillCount, Clear, Subtract
    <2> QED
      BY <2>1 DEF lockVars
  <1>3. ASSUME NEW t \in Threads, LockRead(t) PROVE asleep' \subseteq Threads
    BY <1>3 DEF LockRead
  <1>4. ASSUME NEW t \in Threads, LockWrite(t) PROVE asleep' \subseteq Threads
    BY <1>4 DEF LockWrite
  <1>5. ASSUME NEW t \in Threads, Wake(t) PROVE asleep' \subseteq Threads
    BY <1>5 DEF Wake
  <1>6. ASSUME NEW t \in Threads, FlowedBack(t) \/ NothingKept(t)
        PROVE  asleep' \subseteq Threads
    BY <1>6 DEF FlowedBack, NothingKept, UnlockRead, NotifyAll
  <1>7. ASSUME NEW t \in Threads, Unblock(t) PROVE asleep' \subseteq Threads
    BY <1>7 DEF Unblock, UnlockWrite, NotifyAll
  <1> QED
    BY <1>1, <1>2, <1>3, <1>4, <1>5, <1>6, <1>7, StepKinds

\* The list stays within its capacity and what clear returned was in it.
LEMMA PoolTypesKept ==
  ASSUME PoolTypes, [Next]_vars
  PROVE  PoolTypes'
  <1> USE HandlePoolAssumption DEF PoolTypes, poolVars
  <1>0. asleep' \subseteq Threads
    BY AsleepTypes
  <1>1. CASE UNCHANGED vars
    BY <1>1 DEF vars, lockVars
  <1>2. ASSUME NEW t \in Threads,
               FlowOut(t) \/ CanOpen(t) \/ Purge(t) \/ CheckCount(t) \/ Generate(t)
                 \/ Invoke(t) \/ EndStatement(t) \/ Release(t) \/ FillOpen(t)
                 \/ LockRead(t) \/ LockWrite(t) \/ Wake(t) \/ FlowedBack(t)
                 \/ NothingKept(t) \/ Unblock(t)
        PROVE  PoolTypes'
    <2>1. UNCHANGED <<free, alive, cleared, threaded, closes, lost>>
      BY <1>2 DEF FlowOut, CanOpen, Purge, CheckCount, Generate, Invoke, EndStatement,
                  Release, FillOpen, LockRead, LockWrite, Wake, FlowedBack, NothingKept,
                  Unblock
    <2> QED
      BY <1>0, <2>1
  <1>3. ASSUME NEW t \in Threads, Close(t) \/ Blockade(t) PROVE PoolTypes'
    BY <1>0, <1>3 DEF Close, Blockade
  <1>4. ASSUME NEW t \in Users, Begin(t) PROVE PoolTypes'
    BY <1>0, <1>4 DEF Begin
  <1>5. ASSUME NEW t \in Threads, PopBack(t) \/ PushBack(t) \/ FillPush(t)
        PROVE  PoolTypes'
    BY <1>0, <1>5 DEF PopBack, PushBack, FillPush
  <1>6. ASSUME NEW t \in Threads, Count(t) \/ Uncount(t) \/ FillCount(t)
        PROVE  PoolTypes'
    BY <1>0, <1>6 DEF Count, Uncount, FillCount
  <1>7. ASSUME NEW t \in Threads, InvokeFails(t) \/ EndTransaction(t)
        PROVE  PoolTypes'
    BY <1>0, <1>7 DEF InvokeFails, EndTransaction
  <1>8. ASSUME NEW t \in Threads, Clear(t) PROVE PoolTypes'
    BY <1>0, <1>8 DEF Clear
  <1>9. ASSUME NEW t \in Threads, Subtract(t) PROVE PoolTypes'
    BY <1>0, <1>9 DEF Subtract
  <1> QED
    BY <1>1, <1>2, <1>3, <1>4, <1>5, <1>6, <1>7, <1>8, <1>9
       DEF Next, Call, GoOn, Threads

\* Every state of the pool has the types TypeOK states; in particular the free
\* list keeps to its capacity and the counters of the lock never go below 0.
THEOREM PoolTypeCorrect == Spec => []TypeOK
  <1>1. Init => PoolTypes
    BY HandlePoolAssumption DEF Init, PoolTypes
  <1>2. PoolTypes /\ PlacesOK /\ LockInv => TypeOK
    <2> SUFFICES ASSUME PoolTypes, PlacesOK, LockInv PROVE TypeOK
      OBVIOUS
    <2>1. queued \subseteq Threads /\ IsFiniteSet(queued)
      BY AtFinite, FS_Subset DEF LockInv, At
    <2>2. /\ Cardinality(At(Reading)) \in Nat /\ Cardinality(nested) \in Nat
          /\ Cardinality(At(Writing)) \in Nat /\ Cardinality(queued) \in Nat
      BY <2>1, AtFinite, FS_Subset, FS_CardinalityType DEF PlacesOK
    <2>3. reader \in Nat /\ writer \in Nat /\ pending \in Nat
      BY <2>2 DEF LockInv
    <2> QED
      BY <2>1, <2>3 DEF TypeOK, PoolTypes, PlacesOK, Places
  <1>3. PoolTypes /\ [Next]_vars => PoolTypes'
    BY PoolTypesKept
  <1> QED
    BY <1>1, <1>2, <1>3, LockInitially, LockStep, PTL DEF Spec

-----------------------------------------------------------------------------
\* Once drain has cleared the list it stays empty: only threads with the read
\* lock put handles in.
StaysCleared ==
  \A t \in Threads : pc[t] \in {"drainSubtract", "onDrained"} => free = 0

LEMMA StaysClearedKept ==
  ASSUME PlacesOK, LockInv, StaysCleared, [Next]_vars
  PROVE  StaysCleared'
  <1> DEFINE Cleared == {"drainSubtract", "onDrained"}
  <1>1. CASE UNCHANGED vars
    BY <1>1 DEF vars, poolVars, StaysCleared
  <1>2. ASSUME NEW t \in Threads, NEW place, Goto(t, place), free' = free,
               place \in Cleared => pc[t] \in Cleared
        PROVE  StaysCleared'
    <2>1. \A u \in Threads : pc'[u] \in Cleared => pc[u] \in Cleared
      BY <1>2 DEF Goto, PlacesOK
    <2> QED
      BY <1>2, <2>1 DEF StaysCleared
  <1>3. ASSUME NEW t \in Threads, PopBack(t) \/ PushBack(t) \/ FillPush(t)
        PROVE  StaysCleared'
    <2>1. t \in At(Reading)
      BY <1>3 DEF PopBack, PushBack, FillPush, At, Reading
    <2>2. At(Writing) = {}
      BY <2>1 DEF LockInv, Readers
    <2>3. At(Writing)' = {}
      BY <1>3, <2>2, InnerSteps, InnerKeeps DEF InnerStep
    <2> QED
      BY <2>3 DEF StaysCleared, At, Writing
  <1>4. ASSUME NEW t \in Threads, Clear(t) PROVE StaysCleared'
    BY <1>4 DEF Clear, StaysCleared
  <1>5. ASSUME NEW t \in Threads,
               FlowOut(t) \/ CanOpen(t) \/ Purge(t) \/ Close(t) \/ Blockade(t)
                 \/ Begin(t) \/ CheckCount(t) \/ Generate(t) \/ Count(t)
        PROVE  StaysCleared'
    BY <1>2, <1>5 DEF FlowOut, CanOpen, Purge, Close, Blockade, Enter, Begin, CheckCount,
                      Generate, Count, poolVars
  <1>6. ASSUME NEW t \in Threads,
               Invoke(t) \/ InvokeFails(t) \/ EndTransaction(t) \/ EndStatement(t)
                 \/ Uncount(t) \/ Release(t) \/ FillOpen(t) \/ FillCount(t) \/ Subtract(t)
        PROVE  StaysCleared'
    BY <1>2, <1>6 DEF Invoke, InvokeFails, EndTransaction, EndStatement, Uncount,
                      Release, Return, FillOpen, FillCount, Subtract, poolVars
  <1>7. ASSUME NEW t \in Threads, LockRead(t) \/ LockWrite(t) PROVE StaysCleared'
    <2>1. free' = free
      BY <1>7 DEF LockRead, LockWrite, poolVars
    <2>2. \/ pc' = pc
          \/ Goto(t, Entered(pc[t]))
      BY <1>7 DEF LockRead, LockWrite
    <2>3. Entered(pc[t]) \notin Cleared
      BY DEF Entered
    <2>4. CASE pc' = pc
      BY <2>1, <2>4 DEF StaysCleared
    <2> QED
      BY <1>2, <2>1, <2>2, <2>3, <2>4
  <1>8. ASSUME NEW t \in Threads, Wake(t) PROVE StaysCleared'
    BY <1>8 DEF Wake, poolVars, StaysCleared
  <1>9. ASSUME NEW t \in Threads, FlowedBack(t) \/ NothingKept(t) \/ Unblock(t)
        PROVE  StaysCleared'
    BY <1>2, <1>9 DEF FlowedBack, NothingKept, Unblock, Return, poolVars
  <1> QED
    BY <1>1, <1>3, <1>4, <1>5, <1>6, <1>7, <1>8, <1>9, StepKinds DEF InnerStep

\* In the onClosed block of a close no handle is free or in use: all that is
\* open was given back and awaits the end of its owner's pointer.
THEOREM ClosedCorrect == Spec => []ClosedForCallback
  <1>1. Init => StaysCleared
    BY DEF Init, StaysCleared
  <1>2. LockInv /\ StaysCleared => ClosedForCallback
    <2> SUFFICES ASSUME LockInv, StaysCleared, NEW t \in Threads, pc[t] = "onDrained"
                 PROVE  free = 0 /\ Owners \subseteq At({"uncount", "release"}) \ nested
      BY DEF ClosedForCallback
    <2>1. free = 0
      BY DEF StaysCleared
    <2>2. At(Reading) = {} /\ nested = {}
      BY DEF LockInv, Readers, At, Writing
    <2>3. \A u \in Threads : pc[u] \in Holding => pc[u] \in {"uncount", "release"}
      BY <2>2 DEF At, Reading, Holding
    <2> QED
      BY <2>1, <2>2, <2>3 DEF Owners, At
  <1>3. PlacesOK /\ LockInv /\ StaysCleared /\ [Next]_vars => StaysCleared'
    BY StaysClearedKept
  <1> QED
    BY <1>1, <1>2, <1>3, LockInitially, LockStep, PTL DEF Spec

-----------------------------------------------------------------------------
(***************************************************************************)
(* The count of handles.  It is inductive once it is known that only a     *)
(* thread between clear and its subtraction has something to subtract: a   *)
(* second clear would otherwise overwrite what the first one returned.     *)
(***************************************************************************)
SubtractsSoon ==
  \A t \in Threads : cleared[t] > 0 => pc[t] \in {"subtract", "drainSubtract"}

CountInv ==
  /\ IsFiniteSet(ToSubtract)
  /\ SubtractsSoon
  /\ CountsAgree

\* How many threads are at some places, when one of them goes on.
LEMMA AtCount ==
  ASSUME NEW t \in Threads, NEW place, NEW places, PlacesOK, Goto(t, place)
  PROVE  /\ Cardinality(At(places)) \in Nat
         /\ Cardinality(At(places)') =
              Cardinality(At(places)) + (IF place \in places THEN 1 ELSE 0)
                                      - (IF pc[t] \in places THEN 1 ELSE 0)
  <1>1. IsFiniteSet(At(places)) /\ (t \in At(places) <=> pc[t] \in places)
    BY AtFinite DEF At
  <1>2. At(places)' = IF place \in places THEN At(places) \cup {t} ELSE At(places) \ {t}
    BY AtGoto DEF PlacesOK
  <1>3. Cardinality(At(places)) \in Nat
    BY <1>1, FS_CardinalityType
  <1>4. CASE place \in places
    <2>1. Cardinality(At(places) \cup {t}) =
            IF t \in At(places) THEN Cardinality(At(places)) ELSE Cardinality(At(places)) + 1
      BY <1>1, FS_AddElement
    <2> QED
      BY <1>1, <1>2, <1>3, <1>4, <2>1
  <1>5. CASE place \notin places
    <2>1. Cardinality(At(places) \ {t}) =
            IF t \in At(places) THEN Cardinality(At(places)) - 1 ELSE Cardinality(At(places))
      BY <1>1, FS_RemoveElement
    <2> QED
      BY <1>1, <1>2, <1>3, <1>5, <2>1
  <1> QED
    BY <1>3, <1>4, <1>5

\* The handles of one thread, and those of the others.
LEMMA ToSubtractParts ==
  ASSUME NEW t \in Threads, NEW n \in Nat, cleared \in [Threads -> Nat],
         IsFiniteSet(ToSubtract), cleared' = [cleared EXCEPT ![t] = n]
  PROVE  /\ IsFiniteSet(ToSubtract') /\ Cardinality(ToSubtract) \in Nat
         /\ Cardinality(ToSubtract') = Cardinality(ToSubtract) - cleared[t] + n
  <1> DEFINE Own(m) == {t} \X (1..m)
             Others == UNION {{u} \X (1..cleared[u]) : u \in Threads \ {t}}
  <1>1. ToSubtract = Others \cup Own(cleared[t])
    BY DEF ToSubtract
  <1>2. ToSubtract' = Others \cup Own(n)
    BY DEF ToSubtract
  <1>3. IsFiniteSet(Others)
    BY <1>1, FS_Subset
  <1>4. ASSUME NEW m \in Nat
        PROVE  /\ IsFiniteSet(Own(m)) /\ Cardinality(Own(m)) = m
               /\ Others \cap Own(m) = {}
    <2>1. IsFiniteSet({t}) /\ Cardinality({t}) = 1
      BY FS_Singleton
    <2>2. IsFiniteSet(1..m) /\ Cardinality(1..m) = m
      <3>1. \A a, b \in Int : /\ IsFiniteSet(a..b)
                              /\ Cardinality(a..b) = IF a > b THEN 0 ELSE b - a + 1
        BY FS_Interval
      <3>2. 1 \in Int /\ m \in Int
        OBVIOUS
      <3>3. /\ IsFiniteSet(1..m)
            /\ Cardinality(1..m) = IF 1 > m THEN 0 ELSE m - 1 + 1
        BY <3>1, <3>2, Zenon
      <3> QED
        BY <3>3
    <2>3. IsFiniteSet(Own(m)) /\ Cardinality(Own(m)) = 1 * m
      <3>1. /\ IsFiniteSet(Own(m))
            /\ Cardinality(Own(m)) = Cardinality({t}) * Cardinality(1..m)
        BY <2>1, <2>2, FS_Product, Zenon
      <3> QED
        BY <3>1, <2>1, <2>2, Zenon
    <2>4. \A u \in Threads \ {t} : ({u} \X (1..cleared[u])) \cap Own(m) = {}
      OBVIOUS
    <2>5. Others \cap Own(m) = {}
      BY <2>4
    <2> QED
      BY <2>3, <2>5
  <1> HIDE DEF Own, Others
  <1>5. ASSUME NEW m \in Nat
        PROVE  /\ IsFiniteSet(Others \cup Own(m))
               /\ Cardinality(Others \cup Own(m)) = Cardinality(Others) + m
    <2>1. Cardinality(Others \cap Own(m)) = 0
      BY <1>4, FS_EmptySet
    <2>2. Cardinality(Others) \in Nat
      BY <1>3, FS_CardinalityType
    <2>3. /\ IsFiniteSet(Others \cup Own(m))
          /\ Cardinality(Others \cup Own(m)) =
               Cardinality(Others) + Cardinality(Own(m)) - Cardinality(Others \cap Own(m))
      BY <1>3, <1>4, FS_Union
    <2> QED
      BY <1>4, <2>1, <2>2, <2>3
  <1>6. Cardinality(Others) \in Nat /\ cleared[t] \in Nat
    BY <1>3, FS_CardinalityType
  <1> QED
    BY <1>1, <1>2, <1>5, <1>6

\* A step that goes on, changes the count, the list, the losses and who keeps a
\* handle during a call, and leaves what is to be subtracted alone: the books
\* balance if its changes do.
LEMMA CountGoto ==
  ASSUME NEW t \in Threads, NEW place, PlacesOK, PoolTypes, CountInv,
         Goto(t, place), UNCHANGED cleared,
         alive' \in Int, free' \in Int, lost' \in Int, Cardinality(nested') \in Int,
         pc[t] \notin {"subtract", "drainSubtract"},
         alive' - alive = (free' - free) + (lost' - lost)
                            + (IF place \in InUse THEN 1 ELSE 0)
                            - (IF pc[t] \in InUse THEN 1 ELSE 0)
                            + (Cardinality(nested') - Cardinality(nested))
                            - (IF place = "fillCount" THEN 1 ELSE 0)
                            + (IF pc[t] = "fillCount" THEN 1 ELSE 0)
  PROVE  CountInv'
  <1>1. IsFiniteSet(ToSubtract') /\ ToSubtract' = ToSubtract
    BY DEF CountInv, ToSubtract
  <1>2. SubtractsSoon'
    BY DEF CountInv, SubtractsSoon, Goto, PlacesOK
  <1>3. Cardinality(ToSubtract) \in Nat
    BY FS_CardinalityType DEF CountInv
  <1>4. /\ Cardinality(At(InUse)) \in Nat
        /\ Cardinality(At(InUse)') = Cardinality(At(InUse)) + (IF place \in InUse THEN 1 ELSE 0)
                                       - (IF pc[t] \in InUse THEN 1 ELSE 0)
    BY AtCount, Zenon
  <1>5. /\ Cardinality(At({"fillCount"})) \in Nat
        /\ Cardinality(At({"fillCount"})') =
             Cardinality(At({"fillCount"})) + (IF place = "fillCount" THEN 1 ELSE 0)
               - (IF pc[t] = "fillCount" THEN 1 ELSE 0)
    <2>1. PICK places : places = {"fillCount"}
      OBVIOUS
    <2>2. /\ Cardinality(At(places)) \in Nat
          /\ Cardinality(At(places)') =
               Cardinality(At(places)) + (IF place \in places THEN 1 ELSE 0)
                 - (IF pc[t] \in places THEN 1 ELSE 0)
      BY AtCount, Zenon
    <2>3. /\ place \in places <=> place = "fillCount"
          /\ pc[t] \in places <=> pc[t] = "fillCount"
      BY <2>1
    <2> QED
      BY <2>1, <2>2, <2>3
  <1>6. alive \in Int /\ free \in Int /\ lost \in Int
    BY HandlePoolAssumption DEF PoolTypes
  <1>7. Cardinality(nested) \in Nat
    BY NestedCount
  <1>8. CountsAgree'
    BY <1>1, <1>3, <1>4, <1>5, <1>6, <1>7 DEF CountInv, CountsAgree
  <1> QED
    BY <1>1, <1>2, <1>8 DEF CountInv

\* The arithmetic of the next lemma.
LEMMA Balance ==
  ASSUME NEW a \in Int, NEW a1 \in Int, NEW f \in Int, NEW f1 \in Int, NEW l \in Int,
         NEW u \in Int, NEW c \in Int, NEW s \in Int, NEW s1 \in Int, NEW k \in Int,
         NEW n \in Int,
         NEW w \in Int,
         a = f + l + u + w - c + s, s1 = s - k + n, a1 - f1 - n = a - f - k
  PROVE  a1 = f1 + l + u + w - c + s1
  OBVIOUS

\* A step that makes what a thread has to subtract n, out of the list or out of
\* the count.
LEMMA AmountGoto ==
  ASSUME NEW t \in Threads, NEW n \in Nat, PlacesOK, PoolTypes, CountInv,
         NEW place \in {"subtract", "drainSubtract", "unlockRead", "onDrained"},
         Goto(t, place), cleared' = [cleared EXCEPT ![t] = n], UNCHANGED <<lost, nested>>,
         n > 0 => place \in {"subtract", "drainSubtract"},
         pc[t] \in {"clear", "drainClear", "subtract", "drainSubtract"},
         alive' \in Int, free' \in Int,
         alive' - free' - n = alive - free - cleared[t]
  PROVE  CountInv'
  <1>1. /\ alive \in Int /\ free \in Int /\ lost \in Int
        /\ cleared \in [Threads -> Nat] /\ cleared[t] \in Nat
    BY HandlePoolAssumption DEF PoolTypes
  <1>2. /\ IsFiniteSet(ToSubtract') /\ Cardinality(ToSubtract) \in Nat
        /\ Cardinality(ToSubtract') = Cardinality(ToSubtract) - cleared[t] + n
    BY <1>1, ToSubtractParts DEF CountInv
  <1>3. /\ Cardinality(At(InUse)) \in Nat
        /\ Cardinality(At(InUse)') = Cardinality(At(InUse))
    <2>1. place \notin InUse /\ pc[t] \notin InUse
      BY DEF InUse
    <2>2. /\ Cardinality(At(InUse)) \in Nat
          /\ Cardinality(At(InUse)') =
               Cardinality(At(InUse)) + (IF place \in InUse THEN 1 ELSE 0)
                 - (IF pc[t] \in InUse THEN 1 ELSE 0)
      BY AtCount, Zenon
    <2> QED
      BY <2>1, <2>2
  <1>4. /\ Cardinality(At({"fillCount"})) \in Nat
        /\ Cardinality(At({"fillCount"})') = Cardinality(At({"fillCount"}))
    <2>1. place \notin {"fillCount"} /\ pc[t] \notin {"fillCount"}
      OBVIOUS
    <2>2. PICK places : places = {"fillCount"}
      OBVIOUS
    <2>3. /\ Cardinality(At(places)) \in Nat
          /\ Cardinality(At(places)') =
               Cardinality(At(places)) + (IF place \in places THEN 1 ELSE 0)
                 - (IF pc[t] \in places THEN 1 ELSE 0)
      BY AtCount, Zenon
    <2> QED
      BY <2>1, <2>2, <2>3
  <1>5. CountsAgree'
    <2>0. Cardinality(nested) \in Nat
      BY NestedCount
    <2>1. alive = free + lost + Cardinality(At(InUse)) + Cardinality(nested)
                    - Cardinality(At({"fillCount"})) + Cardinality(ToSubtract)
      BY DEF CountInv, CountsAgree
    <2>2. alive' = free' + lost + Cardinality(At(InUse)) + Cardinality(nested)
                     - Cardinality(At({"fillCount"})) + Cardinality(ToSubtract')
      <3>1. Cardinality(ToSubtract') \in Int
        BY <1>1, <1>2
      <3> QED
        BY <1>1, <1>2, <1>3, <1>4, <2>0, <2>1, <3>1, Balance
    <2> QED
      BY <1>3, <1>4, <2>2 DEF CountsAgree
  <1>6. SubtractsSoon'
    BY <1>1 DEF CountInv, SubtractsSoon, Goto, PlacesOK
  <1> QED
    BY <1>2, <1>5, <1>6 DEF CountInv

\* m_handles.clear() and the subtraction of what it returned.
LEMMA ClearCounts ==
  ASSUME NEW t \in Threads, PlacesOK, PoolTypes, CountInv, Clear(t) \/ Subtract(t)
  PROVE  CountInv'
  <1>1. /\ alive \in Int /\ free \in Nat /\ cleared[t] \in Nat
    BY HandlePoolAssumption DEF PoolTypes
  <1>2. CASE Clear(t)
    <2>1. /\ cleared' = [cleared EXCEPT ![t] = free] /\ free' = 0
          /\ UNCHANGED <<alive, lost, nested>>
      BY <1>2 DEF Clear
    <2>2. \/ pc[t] = "clear" /\ Goto(t, "subtract")
          \/ pc[t] = "drainClear" /\ Goto(t, "drainSubtract")
      BY <1>2 DEF Clear
    <2>3. cleared[t] = 0
      BY <1>1, <2>2 DEF CountInv, SubtractsSoon
    <2>4. /\ alive' - free' - free = alive - free - cleared[t]
          /\ alive' \in Int /\ free' \in Int
      BY <1>1, <2>1, <2>3
    <2> QED
      BY <1>1, <2>1, <2>2, <2>4, AmountGoto
  <1>3. CASE Subtract(t)
    <2>1. /\ cleared' = [cleared EXCEPT ![t] = 0] /\ alive' = alive - cleared[t]
          /\ UNCHANGED <<free, lost, nested>>
      BY <1>3 DEF Subtract
    <2>2. \/ pc[t] = "subtract" /\ Goto(t, "unlockRead")
          \/ pc[t] = "drainSubtract" /\ Goto(t, "onDrained")
      BY <1>3 DEF Subtract
    <2>3. /\ alive' - free' - 0 = alive - free - cleared[t]
          /\ alive' \in Int /\ free' \in Int
      BY <1>1, <2>1
    <2>4. PICK n \in Nat : n = 0
      OBVIOUS
    <2>5. ASSUME NEW place \in {"unlockRead", "onDrained"},
                 pc[t] \in {"subtract", "drainSubtract"}, Goto(t, place)
          PROVE  CountInv'
      <3>1. cleared' = [cleared EXCEPT ![t] = n] /\ UNCHANGED <<lost, nested>>
        BY <2>1, <2>4
      <3>2. alive' - free' - n = alive - free - cleared[t] /\ alive' \in Int /\ free' \in Int
        BY <2>3, <2>4
      <3>3. ~(n > 0)
        BY <2>4
      <3> QED
        BY <2>5, <3>1, <3>2, <3>3, AmountGoto
    <2> QED
      BY <2>2, <2>5
  <1> QED
    BY <1>2, <1>3

\* The steps that change a number: what each takes from one account it puts
\* into another.
LEMMA NumberCounts ==
  ASSUME NEW t \in Threads, PlacesOK, PoolTypes, CountInv,
         \/ PopBack(t) \/ PushBack(t) \/ FillPush(t) \/ Count(t) \/ Uncount(t)
         \/ FillCount(t) \/ InvokeFails(t)
  PROVE  CountInv'
  <1>0. Cardinality(nested) \in Nat
    BY NestedCount
  <1> USE DEF InUse
  <1>1. alive \in Int /\ free \in Int /\ lost \in Int
    BY HandlePoolAssumption DEF PoolTypes
  <1>2. CASE PopBack(t) BY <1>0, <1>1, <1>2, CountGoto DEF PopBack
  <1>3. CASE PushBack(t) BY <1>0, <1>1, <1>3, CountGoto DEF PushBack
  <1>4. CASE FillPush(t) BY <1>0, <1>1, <1>4, CountGoto DEF FillPush
  <1>5. CASE Count(t) BY <1>0, <1>1, <1>5, CountGoto DEF Count
  <1>6. CASE Uncount(t) BY <1>0, <1>1, <1>6, CountGoto DEF Uncount
  <1>7. CASE FillCount(t) BY <1>0, <1>1, <1>7, CountGoto DEF FillCount
  <1>8. CASE InvokeFails(t) BY <1>0, <1>1, <1>8, CountGoto DEF InvokeFails
  <1> QED
    BY <1>2, <1>3, <1>4, <1>5, <1>6, <1>7, <1>8

\* The steps that only take a thread on.
LEMMA PlaceCounts ==
  ASSUME NEW t \in Threads, PlacesOK, PoolTypes, CountInv,
         \/ Begin(t) \/ CheckCount(t) \/ Generate(t) \/ Invoke(t) \/ EndTransaction(t)
         \/ EndStatement(t) \/ FillOpen(t) \/ FlowedBack(t)
  PROVE  CountInv'
  <1>0. Cardinality(nested) \in Nat
    BY NestedCount
  <1>1. /\ UNCHANGED <<alive, free, lost, cleared, nested>>
        /\ alive \in Int /\ free \in Int /\ lost \in Int
    BY HandlePoolAssumption
       DEF PoolTypes, Begin, CheckCount, Generate, Invoke, EndTransaction, EndStatement,
           FillOpen, FlowedBack, poolVars
  <1>2. PICK place : /\ Goto(t, place)
                     /\ place \in InUse <=> pc[t] \in InUse
                     /\ place # "fillCount" /\ pc[t] # "fillCount"
                     /\ pc[t] \notin {"subtract", "drainSubtract"}
    BY DEF InUse, Begin, CheckCount, Generate, Invoke, EndTransaction, EndStatement,
           FillOpen, FlowedBack
  <1> QED
    BY <1>0, <1>1, <1>2, CountGoto

\* The beginnings and ends of calls, by which a thread may set its handle aside
\* and come back to it.
LEMMA CallCounts ==
  ASSUME NEW t \in Threads, PlacesOK, PoolTypes, CountInv,
         \/ FlowOut(t) \/ CanOpen(t) \/ Purge(t) \/ Close(t) \/ Blockade(t)
         \/ Release(t) \/ NothingKept(t) \/ Unblock(t)
  PROVE  CountInv'
  <1>0. Cardinality(nested) \in Nat
    BY NestedCount
  <1>1. /\ UNCHANGED <<alive, free, lost, cleared>>
        /\ alive \in Int /\ free \in Int /\ lost \in Int
    BY HandlePoolAssumption
       DEF PoolTypes, FlowOut, CanOpen, Purge, Close, Blockade, Release, NothingKept, Unblock
  <1>2. PICK place :
          /\ Goto(t, place)
          /\ place # "fillCount" /\ pc[t] # "fillCount"
          /\ pc[t] \notin {"subtract", "drainSubtract"}
          /\ \/ nested' = nested /\ (place \in InUse <=> pc[t] \in InUse)
             \/ t \notin nested /\ nested' = nested \cup {t} /\ pc[t] \in InUse /\ place \notin InUse
             \/ t \in nested /\ nested' = nested \ {t} /\ pc[t] \notin InUse /\ place \in InUse
    <2>1. CASE FlowOut(t) BY <2>1 DEF FlowOut, Enter, InUse
    <2>2. CASE CanOpen(t) BY <2>2 DEF CanOpen, Enter, InUse
    <2>3. CASE Purge(t) BY <2>3 DEF Purge, Enter, InUse
    <2>4. CASE Close(t) BY <2>4 DEF Close, Enter, InUse
    <2>5. CASE Blockade(t) BY <2>5 DEF Blockade, Enter, InUse
    <2>6. CASE Release(t) BY <2>6 DEF Release, Return, InUse
    <2>7. CASE NothingKept(t) BY <2>7 DEF NothingKept, Return, InUse
    <2>8. CASE Unblock(t) BY <2>8 DEF Unblock, Return, InUse
    <2> QED
      BY <2>1, <2>2, <2>3, <2>4, <2>5, <2>6, <2>7, <2>8
  <1>3. /\ Cardinality(nested') \in Int
        /\ Cardinality(nested') - Cardinality(nested) =
             (IF pc[t] \in InUse THEN 1 ELSE 0) - (IF place \in InUse THEN 1 ELSE 0)
    <2>1. CASE nested' = nested /\ (place \in InUse <=> pc[t] \in InUse)
      <3>1. Cardinality(nested') = Cardinality(nested)
        BY <2>1
      <3> QED
        BY <1>0, <2>1, <3>1
    <2>2. CASE /\ t \notin nested /\ nested' = nested \cup {t}
               /\ pc[t] \in InUse /\ place \notin InUse
      <3>1. Cardinality(nested') = Cardinality(nested) + 1
        BY <2>2, NestedCount
      <3> QED
        BY <1>0, <2>2, <3>1
    <2>3. CASE /\ t \in nested /\ nested' = nested \ {t}
               /\ pc[t] \notin InUse /\ place \in InUse
      <3>1. Cardinality(nested') = Cardinality(nested) - 1
        BY <2>3, NestedCount
      <3> QED
        BY <1>0, <2>3, <3>1
    <2> QED
      BY <1>2, <2>1, <2>2, <2>3
  <1> QED
    BY <1>0, <1>1, <1>2, <1>3, CountGoto

\* The calls of the lock.
LEMMA LockCounts ==
  ASSUME NEW t \in Threads, PlacesOK, PoolTypes, CountInv,
         LockRead(t) \/ LockWrite(t) \/ Wake(t)
  PROVE  CountInv'
  <1>0. Cardinality(nested) \in Nat
    BY NestedCount
  <1>1. /\ UNCHANGED <<alive, free, lost, cleared, nested>>
        /\ alive \in Int /\ free \in Int /\ lost \in Int
    BY HandlePoolAssumption DEF PoolTypes, LockRead, LockWrite, Wake, poolVars
  <1>2. CASE pc' = pc
    BY <1>0, <1>1, <1>2 DEF CountInv, SubtractsSoon, CountsAgree, ToSubtract, At
  <1>3. CASE pc[t] \in ReadCalls \cup WriteCalls /\ Goto(t, Entered(pc[t]))
    <2>1. /\ Entered(pc[t]) \notin InUse /\ pc[t] \notin InUse
          /\ Entered(pc[t]) # "fillCount" /\ pc[t] # "fillCount"
          /\ pc[t] \notin {"subtract", "drainSubtract"}
      BY <1>3 DEF Entered, ReadCalls, WriteCalls, InUse
    <2> QED
      BY <1>0, <1>1, <1>3, <2>1, CountGoto
  <1> QED
    BY <1>2, <1>3 DEF LockRead, LockWrite, Wake

LEMMA CountStep == PlacesOK /\ PoolTypes /\ CountInv /\ [Next]_vars => CountInv'
  <1> SUFFICES ASSUME PlacesOK, PoolTypes, CountInv, [Next]_vars
               PROVE  CountInv'
    OBVIOUS
  <1>1. CASE UNCHANGED vars
    BY <1>1 DEF vars, poolVars, CountInv, SubtractsSoon, CountsAgree, ToSubtract, At
  <1> QED
    BY <1>1, ClearCounts, NumberCounts, PlaceCounts, CallCounts, LockCounts, StepKinds
       DEF InnerStep

\* Whatever threads race between taking, making, giving back, clearing and
\* subtracting, the number of handles that WCDB keeps is right.
THEOREM CountCorrect == Spec => []CountsAgree
  <1>1. Init => CountInv
    <2> SUFFICES ASSUME Init PROVE CountInv
      OBVIOUS
    <2>1. At(InUse) = {} /\ nested = {} /\ At({"fillCount"}) = {} /\ ToSubtract = {}
      BY DEF Init, At, InUse, ToSubtract
    <2> QED
      BY <2>1, FS_EmptySet DEF Init, CountInv, SubtractsSoon, CountsAgree
  <1>2. Init => PoolTypes
    BY HandlePoolAssumption DEF Init, PoolTypes
  <1>3. PoolTypes /\ [Next]_vars => PoolTypes'
    BY PoolTypesKept
  <1>4. CountInv => CountsAgree
    BY DEF CountInv
  <1> QED
    BY <1>1, <1>2, <1>3, <1>4, CountStep, LockInitially, LockStep, PTL DEF Spec
=============================================================================
