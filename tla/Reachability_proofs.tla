------------------------ MODULE Reachability_proofs ------------------------
(***************************************************************************)
(* Proofs about Reachability, for any set of statuses, any number of       *)
(* restarts and any bound on the queue.                                    *)
(***************************************************************************)
EXTENDS Reachability, SequenceTheorems, FiniteSetTheorems, TLAPS

\* Appending and removing notifications keeps the queue a sequence of
\* statuses; an appended one is the newest (AFPostReachabilityStatusChange).
LEMMA AppendNewest ==
  ASSUME NEW q \in Seq(Statuses), NEW f \in Statuses
  PROVE  /\ Append(q, f) \in Seq(Statuses)
         /\ Append(q, f) # <<>>
         /\ Append(q, f)[Len(Append(q, f))] = f
  BY AppendProperties

\* Running the oldest notification leaves the newest one where it was, unless
\* it was the only one.
LEMMA TailKeepsNewest ==
  ASSUME NEW q \in Seq(Statuses), q # <<>>
  PROVE  /\ Head(q) \in Statuses
         /\ Tail(q) \in Seq(Statuses)
         /\ Tail(q) = <<>> => Head(q) = q[Len(q)]
         /\ Tail(q) # <<>> => Tail(q)[Len(Tail(q))] = q[Len(q)]
  <1>1. Len(q) \in Nat /\ Len(q) >= 1 /\ Head(q) = q[1] /\ q[1] \in Statuses
    BY EmptySeq
  <1>2. Tail(q) \in Seq(Statuses) /\ Len(Tail(q)) = Len(q) - 1
    BY HeadTailProperties
  <1>3. \A i \in 1..Len(Tail(q)) : Tail(q)[i] = q[i + 1]
    BY HeadTailProperties
  <1>4. Tail(q) = <<>> <=> Len(Tail(q)) = 0
    BY <1>2, EmptySeq
  <1> QED
    BY <1>1, <1>2, <1>3, <1>4

\* Every step keeps the types.
LEMMA TypeInductive == TypeOK /\ [Next]_vars => TypeOK'
  <1> SUFFICES ASSUME TypeOK, [Next]_vars PROVE TypeOK'
    OBVIOUS
  <1> USE ReachabilityAssumption DEF TypeOK, vars
  <1>1. ASSUME NEW f \in Statuses, NetworkChanges(f) PROVE TypeOK'
    BY <1>1 DEF NetworkChanges
  <1>2. CASE Callback
    BY <1>2, AppendNewest DEF Callback, Post
  <1>3. CASE Deliver
    BY <1>3, TailKeepsNewest DEF Deliver
  <1>4. CASE StopMonitoring
    BY <1>4 DEF StopMonitoring
  <1>5. ASSUME NEW b \in Probes, StartMonitoring(b) PROVE TypeOK'
    BY <1>5 DEF StartMonitoring
  <1>6. ASSUME NEW b \in Probes, ProbeReads(b) PROVE TypeOK'
    BY <1>6 DEF ProbeReads
  <1>7. ASSUME NEW b \in Probes, ProbeFails(b) PROVE TypeOK'
    BY <1>7 DEF ProbeFails
  <1>8. ASSUME NEW b \in Probes, ProbePosts(b) PROVE TypeOK'
    BY <1>8, AppendNewest DEF ProbePosts, Post
  <1> QED
    BY <1>1, <1>2, <1>3, <1>4, <1>5, <1>6, <1>7, <1>8 DEF Next, ProbeStep

\* Every state of the manager has the types TypeOK states.
THEOREM TypeCorrect == Spec => []TypeOK
  <1>1. Init => TypeOK
    BY EmptySeq DEF Init, TypeOK
  <1> QED
    BY <1>1, TypeInductive, PTL DEF Spec

-----------------------------------------------------------------------------
\* What the listener will be left with if nothing more is posted.
Newest == IF mainQueue = <<>> THEN status ELSE mainQueue[Len(mainQueue)]

\* SettledStatusIsCurrent, kept up while notifications are still queued.
NewestIsCurrent ==
  scheduled /\ ~signalled /\ news = "current" => Newest = flags

\* Every step keeps the newest notification current: a change is signalled, a
\* callback posts the flags, and a background block that is late says so.
LEMMA NewestInductive ==
  TypeOK /\ NewestIsCurrent /\ [Next]_vars => NewestIsCurrent'
  <1> SUFFICES ASSUME TypeOK, NewestIsCurrent, [Next]_vars
               PROVE  NewestIsCurrent'
    OBVIOUS
  <1> USE DEF NewestIsCurrent, Newest
  <1>1. ASSUME NEW f \in Statuses, NetworkChanges(f) PROVE NewestIsCurrent'
    BY <1>1 DEF NetworkChanges
  <1>2. CASE Callback
    BY <1>2, AppendNewest DEF Callback, Post, TypeOK
  <1>3. CASE Deliver
    <2>1. Newest' = Newest
      BY <1>3, TailKeepsNewest DEF Deliver, TypeOK
    <2> QED
      BY <1>3, <2>1 DEF Deliver
  <1>4. CASE StopMonitoring
    BY <1>4 DEF StopMonitoring
  <1>5. ASSUME NEW b \in Probes, StartMonitoring(b) PROVE NewestIsCurrent'
    BY <1>5 DEF StartMonitoring
  <1>6. ASSUME NEW b \in Probes, ProbeReads(b) PROVE NewestIsCurrent'
    BY <1>6 DEF ProbeReads
  <1>7. ASSUME NEW b \in Probes, ProbeFails(b) PROVE NewestIsCurrent'
    BY <1>7 DEF ProbeFails
  <1>8. ASSUME NEW b \in Probes, ProbePosts(b) PROVE NewestIsCurrent'
    BY <1>8, AppendNewest DEF ProbePosts, Post, TypeOK
  <1>9. CASE UNCHANGED vars
    BY <1>9 DEF vars
  <1> QED
    BY <1>1, <1>2, <1>3, <1>4, <1>5, <1>6, <1>7, <1>8, <1>9 DEF Next, ProbeStep

\* No notification that was up to date when it was queued is undone by an older
\* one: the listener is left with the network's status, whatever restarts,
\* failed reads and changes there were.
THEOREM StatusCorrect == Spec => []SettledStatusIsCurrent
  <1>1. Init => NewestIsCurrent
    BY DEF Init, NewestIsCurrent
  <1>2. NewestIsCurrent => SettledStatusIsCurrent
    BY DEF NewestIsCurrent, Newest, SettledStatusIsCurrent, Settled
  <1> QED
    BY <1>1, <1>2, NewestInductive, TypeCorrect, PTL DEF Spec
-----------------------------------------------------------------------------
\* The number of starts that StatusNotices counts is a number, and a background
\* block that is queued, or that has posted or given up, changes it by one.
LEMMA PendingCount ==
  ASSUME TypeOK
  PROVE  /\ Pending \in SUBSET Probes /\ IsFiniteSet(Pending)
         /\ Cardinality(Pending) \in Nat
         /\ \A b \in Pending : /\ Cardinality(Pending) > 0
                               /\ Cardinality(Pending \ {b}) = Cardinality(Pending) - 1
         /\ \A b \in Probes \ Pending :
                Cardinality(Pending \cup {b}) = Cardinality(Pending) + 1
  <1>1. Pending \in SUBSET Probes
    BY DEF Pending
  <1>2. IsFiniteSet(Pending)
    BY <1>1, FS_Subset, ReachabilityAssumption
  <1>3. Cardinality(Pending) \in Nat
    BY <1>2, FS_CardinalityType
  <1>4. ASSUME NEW b \in Pending
        PROVE  /\ Cardinality(Pending) > 0
               /\ Cardinality(Pending \ {b}) = Cardinality(Pending) - 1
    <2>1. Cardinality(Pending \ {b}) = Cardinality(Pending) - 1
      BY <1>2, FS_RemoveElement
    <2>2. Cardinality(Pending) # 0
      BY <1>2, FS_EmptySet
    <2> QED
      BY <1>3, <2>1, <2>2
  <1>5. ASSUME NEW b \in Probes \ Pending
        PROVE  Cardinality(Pending \cup {b}) = Cardinality(Pending) + 1
    BY <1>2, FS_AddElement
  <1> QED
    BY <1>1, <1>2, <1>3, <1>4, <1>5

\* Every step of the manager is a step of StatusNotices or changes nothing that
\* it speaks of.
LEMMA StepSimulation ==
  TypeOK /\ [Next]_vars => [Notices!Next]_(Notices!vars)
  <1> SUFFICES ASSUME TypeOK, [Next]_vars
               PROVE  Notices!Next \/ UNCHANGED Notices!vars
    OBVIOUS
  <1> USE DEF Notices!vars
  <1>1. ASSUME NEW f \in Statuses, NetworkChanges(f)
        PROVE  UNCHANGED Notices!vars
    BY <1>1 DEF NetworkChanges, Pending
  <1>2. CASE Callback
    <2>1. Len(mainQueue') = Len(mainQueue) + 1 /\ scheduled /\ UNCHANGED <<scheduled, Pending>>
      BY <1>2, AppendProperties DEF Callback, Post, TypeOK, Pending
    <2> QED
      BY <2>1 DEF Notices!Next, Notices!Change
  <1>3. CASE Deliver
    <2>1. Len(mainQueue) > 0 /\ Len(mainQueue') = Len(mainQueue) - 1 /\ UNCHANGED <<scheduled, Pending>>
      BY <1>3, HeadTailProperties, EmptySeq DEF Deliver, TypeOK, Pending
    <2> QED
      BY <2>1 DEF Notices!Next, Notices!Hear
  <1>4. CASE StopMonitoring
    <2>1. scheduled' = FALSE /\ UNCHANGED <<mainQueue, Pending>>
      BY <1>4 DEF StopMonitoring, Pending
    <2> QED
      BY <2>1 DEF Notices!Next, Notices!Stop
  <1>5. ASSUME NEW b \in Probes, StartMonitoring(b) PROVE Notices!Next
    <2>1. b \notin Pending /\ Pending' = Pending \cup {b}
      BY <1>5 DEF StartMonitoring, Pending, TypeOK
    <2>2. Cardinality(Pending') = Cardinality(Pending) + 1
      BY <2>1, PendingCount
    <2>3. scheduled' = TRUE /\ UNCHANGED Len(mainQueue)
      BY <1>5 DEF StartMonitoring
    <2> QED
      BY <2>2, <2>3 DEF Notices!Next, Notices!Start
  <1>6. ASSUME NEW b \in Probes, ProbeReads(b) PROVE UNCHANGED Notices!vars
    <2>1. Pending' = Pending
      BY <1>6 DEF ProbeReads, Pending, TypeOK
    <2> QED
      BY <1>6, <2>1 DEF ProbeReads
  <1>7. ASSUME NEW b \in Probes, ProbeFails(b) \/ ProbePosts(b) PROVE Notices!Next
    <2>1. b \in Pending /\ Pending' = Pending \ {b}
      BY <1>7 DEF ProbeFails, ProbePosts, Pending, TypeOK
    <2>2. Cardinality(Pending) > 0 /\ Cardinality(Pending') = Cardinality(Pending) - 1
      BY <2>1, PendingCount
    <2>3. Len(mainQueue') \in {Len(mainQueue), Len(mainQueue) + 1}
      BY <1>7, AppendProperties DEF ProbeFails, ProbePosts, Post, TypeOK
    <2>4. UNCHANGED scheduled
      BY <1>7 DEF ProbeFails, ProbePosts
    <2> QED
      BY <2>2, <2>3, <2>4 DEF Notices!Next, Notices!Answer
  <1>8. CASE UNCHANGED vars
    BY <1>8 DEF vars, Pending
  <1> QED
    BY <1>1, <1>2, <1>3, <1>4, <1>5, <1>6, <1>7, <1>8 DEF Next, ProbeStep

\* The manager keeps the promise the news pages rely on: a notification comes
\* of a start of the monitoring, at most one of each, or of a change.
THEOREM NoticesImplemented == Spec => KeepsNoticesPromise
  <1>1. Init => Notices!Init
    <2> SUFFICES ASSUME Init PROVE Notices!Init
      OBVIOUS
    <2>1. Pending = {}
      BY DEF Init, Pending
    <2>2. Cardinality(Pending) = 0 /\ Len(mainQueue) = 0
      BY <2>1, FS_EmptySet, EmptySeq DEF Init
    <2> QED
      BY <2>2 DEF Init, Notices!Init
  <1> QED
    BY <1>1, StepSimulation, TypeCorrect, PTL DEF Spec, KeepsNoticesPromise, Notices!Spec
=============================================================================
