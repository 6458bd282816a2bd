---------------------------- MODULE Reachability ----------------------------
(***************************************************************************)
(* AFNetworkReachabilityManager: how the networkReachabilityStatus that    *)
(* the app's pages listen to follows the network.  Two threads post status *)
(* notifications to the main queue: the run-loop callback of a change, and *)
(* the background block with which startMonitoring reads the first flags.  *)
(*                                                                         *)
(* NewsFeed counts these notifications and asks who gets them; this module *)
(* asks what they say.                                                     *)
(***************************************************************************)
EXTENDS Naturals, Sequences, FiniteSets

CONSTANTS
  Statuses,      \* what flags can mean: not reachable, by WWAN, by WiFi
  Unknown,       \* AFNetworkReachabilityStatusUnknown
  Probes,        \* slots for startMonitoring's background blocks
  MaxQueued,     \* bound: notifications queued when another one is provoked
  ProbeCanFail   \* SCNetworkReachabilityGetFlags may return false

ASSUME ReachabilityAssumption ==
  /\ Statuses # {}
  /\ Unknown \notin Statuses
  /\ IsFiniteSet(Probes)
  /\ MaxQueued \in Nat
  /\ ProbeCanFail \in BOOLEAN

VARIABLES
  flags,      \* the state of the network now
  scheduled,  \* the reachability object is scheduled with the main run loop
  signalled,  \* it has a change to report to its callback
  probe,      \* state of each background block
  seen,       \* the flags a background block has read
  mainQueue,  \* statuses of the notifications queued on the main queue
  status,     \* networkReachabilityStatus, and what the listener was told
  news        \* history: the last notification posted since monitoring was
              \* (re)started was "current" or "late" when posted; "none" was
              \* posted, "unread": because the flags could not be read

vars == <<flags, scheduled, signalled, probe, seen, mainQueue, status, news>>

TypeOK ==
  /\ flags \in Statuses
  /\ scheduled \in BOOLEAN /\ signalled \in BOOLEAN
  /\ probe \in [Probes -> {"free", "scheduled", "read"}]
  /\ seen \in [Probes -> Statuses]
  /\ mainQueue \in Seq(Statuses)
  /\ status \in Statuses \cup {Unknown}
  /\ news \in {"none", "current", "late", "unread"}

Init ==
  /\ flags \in Statuses
  /\ scheduled = FALSE /\ signalled = FALSE
  /\ probe = [b \in Probes |-> "free"]
  /\ seen = [b \in Probes |-> flags]
  /\ mainQueue = <<>>
  /\ status = Unknown
  /\ news = "none"

\* AFPostReachabilityStatusChange: dispatched, never delivered directly.
\* (Mutant: once for the block and once for the notification center.)
PostForEach(f) == mainQueue' = mainQueue \o <<f, f>> /\ UNCHANGED status

Post(f) == mainQueue' = Append(mainQueue, f) /\ UNCHANGED status

-----------------------------------------------------------------------------
\* The network changes; a scheduled reachability object will report it.
NetworkChanges(f) ==
  /\ Len(mainQueue) < MaxQueued /\ f # flags
  /\ flags' = f
  /\ signalled' = scheduled
  /\ UNCHANGED <<scheduled, probe, seen, mainQueue, status, news>>

\* The callback, on the main run loop, is given the flags of that moment.
\* (Mutant: it delivers them itself.)
CallbackDelivers ==
  /\ scheduled /\ signalled
  /\ signalled' = FALSE
  /\ status' = flags /\ UNCHANGED mainQueue
  /\ news' = "current"
  /\ UNCHANGED <<flags, scheduled, probe, seen>>

Callback ==
  /\ scheduled /\ signalled
  /\ signalled' = FALSE
  /\ Post(flags)
  /\ news' = "current"
  /\ UNCHANGED <<flags, scheduled, probe, seen>>

\* startMonitoring: unscheduled, scheduled again, and a background block that
\* will read the flags.  A change not yet reported may be forgotten.
\* (Mutant: no background block.)
StartUnprobed(b) ==
  /\ probe[b] = "free" /\ Len(mainQueue) < MaxQueued
  /\ scheduled' = TRUE
  /\ signalled' \in {FALSE, signalled}
  /\ news' = "none"
  /\ UNCHANGED <<flags, probe, seen, mainQueue, status>>

StartMonitoring(b) ==
  /\ probe[b] = "free" /\ Len(mainQueue) < MaxQueued
  /\ scheduled' = TRUE
  /\ signalled' \in {FALSE, signalled}
  /\ probe' = [probe EXCEPT ![b] = "scheduled"]
  /\ news' = "none"
  /\ UNCHANGED <<flags, seen, mainQueue, status>>

StopMonitoring ==
  /\ scheduled
  /\ scheduled' = FALSE /\ signalled' = FALSE
  /\ news' = "none"
  /\ UNCHANGED <<flags, probe, seen, mainQueue, status>>

\* The background block reads the flags ...
ProbeReads(b) ==
  /\ probe[b] = "scheduled"
  /\ probe' = [probe EXCEPT ![b] = "read"]
  /\ seen' = [seen EXCEPT ![b] = flags]
  /\ UNCHANGED <<flags, scheduled, signalled, mainQueue, status, news>>

ProbeFails(b) ==
  /\ ProbeCanFail /\ probe[b] = "scheduled"
  /\ probe' = [probe EXCEPT ![b] = "free"]
  /\ news' = IF news = "none" THEN "unread" ELSE news
  /\ UNCHANGED <<flags, scheduled, signalled, seen, mainQueue, status>>

\* ... and posts them, when they may be out of date.
ProbePosts(b) ==
  /\ probe[b] = "read"
  /\ probe' = [probe EXCEPT ![b] = "free"]
  /\ Post(seen[b])
  /\ news' = IF ~scheduled THEN "none"
             ELSE IF seen[b] = flags THEN "current" ELSE "late"
  /\ UNCHANGED <<flags, scheduled, signalled, seen>>

\* The main queue runs the oldest notification.
Deliver ==
  /\ mainQueue # <<>>
  /\ status' = Head(mainQueue)
  /\ mainQueue' = Tail(mainQueue)
  /\ UNCHANGED <<flags, scheduled, signalled, probe, seen, news>>

ProbeStep(b) == ProbeReads(b) \/ ProbeFails(b) \/ ProbePosts(b)

Next ==
  \/ \E f \in Statuses : NetworkChanges(f)
  \/ Callback \/ Deliver \/ StopMonitoring
  \/ \E b \in Probes : StartMonitoring(b) \/ ProbeStep(b)

\* The run loop, the main queue and the background queue make progress.
Fairness ==
  /\ WF_vars(Callback)
  /\ WF_vars(Deliver)
  /\ \A b \in Probes : WF_vars(ProbeStep(b))

Spec == Init /\ [][Next]_vars
FairSpec == Spec /\ Fairness
-----------------------------------------------------------------------------
(* Properties.                                                             *)

\* Nothing is on its way to the listener.
Settled ==
  /\ scheduled /\ ~signalled /\ mainQueue = <<>>
  /\ \A b \in Probes : probe[b] = "free"

\* The status the network had when the last notification was queued is the one
\* the listener is left with: as long as that notification was not out of date
\* already, the queue lets no older one overtake it, over restarts of the
\* monitoring, failed reads and changes in any order
\* (AFPostReachabilityStatusChange).
SettledStatusIsCurrent ==
  Settled /\ news = "current" => status = flags

\* The manager gives its listener what StatusNotices promises: a background
\* block that has not posted is a start not yet answered.
Pending == {b \in Probes : probe[b] # "free"}
Notices == INSTANCE StatusNotices WITH
  monitoring <- scheduled, starts <- Cardinality(Pending), notices <- Len(mainQueue)
KeepsNoticesPromise == Notices!Spec

\* A manager that monitors finds out the status even if the network never
\* changes, unless it is stopped first or cannot read the flags
\* (startMonitoring's background block).
StatusBecomesKnown ==
  scheduled ~> (status # Unknown \/ ~scheduled \/ news = "unread")
=============================================================================
