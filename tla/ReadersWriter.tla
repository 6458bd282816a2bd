---------------------------- MODULE ReadersWriter ----------------------------
(***************************************************************************)
(* What the handle pool needs of its lock: threads read together, a writer *)
(* is alone.  How a thread waits is the lock's business.                   *)
(***************************************************************************)
CONSTANT Threads

VARIABLES readers, writers

vars == <<readers, writers>>

Init == readers = {} /\ writers = {}

Read(t) ==
  /\ writers = {} /\ t \notin readers
  /\ readers' = readers \cup {t}
  /\ UNCHANGED writers

Write(t) ==
  /\ readers = {} /\ writers = {}
  /\ writers' = {t}
  /\ UNCHANGED readers

Leave(t) ==
  /\ readers' = readers \ {t}
  /\ writers' = writers \ {t}

Next == \E t \in Threads : Read(t) \/ Write(t) \/ Leave(t)

Spec == Init /\ [][Next]_vars
=============================================================================
