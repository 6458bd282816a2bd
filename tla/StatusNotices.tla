--------------------------- MODULE StatusNotices ---------------------------
(***************************************************************************)
(* What the app relies on of the reachability manager, without saying what *)
(* a status is: a status notification reaches the listener only because    *)
(* monitoring was started or, while it runs, because the network changed,  *)
(* and each start is good for at most one.  Reachability implements it for *)
(* one manager; NewsFeed uses it, so that what NewsFeed says of the pages  *)
(* holds with the manager that Reachability describes.                     *)
(***************************************************************************)
EXTENDS Naturals

VARIABLES
  monitoring,  \* changes of the network are reported
  starts,      \* starts that have not led to a notification yet
  notices      \* notifications on the main queue

vars == <<monitoring, starts, notices>>

Init == monitoring = FALSE /\ starts = 0 /\ notices = 0

Start ==
  /\ monitoring' = TRUE
  /\ starts' = starts + 1
  /\ UNCHANGED notices

Stop == monitoring' = FALSE /\ UNCHANGED <<starts, notices>>

Change ==
  /\ monitoring
  /\ notices' = notices + 1
  /\ UNCHANGED <<monitoring, starts>>

\* The flags that a start asked for have been read and posted, or not read.
Answer ==
  /\ starts > 0
  /\ starts' = starts - 1
  /\ notices' \in {notices, notices + 1}
  /\ UNCHANGED monitoring

Hear ==
  /\ notices > 0
  /\ notices' = notices - 1
  /\ UNCHANGED <<monitoring, starts>>

\* The process ends, and nothing of this survives it.
Exit == monitoring' = FALSE /\ starts' = 0 /\ notices' = 0

Next == Start \/ Stop \/ Change \/ Answer \/ Hear \/ Exit

Spec == Init /\ [][Next]_vars
=============================================================================
