----------------------------- MODULE MCNewsFeed -----------------------------
(* Instances of NewsFeed for TLC. *)
EXTENDS NewsFeed, TLC

\* Save-block slots are interchangeable; pages are too (one role, one table).
Symmetric == Permutations(Jobs) \cup Permutations(Pages)
=============================================================================
