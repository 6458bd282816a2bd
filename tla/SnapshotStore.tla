---------------------------- MODULE SnapshotStore ----------------------------
(***************************************************************************)
(* What the write-ahead log promises the handles of one database.  A       *)
(* transaction reads the last commit before it began and nothing else;     *)
(* only a connection that has seen the last commit may write, one at a     *)
(* time; a process that dies loses at most the transaction it was writing; *)
(* a power failure falls back to a commit no older than the last sync.     *)
(***************************************************************************)
CONSTANTS Conn, Page, Val, None

VARIABLES
  store,   \* the last commit: what a transaction that begins now reads
  kept,    \* commits that a power failure may bring back
  view,    \* what each connection's open transaction reads, or None
  writer,  \* the connection with a write transaction, or None
  sealed   \* its commit record is complete, and not yet announced

vars == <<store, kept, view, writer, sealed>>

Pages == [Page -> Val]

Init ==
  /\ store \in Pages /\ kept = {store}
  /\ view = [c \in Conn |-> None]
  /\ writer = None /\ sealed = FALSE

Begin(c) ==
  /\ view[c] = None /\ view'[c] # None
  /\ view' = [view EXCEPT ![c] = store]
  /\ UNCHANGED <<store, kept, writer, sealed>>

End(c) ==
  /\ writer # c /\ view[c] # None /\ view'[c] = None
  /\ view' = [view EXCEPT ![c] = None]
  /\ UNCHANGED <<store, kept, writer, sealed>>

BeginWrite(c) ==
  /\ writer = None /\ writer' = c
  /\ view[c] = store
  /\ UNCHANGED <<store, kept, view, sealed>>

Write(c) ==
  /\ writer = c /\ ~sealed
  /\ view'[c] \in Pages
  /\ \E p \in Page : view' = [view EXCEPT ![c][p] = view'[c][p]]
  /\ sealed' \in BOOLEAN
  /\ UNCHANGED <<store, kept, writer>>

Commit(c) ==
  /\ writer = c /\ sealed /\ writer' = None
  /\ store' = view[c] /\ kept' = kept \cup {view[c]}
  /\ sealed' = FALSE /\ UNCHANGED view

Rollback(c) ==
  /\ writer = c /\ ~sealed /\ writer' = None
  /\ view' = [view EXCEPT ![c] = store]
  /\ UNCHANGED <<store, kept, sealed>>

Sync ==
  /\ kept' = {store}
  /\ UNCHANGED <<store, view, writer, sealed>>

\* Every transaction ends.  Only a sealed one may have become a commit.
Stop(commits) ==
  /\ store' \in commits \cup (IF sealed THEN {view[writer]} ELSE {})
  /\ view' = [c \in Conn |-> None]
  /\ writer' = None /\ sealed' = FALSE

Crash == Stop({store}) /\ kept' = kept \cup {store'}

PowerFailure == Stop(kept) /\ kept' = {store'}

\* A step of the implementation that changes none of this is a stutter, which
\* the first conjunct lets TLC see at once.
Next ==
  /\ <<store, kept, view, writer, sealed>>' # vars
  /\ \/ \E c \in Conn :
          Begin(c) \/ End(c) \/ BeginWrite(c) \/ Write(c) \/ Commit(c) \/ Rollback(c)
     \/ Sync \/ Crash \/ PowerFailure

Spec == Init /\ [][Next]_vars
=============================================================================
