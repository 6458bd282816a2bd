------------------------------ MODULE Wal_proofs ------------------------------
(***************************************************************************)
(* Proofs about Wal, for any connections and roles, any number of read     *)
(* marks and any bounds.  The first half, with any number of crashes and   *)
(* power failures: what the wal-index says is folded is folded no further  *)
(* than the log, and a writer that ignores the log finds all of it in the  *)
(* database.  It looks at the header copies, nBackfill, the marks' types,  *)
(* the locks and the connections' own variables; of the files, only the    *)
(* salt.  The second half, without stops: the log refines SnapshotStore,   *)
(* and keeps its types.                                                    *)
(***************************************************************************)
EXTENDS Wal, FiniteSetTheorems, WellFoundedInduction, TLAPS

Hdr == [mx : Nat, salt : Nat]
Fields == DOMAIN Fresh(FALSE)

\* Where a connection can be.
BeforeHdr == {"idle", "hdrLocked", "recover"}
Marking == {"marks", "claim", "raise", "share", "minFrame", "check"}
Restarting == {"restart0", "restart1"}
Framing == {"header", "syncHeader", "put", "recheck", "append", "publish"}
Folding == {"ckMark", "ckTake", "ckSet", "ckCopy"}
Ckpt == {"ckGo", "ckEnd"} \cup Folding
Places == BeforeHdr \cup {"begin", "check0", "reading", "writing"}
            \cup Marking \cup Restarting \cup Framing \cup Ckpt

-----------------------------------------------------------------------------
(* The inductive invariant.                                                *)

TypesOK ==
  /\ DOMAIN shm = DOMAIN ZeroShm
  /\ shm.h0 \in Hdr \cup {None}
  /\ shm.backfill \in Nat
  /\ DOMAIN shm.mark = Slot /\ \A i \in Slot : shm.mark[i] \in Nat
  /\ \A fl \in {file, disk} : "salt" \in DOMAIN fl /\ fl.salt \in Nat
  /\ excl \in [Lock -> Conn \cup {None}] /\ shrd \in [Lock -> SUBSET Conn]
  /\ DOMAIN s = Conn
  /\ closing \in Conn \cup {None}

\* What holds of a connection's own variables x, whatever is shared.
Local(x) ==
  /\ DOMAIN x = Fields
  /\ x.pc \in Places /\ x.hdr \in Hdr
  /\ x.ckpt \in BOOLEAN /\ x.commit \in BOOLEAN
  /\ x.readLock \in -1..NReader /\ x.mxI \in 0..NReader
  /\ x.safe \in Nat /\ x.cur \in Nat /\ x.tx \in Nat /\ x.i \in 0..NReader + 1
  /\ x.pc \in BeforeHdr => x.hdr = NoHdr
  /\ x.pc \in BeforeHdr \cup {"begin", "check0", "reading"} \cup Ckpt => x.tx = 0
  /\ x.pc \in {"writing"} \cup Restarting \cup Framing => x.tx # 0
  /\ x.pc \in Ckpt => x.ckpt
  /\ x.pc \notin Ckpt \cup {"hdrLocked", "recover"} => ~x.ckpt
  /\ x.readLock # -1 <=> x.pc \in {"reading", "writing"} \cup Restarting \cup Framing
  /\ x.pc \in Framing => x.readLock # 0
  /\ x.pc \in Restarting => x.readLock = 0 /\ x.hdr.mx = 0
  /\ x.pc \in {"claim", "raise", "ckTake", "ckSet"} => x.i \in Slot
  /\ x.pc = "ckMark" => x.i # 0
  /\ x.pc \in {"share", "minFrame", "check"} => x.mxI \in Slot
  /\ x.pc \in Folding => x.safe <= x.hdr.mx
  /\ x.pc = "ckTake" => x.seen \in Nat /\ x.seen < x.safe
  /\ x.pc \in {"syncHeader", "put", "recheck", "append"} => x.cur >= x.hdr.mx
  /\ x.pc = "recheck" => x.commit
  /\ x.pc \in {"recheck", "append"} /\ x.commit => x.cur > x.hdr.mx

\* The locks that a connection with variables x holds.
HoldsExcl(x, l) ==
  \/ x.pc = "recover"
  \/ l = WriteLock /\ (x.tx # 0 \/ x.pc = "hdrLocked")
  \/ l = CkptLock /\ x.ckpt
  \/ l = ReadLock(0) /\ x.pc = "ckCopy"
  \/ l = ReadLock(x.i) /\ x.pc \in {"raise", "ckSet"}
  \/ l \in MarkLocks /\ x.pc \in Restarting

HoldsShared(x, l) ==
  \/ l = ReadLock(0) /\ x.pc = "check0"
  \/ l = ReadLock(x.mxI) /\ x.pc \in {"minFrame", "check"}
  \/ l = ReadLock(x.readLock) /\ x.readLock # -1

LocksOK ==
  \A l \in Lock :
    /\ \A c \in Conn : /\ excl[l] = c <=> HoldsExcl(s[c], l)
                       /\ c \in shrd[l] <=> HoldsShared(s[c], l)
    /\ excl[l] # None => shrd[l] = {}

\* The copy of the header that a connection has of the current log is not
\* newer than the last commit, unless it is the writer's.
HeaderOK(x) ==
  /\ shm.h0 = None => x.pc \in BeforeHdr
  /\ x.pc = "recover" => shm.h0 = None
  /\ x.tx = 0 /\ shm.h0 # None /\ x.hdr.salt = shm.h0.salt => x.hdr.mx <= shm.h0.mx

\* The writer's header is the last commit's or ahead of it, or that of a log
\* which it is starting again and which is all in the database.
WriterOK(x) ==
  x.tx # 0 =>
    /\ x.pc # "restart0" => x.hdr.mx >= shm.h0.mx
    /\ x.pc = "publish" => shm.h1 = x.hdr /\ x.hdr.mx > shm.h0.mx
    /\ x.pc = "restart0" => /\ shm.h1 = x.hdr /\ x.hdr.salt # shm.h0.salt
                            /\ shm.h0.mx = shm.backfill
    /\ x.pc = "restart1" => shm.h0 = x.hdr
    /\ x.pc = "writing" /\ x.readLock = 0 => x.hdr = shm.h0
    /\ x.hdr.salt = shm.h0.salt \/ x.hdr.salt # 0

\* Who ignores the log and has the last commit's header finds it folded.
IgnoredOK(x) ==
  (x.pc = "check0" \/ x.readLock = 0) /\ x.pc \notin Restarting /\ x.hdr = shm.h0
    => shm.backfill = x.hdr.mx

\* A checkpoint folds a part of the log that is there and not yet folded.
FoldingOK(x) ==
  /\ x.pc \in {"ckGo"} \cup Folding => x.hdr.mx <= shm.h0.mx
  /\ x.pc \in Folding => shm.backfill < x.hdr.mx

Own(x) ==
  HeaderOK(x) /\ WriterOK(x) /\ IgnoredOK(x) /\ (~Overlap => FoldingOK(x))

\* The header copies differ only while the writer is between writing them.
CopiesOK ==
  shm.h0 # None /\ shm.h1 # shm.h0
    => \E c \in Conn : s[c].pc \in {"restart0", "publish"}

\* The writer's log is the last commit's, or one that nobody else has seen.
SaltsOK ==
  \A c, k \in Conn :
    s[c].tx # 0 /\ k # c => \/ s[c].hdr.salt = shm.h0.salt
                            \/ s[k].hdr.salt # s[c].hdr.salt

\* No checkpoint has the old header while the writer puts the new one.
NoMeeting ==
  \A c, w \in Conn : s[c].pc = "ckGo" => s[w].pc # "restart0"

ClosingOK ==
  closing # None =>
    /\ s[closing].pc \in BeforeHdr \cup Ckpt
    /\ s[closing].pc \in {"hdrLocked", "recover"} => s[closing].ckpt
    /\ \A c \in Conn \ {closing} : s[c].pc = "idle"

IInv ==
  /\ TypesOK
  /\ \A c \in Conn : Local(s[c]) /\ Own(s[c])
  /\ LocksOK /\ CopiesOK /\ SaltsOK /\ ClosingOK
  /\ ~Overlap => NoMeeting /\ BackfillWithinLog

-----------------------------------------------------------------------------
(* What is common to the steps.                                            *)

\* A step of one connection gives it the variables x and leaves the others'.
LEMMA OneMoves ==
  ASSUME TypesOK, NEW c \in Conn, NEW x, Set(c, x)
  PROVE  DOMAIN s' = Conn /\ s'[c] = x /\ \A k \in Conn \ {c} : s'[k] = s[k]
  BY DEF TypesOK, Set

\* The locks agree with the variables if those of c change with them.
LEMMA LocksFollow ==
  ASSUME IInv, NEW c \in Conn, NEW x, Set(c, x),
         excl' \in [Lock -> Conn \cup {None}], shrd' \in [Lock -> SUBSET Conn],
         \A l \in Lock :
           /\ \A k \in Conn \ {c} : /\ excl'[l] = k <=> excl[l] = k
                                    /\ k \in shrd'[l] <=> k \in shrd[l]
           /\ excl'[l] = c <=> HoldsExcl(x, l)
           /\ c \in shrd'[l] <=> HoldsShared(x, l)
           /\ excl'[l] # None => shrd'[l] = {}
  PROVE  LocksOK'
<1>1. s'[c] = x /\ \A k \in Conn \ {c} : s'[k] = s[k]
  BY OneMoves DEF IInv
<1>2. ASSUME NEW l \in Lock, NEW k \in Conn
      PROVE  /\ excl'[l] = k <=> HoldsExcl(s'[k], l)
             /\ k \in shrd'[l] <=> HoldsShared(s'[k], l)
  <2>1. CASE k = c
    BY <1>1, <2>1
  <2>2. CASE k # c
    BY <1>1, <2>2 DEF IInv, LocksOK
  <2> QED BY <2>1, <2>2
<1> QED BY <1>2 DEF LocksOK, HoldsExcl, HoldsShared

\* What the locks are before a step, in the form its proof needs.
LEMMA LocksNow ==
  ASSUME IInv, NEW c \in Conn
  PROVE  /\ c # None /\ None \notin Conn
         /\ excl \in [Lock -> Conn \cup {None}] /\ shrd \in [Lock -> SUBSET Conn]
         /\ \A l \in Lock : /\ excl[l] = c <=> HoldsExcl(s[c], l)
                            /\ c \in shrd[l] <=> HoldsShared(s[c], l)
                            /\ excl[l] # None => shrd[l] = {}
  BY WalAssumption DEF IInv, LocksOK, TypesOK

\* c takes the locks ls, which are free.
LEMMA TakesLocks ==
  ASSUME IInv, NEW c \in Conn, NEW x, Set(c, x), UNCHANGED shrd,
         NEW ls \in SUBSET Lock, LockExcl(c, ls),
         \A l \in Lock : /\ HoldsExcl(x, l) <=> HoldsExcl(s[c], l) \/ l \in ls
                         /\ HoldsShared(x, l) <=> HoldsShared(s[c], l)
  PROVE  /\ LocksOK'
         /\ excl' \in [Lock -> Conn \cup {None}] /\ shrd' \in [Lock -> SUBSET Conn]
<1>1. \A l \in Lock : excl'[l] = IF l \in ls THEN c ELSE excl[l]
  BY DEF LockExcl
<1>2. \A l \in ls : excl[l] = None /\ shrd[l] = {}
  BY DEF LockExcl, Free
<1>3. excl' \in [Lock -> Conn \cup {None}] /\ shrd' \in [Lock -> SUBSET Conn]
  BY LocksNow DEF LockExcl
<1> QED BY <1>1, <1>2, <1>3, LocksNow, LocksFollow

\* c gives up the locks ls, which nobody else holds.
LEMMA GivesLocks ==
  ASSUME IInv, NEW c \in Conn, NEW x, Set(c, x), UNCHANGED shrd,
         NEW ls \in SUBSET Lock, UnlockExcl(ls), \A l \in ls : excl[l] \in {c, None},
         \A l \in Lock : /\ HoldsExcl(x, l) <=> HoldsExcl(s[c], l) /\ l \notin ls
                         /\ HoldsShared(x, l) <=> HoldsShared(s[c], l)
  PROVE  /\ LocksOK'
         /\ excl' \in [Lock -> Conn \cup {None}] /\ shrd' \in [Lock -> SUBSET Conn]
<1>1. \A l \in Lock : excl'[l] = IF l \in ls THEN None ELSE excl[l]
  BY DEF UnlockExcl
<1>2. excl' \in [Lock -> Conn \cup {None}] /\ shrd' \in [Lock -> SUBSET Conn]
  BY LocksNow DEF UnlockExcl
<1> QED BY <1>1, <1>2, LocksNow, LocksFollow

\* c shares the lock m, which nobody holds exclusively.
LEMMA TakesShare ==
  ASSUME IInv, NEW c \in Conn, NEW x, Set(c, x), UNCHANGED excl,
         NEW m \in Lock, LockShared(c, m),
         \A l \in Lock : /\ HoldsExcl(x, l) <=> HoldsExcl(s[c], l)
                         /\ HoldsShared(x, l) <=> HoldsShared(s[c], l) \/ l = m
  PROVE  /\ LocksOK'
         /\ excl' \in [Lock -> Conn \cup {None}] /\ shrd' \in [Lock -> SUBSET Conn]
<1>1. excl[m] = None
  BY DEF LockShared
<1>2. \A l \in Lock : shrd'[l] = IF l = m THEN shrd[l] \cup {c} ELSE shrd[l]
  BY LocksNow DEF LockShared
<1>3. excl' \in [Lock -> Conn \cup {None}] /\ shrd' \in [Lock -> SUBSET Conn]
  BY LocksNow DEF LockShared
<1> QED BY <1>1, <1>2, <1>3, LocksNow, LocksFollow

\* c shares the lock m no longer.
LEMMA GivesShare ==
  ASSUME IInv, NEW c \in Conn, NEW x, Set(c, x), UNCHANGED excl,
         NEW m \in Lock, UnlockShared(c, m),
         \A l \in Lock : /\ HoldsExcl(x, l) <=> HoldsExcl(s[c], l)
                         /\ HoldsShared(x, l) <=> HoldsShared(s[c], l) /\ l # m
  PROVE  /\ LocksOK'
         /\ excl' \in [Lock -> Conn \cup {None}] /\ shrd' \in [Lock -> SUBSET Conn]
<1>1. \A l \in Lock : shrd'[l] = IF l = m THEN shrd[l] \ {c} ELSE shrd[l]
  BY LocksNow DEF UnlockShared
<1>2. excl' \in [Lock -> Conn \cup {None}] /\ shrd' \in [Lock -> SUBSET Conn]
  BY LocksNow DEF UnlockShared
<1> QED BY <1>1, <1>2, LocksNow, LocksFollow

\* c's locks stay.
LEMMA KeepsLocks ==
  ASSUME IInv, NEW c \in Conn, NEW x, Set(c, x), UNCHANGED <<excl, shrd>>,
         \A l \in Lock : /\ HoldsExcl(x, l) <=> HoldsExcl(s[c], l)
                         /\ HoldsShared(x, l) <=> HoldsShared(s[c], l)
  PROVE  /\ LocksOK'
         /\ excl' \in [Lock -> Conn \cup {None}] /\ shrd' \in [Lock -> SUBSET Conn]
  BY LocksNow, LocksFollow

\* A step that gives c the variables x and leaves the header copies and
\* nBackfill: c is not between its writes of them, and its header stays, or is
\* none, or is the last commit's, which it read while the copies agreed.
Quiet(c, x) ==
  /\ Set(c, x) /\ Local(x) /\ Own(x)
  /\ shm'.h0 = shm.h0 /\ shm'.h1 = shm.h1 /\ shm'.backfill = shm.backfill
  /\ s[c].pc \notin Restarting \cup {"publish"} /\ x.pc # "restart0"
  /\ x.pc = "ckGo" => shm.h1 = shm.h0
  /\ x.hdr.salt \in {s[c].hdr.salt, shm.h0.salt, 0}
  /\ x.tx # 0 => \/ x.hdr.salt = shm.h0.salt
                 \/ s[c].tx # 0 /\ x.hdr.salt = s[c].hdr.salt
  /\ closing' = closing
  /\ closing # None => /\ closing = c /\ x.pc \in BeforeHdr \cup Ckpt
                       /\ x.pc \in {"hdrLocked", "recover"} => x.ckpt

\* All but the types and the locks follows for a quiet step.
LEMMA QuietKeeps ==
  ASSUME IInv, NEW c \in Conn, NEW x, Quiet(c, x)
  PROVE  /\ \A k \in Conn : Local(s'[k]) /\ Own(s[k])'
         /\ CopiesOK' /\ SaltsOK' /\ ClosingOK'
         /\ ~Overlap => NoMeeting' /\ BackfillWithinLog'
<1>1. s'[c] = x /\ \A k \in Conn \ {c} : s'[k] = s[k]
  BY OneMoves DEF IInv, Quiet
<1>2. ASSUME NEW k \in Conn
      PROVE  Local(s'[k]) /\ Own(s[k])'
  <2>1. Local(s'[k]) /\ Own(s'[k])
    BY <1>1 DEF IInv, Quiet
  <2>2. shm'.h0 = shm.h0 /\ shm'.h1 = shm.h1 /\ shm'.backfill = shm.backfill
    BY DEF Quiet
  <2> QED BY <2>1, <2>2 DEF Own, HeaderOK, WriterOK, IgnoredOK, FoldingOK
<1>3. CopiesOK'
  <2> SUFFICES ASSUME shm.h0 # None, shm.h1 # shm.h0
               PROVE  \E k \in Conn : s'[k].pc \in {"restart0", "publish"}
    BY DEF CopiesOK, Quiet
  <2>1. PICK k \in Conn : s[k].pc \in {"restart0", "publish"}
    BY DEF IInv, CopiesOK
  <2>2. k # c
    BY <2>1 DEF Quiet, Restarting
  <2> QED BY <1>1, <2>1, <2>2
<1>4. SaltsOK'
  <2> SUFFICES ASSUME NEW w \in Conn, NEW k \in Conn, s'[w].tx # 0, k # w
               PROVE  s'[w].hdr.salt = shm.h0.salt \/ s'[k].hdr.salt # s'[w].hdr.salt
    BY DEF SaltsOK, Quiet
  <2>1. CASE w # c /\ k # c
    BY <1>1, <2>1 DEF IInv, SaltsOK
  <2>2. CASE w = c
    BY <1>1, <2>2 DEF IInv, SaltsOK, Quiet
  <2>3. CASE k = c
    <3>1. s'[w] = s[w] /\ s'[k].hdr.salt \in {s[c].hdr.salt, shm.h0.salt, 0}
      BY <1>1, <2>3 DEF Quiet
    <3>2. s[w].hdr.salt = shm.h0.salt \/ s[w].hdr.salt # 0
      BY <3>1 DEF IInv, Own, WriterOK
    <3>3. s[w].hdr.salt = shm.h0.salt \/ s[c].hdr.salt # s[w].hdr.salt
      BY <2>3, <3>1 DEF IInv, SaltsOK
    <3> QED BY <3>1, <3>2, <3>3
  <2> QED BY <2>1, <2>2, <2>3
<1>5. ClosingOK'
  BY <1>1 DEF IInv, ClosingOK, Quiet
<1>6. ASSUME ~Overlap PROVE NoMeeting'
  <2>1. \A w \in Conn \ {c} : s[w].pc = "restart0" => shm.h1 # shm.h0
    BY DEF IInv, Local, Own, WriterOK, Restarting
  <2> QED BY <1>1, <1>6, <2>1 DEF IInv, NoMeeting, Quiet
<1>7. ASSUME ~Overlap PROVE BackfillWithinLog'
  BY <1>1, <1>7 DEF IInv, BackfillWithinLog, Quiet, Restarting
<1> QED BY <1>2, <1>3, <1>4, <1>5, <1>6, <1>7

\* The locks' numbers.
LEMMA LockSets ==
  /\ Lock \subseteq Int /\ WriteLock \in Lock /\ CkptLock \in Lock /\ RecoverLock \in Lock
  /\ ReadLock(0) \in Lock /\ MarkLocks \subseteq Lock
  /\ \A i \in 0..NReader : ReadLock(i) \in Lock /\ {ReadLock(i)} \in SUBSET Lock
  /\ \A i \in Slot : ReadLock(i) \in MarkLocks
  /\ \A l \in MarkLocks : l \notin {WriteLock, CkptLock, RecoverLock, ReadLock(0)}
  /\ ReadLock(0) \notin {WriteLock, CkptLock, RecoverLock} /\ WriteLock # CkptLock
  /\ \A i, j \in -1..NReader : ReadLock(i) = ReadLock(j) <=> i = j
  BY WalAssumption DEF Lock, ReadLock, MarkLocks, WriteLock, CkptLock, RecoverLock, Slot

\* The same for all of the invariant, if only c's variables and locks change.
LEMMA CalmKeeps ==
  ASSUME IInv, NEW c \in Conn, NEW x, Quiet(c, x), UNCHANGED <<shm, file, disk>>,
         LocksOK', excl' \in [Lock -> Conn \cup {None}], shrd' \in [Lock -> SUBSET Conn]
  PROVE  IInv'
<1>1. DOMAIN s' = Conn
  BY OneMoves DEF IInv, Quiet
<1>2. TypesOK'
  BY <1>1 DEF IInv, TypesOK, Quiet
<1> QED BY <1>2, QuietKeeps DEF IInv

\* The same if the rest of the wal-index and the files change too.
LEMMA StillKeeps ==
  ASSUME IInv, NEW c \in Conn, NEW x, Quiet(c, x),
         DOMAIN shm' = DOMAIN shm, DOMAIN shm'.mark = Slot,
         \A i \in Slot : shm'.mark[i] \in Nat,
         \A fl \in {file', disk'} : "salt" \in DOMAIN fl /\ fl.salt \in Nat,
         LocksOK', excl' \in [Lock -> Conn \cup {None}], shrd' \in [Lock -> SUBSET Conn]
  PROVE  IInv'
<1>1. DOMAIN s' = Conn
  BY OneMoves DEF IInv, Quiet
<1>2. TypesOK'
  BY <1>1 DEF IInv, TypesOK, Quiet, ZeroShm
<1> QED BY <1>2, QuietKeeps DEF IInv

\* While the database is being closed only that connection is in a call.
LEMMA WhoseClose ==
  ASSUME IInv, NEW c \in Conn, s[c].pc # "idle", closing # None
  PROVE  /\ closing = c /\ s[c].pc \in BeforeHdr \cup Ckpt
         /\ s[c].pc \in {"hdrLocked", "recover"} => s[c].ckpt
  BY DEF IInv, ClosingOK, TypesOK

\* A connection between calls.
LEMMA FreshOK ==
  ASSUME IInv, NEW again
  PROVE  /\ Local(Fresh(again)) /\ Own(Fresh(again))
         /\ \A l \in Lock : ~HoldsExcl(Fresh(again), l) /\ ~HoldsShared(Fresh(again), l)
<1>1. Local(Fresh(again))
  BY WalAssumption DEF Local, Fresh, Fields, Places, BeforeHdr, Marking, Restarting,
     Framing, Folding, Ckpt, Slot, Hdr, NoHdr
<1>2. Own(Fresh(again))
  BY DEF Own, HeaderOK, WriterOK, IgnoredOK, FoldingOK, Fresh, Folding, BeforeHdr, NoHdr,
     IInv, TypesOK, Hdr
<1>3. \A l \in Lock : ~HoldsExcl(Fresh(again), l) /\ ~HoldsShared(Fresh(again), l)
  BY DEF HoldsExcl, HoldsShared, Fresh, Restarting
<1> QED BY <1>1, <1>2, <1>3

-----------------------------------------------------------------------------
(* Reading the header, and recovery.                                       *)

\* A read or a checkpoint begins (walIndexReadHdr): it has the last commit's
\* header, or the locks to look again.
LEMMA ReadHdrKeeps ==
  ASSUME IInv, NEW c \in Conn, NEW ckpt \in BOOLEAN, s[c].pc = "idle",
         closing # None => ckpt /\ closing = c,
         ReadHdr(c, ckpt), UNCHANGED <<shm, file, disk, shrd, closing>>
  PROVE  IInv'
<1> DEFINE lock == IF ckpt THEN {CkptLock} ELSE {}
<1>1. /\ Local(s[c]) /\ Own(s[c]) /\ s[c].hdr = NoHdr /\ s[c].tx = 0 /\ ~s[c].ckpt
      /\ s[c].readLock = -1 /\ shm.h0 \in Hdr \cup {None}
      /\ lock \in SUBSET Lock /\ lock \cup {WriteLock} \in SUBSET Lock
  <2>1. Local(s[c]) /\ Own(s[c]) /\ shm.h0 \in Hdr \cup {None}
    BY DEF IInv, TypesOK
  <2>2. /\ s[c].hdr = NoHdr /\ s[c].tx = 0 /\ ~s[c].ckpt /\ s[c].readLock = -1
    BY <2>1 DEF Local, BeforeHdr, Restarting, Framing, Ckpt, Folding
  <2>3. lock \in SUBSET Lock /\ lock \cup {WriteLock} \in SUBSET Lock
    BY LockSets
  <2> QED BY <2>1, <2>2, <2>3
<1>2. CASE HdrGood
  <2> DEFINE x == [s[c] EXCEPT !.hdr = shm.h0, !.ckpt = ckpt,
                               !.pc = IF ckpt THEN "ckGo" ELSE "begin"]
  <2>1. Set(c, x) /\ LockExcl(c, lock)
    BY <1>2 DEF ReadHdr
  <2>2. Local(x)
    BY <1>1, <1>2 DEF Local, Fields, Fresh, HdrGood, Places, BeforeHdr, Marking, Restarting,
       Framing, Folding, Ckpt
  <2>3. Own(x)
    BY <1>1, <1>2 DEF Own, HeaderOK, WriterOK, IgnoredOK, FoldingOK, Local, Fields, Fresh, HdrGood, Folding, Hdr
  <2>4. Quiet(c, x)
    BY <1>1, <1>2, <2>1, <2>2, <2>3 DEF Quiet, HdrGood, Local, Fields, Fresh, Ckpt, Restarting
  <2>5. \A l \in Lock : /\ HoldsExcl(x, l) <=> HoldsExcl(s[c], l) \/ l \in lock
                        /\ HoldsShared(x, l) <=> HoldsShared(s[c], l)
    BY <1>1 DEF HoldsExcl, HoldsShared, Local, Fields, Fresh, Restarting
  <2> HIDE DEF x, lock
  <2> QED BY <1>1, <2>1, <2>4, <2>5, TakesLocks, CalmKeeps
<1>3. CASE ~HdrGood
  <2> DEFINE x == [s[c] EXCEPT !.ckpt = ckpt, !.pc = "hdrLocked"]
  <2>1. Set(c, x) /\ LockExcl(c, lock \cup {WriteLock})
    BY <1>3 DEF ReadHdr
  <2>2. Local(x)
    BY <1>1 DEF Local, Fields, Fresh, Places, BeforeHdr, Marking, Restarting,
       Framing, Folding, Ckpt
  <2>3. Own(x)
    BY <1>1 DEF Own, HeaderOK, WriterOK, IgnoredOK, FoldingOK, Local, Fields, Fresh, BeforeHdr, Folding
  <2>4. Quiet(c, x)
    BY <1>1, <2>1, <2>2, <2>3 DEF Quiet, Local, Fields, Fresh, BeforeHdr, Restarting
  <2>5. \A l \in Lock : /\ HoldsExcl(x, l) <=> HoldsExcl(s[c], l) \/ l \in lock \cup {WriteLock}
                        /\ HoldsShared(x, l) <=> HoldsShared(s[c], l)
    BY <1>1 DEF HoldsExcl, HoldsShared, Local, Fields, Fresh, Restarting
  <2> HIDE DEF x, lock
  <2> QED BY <1>1, <2>1, <2>4, <2>5, TakesLocks, CalmKeeps
<1> QED BY <1>2, <1>3

\* With the write lock the two copies differ only if there is no header, so
\* whoever gets every lock recovers before anybody has one.
LEMMA HdrLockedKeeps ==
  ASSUME IInv, NEW c \in Conn, HdrLocked(c)
  PROVE  IInv'
<1> DEFINE others == Lock \ (IF s[c].ckpt THEN {WriteLock, CkptLock} ELSE {WriteLock})
<1>1. /\ Local(s[c]) /\ Own(s[c]) /\ s[c].pc = "hdrLocked" /\ shm.h0 \in Hdr \cup {None}
      /\ UNCHANGED <<shm, file, disk, shrd, closing>>
  BY DEF IInv, TypesOK, HdrLocked, files
<1>2. s[c].hdr = NoHdr /\ s[c].tx = 0 /\ s[c].readLock = -1 /\ s[c].ckpt \in BOOLEAN
  BY <1>1 DEF Local, BeforeHdr, Restarting, Framing, Ckpt, Folding
<1>3. closing # None => closing = c /\ s[c].ckpt
  BY <1>1, WhoseClose
<1>4. CASE HdrGood
  <2> DEFINE x == [s[c] EXCEPT !.hdr = shm.h0, !.pc = Entered(c)]
  <2>1. Set(c, x) /\ UnlockExcl({WriteLock})
    BY <1>4 DEF HdrLocked
  <2>2. Local(x)
    BY <1>1, <1>2, <1>4 DEF Local, Entered, Fields, Fresh, HdrGood, Places, BeforeHdr, Marking,
       Restarting, Framing, Folding, Ckpt
  <2>3. Own(x)
    BY <1>1, <1>2, <1>4 DEF Own, HeaderOK, WriterOK, IgnoredOK, FoldingOK, Entered, Local, Fields,
       Fresh, HdrGood, Folding, Hdr
  <2>4. Quiet(c, x)
    BY <1>1, <1>2, <1>3, <1>4, <2>1, <2>2, <2>3
       DEF Quiet, HdrGood, Entered, Local, Fields, Fresh, Ckpt, Restarting
  <2>5. \A l \in Lock : /\ HoldsExcl(x, l) <=> HoldsExcl(s[c], l) /\ l \notin {WriteLock}
                        /\ HoldsShared(x, l) <=> HoldsShared(s[c], l)
    <3>1. /\ x.pc \in {"ckGo", "begin"} /\ x.tx = 0 /\ x.readLock = -1
          /\ x.ckpt = s[c].ckpt
      BY <1>1, <1>2 DEF Entered, Local, Fields, Fresh
    <3> HIDE DEF x
    <3> QED BY <1>1, <1>2, <3>1, LockSets DEF HoldsExcl, HoldsShared, Restarting
  <2>6. excl[WriteLock] = c
    BY <1>1, LocksNow, LockSets DEF HoldsExcl
  <2> HIDE DEF x
  <2> QED BY <1>1, <2>1, <2>4, <2>5, <2>6, LockSets, GivesLocks, CalmKeeps
<1>5. CASE ~HdrGood /\ \A l \in others : Free(l)
  <2> DEFINE x == [s[c] EXCEPT !.pc = "recover"]
  <2>1. Set(c, x) /\ LockExcl(c, others)
    BY <1>5 DEF HdrLocked, Goto
  <2>2. shm.h0 = None
    <3> SUFFICES ASSUME shm.h0 # None PROVE FALSE
      OBVIOUS
    <3>1. PICK k \in Conn : s[k].pc \in {"restart0", "publish"}
      BY <1>5 DEF HdrGood, IInv, CopiesOK
    <3>2. s[k].tx # 0
      BY <3>1 DEF IInv, Local, Restarting, Framing
    <3>3. excl[WriteLock] = c /\ excl[WriteLock] = k
      BY <1>1, <3>2, LocksNow, LockSets DEF HoldsExcl
    <3> QED BY <1>1, <3>1, <3>3
  <2>3. Local(x)
    BY <1>1, <1>2 DEF Local, Fields, Fresh, Places, BeforeHdr, Marking, Restarting,
       Framing, Folding, Ckpt
  <2>4. Own(x)
    BY <1>1, <1>2, <2>2 DEF Own, HeaderOK, WriterOK, IgnoredOK, FoldingOK, Local, Fields,
       Fresh, BeforeHdr, Folding
  <2>5. Quiet(c, x)
    BY <1>1, <1>2, <1>3, <2>1, <2>3, <2>4
       DEF Quiet, Local, Fields, Fresh, BeforeHdr, Restarting
  <2>6. \A l \in Lock : /\ HoldsExcl(x, l) <=> HoldsExcl(s[c], l) \/ l \in others
                        /\ HoldsShared(x, l) <=> HoldsShared(s[c], l)
    BY <1>1, <1>2 DEF HoldsExcl, HoldsShared, Local, Fields, Fresh, Restarting
  <2> HIDE DEF x
  <2> QED BY <1>1, <2>1, <2>5, <2>6, TakesLocks, CalmKeeps
<1>6. CASE ~HdrGood /\ ~\A l \in others : Free(l)
  <2> DEFINE x == Fresh(s[c].again)
             ls == {l \in Lock : excl[l] = c}
  <2>1. Set(c, x) /\ UnlockExcl(ls)
    BY <1>6 DEF HdrLocked, Leave, UnlockExcl
  <2>2. Quiet(c, x)
    BY <1>1, <1>2, <1>3, <2>1, FreshOK DEF Quiet, Fresh, NoHdr, BeforeHdr, Restarting
  <2>3. \A l \in Lock : /\ HoldsExcl(x, l) <=> HoldsExcl(s[c], l) /\ l \notin ls
                        /\ HoldsShared(x, l) <=> HoldsShared(s[c], l)
    BY <1>1, <1>2, FreshOK, LocksNow DEF HoldsShared
  <2> HIDE DEF x
  <2> QED BY <1>1, <2>1, <2>2, <2>3, GivesLocks, CalmKeeps
<1> QED BY <1>4, <1>5, <1>6

\* Recovery finds everybody else before the header, since it holds every lock
\* and the header is gone.
LEMMA WalIndexRecoverKeeps ==
  ASSUME IInv, NEW c \in Conn, WalIndexRecover(c)
  PROVE  IInv'
<1> DEFINE mx == RecoveredMx(file)
           hdr == [mx |-> mx, salt |-> file.salt]
           x == [s[c] EXCEPT !.hdr = hdr, !.again = file.again, !.pc = Entered(c)]
           ls == Lock \ (IF s[c].ckpt THEN {CkptLock} ELSE {})
<1>1. /\ Local(s[c]) /\ s[c].pc = "recover" /\ shm.h0 = None
      /\ Set(c, x) /\ UnlockExcl(ls) /\ UNCHANGED <<file, disk, shrd, closing>>
  BY DEF IInv, Own, HeaderOK, WalIndexRecover, files
<1>2. s[c].hdr = NoHdr /\ s[c].tx = 0 /\ s[c].readLock = -1 /\ s[c].ckpt \in BOOLEAN
  BY <1>1 DEF Local, BeforeHdr, Restarting, Framing, Ckpt, Folding
<1>3. hdr \in Hdr
  <2>1. mx \in Nat
    <3> DEFINE S == {f \in Frame : \E last \in f..MaxFrame :
                       /\ file.salt # 0 /\ file.frame[last].last
                       /\ \A g \in 1..last : Valid(file, g)}
    <3>1. IsFiniteSet(Frame) /\ S \subseteq Frame
      BY WalAssumption, FS_Interval DEF Frame
    <3>2. Cardinality(S) \in Nat
      BY <3>1, FS_Subset, FS_CardinalityType
    <3> QED BY <3>2 DEF RecoveredMx
  <2>2. file.salt \in Nat
    BY DEF IInv, TypesOK
  <2> QED BY <2>1, <2>2 DEF Hdr
<1>4. /\ DOMAIN shm' = DOMAIN ZeroShm /\ DOMAIN shm'.mark = Slot
      /\ shm'.h0 = hdr /\ shm'.h1 = hdr /\ shm'.backfill = 0
      /\ \A i \in Slot : shm'.mark[i] \in Nat
  <2>1. \A i \in Slot : shm'.mark[i] \in {mx, Unused}
    BY DEF WalIndexRecover
  <2> QED BY <1>3, <2>1, WalAssumption DEF WalIndexRecover, ZeroShm, Unused, Hdr
<1>5. s'[c] = x /\ DOMAIN s' = Conn /\ \A k \in Conn \ {c} : s'[k] = s[k]
  BY <1>1, OneMoves DEF IInv
<1>6. Local(x) /\ x.hdr = hdr /\ x.tx = 0 /\ x.pc \in {"begin", "ckGo"} /\ x.readLock = -1
      /\ x.ckpt = s[c].ckpt
  BY <1>1, <1>2, <1>3 DEF Local, Entered, Fields, Fresh, Places, BeforeHdr, Marking,
     Restarting, Framing, Folding, Ckpt
<1>7. hdr # None
  BY <1>3, WalAssumption DEF Hdr
<1>8. \A k \in Conn \ {c} : /\ s[k].pc \in BeforeHdr \ {"recover"}
                            /\ s[k].hdr = NoHdr /\ s[k].tx = 0 /\ s[k].readLock = -1
  <2> SUFFICES ASSUME NEW k \in Conn \ {c}
               PROVE  /\ s[k].pc \in BeforeHdr \ {"recover"}
                      /\ s[k].hdr = NoHdr /\ s[k].tx = 0 /\ s[k].readLock = -1
    OBVIOUS
  <2>1. s[k].pc \in BeforeHdr /\ Local(s[k])
    BY <1>1 DEF IInv, Own, HeaderOK
  <2>2. excl[WriteLock] = c
    BY <1>1, LocksNow, LockSets DEF HoldsExcl
  <2>3. s[k].pc # "recover"
    BY <2>2, LocksNow, LockSets DEF HoldsExcl
  <2> QED BY <2>1, <2>3 DEF Local, BeforeHdr, Restarting, Framing
<1> HIDE DEF x, hdr, mx
<1>9. LocksOK' /\ excl' \in [Lock -> Conn \cup {None}] /\ shrd' \in [Lock -> SUBSET Conn]
  <2>1. \A l \in ls : excl[l] \in {c, None}
    BY <1>1, LocksNow DEF HoldsExcl
  <2>2. \A l \in Lock : /\ HoldsExcl(x, l) <=> HoldsExcl(s[c], l) /\ l \notin ls
                        /\ HoldsShared(x, l) <=> HoldsShared(s[c], l)
    BY <1>1, <1>2, <1>6 DEF HoldsExcl, HoldsShared, Restarting
  <2> QED BY <1>1, <2>1, <2>2, GivesLocks
<1>10. TypesOK'
  BY <1>1, <1>3, <1>4, <1>5, <1>9 DEF IInv, TypesOK
<1>11. \A k \in Conn : Local(s[k])' /\ Own(s[k])'
  <2>1. Local(s'[c]) /\ Own(s[c])'
    BY <1>3, <1>4, <1>5, <1>6, <1>7 DEF Own, HeaderOK, WriterOK, IgnoredOK, FoldingOK, Folding, Hdr
  <2>2. ASSUME NEW k \in Conn \ {c} PROVE Local(s'[k]) /\ Own(s[k])'
    BY <1>3, <1>4, <1>5, <1>7, <1>8
       DEF IInv, Own, HeaderOK, WriterOK, IgnoredOK, FoldingOK, Folding, Hdr, NoHdr, BeforeHdr
  <2> QED BY <2>1, <2>2
<1>12. CopiesOK' /\ SaltsOK'
  BY <1>4, <1>5, <1>6, <1>8 DEF CopiesOK, SaltsOK
<1>13. ClosingOK'
  <2>1. closing # None => closing = c /\ s[c].ckpt
    BY <1>1, WhoseClose
  <2>2. x.pc = IF s[c].ckpt THEN "ckGo" ELSE "begin"
    BY <1>1 DEF x, Entered, Local, Fields, Fresh
  <2> QED BY <1>1, <1>5, <2>1, <2>2 DEF IInv, ClosingOK, Ckpt
<1>14. NoMeeting' /\ BackfillWithinLog'
  BY <1>3, <1>4, <1>5, <1>6, <1>8 DEF NoMeeting, BackfillWithinLog, BeforeHdr, Hdr
<1> QED BY <1>9, <1>10, <1>11, <1>12, <1>13, <1>14 DEF IInv

-----------------------------------------------------------------------------
(* walTryBeginRead after the header is read.                               *)

\* A non-empty set of naturals has a least one: from WFMin, which needs no
\* induction over a predicate.
LEMMA LeastNatural ==
  ASSUME NEW S \in SUBSET Nat, S # {}
  PROVE  \E m \in S : \A y \in S : m <= y
<1> DEFINE R == {ss \in Nat \X Nat : ss[1] < ss[2]}
<1>1. IsWellFoundedOn(R, Nat)
  BY NatLessThanWellFounded, Zenon DEF OpToRel
<1>2. PICK m \in S : \A y \in S : ~(<<y, m>> \in R)
  <2> HIDE DEF R
  <2> QED BY <1>1, WFMin
<1>3. \A y \in S : ~(y < m)
  BY <1>2
<1> QED BY <1>3

\* Max of a bounded set.
LEMMA MaxIsIn ==
  ASSUME NEW n \in Nat, NEW S \in SUBSET (0..n), S # {}
  PROVE  Max(S) \in S
<1> DEFINE T == {n - y : y \in S}
<1>1. T \in SUBSET Nat /\ T # {}
  <2>1. \A y \in S : n - y \in Nat
    OBVIOUS
  <2> QED BY <2>1
<1>2. PICK m \in T : \A y \in T : m <= y
  <2> HIDE DEF T
  <2> QED BY <1>1, LeastNatural
<1>3. PICK x \in S : m = n - x
  BY <1>2
<1>4. \A y \in S : x >= y
  <2> SUFFICES ASSUME NEW y \in S PROVE x >= y
    OBVIOUS
  <2>1. n - y \in T /\ n - x <= n - y
    BY <1>2, <1>3
  <2> QED BY <2>1
<1> QED BY <1>4 DEF Max

\* WAL_RETRY: the connection starts again without a shared lock.
LEMMA RetryQuiet ==
  ASSUME IInv, NEW c \in Conn, s[c].pc \in {"check0", "claim", "share", "check"},
         Retry(c), UNCHANGED <<shm, closing>>
  PROVE  \E x : /\ Quiet(c, x)
                /\ \A l \in Lock : /\ HoldsExcl(x, l) <=> HoldsExcl(s[c], l)
                                   /\ ~HoldsShared(x, l)
<1>1. /\ Local(s[c]) /\ Own(s[c]) /\ closing = None
      /\ ~s[c].ckpt /\ s[c].readLock = -1 /\ s[c].pc \notin Ckpt \cup BeforeHdr \cup Restarting
      /\ shm.h0 # None
  BY WhoseClose DEF IInv, Local, BeforeHdr, Ckpt, Folding, Restarting, Framing, Own, HeaderOK
<1>2. CASE excl[WriteLock] = c
  <2> DEFINE x == [s[c] EXCEPT !.i = 0, !.mxI = 0, !.seen = 0, !.min = 1, !.pc = "marks"]
  <2>1. Set(c, x) /\ s[c].tx # 0
    BY <1>1, <1>2, LocksNow, LockSets DEF Retry, HoldsExcl, BeforeHdr, Ckpt, Folding, Restarting
  <2>2. Local(x)
    BY <1>1, WalAssumption DEF Local, Fields, Fresh, Places, BeforeHdr, Marking, Restarting,
       Framing, Folding, Ckpt
  <2>3. Own(x)
    BY <1>1, <2>1 DEF Own, HeaderOK, WriterOK, IgnoredOK, FoldingOK, Local, Fields, Fresh,
       BeforeHdr, Folding, Restarting
  <2>4. Quiet(c, x)
    BY <1>1, <2>1, <2>2, <2>3 DEF Quiet, Local, Fields, Fresh, Restarting
  <2>5. \A l \in Lock : /\ HoldsExcl(x, l) <=> HoldsExcl(s[c], l)
                        /\ ~HoldsShared(x, l)
    BY <1>1 DEF HoldsExcl, HoldsShared, Local, Fields, Fresh, Restarting
  <2> QED BY <2>4, <2>5
<1>3. CASE excl[WriteLock] # c
  <2> DEFINE x == Fresh(s[c].again)
  <2>1. Set(c, x) /\ s[c].tx = 0
    BY <1>1, <1>3, LocksNow, LockSets DEF Retry, HoldsExcl
  <2>2. Quiet(c, x)
    BY <1>1, <2>1, FreshOK DEF Quiet, Fresh, NoHdr, Restarting
  <2>3. \A l \in Lock : /\ HoldsExcl(x, l) <=> HoldsExcl(s[c], l)
                        /\ ~HoldsShared(x, l)
    BY <1>1, <2>1, FreshOK DEF HoldsExcl, Restarting, Ckpt, Folding, BeforeHdr
  <2> QED BY <2>2, <2>3
<1> QED BY <1>2, <1>3

\* A connection on its way to a read lock, with its header from the index.
LEMMA AfterHdr ==
  ASSUME IInv, NEW c \in Conn,
         s[c].pc \in {"begin", "check0", "reading", "writing"} \cup Marking \cup Framing
  PROVE  /\ Local(s[c]) /\ Own(s[c]) /\ closing = None /\ ~s[c].ckpt /\ shm.h0 # None
         /\ s[c].pc \in Marking \cup {"begin", "check0"} => s[c].readLock = -1
         /\ s[c].pc \notin Restarting
  BY WhoseClose DEF IInv, Local, BeforeHdr, Ckpt, Folding, Restarting, Framing, Marking, Own,
     HeaderOK

\* A reader whose header says that all is folded shares ReadLock(0), which
\* keeps nBackfill where it is.
LEMMA TryReadLock0Keeps ==
  ASSUME IInv, NEW c \in Conn, TryReadLock0(c)
  PROVE  IInv'
<1>1. s[c].pc = "begin" /\ UNCHANGED <<shm, file, disk, excl, closing>>
  BY DEF TryReadLock0, files
<1>2. /\ Local(s[c]) /\ Own(s[c]) /\ closing = None /\ ~s[c].ckpt /\ shm.h0 # None
      /\ s[c].readLock = -1 /\ s[c].tx = 0
  BY <1>1, AfterHdr DEF Local
<1>3. CASE AllFolded(c) /\ excl[ReadLock(0)] = None
  <2> DEFINE x == [s[c] EXCEPT !.pc = "check0"]
  <2>1. Set(c, x) /\ LockShared(c, ReadLock(0))
    BY <1>3 DEF TryReadLock0, Goto
  <2>2. Local(x)
    BY <1>1, <1>2 DEF Local, Fields, Fresh, Places, BeforeHdr, Marking, Restarting,
       Framing, Folding, Ckpt
  <2>3. Own(x)
    BY <1>1, <1>2, <1>3 DEF Own, HeaderOK, WriterOK, IgnoredOK, FoldingOK, Local, Fields, Fresh,
       BeforeHdr, Folding, AllFolded
  <2>4. Quiet(c, x)
    BY <1>1, <1>2, <2>1, <2>2, <2>3 DEF Quiet, Local, Fields, Fresh, Restarting
  <2>5. \A l \in Lock : /\ HoldsExcl(x, l) <=> HoldsExcl(s[c], l)
                        /\ HoldsShared(x, l) <=> HoldsShared(s[c], l) \/ l = ReadLock(0)
    BY <1>1, <1>2 DEF HoldsExcl, HoldsShared, Local, Fields, Fresh, Restarting
  <2>6. ReadLock(0) \in Lock
    BY LockSets
  <2> HIDE DEF x
  <2>7. LocksOK' /\ excl' \in [Lock -> Conn \cup {None}] /\ shrd' \in [Lock -> SUBSET Conn]
    BY <1>1, <2>1, <2>5, <2>6, TakesShare
  <2> QED BY <1>1, <2>4, <2>7, CalmKeeps
<1>4. CASE ~(AllFolded(c) /\ excl[ReadLock(0)] = None)
  <2> DEFINE x == [s[c] EXCEPT !.pc = "marks"]
  <2>1. Set(c, x) /\ UNCHANGED shrd
    BY <1>4 DEF TryReadLock0, Goto
  <2>2. Local(x)
    BY <1>1, <1>2 DEF Local, Fields, Fresh, Places, BeforeHdr, Marking, Restarting,
       Framing, Folding, Ckpt
  <2>3. Own(x)
    BY <1>1, <1>2, <1>4 DEF Own, HeaderOK, WriterOK, IgnoredOK, FoldingOK, Local, Fields, Fresh,
       BeforeHdr, Folding, AllFolded
  <2>4. Quiet(c, x)
    BY <1>1, <1>2, <2>1, <2>2, <2>3 DEF Quiet, Local, Fields, Fresh, Restarting
  <2>5. \A l \in Lock : /\ HoldsExcl(x, l) <=> HoldsExcl(s[c], l)
                        /\ HoldsShared(x, l) <=> HoldsShared(s[c], l)
    BY <1>1, <1>2 DEF HoldsExcl, HoldsShared, Local, Fields, Fresh, Restarting
  <2> HIDE DEF x
  <2> QED BY <1>1, <2>1, <2>4, <2>5, KeepsLocks, CalmKeeps
<1> QED BY <1>3, <1>4

\* It goes on only if its header is still the last commit's, so all of it is
\* folded (IgnoredOK).
LEMMA Check0Keeps ==
  ASSUME IInv, NEW c \in Conn, Check0(c)
  PROVE  IInv'
<1>1. s[c].pc = "check0" /\ UNCHANGED <<shm, file, disk, excl, closing>>
  BY DEF Check0, files
<1>2. /\ Local(s[c]) /\ Own(s[c]) /\ closing = None /\ ~s[c].ckpt /\ shm.h0 # None
      /\ s[c].readLock = -1 /\ s[c].tx = 0
  BY <1>1, AfterHdr DEF Local
<1>3. CASE shm.h0 = s[c].hdr
  <2> DEFINE x == [s[c] EXCEPT !.readLock = 0, !.pc = "reading"]
  <2>1. Set(c, x) /\ UNCHANGED shrd
    BY <1>3 DEF Check0
  <2>2. Local(x)
    BY <1>1, <1>2, WalAssumption DEF Local, Fields, Fresh, Places, BeforeHdr, Marking, Restarting,
       Framing, Folding, Ckpt
  <2>3. Own(x)
    BY <1>1, <1>2, <1>3 DEF Own, HeaderOK, WriterOK, IgnoredOK, FoldingOK, Local, Fields, Fresh,
       BeforeHdr, Folding, Restarting
  <2>4. Quiet(c, x)
    BY <1>1, <1>2, <2>1, <2>2, <2>3 DEF Quiet, Local, Fields, Fresh, Restarting
  <2>5. \A l \in Lock : /\ HoldsExcl(x, l) <=> HoldsExcl(s[c], l)
                        /\ HoldsShared(x, l) <=> HoldsShared(s[c], l)
    BY <1>1, <1>2 DEF HoldsExcl, HoldsShared, Local, Fields, Fresh, Restarting
  <2> HIDE DEF x
  <2> QED BY <1>1, <2>1, <2>4, <2>5, KeepsLocks, CalmKeeps
<1>4. CASE shm.h0 # s[c].hdr
  <2>1. Retry(c) /\ UnlockShared(c, ReadLock(0))
    BY <1>4 DEF Check0
  <2>2. PICK x : /\ Quiet(c, x)
                 /\ \A l \in Lock : /\ HoldsExcl(x, l) <=> HoldsExcl(s[c], l)
                                    /\ ~HoldsShared(x, l)
    BY <1>1, <2>1, RetryQuiet
  <2>3. \A l \in Lock : ~(HoldsShared(s[c], l) /\ l # ReadLock(0))
    BY <1>1, <1>2 DEF HoldsShared
  <2> QED BY <1>1, <2>1, <2>2, <2>3, LockSets, GivesShare, CalmKeeps DEF Quiet
<1> QED BY <1>3, <1>4

\* The mark that a reader picks is one of the marks, or none.
LEMMA PickMarkKeeps ==
  ASSUME IInv, NEW c \in Conn, PickMark(c)
  PROVE  IInv'
<1> DEFINE fit == {i \in Slot : shm.mark[i] <= s[c].hdr.mx}
           best == Max({0} \cup {shm.mark[i] : i \in fit})
           mxI == Max({0} \cup {i \in fit : shm.mark[i] = best})
           place == IF best < s[c].hdr.mx \/ mxI = 0 THEN "claim" ELSE "share"
           x == [s[c] EXCEPT !.mxI = mxI, !.seen = best, !.i = 1, !.pc = place]
<1>1. s[c].pc = "marks" /\ Set(c, x) /\ UNCHANGED <<shm, file, disk, excl, shrd, closing>>
  BY DEF PickMark, files
<1>2. /\ Local(s[c]) /\ Own(s[c]) /\ closing = None /\ ~s[c].ckpt /\ shm.h0 # None
      /\ s[c].readLock = -1
  BY <1>1, AfterHdr DEF Marking
<1>3. mxI \in 0..NReader
  <2> DEFINE S == {0} \cup {i \in fit : shm.mark[i] = best}
  <2>1. S \in SUBSET (0..NReader) /\ S # {}
    <3> HIDE DEF best
    <3> QED BY WalAssumption DEF Slot
  <2> HIDE DEF S, fit, best
  <2>2. Max(S) \in S
    BY <2>1, WalAssumption, MaxIsIn
  <2> QED BY <2>1, <2>2 DEF S
<1>4. place \in {"claim", "share"} /\ (place = "share" => mxI # 0)
  OBVIOUS
<1> HIDE DEF fit, best, mxI, place
<1>5. Local(x)
  BY <1>1, <1>2, <1>3, <1>4, WalAssumption DEF Local, Fields, Fresh, Places, BeforeHdr, Marking,
     Restarting, Framing, Folding, Ckpt, Slot
<1>6. Own(x)
  BY <1>1, <1>2, <1>4 DEF Own, HeaderOK, WriterOK, IgnoredOK, FoldingOK, Local, Fields, Fresh,
     BeforeHdr, Folding, Restarting
<1>7. Quiet(c, x)
  BY <1>1, <1>2, <1>4, <1>5, <1>6 DEF Quiet, Local, Fields, Fresh, Restarting
<1>8. \A l \in Lock : /\ HoldsExcl(x, l) <=> HoldsExcl(s[c], l)
                      /\ HoldsShared(x, l) <=> HoldsShared(s[c], l)
  BY <1>1, <1>2, <1>4 DEF HoldsExcl, HoldsShared, Local, Fields, Fresh, Restarting
<1> HIDE DEF x
<1> QED BY <1>1, <1>7, <1>8, KeepsLocks, CalmKeeps

\* A reader takes a mark's lock to raise it, tries the next mark, or goes on.
LEMMA ClaimMarkKeeps ==
  ASSUME IInv, NEW c \in Conn, ClaimMark(c)
  PROVE  IInv'
<1>1. s[c].pc = "claim" /\ UNCHANGED <<shm, file, disk, shrd, closing>>
  BY DEF ClaimMark, files
<1>2. /\ Local(s[c]) /\ Own(s[c]) /\ closing = None /\ ~s[c].ckpt /\ shm.h0 # None
      /\ s[c].readLock = -1 /\ s[c].i \in Slot /\ s[c].mxI \in 0..NReader
  BY <1>1, AfterHdr DEF Marking, Local
<1> DEFINE took == s[c].i <= NReader /\ Free(ReadLock(s[c].i))
<1>3. CASE took
  <2> DEFINE x == [s[c] EXCEPT !.pc = "raise"]
  <2>1. Set(c, x) /\ LockExcl(c, {ReadLock(s[c].i)})
    BY <1>3 DEF ClaimMark, Goto
  <2>2. Local(x)
    BY <1>1, <1>2 DEF Local, Fields, Fresh, Places, BeforeHdr, Marking, Restarting,
       Framing, Folding, Ckpt
  <2>3. Own(x)
    BY <1>1, <1>2 DEF Own, HeaderOK, WriterOK, IgnoredOK, FoldingOK, Local, Fields, Fresh,
       BeforeHdr, Folding, Restarting
  <2>4. Quiet(c, x)
    BY <1>1, <1>2, <2>1, <2>2, <2>3 DEF Quiet, Local, Fields, Fresh, Restarting
  <2>5. \A l \in Lock : /\ HoldsExcl(x, l) <=> HoldsExcl(s[c], l) \/ l \in {ReadLock(s[c].i)}
                        /\ HoldsShared(x, l) <=> HoldsShared(s[c], l)
    BY <1>1, <1>2 DEF HoldsExcl, HoldsShared, Local, Fields, Fresh, Restarting
  <2> HIDE DEF x
  <2>6. {ReadLock(s[c].i)} \in SUBSET Lock
    BY <1>2, LockSets DEF Slot
  <2>7. LocksOK' /\ excl' \in [Lock -> Conn \cup {None}] /\ shrd' \in [Lock -> SUBSET Conn]
    BY <1>1, <2>1, <2>5, <2>6, TakesLocks
  <2> QED BY <1>1, <2>4, <2>7, CalmKeeps
<1>4. CASE ~took /\ ~(s[c].i < NReader) /\ s[c].mxI = 0
  <2>1. Retry(c) /\ UNCHANGED excl
    BY <1>4 DEF ClaimMark
  <2>2. PICK x : /\ Quiet(c, x)
                 /\ \A l \in Lock : /\ HoldsExcl(x, l) <=> HoldsExcl(s[c], l)
                                    /\ ~HoldsShared(x, l)
    BY <1>1, <2>1, RetryQuiet
  <2>3. \A l \in Lock : ~HoldsShared(s[c], l)
    BY <1>1, <1>2 DEF HoldsShared
  <2>4. Set(c, x)
    BY <2>2 DEF Quiet
  <2> QED BY <1>1, <2>1, <2>2, <2>3, <2>4, KeepsLocks, CalmKeeps
<1>5. CASE ~took /\ (s[c].i < NReader \/ s[c].mxI # 0)
  <2> DEFINE x == IF s[c].i < NReader THEN [s[c] EXCEPT !.i = @ + 1]
                                      ELSE [s[c] EXCEPT !.pc = "share"]
  <2>1. Set(c, x) /\ UNCHANGED excl
    BY <1>5 DEF ClaimMark, Goto
  <2>2. /\ DOMAIN x = Fields /\ x.pc \in {"claim", "share"} /\ x.hdr = s[c].hdr
        /\ x.ckpt = s[c].ckpt /\ x.commit = s[c].commit /\ x.readLock = s[c].readLock
        /\ x.mxI = s[c].mxI /\ x.safe = s[c].safe /\ x.cur = s[c].cur /\ x.tx = s[c].tx
        /\ x.i \in Slot /\ (x.pc = "share" => x.mxI # 0)
    BY <1>1, <1>2, <1>5, WalAssumption DEF Local, Fields, Fresh, Slot
  <2> HIDE DEF x
  <2>3. Local(x)
    BY <1>1, <1>2, <2>2, WalAssumption DEF Local, Fields, Fresh, Places, BeforeHdr, Marking,
       Restarting, Framing, Folding, Ckpt, Slot
  <2>4. Own(x)
    BY <1>1, <1>2, <2>2 DEF Own, HeaderOK, WriterOK, IgnoredOK, FoldingOK, BeforeHdr, Folding,
       Restarting
  <2>5. Quiet(c, x)
    BY <1>1, <1>2, <2>1, <2>2, <2>3, <2>4 DEF Quiet, Restarting
  <2>6. \A l \in Lock : /\ HoldsExcl(x, l) <=> HoldsExcl(s[c], l)
                        /\ HoldsShared(x, l) <=> HoldsShared(s[c], l)
    BY <1>1, <1>2, <2>2 DEF HoldsExcl, HoldsShared, Restarting
  <2> QED BY <1>1, <2>1, <2>5, <2>6, KeepsLocks, CalmKeeps
<1> QED BY <1>3, <1>4, <1>5

\* A mark is raised under its exclusive lock.
LEMMA RaiseMarkKeeps ==
  ASSUME IInv, NEW c \in Conn, RaiseMark(c)
  PROVE  IInv'
<1> DEFINE x == [s[c] EXCEPT !.mxI = s[c].i, !.seen = s[c].hdr.mx, !.pc = "share"]
           m == ReadLock(s[c].i)
<1>1. /\ s[c].pc = "raise" /\ Set(c, x) /\ UnlockExcl({m})
      /\ UNCHANGED <<file, disk, shrd, closing>>
      /\ shm' = [shm EXCEPT !.mark[s[c].i] = s[c].hdr.mx]
  BY DEF RaiseMark, files
<1>2. /\ Local(s[c]) /\ Own(s[c]) /\ closing = None /\ ~s[c].ckpt /\ shm.h0 # None
      /\ s[c].readLock = -1 /\ s[c].i \in Slot /\ s[c].hdr.mx \in Nat
  BY <1>1, AfterHdr DEF Marking, Local, Hdr
<1>3. /\ DOMAIN shm' = DOMAIN shm /\ DOMAIN shm'.mark = Slot
      /\ shm'.h0 = shm.h0 /\ shm'.h1 = shm.h1 /\ shm'.backfill = shm.backfill
      /\ \A i \in Slot : shm'.mark[i] \in Nat
      /\ \A fl \in {file', disk'} : "salt" \in DOMAIN fl /\ fl.salt \in Nat
  BY <1>1, <1>2 DEF IInv, TypesOK, ZeroShm
<1>4. Local(x)
  BY <1>1, <1>2 DEF Local, Fields, Fresh, Places, BeforeHdr, Marking, Restarting,
     Framing, Folding, Ckpt, Slot
<1>5. Own(x)
  BY <1>1, <1>2 DEF Own, HeaderOK, WriterOK, IgnoredOK, FoldingOK, Local, Fields, Fresh,
     BeforeHdr, Folding, Restarting
<1>6. Quiet(c, x)
  BY <1>1, <1>2, <1>3, <1>4, <1>5 DEF Quiet, Local, Fields, Fresh, Restarting
<1>7. \A l \in Lock : /\ HoldsExcl(x, l) <=> HoldsExcl(s[c], l) /\ l \notin {m}
                      /\ HoldsShared(x, l) <=> HoldsShared(s[c], l)
  BY <1>1, <1>2, LockSets DEF HoldsExcl, HoldsShared, Local, Fields, Fresh, Restarting
<1>8. m \in Lock /\ excl[m] = c
  BY <1>1, <1>2, LocksNow, LockSets DEF HoldsExcl
<1> HIDE DEF x, m
<1>9. LocksOK' /\ excl' \in [Lock -> Conn \cup {None}] /\ shrd' \in [Lock -> SUBSET Conn]
  BY <1>1, <1>7, <1>8, GivesLocks
<1> QED BY <1>3, <1>6, <1>9, StillKeeps

\* A reader shares its mark's lock, or tries again.
LEMMA ShareMarkKeeps ==
  ASSUME IInv, NEW c \in Conn, ShareMark(c)
  PROVE  IInv'
<1> DEFINE m == ReadLock(s[c].mxI)
<1>1. s[c].pc = "share" /\ UNCHANGED <<shm, file, disk, excl, closing>>
  BY DEF ShareMark, files
<1>2. /\ Local(s[c]) /\ Own(s[c]) /\ closing = None /\ ~s[c].ckpt /\ shm.h0 # None
      /\ s[c].readLock = -1 /\ s[c].mxI \in Slot /\ m \in Lock
  BY <1>1, AfterHdr, LockSets DEF Marking, Local
<1>3. CASE excl[m] = None
  <2> DEFINE x == [s[c] EXCEPT !.i = 0, !.pc = "minFrame"]
  <2>1. Set(c, x) /\ LockShared(c, m)
    BY <1>3 DEF ShareMark
  <2>2. Local(x)
    BY <1>1, <1>2, WalAssumption DEF Local, Fields, Fresh, Places, BeforeHdr, Marking, Restarting,
       Framing, Folding, Ckpt
  <2>3. Own(x)
    BY <1>1, <1>2 DEF Own, HeaderOK, WriterOK, IgnoredOK, FoldingOK, Local, Fields, Fresh,
       BeforeHdr, Folding, Restarting
  <2>4. Quiet(c, x)
    BY <1>1, <1>2, <2>1, <2>2, <2>3 DEF Quiet, Local, Fields, Fresh, Restarting
  <2>5. \A l \in Lock : /\ HoldsExcl(x, l) <=> HoldsExcl(s[c], l)
                        /\ HoldsShared(x, l) <=> HoldsShared(s[c], l) \/ l = m
    BY <1>1, <1>2 DEF HoldsExcl, HoldsShared, Local, Fields, Fresh, Restarting
  <2> HIDE DEF x, m
  <2>6. LocksOK' /\ excl' \in [Lock -> Conn \cup {None}] /\ shrd' \in [Lock -> SUBSET Conn]
    BY <1>1, <1>2, <2>1, <2>5, TakesShare
  <2> QED BY <1>1, <2>4, <2>6, CalmKeeps
<1>4. CASE excl[m] # None
  <2>1. Retry(c) /\ UNCHANGED shrd
    BY <1>4 DEF ShareMark
  <2>2. PICK x : /\ Quiet(c, x)
                 /\ \A l \in Lock : /\ HoldsExcl(x, l) <=> HoldsExcl(s[c], l)
                                    /\ ~HoldsShared(x, l)
    BY <1>1, <2>1, RetryQuiet
  <2>3. \A l \in Lock : ~HoldsShared(s[c], l)
    BY <1>1, <1>2 DEF HoldsShared
  <2>4. Set(c, x)
    BY <2>2 DEF Quiet
  <2> QED BY <1>1, <2>1, <2>2, <2>3, <2>4, KeepsLocks, CalmKeeps
<1> QED BY <1>3, <1>4

\* minFrame is read under the shared lock.
LEMMA SetMinFrameKeeps ==
  ASSUME IInv, NEW c \in Conn, SetMinFrame(c)
  PROVE  IInv'
<1> DEFINE x == [s[c] EXCEPT !.min = shm.backfill + 1, !.pc = "check"]
<1>1. s[c].pc = "minFrame" /\ Set(c, x) /\ UNCHANGED <<shm, file, disk, excl, shrd, closing>>
  BY DEF SetMinFrame, files
<1>2. /\ Local(s[c]) /\ Own(s[c]) /\ closing = None /\ ~s[c].ckpt /\ shm.h0 # None
      /\ s[c].readLock = -1
  BY <1>1, AfterHdr DEF Marking
<1>3. Local(x)
  BY <1>1, <1>2 DEF Local, Fields, Fresh, Places, BeforeHdr, Marking, Restarting,
     Framing, Folding, Ckpt
<1>4. Own(x)
  BY <1>1, <1>2 DEF Own, HeaderOK, WriterOK, IgnoredOK, FoldingOK, Local, Fields, Fresh,
     BeforeHdr, Folding, Restarting
<1>5. Quiet(c, x)
  BY <1>1, <1>2, <1>3, <1>4 DEF Quiet, Local, Fields, Fresh, Restarting
<1>6. \A l \in Lock : /\ HoldsExcl(x, l) <=> HoldsExcl(s[c], l)
                      /\ HoldsShared(x, l) <=> HoldsShared(s[c], l)
  BY <1>1, <1>2 DEF HoldsExcl, HoldsShared, Local, Fields, Fresh, Restarting
<1> HIDE DEF x
<1> QED BY <1>1, <1>5, <1>6, KeepsLocks, CalmKeeps

\* A reader that shares a mark and still has the last commit's header reads;
\* the writer goes on with its frames.
LEMMA CheckMarkKeeps ==
  ASSUME IInv, NEW c \in Conn, CheckMark(c)
  PROVE  IInv'
<1> DEFINE m == ReadLock(s[c].mxI)
<1>1. s[c].pc = "check" /\ UNCHANGED <<shm, file, disk, excl, closing>>
  BY DEF CheckMark, files
<1>2. /\ Local(s[c]) /\ Own(s[c]) /\ closing = None /\ ~s[c].ckpt /\ shm.h0 # None
      /\ s[c].readLock = -1 /\ s[c].mxI \in Slot /\ m \in Lock
  BY <1>1, AfterHdr, LockSets DEF Marking, Local
<1>3. CASE StillCurrent(c)
  <2> DEFINE place == IF excl[WriteLock] = c THEN "header" ELSE "reading"
             x == [s[c] EXCEPT !.readLock = s[c].mxI, !.mxI = 0, !.seen = 0, !.pc = place]
  <2>1. Set(c, x) /\ UNCHANGED shrd
    BY <1>3 DEF CheckMark
  <2>2. excl[WriteLock] = c <=> s[c].tx # 0
    BY <1>1, <1>2, LocksNow, LockSets DEF HoldsExcl, Restarting
  <2>3. place \in {"header", "reading"} /\ (place = "header" <=> s[c].tx # 0)
        /\ s[c].hdr = shm.h0
    BY <1>3, <2>2 DEF StillCurrent
  <2> HIDE DEF place
  <2>4. Local(x)
    BY <1>1, <1>2, <2>3, WalAssumption DEF Local, Fields, Fresh, Places, BeforeHdr, Marking,
       Restarting, Framing, Folding, Ckpt, Slot
  <2>5. Own(x)
    BY <1>1, <1>2, <2>3 DEF Own, HeaderOK, WriterOK, IgnoredOK, FoldingOK, Local, Fields, Fresh,
       BeforeHdr, Folding, Restarting, Slot, Hdr
  <2>6. Quiet(c, x)
    BY <1>1, <1>2, <2>1, <2>3, <2>4, <2>5 DEF Quiet, Local, Fields, Fresh, Restarting
  <2>7. \A l \in Lock : /\ HoldsExcl(x, l) <=> HoldsExcl(s[c], l)
                        /\ HoldsShared(x, l) <=> HoldsShared(s[c], l)
    BY <1>1, <1>2, <2>3 DEF HoldsExcl, HoldsShared, Local, Fields, Fresh, Restarting, Slot
  <2> HIDE DEF x
  <2> QED BY <1>1, <2>1, <2>6, <2>7, KeepsLocks, CalmKeeps
<1>4. CASE ~StillCurrent(c)
  <2>1. Retry(c) /\ UnlockShared(c, m)
    BY <1>4 DEF CheckMark
  <2>2. PICK x : /\ Quiet(c, x)
                 /\ \A l \in Lock : /\ HoldsExcl(x, l) <=> HoldsExcl(s[c], l)
                                    /\ ~HoldsShared(x, l)
    BY <1>1, <2>1, RetryQuiet
  <2>3. \A l \in Lock : ~(HoldsShared(s[c], l) /\ l # m)
    BY <1>1, <1>2 DEF HoldsShared
  <2>4. Set(c, x)
    BY <2>2 DEF Quiet
  <2> HIDE DEF m
  <2>5. LocksOK' /\ excl' \in [Lock -> Conn \cup {None}] /\ shrd' \in [Lock -> SUBSET Conn]
    BY <1>1, <1>2, <2>1, <2>2, <2>3, <2>4, GivesShare
  <2> QED BY <1>1, <2>2, <2>5, CalmKeeps
<1> QED BY <1>3, <1>4

\* The end of a read gives up its shared lock.
LEMMA EndReadKeeps ==
  ASSUME IInv, NEW c \in Conn, EndRead(c)
  PROVE  IInv'
<1> DEFINE x == Fresh(s[c].again)
           m == ReadLock(s[c].readLock)
<1>1. /\ s[c].pc = "reading" /\ Set(c, x) /\ UnlockShared(c, m)
      /\ UNCHANGED <<shm, file, disk, excl, closing>>
  BY DEF EndRead, files
<1>2. /\ Local(s[c]) /\ Own(s[c]) /\ closing = None /\ ~s[c].ckpt /\ shm.h0 # None
      /\ s[c].tx = 0 /\ s[c].readLock \in 0..NReader
  BY <1>1, AfterHdr DEF Local
<1>3. m \in Lock
  BY <1>2, LockSets
<1>4. Quiet(c, x)
  BY <1>1, <1>2, FreshOK DEF Quiet, Fresh, NoHdr, Restarting
<1>5. \A l \in Lock : /\ HoldsExcl(x, l) <=> HoldsExcl(s[c], l)
                      /\ HoldsShared(x, l) <=> HoldsShared(s[c], l) /\ l # m
  BY <1>1, <1>2, FreshOK DEF HoldsExcl, HoldsShared, Restarting
<1> HIDE DEF x, m
<1>6. LocksOK' /\ excl' \in [Lock -> Conn \cup {None}] /\ shrd' \in [Lock -> SUBSET Conn]
  BY <1>1, <1>3, <1>5, GivesShare
<1> QED BY <1>1, <1>4, <1>6, CalmKeeps

\* A read begins.
LEMMA BeginReadKeeps ==
  ASSUME IInv, NEW c \in Conn, BeginRead(c)
  PROVE  IInv'
  BY ReadHdrKeeps DEF BeginRead, files

\* A checkpoint begins, also that of the handle which closes the database.
LEMMA BeginCheckpointKeeps ==
  ASSUME IInv, NEW c \in Conn, BeginCheckpoint(c)
  PROVE  IInv'
  BY ReadHdrKeeps DEF BeginCheckpoint, files

-----------------------------------------------------------------------------
(* The writer.                                                             *)

\* There is one writer, and no recovery beside it.
LEMMA OneWriter ==
  ASSUME IInv, NEW c \in Conn, s[c].tx # 0
  PROVE  \A k \in Conn \ {c} : /\ s[k].tx = 0 /\ s[k].pc \notin {"hdrLocked", "recover"}
                               /\ s[k].pc \notin Restarting \cup {"writing"} \cup Framing
<1> SUFFICES ASSUME NEW k \in Conn \ {c}
             PROVE  /\ s[k].tx = 0 /\ s[k].pc \notin {"hdrLocked", "recover"}
                    /\ s[k].pc \notin Restarting \cup {"writing"} \cup Framing
  OBVIOUS
<1>1. excl[WriteLock] = c
  BY LocksNow, LockSets DEF HoldsExcl
<1>2. ~HoldsExcl(s[k], WriteLock)
  BY <1>1, LocksNow, LockSets
<1> QED BY <1>2 DEF HoldsExcl, IInv, Local

\* The salt of a new log is nobody's.
LEMMA FreshSaltsOK ==
  ASSUME NEW salt \in FreshSalts
  PROVE  /\ salt \in Nat /\ salt # 0 /\ salt # shm.h0.salt
         /\ \A k \in Conn : salt # s[k].hdr.salt
<1>1. salt \in Nat /\ salt # 0
  BY DEF FreshSalts, Salt
<1>2. salt # shm.h0.salt
  BY DEF FreshSalts
<1>3. \A k \in Conn : salt # s[k].hdr.salt
  BY DEF FreshSalts
<1> QED BY <1>1, <1>2, <1>3

\* A step of the writer that leaves h0 and nBackfill: its header stays, or is
\* that of a log which nobody else has seen.
LEMMA WriterKeeps ==
  ASSUME IInv, NEW c \in Conn, NEW x, Set(c, x), Local(x), Own(x)',
         s[c].tx # 0, x.tx # 0, s[c].pc # "restart1",
         shm'.h0 = shm.h0, shm'.backfill = shm.backfill, closing = None, UNCHANGED closing,
         \/ shm'.h1 = shm.h1 /\ s[c].pc \notin {"restart0", "publish"}
         \/ x.pc \in {"restart0", "publish"},
         x.pc = "restart0" /\ ~Overlap => \A k \in Conn : s[k].pc # "ckGo",
         \A k \in Conn \ {c} : x.hdr.salt = shm.h0.salt \/ s[k].hdr.salt # x.hdr.salt
  PROVE  /\ \A k \in Conn : Local(s'[k]) /\ Own(s[k])'
         /\ CopiesOK' /\ SaltsOK' /\ ClosingOK'
         /\ ~Overlap => NoMeeting' /\ BackfillWithinLog'
<1>1. s'[c] = x /\ \A k \in Conn \ {c} : s'[k] = s[k]
  BY OneMoves DEF IInv
<1>2. \A k \in Conn \ {c} : /\ s[k].tx = 0 /\ s[k].pc \notin {"hdrLocked", "recover"}
                            /\ s[k].pc \notin Restarting \cup {"writing"} \cup Framing
  BY OneWriter
<1>3. x.pc # "ckGo"
  BY DEF Local, Ckpt
<1>4. ASSUME NEW k \in Conn
      PROVE  Local(s'[k]) /\ Own(s[k])'
  <2>1. CASE k = c
    BY <1>1, <2>1 DEF Own, HeaderOK, WriterOK, IgnoredOK, FoldingOK
  <2>2. CASE k # c
    <3>1. Local(s[k]) /\ Own(s[k]) /\ s'[k] = s[k] /\ s[k].tx = 0
      BY <1>1, <1>2, <2>2 DEF IInv
    <3> QED BY <3>1 DEF Own, HeaderOK, WriterOK, IgnoredOK, FoldingOK
  <2> QED BY <2>1, <2>2
<1>5. CopiesOK'
  <2>1. CASE x.pc \in {"restart0", "publish"}
    BY <1>1, <2>1 DEF CopiesOK
  <2>2. CASE shm'.h1 = shm.h1 /\ s[c].pc \notin {"restart0", "publish"}
    BY <1>1, <2>2 DEF IInv, CopiesOK
  <2> QED BY <2>1, <2>2
<1>6. SaltsOK'
  BY <1>1, <1>2 DEF SaltsOK
<1>7. ClosingOK'
  BY DEF ClosingOK
<1>8. ASSUME ~Overlap PROVE NoMeeting' /\ BackfillWithinLog'
  BY <1>1, <1>2, <1>3, <1>8 DEF IInv, NoMeeting, BackfillWithinLog, Restarting
<1> QED BY <1>4, <1>5, <1>6, <1>7, <1>8

\* A write transaction begins with the last commit's header.
LEMMA BeginWriteKeeps ==
  ASSUME IInv, ntx \in Nat, NEW c \in Conn, BeginWrite(c)
  PROVE  IInv'
<1> DEFINE x == [s[c] EXCEPT !.tx = ntx + 1, !.pc = "writing"]
<1>1. /\ s[c].pc = "reading" /\ shm.h0 = s[c].hdr /\ LockExcl(c, {WriteLock}) /\ Set(c, x)
      /\ UNCHANGED <<shm, file, disk, shrd, closing>>
  BY DEF BeginWrite, files
<1>2. /\ Local(s[c]) /\ Own(s[c]) /\ closing = None /\ ~s[c].ckpt /\ shm.h0 # None
      /\ s[c].tx = 0 /\ ntx + 1 \in Nat /\ ntx + 1 # 0
  BY <1>1, AfterHdr DEF Local
<1>3. Local(x)
  BY <1>1, <1>2 DEF Local, Fields, Fresh, Places, BeforeHdr, Marking, Restarting,
     Framing, Folding, Ckpt
<1>4. Own(x)
  BY <1>1, <1>2 DEF Own, HeaderOK, WriterOK, IgnoredOK, FoldingOK, Local, Fields, Fresh,
     BeforeHdr, Folding, Restarting, Hdr
<1>5. Quiet(c, x)
  BY <1>1, <1>2, <1>3, <1>4 DEF Quiet, Local, Fields, Fresh, Restarting
<1>6. \A l \in Lock : /\ HoldsExcl(x, l) <=> HoldsExcl(s[c], l) \/ l \in {WriteLock}
                      /\ HoldsShared(x, l) <=> HoldsShared(s[c], l)
  BY <1>1, <1>2 DEF HoldsExcl, HoldsShared, Local, Fields, Fresh, Restarting
<1>7. {WriteLock} \in SUBSET Lock
  BY LockSets
<1> HIDE DEF x
<1>8. LocksOK' /\ excl' \in [Lock -> Conn \cup {None}] /\ shrd' \in [Lock -> SUBSET Conn]
  BY <1>1, <1>6, <1>7, TakesLocks
<1> QED BY <1>1, <1>5, <1>8, CalmKeeps

\* A writer that ignored the log and cannot restart it gives up ReadLock(0).
LEMMA GoOnKeeps ==
  ASSUME IInv, NEW c \in Conn, GoOn(c)
  PROVE  IInv'
<1>1. s[c].pc = "writing" /\ UNCHANGED <<shm, file, disk, excl, closing>>
  BY DEF GoOn, files
<1>2. /\ Local(s[c]) /\ Own(s[c]) /\ closing = None /\ ~s[c].ckpt /\ shm.h0 # None
      /\ s[c].tx # 0 /\ s[c].readLock \in 0..NReader
  BY <1>1, AfterHdr DEF Local
<1>3. PICK call \in Calls(c) :
        IF s[c].readLock = 0
        THEN /\ Set(c, [Called(c, call) EXCEPT !.readLock = -1, !.pc = "marks"])
             /\ UnlockShared(c, ReadLock(0))
        ELSE Set(c, [Called(c, call) EXCEPT !.pc = "header"]) /\ UNCHANGED shrd
  BY DEF GoOn
<1>4. call[2] \in BOOLEAN
  BY DEF Calls
<1>5. CASE s[c].readLock = 0
  <2> DEFINE x == [Called(c, call) EXCEPT !.readLock = -1, !.pc = "marks"]
  <2>1. Set(c, x) /\ UnlockShared(c, ReadLock(0))
    BY <1>3, <1>5
  <2>2. Local(x)
    BY <1>1, <1>2, <1>4, WalAssumption DEF Called, Local, Fields, Fresh, Places, BeforeHdr,
       Marking, Restarting, Framing, Folding, Ckpt
  <2>3. Own(x)
    BY <1>1, <1>2 DEF Called, Own, HeaderOK, WriterOK, IgnoredOK, FoldingOK, Local, Fields, Fresh,
       BeforeHdr, Folding, Restarting
  <2>4. Quiet(c, x)
    BY <1>1, <1>2, <2>1, <2>2, <2>3 DEF Called, Quiet, Local, Fields, Fresh, Restarting
  <2>5. \A l \in Lock : /\ HoldsExcl(x, l) <=> HoldsExcl(s[c], l)
                        /\ HoldsShared(x, l) <=> HoldsShared(s[c], l) /\ l # ReadLock(0)
    BY <1>1, <1>2, <1>5 DEF Called, HoldsExcl, HoldsShared, Local, Fields, Fresh, Restarting
  <2>6. ReadLock(0) \in Lock
    BY LockSets
  <2> HIDE DEF x
  <2>7. LocksOK' /\ excl' \in [Lock -> Conn \cup {None}] /\ shrd' \in [Lock -> SUBSET Conn]
    BY <1>1, <2>1, <2>5, <2>6, GivesShare
  <2> QED BY <1>1, <2>4, <2>7, CalmKeeps
<1>6. CASE s[c].readLock # 0
  <2> DEFINE x == [Called(c, call) EXCEPT !.pc = "header"]
  <2>1. Set(c, x) /\ UNCHANGED shrd
    BY <1>3, <1>6
  <2>2. Local(x)
    BY <1>1, <1>2, <1>4, <1>6 DEF Called, Local, Fields, Fresh, Places, BeforeHdr, Marking,
       Restarting, Framing, Folding, Ckpt
  <2>3. Own(x)
    BY <1>1, <1>2, <1>6 DEF Called, Own, HeaderOK, WriterOK, IgnoredOK, FoldingOK, Local, Fields,
       Fresh, BeforeHdr, Folding, Restarting
  <2>4. Quiet(c, x)
    BY <1>1, <1>2, <2>1, <2>2, <2>3 DEF Called, Quiet, Local, Fields, Fresh, Restarting
  <2>5. \A l \in Lock : /\ HoldsExcl(x, l) <=> HoldsExcl(s[c], l)
                        /\ HoldsShared(x, l) <=> HoldsShared(s[c], l)
    BY <1>1, <1>2 DEF Called, HoldsExcl, HoldsShared, Local, Fields, Fresh, Restarting
  <2> HIDE DEF x
  <2> QED BY <1>1, <2>1, <2>4, <2>5, KeepsLocks, CalmKeeps
<1> QED BY <1>5, <1>6

\* A writer restarts a log that is all in the database and that nobody reads.
LEMMA RestartLogKeeps ==
  ASSUME IInv, NEW c \in Conn, RestartLog(c)
  PROVE  IInv'
<1>1. /\ s[c].pc = "writing" /\ s[c].readLock = 0 /\ LockExcl(c, MarkLocks)
      /\ ~Overlap => \A k \in Conn : s[k].pc # "ckGo"
      /\ UNCHANGED <<file, disk, shrd, closing>>
  BY DEF RestartLog, files
<1>2. /\ Local(s[c]) /\ Own(s[c]) /\ closing = None /\ ~s[c].ckpt /\ shm.h0 # None
      /\ s[c].tx # 0
  BY <1>1, AfterHdr DEF Local
<1>3. PICK call \in Calls(c), salt \in FreshSalts :
        /\ Set(c, [Called(c, call) EXCEPT !.hdr = [mx |-> 0, salt |-> salt], !.again = TRUE,
                                          !.pc = "restart0"])
        /\ shm' = [shm EXCEPT !.h1 = [mx |-> 0, salt |-> salt]]
  BY DEF RestartLog
<1> DEFINE hdr == [mx |-> 0, salt |-> salt]
<1>4. /\ call[2] \in BOOLEAN /\ salt \in Nat /\ salt # 0 /\ salt # shm.h0.salt
      /\ \A k \in Conn : salt # s[k].hdr.salt
  BY FreshSaltsOK DEF Calls
<1>5. /\ DOMAIN shm' = DOMAIN shm /\ shm'.mark = shm.mark /\ shm'.h1 = hdr
      /\ shm'.h0 = shm.h0 /\ shm'.backfill = shm.backfill
  BY <1>3 DEF IInv, TypesOK, ZeroShm
<1>6. PICK x : x = [Called(c, call) EXCEPT !.hdr = hdr, !.again = TRUE, !.pc = "restart0"]
  OBVIOUS
<1>7. Local(x)
  BY <1>1, <1>2, <1>4, <1>6 DEF Called, Local, Fields, Fresh, Places, BeforeHdr, Marking, Restarting,
     Framing, Folding, Ckpt, Hdr
<1>8. /\ x.pc = "restart0" /\ x.hdr = hdr /\ x.tx = s[c].tx /\ x.readLock = 0
      /\ x.ckpt = s[c].ckpt
  BY <1>1, <1>2, <1>6 DEF Called, Local, Fields, Fresh
<1>9. shm.h0.mx = shm.backfill
  BY <1>1, <1>2 DEF Own, WriterOK, IgnoredOK, Restarting
<1>10. Own(x)'
  BY <1>2, <1>4, <1>5, <1>8, <1>9 DEF Own, HeaderOK, WriterOK, IgnoredOK, FoldingOK,
     Folding, Restarting
<1>11. /\ \A k \in Conn : Local(s'[k]) /\ Own(s[k])'
       /\ CopiesOK' /\ SaltsOK' /\ ClosingOK'
       /\ ~Overlap => NoMeeting' /\ BackfillWithinLog'
  <2>1. Set(c, x)
    BY <1>3, <1>6
  <2> QED BY <1>1, <1>2, <1>4, <1>5, <1>7, <1>8, <1>10, <2>1, WriterKeeps
<1>12. LocksOK' /\ excl' \in [Lock -> Conn \cup {None}] /\ shrd' \in [Lock -> SUBSET Conn]
  <2>1. \A l \in Lock : /\ HoldsExcl(x, l) <=> HoldsExcl(s[c], l) \/ l \in MarkLocks
                        /\ HoldsShared(x, l) <=> HoldsShared(s[c], l)
    BY <1>1, <1>2, <1>8 DEF HoldsExcl, HoldsShared, Restarting
  <2>2. Set(c, x) /\ MarkLocks \in SUBSET Lock
    BY <1>3, <1>6, LockSets
  <2> QED BY <1>1, <2>1, <2>2, TakesLocks
<1>13. TypesOK'
  <2>1. DOMAIN s' = Conn
    BY <1>3 DEF IInv, TypesOK, Set
  <2> QED BY <1>1, <1>5, <1>12, <2>1 DEF IInv, TypesOK, ZeroShm
<1> QED BY <1>11, <1>12, <1>13 DEF IInv

\* The new header becomes the last commit's: no checkpoint has the old one,
\* unless it has found nothing to fold.
LEMMA RestartHdrKeeps ==
  ASSUME IInv, NEW c \in Conn, RestartHdr(c)
  PROVE  IInv'
<1> DEFINE hdr == s[c].hdr
<1>1. /\ s[c].pc = "restart0" /\ shm' = [shm EXCEPT !.h0 = s[c].hdr] /\ Goto(c, "restart1")
      /\ UNCHANGED <<file, disk, excl, shrd, closing>>
  BY DEF RestartHdr, files
<1>2. /\ Local(s[c]) /\ Own(s[c]) /\ ~s[c].ckpt /\ s[c].tx # 0 /\ s[c].hdr \in Hdr
      /\ s[c].readLock = 0 /\ closing = None
  BY <1>1, WhoseClose DEF IInv, Local, Restarting, Ckpt, Folding, BeforeHdr
<1>3. /\ hdr # None /\ hdr.mx = 0 /\ shm.h1 = hdr /\ hdr.salt # shm.h0.salt
      /\ hdr.salt # 0 /\ shm.h0.mx = shm.backfill /\ shm.h0 # None
  BY <1>1, <1>2, WalAssumption DEF Own, WriterOK, HeaderOK, Local, Restarting, BeforeHdr, Hdr
<1>4. PICK x : x = [s[c] EXCEPT !.pc = "restart1"]
  OBVIOUS
<1>5. Set(c, x)
  BY <1>1, <1>4 DEF Goto
<1>6. s'[c] = x /\ DOMAIN s' = Conn /\ \A k \in Conn \ {c} : s'[k] = s[k]
  BY <1>5, OneMoves DEF IInv
<1>7. /\ Local(x) /\ x.pc = "restart1" /\ x.hdr = hdr /\ x.tx # 0 /\ x.readLock = 0
  BY <1>1, <1>2, <1>4 DEF Local, Fields, Fresh, Places, BeforeHdr, Marking, Restarting,
     Framing, Folding, Ckpt
<1>8. /\ DOMAIN shm' = DOMAIN shm /\ shm'.mark = shm.mark /\ shm'.h0 = hdr
      /\ shm'.h1 = hdr /\ shm'.backfill = shm.backfill
  BY <1>1, <1>3 DEF IInv, TypesOK, ZeroShm
<1>9. \A k \in Conn \ {c} :
        /\ Local(s[k]) /\ Own(s[k]) /\ s[k].tx = 0 /\ s[k].pc \notin {"hdrLocked", "recover"}
        /\ s[k].pc \notin Restarting \cup {"writing"} \cup Framing
        /\ s[k].hdr.salt # hdr.salt
  <2>1. \A k \in Conn \ {c} : s[k].hdr.salt # hdr.salt
    BY <1>2, <1>3 DEF IInv, SaltsOK
  <2> QED BY <1>2, <2>1, OneWriter DEF IInv
<1>10. ~Overlap => \A k \in Conn : s[k].pc \notin {"ckGo"} \cup Folding
  <2> SUFFICES ASSUME ~Overlap, NEW k \in Conn, s[k].pc \in Folding
               PROVE  FALSE
    BY <1>1 DEF IInv, NoMeeting
  <2>1. FoldingOK(s[k]) /\ Local(s[k])
    BY DEF IInv, Own
  <2> QED BY <1>3, <2>1 DEF FoldingOK, Local, Hdr, IInv, TypesOK
<1> HIDE DEF hdr
<1>11. \A k \in Conn : Local(s'[k]) /\ Own(s[k])'
  <2>1. Local(s'[c]) /\ Own(s[c])'
    BY <1>3, <1>6, <1>7, <1>8
       DEF Own, HeaderOK, WriterOK, IgnoredOK, FoldingOK, Folding, Restarting
  <2>2. ASSUME NEW k \in Conn \ {c} PROVE Local(s'[k]) /\ Own(s[k])'
    <3>1. s'[k] = s[k] /\ (~Overlap => s[k].pc \notin {"ckGo"} \cup Folding)
      BY <1>6, <1>10
    <3>2. s[k].pc # "recover" /\ s[k].tx = 0 /\ s[k].hdr.salt # hdr.salt /\ Local(s[k])
      BY <1>9
    <3> QED BY <1>3, <1>8, <3>1, <3>2 DEF Own, HeaderOK, WriterOK, IgnoredOK, FoldingOK
  <2> QED BY <2>1, <2>2
<1>12. CopiesOK' /\ SaltsOK' /\ ClosingOK'
  BY <1>1, <1>2, <1>6, <1>7, <1>8, <1>9 DEF CopiesOK, SaltsOK, ClosingOK
<1>13. NoMeeting' /\ BackfillWithinLog'
  <2>1. \A k \in Conn : s'[k].pc # "restart0"
    BY <1>6, <1>7, <1>9 DEF Restarting
  <2> QED BY <1>6, <1>7, <2>1 DEF NoMeeting, BackfillWithinLog
<1>14. LocksOK' /\ excl' \in [Lock -> Conn \cup {None}] /\ shrd' \in [Lock -> SUBSET Conn]
  <2>1. \A l \in Lock : /\ HoldsExcl(x, l) <=> HoldsExcl(s[c], l)
                        /\ HoldsShared(x, l) <=> HoldsShared(s[c], l)
    BY <1>1, <1>2, <1>4 DEF HoldsExcl, HoldsShared, Restarting, Local, Fields, Fresh
  <2> QED BY <1>1, <1>5, <2>1, KeepsLocks
<1>15. TypesOK'
  BY <1>1, <1>2, <1>6, <1>8, <1>14 DEF IInv, TypesOK, hdr
<1> QED BY <1>11, <1>12, <1>13, <1>14, <1>15 DEF IInv

\* nBackfill is 0 again; who has the last commit's header has that of an empty log.
LEMMA RestartMarksKeeps ==
  ASSUME IInv, NEW c \in Conn, RestartMarks(c)
  PROVE  IInv'
<1>1. /\ s[c].pc = "restart1" /\ shm' = Restarted
      /\ Set(c, [s[c] EXCEPT !.readLock = -1, !.pc = "marks"])
      /\ UnlockExcl(MarkLocks) /\ UnlockShared(c, ReadLock(0))
      /\ UNCHANGED <<file, disk, closing>>
  BY DEF RestartMarks, files
<1>2. /\ Local(s[c]) /\ Own(s[c]) /\ ~s[c].ckpt /\ s[c].tx # 0 /\ s[c].hdr \in Hdr
      /\ s[c].readLock = 0 /\ closing = None /\ s[c].hdr.mx = 0
  BY <1>1, WhoseClose DEF IInv, Local, Restarting, Ckpt, Folding, BeforeHdr
<1>3. /\ shm.h0 = s[c].hdr /\ shm.h0 # None /\ shm.h0.mx = 0
  BY <1>1, <1>2 DEF Own, WriterOK, HeaderOK, BeforeHdr
<1>4. PICK x : x = [s[c] EXCEPT !.readLock = -1, !.pc = "marks"]
  OBVIOUS
<1>5. Set(c, x)
  BY <1>1, <1>4
<1>6. s'[c] = x /\ DOMAIN s' = Conn /\ \A k \in Conn \ {c} : s'[k] = s[k]
  BY <1>5, OneMoves DEF IInv
<1>7. /\ Local(x) /\ x.pc = "marks" /\ x.hdr = s[c].hdr /\ x.tx = s[c].tx /\ x.readLock = -1
      /\ x.ckpt = s[c].ckpt
  BY <1>1, <1>2, <1>4, WalAssumption DEF Local, Fields, Fresh, Places, BeforeHdr, Marking,
     Restarting, Framing, Folding, Ckpt
<1>8. /\ DOMAIN shm' = DOMAIN shm /\ DOMAIN shm'.mark = Slot /\ shm'.h0 = shm.h0
      /\ shm'.h1 = shm.h1 /\ shm'.backfill = 0 /\ \A i \in Slot : shm'.mark[i] \in Nat
  BY <1>1, WalAssumption DEF IInv, TypesOK, ZeroShm, Restarted, RestartedMarks, Unused
<1>9. \A k \in Conn \ {c} :
        /\ Local(s[k]) /\ Own(s[k]) /\ s[k].tx = 0 /\ s[k].pc \notin {"hdrLocked", "recover"}
        /\ s[k].pc \notin Restarting \cup {"writing"} \cup Framing
  BY <1>2, OneWriter DEF IInv
<1>10. shm.h1 = shm.h0
  <2>1. \A k \in Conn : s[k].pc \notin {"restart0", "publish"}
    BY <1>1, <1>9 DEF Restarting, Framing
  <2> QED BY <1>3, <2>1 DEF IInv, CopiesOK
<1>11. \A k \in Conn : Local(s'[k]) /\ Own(s[k])'
  <2>1. Local(s'[c]) /\ Own(s[c])'
    BY <1>2, <1>3, <1>6, <1>7, <1>8
       DEF Own, HeaderOK, WriterOK, IgnoredOK, FoldingOK, Folding, Restarting
  <2>2. ASSUME NEW k \in Conn \ {c} PROVE Local(s'[k]) /\ Own(s[k])'
    <3>1. s'[k] = s[k] /\ Local(s[k]) /\ Own(s[k]) /\ s[k].tx = 0
      BY <1>6, <1>9
    <3>2. ~Overlap => FoldingOK(s[k]) /\ s[k].pc \notin Folding
      BY <1>3, <3>1 DEF IInv, TypesOK, Own, FoldingOK, Local, Hdr
    <3>3. IgnoredOK(s[k])'
      BY <1>3, <1>8, <3>1 DEF IgnoredOK
    <3> QED BY <1>8, <3>1, <3>2, <3>3 DEF Own, HeaderOK, WriterOK, FoldingOK
  <2> QED BY <2>1, <2>2
<1>12. CopiesOK' /\ SaltsOK' /\ ClosingOK'
  BY <1>1, <1>2, <1>3, <1>6, <1>7, <1>8, <1>9, <1>10 DEF CopiesOK, SaltsOK, ClosingOK
<1>13. NoMeeting' /\ BackfillWithinLog'
  <2>1. \A k \in Conn : s'[k].pc # "restart0"
    BY <1>6, <1>7, <1>9 DEF Restarting
  <2> QED BY <1>3, <1>8, <2>1 DEF NoMeeting, BackfillWithinLog
<1>14. LocksOK' /\ excl' \in [Lock -> Conn \cup {None}] /\ shrd' \in [Lock -> SUBSET Conn]
  <2>1. /\ excl' \in [Lock -> Conn \cup {None}] /\ shrd' \in [Lock -> SUBSET Conn]
        /\ \A l \in Lock : excl'[l] = IF l \in MarkLocks THEN None ELSE excl[l]
        /\ \A l \in Lock : shrd'[l] = IF l = ReadLock(0) THEN shrd[l] \ {c} ELSE shrd[l]
    BY <1>1, LocksNow DEF UnlockExcl, UnlockShared
  <2>2. \A l \in MarkLocks : l \in Lock /\ excl[l] = c
    BY <1>1, LocksNow, LockSets DEF HoldsExcl, Restarting
  <2>3. \A l \in Lock : /\ HoldsExcl(x, l) <=> HoldsExcl(s[c], l) /\ l \notin MarkLocks
                        /\ HoldsShared(x, l) <=> HoldsShared(s[c], l) /\ l # ReadLock(0)
    BY <1>1, <1>2, <1>7, LockSets DEF HoldsExcl, HoldsShared, Restarting
  <2> QED BY <1>5, <2>1, <2>2, <2>3, LocksNow, LocksFollow
<1>15. TypesOK'
  BY <1>1, <1>6, <1>8, <1>14 DEF IInv, TypesOK
<1> QED BY <1>11, <1>12, <1>13, <1>14, <1>15 DEF IInv

\* What holds of the writer while it writes frames.
LEMMA Frames ==
  ASSUME IInv, NEW c \in Conn, s[c].pc \in Framing
  PROVE  /\ Local(s[c]) /\ Own(s[c]) /\ closing = None /\ ~s[c].ckpt /\ shm.h0 # None
         /\ s[c].tx # 0 /\ s[c].readLock \in 1..NReader /\ s[c].hdr \in Hdr
         /\ s[c].hdr.mx \in Nat /\ s[c].cur \in Nat /\ s[c].pc \notin Restarting
  BY AfterHdr DEF Local, Framing, Restarting, Hdr

\* The header of an empty log has the salt of its restart or a new one.
LEMMA WriteLogHeaderKeeps ==
  ASSUME IInv, NEW c \in Conn, WriteLogHeader(c)
  PROVE  IInv'
<1>1. s[c].pc = "header" /\ UNCHANGED <<shm, disk, excl, shrd, closing>>
  BY DEF WriteLogHeader
<1>2. /\ Local(s[c]) /\ Own(s[c]) /\ closing = None /\ ~s[c].ckpt /\ shm.h0 # None
      /\ s[c].tx # 0 /\ s[c].readLock \in 1..NReader /\ s[c].hdr \in Hdr /\ s[c].hdr.mx \in Nat
  BY <1>1, Frames DEF Framing
<1>3. CASE s[c].hdr.mx # 0
  <2> DEFINE x == [s[c] EXCEPT !.cur = s[c].hdr.mx, !.pc = "put"]
  <2>1. Set(c, x) /\ UNCHANGED file
    BY <1>3 DEF WriteLogHeader
  <2>2. Local(x)
    BY <1>1, <1>2 DEF Local, Fields, Fresh, Places, BeforeHdr, Marking, Restarting,
       Framing, Folding, Ckpt
  <2>3. Own(x)
    BY <1>1, <1>2 DEF Own, HeaderOK, WriterOK, IgnoredOK, FoldingOK, Local, Fields, Fresh,
       BeforeHdr, Folding, Restarting
  <2>4. Quiet(c, x)
    BY <1>1, <1>2, <2>1, <2>2, <2>3 DEF Quiet, Local, Fields, Fresh, Restarting
  <2>5. \A l \in Lock : /\ HoldsExcl(x, l) <=> HoldsExcl(s[c], l)
                        /\ HoldsShared(x, l) <=> HoldsShared(s[c], l)
    BY <1>1, <1>2 DEF HoldsExcl, HoldsShared, Local, Fields, Fresh, Restarting
  <2> HIDE DEF x
  <2> QED BY <1>1, <2>1, <2>4, <2>5, KeepsLocks, CalmKeeps
<1>4. CASE s[c].hdr.mx = 0
  <2>1. PICK salt \in IF s[c].again THEN {s[c].hdr.salt} ELSE FreshSalts :
          /\ file' = [file EXCEPT !.salt = salt, !.again = s[c].again]
          /\ Set(c, [s[c] EXCEPT !.hdr = [mx |-> 0, salt |-> salt], !.cur = 0,
                                 !.pc = "syncHeader"])
    BY <1>4 DEF WriteLogHeader
  <2>2. /\ salt \in Nat
        /\ \/ salt = s[c].hdr.salt
           \/ salt # 0 /\ \A k \in Conn : salt # s[k].hdr.salt
    BY <1>2, <2>1, FreshSaltsOK DEF Hdr
  <2>3. PICK x : x = [s[c] EXCEPT !.hdr = [mx |-> 0, salt |-> salt], !.cur = 0,
                                  !.pc = "syncHeader"]
    OBVIOUS
  <2>4. /\ x.pc = "syncHeader" /\ x.hdr = [mx |-> 0, salt |-> salt] /\ x.tx = s[c].tx
        /\ x.readLock = s[c].readLock /\ x.ckpt = s[c].ckpt
    BY <2>3, <1>2 DEF Local, Fields, Fresh
  <2>5. Local(x)
    BY <1>1, <1>2, <2>2, <2>3 DEF Local, Fields, Fresh, Places, BeforeHdr, Marking, Restarting,
       Framing, Folding, Ckpt, Hdr
  <2>6. shm.h0.mx = 0 /\ (salt = shm.h0.salt \/ salt # 0)
    BY <1>1, <1>2, <1>4, <2>2 DEF Own, WriterOK, IInv, TypesOK, Hdr
  <2>7. Own(x)'
    BY <1>1, <1>2, <2>4, <2>6 DEF Own, HeaderOK, WriterOK, IgnoredOK, FoldingOK, Folding,
       Restarting
  <2>8. \A k \in Conn \ {c} : salt = shm.h0.salt \/ s[k].hdr.salt # salt
    BY <1>2, <2>2 DEF IInv, SaltsOK
  <2>9. /\ \A k \in Conn : Local(s'[k]) /\ Own(s[k])'
        /\ CopiesOK' /\ SaltsOK' /\ ClosingOK'
        /\ ~Overlap => NoMeeting' /\ BackfillWithinLog'
    <3>1. Set(c, x) /\ x.hdr.salt = salt /\ s[c].pc = "header" /\ UNCHANGED shm
      BY <1>1, <2>1, <2>3, <2>4
    <3> QED BY <1>1, <1>2, <2>4, <2>5, <2>7, <2>8, <3>1, WriterKeeps
  <2>10. LocksOK' /\ excl' \in [Lock -> Conn \cup {None}] /\ shrd' \in [Lock -> SUBSET Conn]
    <3>1. \A l \in Lock : /\ HoldsExcl(x, l) <=> HoldsExcl(s[c], l)
                          /\ HoldsShared(x, l) <=> HoldsShared(s[c], l)
      BY <1>1, <1>2, <2>4 DEF HoldsExcl, HoldsShared, Restarting
    <3>2. Set(c, x)
      BY <2>1, <2>3
    <3> QED BY <1>1, <3>1, <3>2, KeepsLocks
  <2>11. TypesOK'
    <3>1. DOMAIN s' = Conn
      BY <2>1 DEF IInv, TypesOK, Set
    <3> QED BY <1>1, <2>1, <2>2, <2>10, <3>1 DEF IInv, TypesOK
  <2> QED BY <2>9, <2>10, <2>11 DEF IInv
<1> QED BY <1>3, <1>4

\* The sync of the log's header changes only what is on the disk.
LEMMA SyncLogHeaderKeeps ==
  ASSUME IInv, NEW c \in Conn, SyncLogHeader(c)
  PROVE  IInv'
<1> DEFINE x == [s[c] EXCEPT !.pc = "put"]
<1>1. /\ s[c].pc = "syncHeader" /\ Set(c, x) /\ disk' = [file EXCEPT !.db = disk.db]
      /\ UNCHANGED <<shm, file, excl, shrd, closing>>
  BY DEF SyncLogHeader, SyncLog, Goto
<1>2. /\ Local(s[c]) /\ Own(s[c]) /\ closing = None /\ ~s[c].ckpt /\ shm.h0 # None
      /\ s[c].tx # 0 /\ s[c].readLock \in 1..NReader
  BY <1>1, Frames DEF Framing
<1>3. Local(x)
  BY <1>1, <1>2 DEF Local, Fields, Fresh, Places, BeforeHdr, Marking, Restarting,
     Framing, Folding, Ckpt
<1>4. Own(x)
  BY <1>1, <1>2 DEF Own, HeaderOK, WriterOK, IgnoredOK, FoldingOK, Local, Fields, Fresh,
     BeforeHdr, Folding, Restarting
<1>5. Quiet(c, x)
  BY <1>1, <1>2, <1>3, <1>4 DEF Quiet, Local, Fields, Fresh, Restarting
<1>6. \A l \in Lock : /\ HoldsExcl(x, l) <=> HoldsExcl(s[c], l)
                      /\ HoldsShared(x, l) <=> HoldsShared(s[c], l)
  BY <1>1, <1>2 DEF HoldsExcl, HoldsShared, Local, Fields, Fresh, Restarting
<1>7. /\ DOMAIN shm' = DOMAIN shm /\ DOMAIN shm'.mark = Slot
      /\ \A i \in Slot : shm'.mark[i] \in Nat
      /\ \A fl \in {file', disk'} : "salt" \in DOMAIN fl /\ fl.salt \in Nat
  BY <1>1 DEF IInv, TypesOK
<1> HIDE DEF x
<1>8. LocksOK' /\ excl' \in [Lock -> Conn \cup {None}] /\ shrd' \in [Lock -> SUBSET Conn]
  BY <1>1, <1>6, KeepsLocks
<1> QED BY <1>5, <1>7, <1>8, StillKeeps

\* The last page of a commit is a new frame.
LEMMA PutFrameKeeps ==
  ASSUME IInv, NEW c \in Conn, PutFrame(c)
  PROVE  IInv'
<1>1. s[c].pc = "put" /\ UNCHANGED <<shm, disk, excl, shrd, closing>>
  BY DEF PutFrame
<1>2. /\ Local(s[c]) /\ Own(s[c]) /\ closing = None /\ ~s[c].ckpt /\ shm.h0 # None
      /\ s[c].tx # 0 /\ s[c].readLock \in 1..NReader /\ s[c].hdr.mx \in Nat /\ s[c].cur \in Nat
      /\ s[c].cur >= s[c].hdr.mx
  BY <1>1, Frames DEF Framing, Local
<1>3. PICK p, reck, cur, place :
        /\ Set(c, [s[c] EXCEPT !.todo = @ \ {p}, !.reck = reck, !.cur = cur, !.pc = place])
        /\ cur = s[c].cur \/ cur = s[c].cur + 1
        /\ place \in {"put", "recheck", "append"}
        /\ place = "recheck" => s[c].commit
        /\ place # "put" /\ s[c].commit => cur = s[c].cur + 1
  <2> DEFINE p == Min(s[c].todo)
             over == /\ s[c].first # 0 /\ (s[c].todo # {p} \/ ~s[c].commit)
                     /\ FindFrame(c, p) >= s[c].first
             f == IF over THEN FindFrame(c, p) ELSE s[c].cur + 1
             plain == s[c].reck = 0
             reck == IF over /\ (plain \/ f < s[c].reck) THEN f ELSE s[c].reck
             cur == IF over THEN s[c].cur ELSE f
             place == IF s[c].todo # {p} THEN "put"
                      ELSE IF s[c].commit /\ reck # 0 THEN "recheck" ELSE "append"
  <2>1. Set(c, [s[c] EXCEPT !.todo = @ \ {p}, !.reck = reck, !.cur = cur, !.pc = place])
    <3>1. "cur" \in DOMAIN s[c]
      BY <1>2 DEF Local, Fields, Fresh
    <3> QED BY <3>1 DEF PutFrame
  <2>2. /\ cur = s[c].cur \/ cur = s[c].cur + 1
        /\ place \in {"put", "recheck", "append"}
        /\ place = "recheck" => s[c].commit
        /\ place # "put" /\ s[c].commit => cur = s[c].cur + 1
    <3> HIDE DEF reck, p
    <3> QED OBVIOUS
  <2> HIDE DEF p, reck, cur, place
  <2> QED BY <2>1, <2>2
<1>4. PICK x : x = [s[c] EXCEPT !.todo = @ \ {p}, !.reck = reck, !.cur = cur, !.pc = place]
  OBVIOUS
<1>5. Set(c, x)
  BY <1>3, <1>4
<1>6. Local(x)
  BY <1>1, <1>2, <1>3, <1>4 DEF Local, Fields, Fresh, Places, BeforeHdr, Marking, Restarting,
     Framing, Folding, Ckpt
<1>7. Own(x)
  BY <1>1, <1>2, <1>3, <1>4 DEF Own, HeaderOK, WriterOK, IgnoredOK, FoldingOK, Local, Fields,
     Fresh, BeforeHdr, Folding, Restarting
<1>8. Quiet(c, x)
  BY <1>1, <1>2, <1>3, <1>4, <1>5, <1>6, <1>7 DEF Quiet, Local, Fields, Fresh, Restarting
<1>9. \A l \in Lock : /\ HoldsExcl(x, l) <=> HoldsExcl(s[c], l)
                      /\ HoldsShared(x, l) <=> HoldsShared(s[c], l)
  BY <1>1, <1>2, <1>3, <1>4 DEF HoldsExcl, HoldsShared, Local, Fields, Fresh, Restarting
<1>10. DOMAIN file' = DOMAIN file /\ file'.salt = file.salt
  <2>1. \E f, val, new : file' = [file EXCEPT !.frame[f].val = val]
                         \/ file' = [file EXCEPT !.frame[f] = new]
    BY DEF PutFrame
  <2> QED BY <2>1 DEF IInv, TypesOK
<1>11. /\ DOMAIN shm' = DOMAIN shm /\ DOMAIN shm'.mark = Slot
       /\ \A i \in Slot : shm'.mark[i] \in Nat
       /\ \A fl \in {file', disk'} : "salt" \in DOMAIN fl /\ fl.salt \in Nat
  BY <1>1, <1>10 DEF IInv, TypesOK
<1>12. LocksOK' /\ excl' \in [Lock -> Conn \cup {None}] /\ shrd' \in [Lock -> SUBSET Conn]
  BY <1>1, <1>5, <1>9, KeepsLocks
<1> QED BY <1>8, <1>11, <1>12, StillKeeps

\* Rewriting a checksum changes only the file's frames.
LEMMA RewriteChecksumKeeps ==
  ASSUME IInv, NEW c \in Conn, RewriteChecksum(c)
  PROVE  IInv'
<1>1. s[c].pc = "recheck" /\ UNCHANGED <<shm, disk, excl, shrd, closing>>
  BY DEF RewriteChecksum
<1>2. /\ Local(s[c]) /\ Own(s[c]) /\ closing = None /\ ~s[c].ckpt /\ shm.h0 # None
      /\ s[c].tx # 0 /\ s[c].readLock \in 1..NReader /\ s[c].hdr.mx \in Nat /\ s[c].cur \in Nat
  BY <1>1, Frames DEF Framing
<1>3. PICK reck, place :
        /\ Set(c, [s[c] EXCEPT !.reck = reck, !.pc = place]) /\ place \in {"recheck", "append"}
  <2>1. "pc" \in DOMAIN s[c] /\ "reck" \in DOMAIN s[c]
    BY <1>2 DEF Local, Fields, Fresh
  <2>2. CASE s[c].reck = s[c].cur
    BY <2>2 DEF RewriteChecksum
  <2>3. CASE s[c].reck # s[c].cur
    <3>1. Set(c, [s[c] EXCEPT !.reck = s[c].reck + 1])
      BY <2>3 DEF RewriteChecksum
    <3>2. [s[c] EXCEPT !.reck = s[c].reck + 1]
             = [s[c] EXCEPT !.reck = s[c].reck + 1, !.pc = "recheck"]
      BY <1>1, <2>1
    <3> QED BY <3>1, <3>2
  <2> QED BY <2>2, <2>3
<1>4. PICK x : x = [s[c] EXCEPT !.reck = reck, !.pc = place]
  OBVIOUS
<1>5. Set(c, x)
  BY <1>3, <1>4
<1>6. Local(x)
  BY <1>1, <1>2, <1>3, <1>4 DEF Local, Fields, Fresh, Places, BeforeHdr, Marking, Restarting,
     Framing, Folding, Ckpt
<1>7. Own(x)
  BY <1>1, <1>2, <1>3, <1>4 DEF Own, HeaderOK, WriterOK, IgnoredOK, FoldingOK, Local, Fields,
     Fresh, BeforeHdr, Folding, Restarting
<1>8. Quiet(c, x)
  BY <1>1, <1>2, <1>3, <1>4, <1>5, <1>6, <1>7 DEF Quiet, Local, Fields, Fresh, Restarting
<1>9. \A l \in Lock : /\ HoldsExcl(x, l) <=> HoldsExcl(s[c], l)
                      /\ HoldsShared(x, l) <=> HoldsShared(s[c], l)
  BY <1>1, <1>2, <1>3, <1>4 DEF HoldsExcl, HoldsShared, Local, Fields, Fresh, Restarting
<1>10. DOMAIN file' = DOMAIN file /\ file'.salt = file.salt
  BY DEF IInv, TypesOK, RewriteChecksum
<1>11. /\ DOMAIN shm' = DOMAIN shm /\ DOMAIN shm'.mark = Slot
       /\ \A i \in Slot : shm'.mark[i] \in Nat
       /\ \A fl \in {file', disk'} : "salt" \in DOMAIN fl /\ fl.salt \in Nat
  BY <1>1, <1>10 DEF IInv, TypesOK
<1>12. LocksOK' /\ excl' \in [Lock -> Conn \cup {None}] /\ shrd' \in [Lock -> SUBSET Conn]
  BY <1>1, <1>5, <1>9, KeepsLocks
<1> QED BY <1>8, <1>11, <1>12, StillKeeps

\* Of the header copies, a commit writes h1, ahead of the last commit; a spill
\* writes none.
LEMMA AppendIndexKeeps ==
  ASSUME IInv, NEW c \in Conn, AppendIndex(c)
  PROVE  IInv'
<1>1. s[c].pc = "append" /\ UNCHANGED <<file, disk, excl, shrd, closing>>
  BY DEF AppendIndex, files
<1>2. /\ Local(s[c]) /\ Own(s[c]) /\ closing = None /\ ~s[c].ckpt /\ shm.h0 # None
      /\ s[c].tx # 0 /\ s[c].readLock \in 1..NReader /\ s[c].hdr \in Hdr /\ s[c].hdr.mx \in Nat
      /\ s[c].cur \in Nat /\ s[c].commit \in BOOLEAN /\ s[c].cur >= s[c].hdr.mx
      /\ s[c].commit => s[c].cur > s[c].hdr.mx
  BY <1>1, Frames DEF Framing, Local
<1> DEFINE place == IF s[c].commit THEN "publish" ELSE "writing"
<1>3. PICK hdr : hdr = [s[c].hdr EXCEPT !.mx = s[c].cur]
  OBVIOUS
<1>4. hdr \in Hdr /\ hdr.mx = s[c].cur /\ hdr.salt = s[c].hdr.salt
  BY <1>2, <1>3 DEF Hdr
<1>5. PICK index :
        /\ shm' = [shm EXCEPT !.index = index, !.h1 = IF s[c].commit THEN hdr ELSE @]
        /\ Set(c, [s[c] EXCEPT !.hdr = hdr, !.cur = 0, !.pc = place])
  BY <1>3 DEF AppendIndex
<1>6. PICK x : x = [s[c] EXCEPT !.hdr = hdr, !.cur = 0, !.pc = place]
  OBVIOUS
<1>7. Set(c, x)
  BY <1>5, <1>6
<1>8. /\ x.pc = place /\ x.hdr = hdr /\ x.tx = s[c].tx /\ x.readLock = s[c].readLock
      /\ x.ckpt = s[c].ckpt
  BY <1>2, <1>6 DEF Local, Fields, Fresh
<1>9. Local(x)
  BY <1>1, <1>2, <1>4, <1>6 DEF Local, Fields, Fresh, Places, BeforeHdr, Marking, Restarting,
     Framing, Folding, Ckpt
<1>10. /\ DOMAIN shm' = DOMAIN shm /\ shm'.mark = shm.mark /\ shm'.h0 = shm.h0
       /\ shm'.h1 = (IF s[c].commit THEN hdr ELSE shm.h1) /\ shm'.backfill = shm.backfill
  BY <1>5 DEF IInv, TypesOK, ZeroShm
<1>11. hdr.mx >= shm.h0.mx /\ (s[c].commit => hdr.mx > shm.h0.mx)
       /\ (hdr.salt = shm.h0.salt \/ hdr.salt # 0)
  BY <1>1, <1>2, <1>4 DEF Own, WriterOK, IInv, TypesOK, Hdr
<1>12. Own(x)'
  BY <1>2, <1>8, <1>10, <1>11
     DEF Own, HeaderOK, WriterOK, IgnoredOK, FoldingOK, Folding, Restarting
<1>13. \A k \in Conn \ {c} : hdr.salt = shm.h0.salt \/ s[k].hdr.salt # hdr.salt
  BY <1>2, <1>4 DEF IInv, SaltsOK
<1>14. /\ \A k \in Conn : Local(s'[k]) /\ Own(s[k])'
       /\ CopiesOK' /\ SaltsOK' /\ ClosingOK'
       /\ ~Overlap => NoMeeting' /\ BackfillWithinLog'
  <2>1. x.pc = "publish" \/ (x.pc = "writing" /\ shm'.h1 = shm.h1)
    BY <1>8, <1>10
  <2> QED BY <1>1, <1>2, <1>7, <1>8, <1>9, <1>10, <1>12, <1>13, <2>1, WriterKeeps
<1>15. LocksOK' /\ excl' \in [Lock -> Conn \cup {None}] /\ shrd' \in [Lock -> SUBSET Conn]
  <2>1. \A l \in Lock : /\ HoldsExcl(x, l) <=> HoldsExcl(s[c], l)
                        /\ HoldsShared(x, l) <=> HoldsShared(s[c], l)
    BY <1>1, <1>2, <1>8 DEF HoldsExcl, HoldsShared, Restarting
  <2> QED BY <1>1, <1>7, <2>1, KeepsLocks
<1>16. TypesOK'
  <2>1. DOMAIN s' = Conn
    BY <1>7, OneMoves DEF IInv
  <2> QED BY <1>1, <1>10, <1>15, <2>1 DEF IInv, TypesOK
<1> QED BY <1>14, <1>15, <1>16 DEF IInv

\* The last commit moves forward in its log: copies of its header that others
\* have are now old.
LEMMA CommitKeeps ==
  ASSUME IInv, NEW c \in Conn, Commit(c)
  PROVE  IInv'
<1> DEFINE hdr == s[c].hdr
<1>1. /\ s[c].pc = "publish" /\ shm' = [shm EXCEPT !.h0 = hdr] /\ UnlockExcl({WriteLock})
      /\ UNCHANGED <<file, disk, shrd, closing>>
  BY DEF Commit
<1>2. /\ Local(s[c]) /\ Own(s[c]) /\ closing = None /\ ~s[c].ckpt /\ shm.h0 # None
      /\ s[c].tx # 0 /\ s[c].readLock \in 1..NReader /\ hdr \in Hdr /\ hdr.mx \in Nat
  BY <1>1, Frames DEF Framing
<1>3. /\ hdr # None /\ shm.h1 = hdr /\ hdr.mx > shm.h0.mx /\ shm.h0.mx \in Nat
      /\ shm.backfill \in Nat
  BY <1>1, <1>2, WalAssumption DEF Own, WriterOK, Hdr, IInv, TypesOK
<1>4. PICK x : x = Ended(c, hdr)
  OBVIOUS
<1>5. Set(c, x)
  BY <1>4 DEF Commit
<1>6. s'[c] = x /\ DOMAIN s' = Conn /\ \A k \in Conn \ {c} : s'[k] = s[k]
  BY <1>5, OneMoves DEF IInv
<1>7. /\ x.pc = "reading" /\ x.hdr = hdr /\ x.tx = 0 /\ x.readLock = s[c].readLock
      /\ x.ckpt = s[c].ckpt
  BY <1>2, <1>4 DEF Ended, Local, Fields, Fresh
<1>8. Local(x)
  BY <1>1, <1>2, <1>4 DEF Ended, Local, Fields, Fresh, Places, BeforeHdr, Marking, Restarting,
     Framing, Folding, Ckpt
<1>9. /\ DOMAIN shm' = DOMAIN shm /\ shm'.mark = shm.mark /\ shm'.h0 = hdr
      /\ shm'.h1 = hdr /\ shm'.backfill = shm.backfill
  BY <1>1, <1>3 DEF IInv, TypesOK, ZeroShm
<1>10. \A k \in Conn \ {c} :
        /\ Local(s[k]) /\ Own(s[k]) /\ s[k].tx = 0 /\ s[k].pc \notin {"hdrLocked", "recover"}
        /\ s[k].pc \notin Restarting \cup {"writing"} \cup Framing
        /\ s[k].hdr.salt = hdr.salt => s[k].hdr.mx <= shm.h0.mx
  <2> SUFFICES ASSUME NEW k \in Conn \ {c}, s[k].tx = 0, s[k].hdr.salt = hdr.salt
               PROVE  s[k].hdr.mx <= shm.h0.mx
    BY <1>2, OneWriter DEF IInv
  <2>1. s[k].hdr.salt = shm.h0.salt
    BY <1>2 DEF IInv, SaltsOK
  <2> QED BY <1>2, <2>1 DEF IInv, Own, HeaderOK
<1> HIDE DEF hdr
<1>11. \A k \in Conn : Local(s'[k]) /\ Own(s[k])'
  <2>1. Local(s'[c]) /\ Own(s[c])'
    BY <1>2, <1>3, <1>6, <1>7, <1>8, <1>9
       DEF Own, HeaderOK, WriterOK, IgnoredOK, FoldingOK, Folding, Restarting
  <2>2. ASSUME NEW k \in Conn \ {c} PROVE Local(s'[k]) /\ Own(s[k])'
    <3>1. /\ s'[k] = s[k] /\ Local(s[k]) /\ Own(s[k]) /\ s[k].tx = 0 /\ s[k].pc # "recover"
          /\ s[k].hdr.salt = hdr.salt => s[k].hdr.mx <= shm.h0.mx
          /\ s[k].hdr.mx \in Nat
      BY <1>6, <1>10 DEF Local, Hdr
    <3>2. HeaderOK(s[k])' /\ WriterOK(s[k])'
      BY <1>2, <1>3, <1>9, <3>1 DEF Own, HeaderOK, WriterOK
    <3>3. IgnoredOK(s[k])'
      BY <1>3, <1>9, <3>1 DEF IgnoredOK
    <3>4. ~Overlap => FoldingOK(s[k])'
      BY <1>2, <1>3, <1>9, <3>1 DEF Own, FoldingOK
    <3> QED BY <3>1, <3>2, <3>3, <3>4 DEF Own
  <2> QED BY <2>1, <2>2
<1>12. CopiesOK' /\ SaltsOK' /\ ClosingOK'
  BY <1>1, <1>2, <1>6, <1>7, <1>9, <1>10 DEF CopiesOK, SaltsOK, ClosingOK
<1>13. NoMeeting' /\ (~Overlap => BackfillWithinLog')
  <2>1. \A k \in Conn : s[k].pc # "restart1" /\ s'[k].pc # "restart0"
    BY <1>1, <1>6, <1>7, <1>10 DEF Restarting
  <2>2. ~Overlap => shm.backfill <= shm.h0.mx
    BY <1>2, <2>1 DEF IInv, BackfillWithinLog
  <2> QED BY <1>2, <1>3, <1>9, <2>1, <2>2 DEF NoMeeting, BackfillWithinLog
<1>14. LocksOK' /\ excl' \in [Lock -> Conn \cup {None}] /\ shrd' \in [Lock -> SUBSET Conn]
  <2>1. \A l \in Lock : /\ HoldsExcl(x, l) <=> HoldsExcl(s[c], l) /\ l \notin {WriteLock}
                        /\ HoldsShared(x, l) <=> HoldsShared(s[c], l)
    BY <1>1, <1>2, <1>7, LockSets DEF HoldsExcl, HoldsShared, Restarting
  <2>2. {WriteLock} \in SUBSET Lock /\ excl[WriteLock] = c
    BY <1>2, LockSets, LocksNow DEF HoldsExcl
  <2> QED BY <1>1, <1>5, <2>1, <2>2, GivesLocks
<1>15. TypesOK'
  BY <1>1, <1>2, <1>6, <1>9, <1>14 DEF IInv, TypesOK
<1> QED BY <1>11, <1>12, <1>13, <1>14, <1>15 DEF IInv

\* A rollback has the last commit's header again.
LEMMA RollbackKeeps ==
  ASSUME IInv, NEW c \in Conn, Rollback(c)
  PROVE  IInv'
<1>1. /\ s[c].pc = "writing" /\ Set(c, Ended(c, shm.h0)) /\ UnlockExcl({WriteLock})
      /\ UNCHANGED <<file, disk, shrd, closing>>
  BY DEF Rollback, files
<1>2. /\ Local(s[c]) /\ Own(s[c]) /\ closing = None /\ ~s[c].ckpt /\ shm.h0 # None
      /\ s[c].tx # 0 /\ shm.h0 \in Hdr /\ s[c].readLock \in 0..NReader
  BY <1>1, AfterHdr DEF Local, IInv, TypesOK
<1>3. PICK index : shm' = [shm EXCEPT !.index = index]
  BY DEF Rollback
<1>4. /\ DOMAIN shm' = DOMAIN shm /\ shm'.h0 = shm.h0 /\ shm'.h1 = shm.h1
      /\ shm'.backfill = shm.backfill /\ shm'.mark = shm.mark
  BY <1>3 DEF IInv, TypesOK, ZeroShm
<1>5. PICK x : x = Ended(c, shm.h0)
  OBVIOUS
<1>6. Set(c, x)
  BY <1>1, <1>5
<1>7. /\ x.pc = "reading" /\ x.hdr = shm.h0 /\ x.tx = 0 /\ x.readLock = s[c].readLock
      /\ x.ckpt = s[c].ckpt
  BY <1>2, <1>5 DEF Ended, Local, Fields, Fresh
<1>8. Local(x)
  BY <1>1, <1>2, <1>5 DEF Ended, Local, Fields, Fresh, Places, BeforeHdr, Marking, Restarting,
     Framing, Folding, Ckpt
<1>9. Own(x)
  BY <1>1, <1>2, <1>7 DEF Own, HeaderOK, WriterOK, IgnoredOK, FoldingOK, Folding, Restarting, Hdr
<1>10. Quiet(c, x)
  BY <1>1, <1>2, <1>4, <1>6, <1>7, <1>8, <1>9 DEF Quiet, Restarting
<1>11. LocksOK' /\ excl' \in [Lock -> Conn \cup {None}] /\ shrd' \in [Lock -> SUBSET Conn]
  <2>1. \A l \in Lock : /\ HoldsExcl(x, l) <=> HoldsExcl(s[c], l) /\ l \notin {WriteLock}
                        /\ HoldsShared(x, l) <=> HoldsShared(s[c], l)
    BY <1>1, <1>2, <1>7, LockSets DEF HoldsExcl, HoldsShared, Restarting
  <2>2. {WriteLock} \in SUBSET Lock /\ excl[WriteLock] = c
    BY <1>2, LockSets, LocksNow DEF HoldsExcl
  <2> QED BY <1>1, <1>6, <2>1, <2>2, GivesLocks
<1>12. /\ DOMAIN shm'.mark = Slot /\ \A i \in Slot : shm'.mark[i] \in Nat
       /\ \A fl \in {file', disk'} : "salt" \in DOMAIN fl /\ fl.salt \in Nat
  BY <1>1, <1>4 DEF IInv, TypesOK
<1> QED BY <1>4, <1>10, <1>11, <1>12, StillKeeps

-----------------------------------------------------------------------------
(* The checkpointer.                                                       *)

\* A checkpoint at work: the only one, and not a reader.
LEMMA InCkpt ==
  ASSUME IInv, NEW c \in Conn, s[c].pc \in Ckpt
  PROVE  /\ Local(s[c]) /\ Own(s[c]) /\ s[c].ckpt /\ shm.h0 # None
         /\ s[c].tx = 0 /\ s[c].readLock = -1 /\ s[c].hdr \in Hdr /\ s[c].hdr.mx \in Nat
         /\ s[c].safe \in Nat /\ s[c].pc \notin BeforeHdr \cup Restarting
         /\ closing # None => closing = c
         /\ \A k \in Conn \ {c} : ~s[k].ckpt /\ s[k].pc \notin Ckpt
<1>1. /\ Local(s[c]) /\ Own(s[c]) /\ s[c].ckpt /\ s[c].pc \notin BeforeHdr \cup Restarting
  BY DEF IInv, Local, Ckpt, Folding, BeforeHdr, Restarting
<1>2. /\ shm.h0 # None /\ s[c].tx = 0 /\ s[c].readLock = -1
  BY <1>1 DEF Own, HeaderOK, Local, Ckpt, Folding, Restarting, Framing
<1>3. closing # None => closing = c
  BY <1>1, WhoseClose DEF BeforeHdr
<1>4. excl[CkptLock] = c
  BY <1>1, LocksNow, LockSets DEF HoldsExcl
<1>5. ASSUME NEW k \in Conn \ {c} PROVE ~s[k].ckpt /\ s[k].pc \notin Ckpt
  <2>1. ~HoldsExcl(s[k], CkptLock) /\ Local(s[k])
    BY <1>4, LocksNow, LockSets DEF IInv
  <2> QED BY <2>1 DEF HoldsExcl, Local
<1> QED BY <1>1, <1>2, <1>3, <1>5 DEF Local, Hdr

\* The variables that a checkpoint ends with, and its locks.
LEMMA CkptEnds ==
  ASSUME IInv, NEW c \in Conn, s[c].pc \in {"ckGo", "ckMark", "ckCopy"},
         NEW ls, ls = IF s[c].pc = "ckCopy" THEN {ReadLock(0)} ELSE {},
         CkptOver(c, ls), UNCHANGED shrd
  PROVE  \E x : /\ Set(c, x) /\ Local(x) /\ Own(x)
                /\ x.pc \in {"idle", "ckEnd"} /\ x.hdr = NoHdr /\ x.tx = 0 /\ x.readLock = -1
                /\ LocksOK'
                /\ excl' \in [Lock -> Conn \cup {None}] /\ shrd' \in [Lock -> SUBSET Conn]
<1>1. /\ Local(s[c]) /\ s[c].ckpt /\ shm.h0 # None /\ s[c].tx = 0 /\ s[c].readLock = -1
      /\ s[c].pc \notin Restarting
  BY InCkpt DEF Ckpt, Folding
<1>2. ls \in SUBSET Lock /\ \A l \in ls : excl[l] \in {c, None}
  <2>1. ReadLock(0) \in Lock /\ (s[c].pc = "ckCopy" => excl[ReadLock(0)] = c)
    BY LocksNow, LockSets DEF HoldsExcl
  <2> QED BY <2>1
<1>3. CASE closing = c
  <2>1. PICK x : x = [Fresh(s[c].again) EXCEPT !.ckpt = TRUE, !.pc = "ckEnd"]
    OBVIOUS
  <2>2. Set(c, x) /\ UnlockExcl(ls)
    BY <1>3, <2>1 DEF CkptOver
  <2>3. /\ DOMAIN x = Fields /\ x.pc = "ckEnd" /\ x.hdr = NoHdr /\ x.tx = 0 /\ x.readLock = -1
        /\ x.ckpt = TRUE
    BY <2>1 DEF Fields, Fresh
  <2>4. Local(x)
    BY <2>1, FreshOK DEF Local, Fields, Fresh, Places, BeforeHdr, Marking, Restarting,
       Framing, Folding, Ckpt
  <2>5. Own(x)
    BY <1>1, <2>3 DEF Own, HeaderOK, WriterOK, IgnoredOK, FoldingOK, Folding, NoHdr, IInv, TypesOK,
       Hdr
  <2>6. \A l \in Lock : /\ HoldsExcl(x, l) <=> HoldsExcl(s[c], l) /\ l \notin ls
                        /\ HoldsShared(x, l) <=> HoldsShared(s[c], l)
    BY <1>1, <2>3, LockSets DEF HoldsExcl, HoldsShared, Restarting
  <2>7. LocksOK' /\ excl' \in [Lock -> Conn \cup {None}] /\ shrd' \in [Lock -> SUBSET Conn]
    BY <1>2, <2>2, <2>6, GivesLocks
  <2> QED BY <2>2, <2>3, <2>4, <2>5, <2>7
<1>4. CASE closing # c
  <2>1. PICK x : x = Fresh(s[c].again)
    OBVIOUS
  <2>2. Set(c, x) /\ UnlockExcl(ls \cup {CkptLock})
    BY <1>4, <2>1 DEF CkptOver
  <2>3. x.pc = "idle" /\ x.hdr = NoHdr /\ x.tx = 0 /\ x.readLock = -1
    BY <2>1 DEF Fresh
  <2>4. Local(x) /\ Own(x) /\ \A l \in Lock : ~HoldsExcl(x, l) /\ ~HoldsShared(x, l)
    BY <2>1, FreshOK
  <2>5. \A l \in Lock :
          /\ HoldsExcl(x, l) <=> HoldsExcl(s[c], l) /\ l \notin ls \cup {CkptLock}
          /\ HoldsShared(x, l) <=> HoldsShared(s[c], l)
    BY <1>1, <2>4, LockSets DEF HoldsExcl, HoldsShared, Restarting
  <2>6. ls \cup {CkptLock} \in SUBSET Lock /\ \A l \in ls \cup {CkptLock} : excl[l] \in {c, None}
    <3>1. CkptLock \in Lock /\ excl[CkptLock] = c
      BY <1>1, LockSets, LocksNow DEF HoldsExcl
    <3> QED BY <1>2, <3>1
  <2>7. LocksOK' /\ excl' \in [Lock -> Conn \cup {None}] /\ shrd' \in [Lock -> SUBSET Conn]
    BY <2>2, <2>5, <2>6, GivesLocks
  <2> QED BY <2>2, <2>3, <2>4, <2>7
<1> QED BY <1>3, <1>4

\* The index after a mark's.
LEMMA NextSlot ==
  ASSUME NEW i \in Slot
  PROVE  i + 1 \in 0..NReader + 1 /\ i + 1 # 0
  BY WalAssumption DEF Slot

\* A checkpoint of a log that is not all folded may fold all of it.
LEMMA CkptStartKeeps ==
  ASSUME IInv, NEW c \in Conn, CkptStart(c)
  PROVE  IInv'
<1>1. s[c].pc = "ckGo" /\ UNCHANGED <<shm, file, disk, shrd, closing>>
  BY DEF CkptStart, files
<1>2. /\ Local(s[c]) /\ Own(s[c]) /\ s[c].ckpt /\ shm.h0 # None
      /\ s[c].tx = 0 /\ s[c].readLock = -1 /\ s[c].hdr \in Hdr /\ s[c].hdr.mx \in Nat
      /\ closing # None => closing = c
  BY <1>1, InCkpt DEF Ckpt
<1>3. 1 \in 0..NReader + 1
  BY WalAssumption
<1>4. CASE shm.backfill < s[c].hdr.mx
  <2>1. PICK iter : /\ Set(c, [s[c] EXCEPT !.safe = s[c].hdr.mx, !.i = 1, !.pc = "ckMark",
                                           !.iter = iter])
                    /\ UNCHANGED excl
    BY <1>4 DEF CkptStart
  <2>2. PICK x : x = [s[c] EXCEPT !.safe = s[c].hdr.mx, !.i = 1, !.pc = "ckMark", !.iter = iter]
    OBVIOUS
  <2>3. Set(c, x) /\ UNCHANGED excl
    BY <2>1, <2>2
  <2>4. Local(x)
    <3>1. /\ DOMAIN x = Fields /\ x.pc = "ckMark" /\ x.hdr = s[c].hdr
          /\ x.ckpt = s[c].ckpt /\ x.commit = s[c].commit /\ x.readLock = s[c].readLock
          /\ x.mxI = s[c].mxI /\ x.safe = s[c].hdr.mx /\ x.cur = s[c].cur /\ x.tx = s[c].tx
          /\ x.i = 1
      BY <1>2, <2>2 DEF Local, Fields, Fresh
    <3> QED BY <1>3, <1>1, <1>2, <3>1 DEF Local, Places, BeforeHdr, Marking, Restarting, Framing,
       Folding, Ckpt
  <2>5. Own(x)
    BY <1>1, <1>2, <1>4, <2>2 DEF Own, HeaderOK, WriterOK, IgnoredOK, FoldingOK, Local, Fields,
       Fresh, Folding
  <2>6. Quiet(c, x)
    BY <1>1, <1>2, <2>2, <2>3, <2>4, <2>5 DEF Quiet, Local, Fields, Fresh, Restarting, Ckpt, Folding
  <2>7. \A l \in Lock : /\ HoldsExcl(x, l) <=> HoldsExcl(s[c], l)
                        /\ HoldsShared(x, l) <=> HoldsShared(s[c], l)
    BY <1>1, <1>2, <2>2 DEF HoldsExcl, HoldsShared, Local, Fields, Fresh, Restarting
  <2> QED BY <1>1, <2>3, <2>6, <2>7, KeepsLocks, CalmKeeps
<1>5. CASE ~(shm.backfill < s[c].hdr.mx)
  <2>1. CkptOver(c, {})
    BY <1>5 DEF CkptStart
  <2>2. PICK x :
          /\ Set(c, x) /\ Local(x) /\ Own(x)
          /\ x.pc \in {"idle", "ckEnd"} /\ x.hdr = NoHdr /\ x.tx = 0 /\ x.readLock = -1
          /\ LocksOK'
          /\ excl' \in [Lock -> Conn \cup {None}] /\ shrd' \in [Lock -> SUBSET Conn]
    BY <1>1, <2>1, CkptEnds
  <2>3. Quiet(c, x)
    BY <1>1, <1>2, <2>2 DEF Quiet, Restarting, NoHdr, BeforeHdr, Ckpt
  <2> QED BY <1>1, <2>2, <2>3, CalmKeeps
<1> QED BY <1>4, <1>5

\* The checkpoint looks at the next mark.
LEMMA CkptReadMarkKeeps ==
  ASSUME IInv, NEW c \in Conn, CkptReadMark(c)
  PROVE  IInv'
<1>1. /\ s[c].pc = "ckMark" /\ s[c].i <= NReader
      /\ UNCHANGED <<shm, file, disk, excl, shrd, closing>>
  BY DEF CkptReadMark, files
<1>2. /\ Local(s[c]) /\ Own(s[c]) /\ s[c].ckpt /\ shm.h0 # None
      /\ s[c].tx = 0 /\ s[c].readLock = -1 /\ s[c].safe \in Nat /\ s[c].hdr.mx \in Nat
      /\ closing # None => closing = c
  BY <1>1, InCkpt DEF Ckpt, Folding
<1>3. /\ s[c].i \in Slot /\ shm.mark[s[c].i] \in Nat
      /\ s[c].i + 1 \in 0..NReader + 1 /\ s[c].i + 1 # 0
  <2>1. s[c].i \in Slot
    BY <1>1, <1>2 DEF Local, Slot
  <2> QED BY <2>1, NextSlot DEF IInv, TypesOK
<1>4. CASE s[c].safe > shm.mark[s[c].i]
  <2>1. PICK x : x = [s[c] EXCEPT !.seen = shm.mark[s[c].i], !.pc = "ckTake"]
    OBVIOUS
  <2>2. Set(c, x)
    BY <1>4, <2>1 DEF CkptReadMark
  <2>3. Local(x)
    BY <1>1, <1>2, <1>3, <1>4, <2>1 DEF Local, Fields, Fresh, Places, BeforeHdr, Marking,
       Restarting, Framing, Folding, Ckpt
  <2>4. Own(x)
    BY <1>1, <1>2, <2>1 DEF Own, HeaderOK, WriterOK, IgnoredOK, FoldingOK, Local, Fields,
       Fresh, Folding
  <2>5. Quiet(c, x)
    BY <1>1, <1>2, <2>1, <2>2, <2>3, <2>4 DEF Quiet, Local, Fields, Fresh, Restarting, Ckpt, Folding
  <2>6. \A l \in Lock : /\ HoldsExcl(x, l) <=> HoldsExcl(s[c], l)
                        /\ HoldsShared(x, l) <=> HoldsShared(s[c], l)
    BY <1>1, <1>2, <2>1 DEF HoldsExcl, HoldsShared, Local, Fields, Fresh, Restarting
  <2> QED BY <1>1, <2>2, <2>5, <2>6, KeepsLocks, CalmKeeps
<1>5. CASE ~(s[c].safe > shm.mark[s[c].i])
  <2>1. PICK x : x = [s[c] EXCEPT !.i = s[c].i + 1]
    OBVIOUS
  <2>2. Set(c, x)
    BY <1>5, <2>1 DEF CkptReadMark
  <2>3. Local(x)
    BY <1>1, <1>2, <1>3, <2>1 DEF Local, Fields, Fresh, Places, BeforeHdr, Marking,
       Restarting, Framing, Folding, Ckpt
  <2>4. Own(x)
    BY <1>1, <1>2, <2>1 DEF Own, HeaderOK, WriterOK, IgnoredOK, FoldingOK, Local, Fields,
       Fresh, Folding
  <2>5. Quiet(c, x)
    BY <1>1, <1>2, <2>1, <2>2, <2>3, <2>4 DEF Quiet, Local, Fields, Fresh, Restarting, Ckpt, Folding
  <2>6. \A l \in Lock : /\ HoldsExcl(x, l) <=> HoldsExcl(s[c], l)
                        /\ HoldsShared(x, l) <=> HoldsShared(s[c], l)
    BY <1>1, <1>2, <2>1 DEF HoldsExcl, HoldsShared, Local, Fields, Fresh, Restarting
  <2> QED BY <1>1, <2>2, <2>5, <2>6, KeepsLocks, CalmKeeps
<1> QED BY <1>4, <1>5

\* A mark in use lowers what may be folded.
LEMMA CkptTakeMarkKeeps ==
  ASSUME IInv, NEW c \in Conn, CkptTakeMark(c)
  PROVE  IInv'
<1> DEFINE m == ReadLock(s[c].i)
<1>1. s[c].pc = "ckTake" /\ UNCHANGED <<shm, file, disk, shrd, closing>>
  BY DEF CkptTakeMark, files
<1>2. /\ Local(s[c]) /\ Own(s[c]) /\ s[c].ckpt /\ shm.h0 # None
      /\ s[c].tx = 0 /\ s[c].readLock = -1 /\ s[c].safe \in Nat /\ s[c].hdr.mx \in Nat
      /\ closing # None => closing = c
  BY <1>1, InCkpt DEF Ckpt, Folding
<1>3. /\ s[c].i \in Slot /\ {m} \in SUBSET Lock /\ s[c].seen \in Nat /\ s[c].seen <= s[c].hdr.mx
      /\ s[c].i + 1 \in 0..NReader + 1 /\ s[c].i + 1 # 0
  <2>1. /\ s[c].i \in Slot /\ s[c].seen \in Nat /\ s[c].seen < s[c].safe
        /\ s[c].safe <= s[c].hdr.mx
    BY <1>1, <1>2 DEF Local, Folding
  <2>2. s[c].seen <= s[c].hdr.mx
    BY <1>2, <2>1
  <2>3. {m} \in SUBSET Lock
    BY <2>1, LockSets DEF Slot
  <2> QED BY <2>1, <2>2, <2>3, NextSlot
<1>4. CASE Free(m)
  <2>1. PICK x : x = [s[c] EXCEPT !.pc = "ckSet"]
    OBVIOUS
  <2>2. Set(c, x) /\ LockExcl(c, {m})
    BY <1>4, <2>1 DEF CkptTakeMark, Goto
  <2>3. Local(x)
    BY <1>1, <1>2, <1>3, <2>1 DEF Local, Fields, Fresh, Places, BeforeHdr, Marking,
       Restarting, Framing, Folding, Ckpt
  <2>4. Own(x)
    BY <1>1, <1>2, <2>1 DEF Own, HeaderOK, WriterOK, IgnoredOK, FoldingOK, Local, Fields,
       Fresh, Folding
  <2>5. Quiet(c, x)
    BY <1>1, <1>2, <2>1, <2>2, <2>3, <2>4 DEF Quiet, Local, Fields, Fresh, Restarting, Ckpt, Folding
  <2>6. \A l \in Lock : /\ HoldsExcl(x, l) <=> HoldsExcl(s[c], l) \/ l \in {m}
                        /\ HoldsShared(x, l) <=> HoldsShared(s[c], l)
    BY <1>1, <1>2, <2>1 DEF HoldsExcl, HoldsShared, Local, Fields, Fresh, Restarting
  <2> HIDE DEF m
  <2>7. LocksOK' /\ excl' \in [Lock -> Conn \cup {None}] /\ shrd' \in [Lock -> SUBSET Conn]
    BY <1>1, <1>3, <2>2, <2>6, TakesLocks
  <2> QED BY <1>1, <2>5, <2>7, CalmKeeps
<1>5. CASE ~Free(m)
  <2>1. PICK x : x = [s[c] EXCEPT !.safe = s[c].seen, !.seen = 0, !.i = s[c].i + 1,
                                  !.pc = "ckMark"]
    OBVIOUS
  <2>2. Set(c, x) /\ UNCHANGED excl
    BY <1>5, <2>1 DEF CkptTakeMark
  <2>3. Local(x)
    BY <1>1, <1>2, <1>3, <2>1 DEF Local, Fields, Fresh, Places, BeforeHdr, Marking,
       Restarting, Framing, Folding, Ckpt
  <2>4. Own(x)
    BY <1>1, <1>2, <2>1 DEF Own, HeaderOK, WriterOK, IgnoredOK, FoldingOK, Local, Fields,
       Fresh, Folding
  <2>5. Quiet(c, x)
    BY <1>1, <1>2, <2>1, <2>2, <2>3, <2>4 DEF Quiet, Local, Fields, Fresh, Restarting, Ckpt, Folding
  <2>6. \A l \in Lock : /\ HoldsExcl(x, l) <=> HoldsExcl(s[c], l)
                        /\ HoldsShared(x, l) <=> HoldsShared(s[c], l)
    BY <1>1, <1>2, <2>1 DEF HoldsExcl, HoldsShared, Local, Fields, Fresh, Restarting
  <2> QED BY <1>1, <2>2, <2>5, <2>6, KeepsLocks, CalmKeeps
<1> QED BY <1>4, <1>5

\* A mark not in use is set to what is folded, or given up.
LEMMA CkptSetMarkKeeps ==
  ASSUME IInv, NEW c \in Conn, CkptSetMark(c)
  PROVE  IInv'
<1> DEFINE m == ReadLock(s[c].i)
<1>1. s[c].pc = "ckSet" /\ UnlockExcl({m}) /\ UNCHANGED <<file, disk, shrd, closing>>
  BY DEF CkptSetMark, files
<1>2. /\ Local(s[c]) /\ Own(s[c]) /\ s[c].ckpt /\ shm.h0 # None
      /\ s[c].tx = 0 /\ s[c].readLock = -1 /\ s[c].safe \in Nat /\ s[c].hdr.mx \in Nat
      /\ closing # None => closing = c
  BY <1>1, InCkpt DEF Ckpt, Folding
<1>3. /\ s[c].i \in Slot /\ {m} \in SUBSET Lock /\ m \in Lock /\ excl[m] = c
      /\ s[c].i + 1 \in 0..NReader + 1 /\ s[c].i + 1 # 0
  <2>1. s[c].i \in Slot
    BY <1>1, <1>2 DEF Local
  <2>2. {m} \in SUBSET Lock /\ m \in Lock
    BY <2>1, LockSets DEF Slot
  <2>3. excl[m] = c
    BY <1>1, <2>2, LocksNow DEF HoldsExcl
  <2> QED BY <2>1, <2>2, <2>3, NextSlot
<1>4. PICK x : x = [s[c] EXCEPT !.seen = 0, !.i = s[c].i + 1, !.pc = "ckMark"]
  OBVIOUS
<1>5. Set(c, x)
  BY <1>4 DEF CkptSetMark
<1>6. /\ DOMAIN shm' = DOMAIN shm /\ DOMAIN shm'.mark = Slot
      /\ shm'.h0 = shm.h0 /\ shm'.h1 = shm.h1 /\ shm'.backfill = shm.backfill
      /\ \A i \in Slot : shm'.mark[i] \in Nat
  <2>1. Unused \in Nat
    BY WalAssumption DEF Unused
  <2> QED BY <1>2, <2>1 DEF CkptSetMark, IInv, TypesOK, ZeroShm
<1>7. \A fl \in {file', disk'} : "salt" \in DOMAIN fl /\ fl.salt \in Nat
  BY <1>1 DEF IInv, TypesOK
<1>8. Local(x)
  BY <1>1, <1>2, <1>3, <1>4 DEF Local, Fields, Fresh, Places, BeforeHdr, Marking,
     Restarting, Framing, Folding, Ckpt
<1>9. Own(x)
  BY <1>1, <1>2, <1>4 DEF Own, HeaderOK, WriterOK, IgnoredOK, FoldingOK, Local, Fields,
     Fresh, Folding
<1>10. Quiet(c, x)
  BY <1>1, <1>2, <1>4, <1>5, <1>6, <1>8, <1>9
     DEF Quiet, Local, Fields, Fresh, Restarting, Ckpt, Folding
<1>11. \A l \in Lock : /\ HoldsExcl(x, l) <=> HoldsExcl(s[c], l) /\ l \notin {m}
                       /\ HoldsShared(x, l) <=> HoldsShared(s[c], l)
  BY <1>1, <1>2, <1>3, <1>4, LockSets DEF HoldsExcl, HoldsShared, Local, Fields, Fresh, Restarting
<1> HIDE DEF m
<1>12. LocksOK' /\ excl' \in [Lock -> Conn \cup {None}] /\ shrd' \in [Lock -> SUBSET Conn]
  BY <1>1, <1>3, <1>5, <1>11, GivesLocks
<1> QED BY <1>6, <1>7, <1>10, <1>12, StillKeeps

\* The checkpoint excludes the readers that ignore the log, or ends.
LEMMA CkptSyncKeeps ==
  ASSUME IInv, NEW c \in Conn, CkptSync(c)
  PROVE  IInv'
<1> DEFINE copies == shm.backfill < s[c].safe /\ Free(ReadLock(0))
<1>1. s[c].pc = "ckMark" /\ UNCHANGED <<shm, file, shrd, closing>>
  BY DEF CkptSync
<1>2. /\ Local(s[c]) /\ Own(s[c]) /\ s[c].ckpt /\ shm.h0 # None
      /\ s[c].tx = 0 /\ s[c].readLock = -1 /\ s[c].safe \in Nat /\ s[c].hdr.mx \in Nat
      /\ closing # None => closing = c
  BY <1>1, InCkpt DEF Ckpt, Folding
<1>3. CASE copies
  <2>1. PICK todo : /\ LockExcl(c, {ReadLock(0)}) /\ disk' = [file EXCEPT !.db = disk.db]
                    /\ Set(c, [s[c] EXCEPT !.pc = "ckCopy", !.todo = todo])
    BY <1>3 DEF CkptSync, SyncLog
  <2>2. PICK x : x = [s[c] EXCEPT !.pc = "ckCopy", !.todo = todo]
    OBVIOUS
  <2>3. Set(c, x)
    BY <2>1, <2>2
  <2>4. Local(x)
    BY <1>1, <1>2, <2>2 DEF Local, Fields, Fresh, Places, BeforeHdr, Marking,
       Restarting, Framing, Folding, Ckpt
  <2>5. Own(x)
    BY <1>1, <1>2, <2>2 DEF Own, HeaderOK, WriterOK, IgnoredOK, FoldingOK, Local, Fields,
       Fresh, Folding
  <2>6. Quiet(c, x)
    BY <1>1, <1>2, <2>2, <2>3, <2>4, <2>5 DEF Quiet, Local, Fields, Fresh, Restarting, Ckpt, Folding
  <2>7. \A l \in Lock : /\ HoldsExcl(x, l) <=> HoldsExcl(s[c], l) \/ l \in {ReadLock(0)}
                        /\ HoldsShared(x, l) <=> HoldsShared(s[c], l)
    BY <1>1, <1>2, <2>2 DEF HoldsExcl, HoldsShared, Local, Fields, Fresh, Restarting
  <2>8. LocksOK' /\ excl' \in [Lock -> Conn \cup {None}] /\ shrd' \in [Lock -> SUBSET Conn]
    <3>1. {ReadLock(0)} \in SUBSET Lock
      BY LockSets
    <3> QED BY <1>1, <2>1, <2>3, <2>7, <3>1, TakesLocks
  <2>9. /\ DOMAIN shm' = DOMAIN shm /\ DOMAIN shm'.mark = Slot
        /\ \A i \in Slot : shm'.mark[i] \in Nat
        /\ \A fl \in {file', disk'} : "salt" \in DOMAIN fl /\ fl.salt \in Nat
    BY <1>1, <2>1 DEF IInv, TypesOK
  <2> QED BY <2>6, <2>8, <2>9, StillKeeps
<1>4. CASE ~copies
  <2>1. CkptOver(c, {}) /\ UNCHANGED disk
    BY <1>4 DEF CkptSync
  <2>2. PICK x :
          /\ Set(c, x) /\ Local(x) /\ Own(x)
          /\ x.pc \in {"idle", "ckEnd"} /\ x.hdr = NoHdr /\ x.tx = 0 /\ x.readLock = -1
          /\ LocksOK'
          /\ excl' \in [Lock -> Conn \cup {None}] /\ shrd' \in [Lock -> SUBSET Conn]
    BY <1>1, <2>1, CkptEnds
  <2>3. Quiet(c, x)
    BY <1>1, <1>2, <2>2 DEF Quiet, Restarting, NoHdr, BeforeHdr, Ckpt
  <2> QED BY <1>1, <2>1, <2>2, <2>3, CalmKeeps
<1> QED BY <1>3, <1>4

\* A copied page changes only the database.
LEMMA CkptCopyKeeps ==
  ASSUME IInv, NEW c \in Conn, CkptCopy(c)
  PROVE  IInv'
<1>1. s[c].pc = "ckCopy" /\ UNCHANGED <<shm, disk, excl, shrd, closing>>
  BY DEF CkptCopy
<1>2. /\ Local(s[c]) /\ Own(s[c]) /\ s[c].ckpt /\ shm.h0 # None
      /\ s[c].tx = 0 /\ s[c].readLock = -1
      /\ closing # None => closing = c
  BY <1>1, InCkpt DEF Ckpt, Folding
<1>3. PICK p, val : /\ file' = [file EXCEPT !.db[p] = val]
                    /\ Set(c, [s[c] EXCEPT !.todo = @ \ {p}])
  BY DEF CkptCopy
<1>4. PICK x : x = [s[c] EXCEPT !.todo = @ \ {p}]
  OBVIOUS
<1>5. Set(c, x)
  BY <1>3, <1>4
<1>6. Local(x)
  BY <1>1, <1>2, <1>4 DEF Local, Fields, Fresh, Places, BeforeHdr, Marking,
     Restarting, Framing, Folding, Ckpt
<1>7. Own(x)
  BY <1>1, <1>2, <1>4 DEF Own, HeaderOK, WriterOK, IgnoredOK, FoldingOK, Local, Fields,
     Fresh, Folding
<1>8. Quiet(c, x)
  BY <1>1, <1>2, <1>4, <1>5, <1>6, <1>7 DEF Quiet, Local, Fields, Fresh, Restarting, Ckpt, Folding
<1>9. \A l \in Lock : /\ HoldsExcl(x, l) <=> HoldsExcl(s[c], l)
                      /\ HoldsShared(x, l) <=> HoldsShared(s[c], l)
  BY <1>1, <1>2, <1>4 DEF HoldsExcl, HoldsShared, Local, Fields, Fresh, Restarting
<1>10. LocksOK' /\ excl' \in [Lock -> Conn \cup {None}] /\ shrd' \in [Lock -> SUBSET Conn]
  BY <1>1, <1>5, <1>9, KeepsLocks
<1>11. DOMAIN file' = DOMAIN file /\ file'.salt = file.salt
  BY <1>3 DEF IInv, TypesOK
<1>12. /\ DOMAIN shm' = DOMAIN shm /\ DOMAIN shm'.mark = Slot
       /\ \A i \in Slot : shm'.mark[i] \in Nat
       /\ \A fl \in {file', disk'} : "salt" \in DOMAIN fl /\ fl.salt \in Nat
  BY <1>1, <1>11 DEF IInv, TypesOK
<1> QED BY <1>8, <1>10, <1>12, StillKeeps

\* nBackfill moves under the exclusive lock of those who ignore the log.
LEMMA CkptDoneKeeps ==
  ASSUME IInv, NEW c \in Conn, CkptDone(c)
  PROVE  IInv'
<1>1. /\ s[c].pc = "ckCopy" /\ shm' = [shm EXCEPT !.backfill = s[c].safe]
      /\ CkptOver(c, {ReadLock(0)}) /\ UNCHANGED <<file, shrd, closing>>
      /\ disk' = disk \/ disk' = [disk EXCEPT !.db = file.db]
  BY DEF CkptDone
<1>2. /\ Local(s[c]) /\ Own(s[c]) /\ s[c].ckpt /\ shm.h0 # None
      /\ s[c].tx = 0 /\ s[c].readLock = -1 /\ s[c].safe \in Nat /\ s[c].hdr.mx \in Nat
      /\ closing # None => closing = c
      /\ \A k \in Conn \ {c} : ~s[k].ckpt /\ s[k].pc \notin Ckpt
  BY <1>1, InCkpt DEF Ckpt, Folding
<1>3. PICK x :
        /\ Set(c, x) /\ Local(x) /\ Own(x)
        /\ x.pc \in {"idle", "ckEnd"} /\ x.hdr = NoHdr /\ x.tx = 0 /\ x.readLock = -1
        /\ LocksOK'
        /\ excl' \in [Lock -> Conn \cup {None}] /\ shrd' \in [Lock -> SUBSET Conn]
  BY <1>1, CkptEnds
<1>4. s'[c] = x /\ DOMAIN s' = Conn /\ \A k \in Conn \ {c} : s'[k] = s[k]
  BY <1>3, OneMoves DEF IInv
<1>5. /\ DOMAIN shm' = DOMAIN shm /\ shm'.mark = shm.mark /\ shm'.h0 = shm.h0
      /\ shm'.h1 = shm.h1 /\ shm'.backfill = s[c].safe
  BY <1>1 DEF IInv, TypesOK, ZeroShm
<1>6. \A k \in Conn \ {c} :
        /\ Local(s[k]) /\ Own(s[k])
        /\ s[k].pc # "check0" /\ s[k].readLock # 0 /\ s[k].pc \notin Restarting
  <2> SUFFICES ASSUME NEW k \in Conn \ {c}
               PROVE  s[k].pc # "check0" /\ s[k].readLock # 0 /\ s[k].pc \notin Restarting
    BY DEF IInv
  <2>1. excl[ReadLock(0)] = c
    BY <1>1, LocksNow, LockSets DEF HoldsExcl
  <2>2. ~HoldsShared(s[k], ReadLock(0)) /\ Local(s[k])
    <3>1. shrd[ReadLock(0)] = {}
      BY <2>1, LocksNow, LockSets
    <3> QED BY <3>1, LocksNow, LockSets DEF IInv
  <2> QED BY <2>2 DEF HoldsShared, Local
<1>7. \A k \in Conn : Local(s'[k]) /\ Own(s[k])'
  <2>1. Local(s'[c]) /\ Own(s[c])'
    BY <1>2, <1>3, <1>4, <1>5 DEF Own, HeaderOK, WriterOK, IgnoredOK, FoldingOK, Folding
  <2>2. ASSUME NEW k \in Conn \ {c} PROVE Local(s'[k]) /\ Own(s[k])'
    <3>1. /\ s'[k] = s[k] /\ Local(s[k]) /\ Own(s[k]) /\ s[k].pc \notin Ckpt
          /\ s[k].pc # "check0" /\ s[k].readLock # 0 /\ s[k].pc \notin Restarting
      BY <1>2, <1>4, <1>6
    <3> QED BY <1>5, <3>1 DEF Own, HeaderOK, WriterOK, IgnoredOK, FoldingOK, Ckpt, Restarting
  <2> QED BY <2>1, <2>2
<1>8. CopiesOK'
  BY <1>1, <1>4, <1>5 DEF IInv, CopiesOK
<1>9. SaltsOK'
  <2>1. ASSUME NEW w \in Conn, s[w].tx # 0
        PROVE  s[w].hdr.salt = shm.h0.salt \/ s[w].hdr.salt # 0
    BY <2>1 DEF IInv, Own, WriterOK
  <2>2. x.hdr.salt = 0 /\ x.tx = 0
    BY <1>3 DEF NoHdr
  <2> QED BY <1>4, <1>5, <2>1, <2>2 DEF IInv, SaltsOK
<1>10. ClosingOK'
  BY <1>1, <1>2, <1>3, <1>4 DEF IInv, ClosingOK, BeforeHdr, Ckpt
<1>11. NoMeeting' /\ (~Overlap => BackfillWithinLog')
  <2>1. \A k \in Conn : s'[k].pc # "ckGo"
    BY <1>2, <1>3, <1>4 DEF Ckpt
  <2>2. ~Overlap => s[c].safe <= shm.h0.mx
    <3> SUFFICES ASSUME ~Overlap PROVE s[c].safe <= shm.h0.mx
      OBVIOUS
    <3>1. s[c].hdr.mx <= shm.h0.mx /\ s[c].safe <= s[c].hdr.mx /\ shm.h0 \in Hdr
      BY <1>1, <1>2 DEF Own, FoldingOK, Local, Folding, IInv, TypesOK
    <3> QED BY <1>2, <3>1 DEF Hdr
  <2> QED BY <1>5, <2>1, <2>2 DEF NoMeeting, BackfillWithinLog
<1>12. TypesOK'
  BY <1>1, <1>2, <1>3, <1>4, <1>5 DEF IInv, TypesOK
<1> QED BY <1>3, <1>7, <1>8, <1>9, <1>10, <1>11, <1>12 DEF IInv

-----------------------------------------------------------------------------
(* Closing, and stops.                                                     *)

\* A handle goes, or the last one begins to close the database.
LEMMA CloseHandleKeeps ==
  ASSUME IInv, NEW c \in Conn, CloseHandle(c)
  PROVE  IInv'
<1>1. /\ s[c].pc = "idle" /\ closing = None
      /\ UNCHANGED <<shm, file, disk, excl, shrd>>
  BY DEF CloseHandle, files
<1>2. CASE Set(c, Fresh(FALSE)) /\ UNCHANGED closing
  <2>1. PICK x : x = Fresh(FALSE)
    OBVIOUS
  <2>2. Local(s[c]) /\ Set(c, x)
    BY <1>2, <2>1 DEF IInv
  <2>3. Local(x) /\ Own(x) /\ \A l \in Lock : ~HoldsExcl(x, l) /\ ~HoldsShared(x, l)
    BY <2>1, FreshOK
  <2>4. s[c].tx = 0 /\ s[c].readLock = -1 /\ ~s[c].ckpt
    BY <1>1, <2>2 DEF Local, BeforeHdr, Ckpt, Folding, Restarting, Framing
  <2>5. Quiet(c, x)
    BY <1>1, <1>2, <2>1, <2>2, <2>3 DEF Quiet, Fresh, NoHdr, Restarting
  <2>6. \A l \in Lock : ~HoldsExcl(s[c], l) /\ ~HoldsShared(s[c], l)
    BY <1>1, <2>4 DEF HoldsExcl, HoldsShared, Restarting
  <2> QED BY <1>1, <2>2, <2>3, <2>5, <2>6, KeepsLocks, CalmKeeps
<1>3. CASE /\ \A k \in Conn : s[k].pc = "idle"
           /\ closing' = c /\ UNCHANGED s
  <2>1. \A k \in Conn : Local(s[k])' /\ Own(s[k])'
    BY <1>1, <1>3 DEF IInv, Own, HeaderOK, WriterOK, IgnoredOK, FoldingOK
  <2>2. LocksOK' /\ CopiesOK' /\ SaltsOK' /\ (~Overlap => NoMeeting' /\ BackfillWithinLog')
    BY <1>1, <1>3 DEF IInv, LocksOK, HoldsExcl, HoldsShared, CopiesOK, SaltsOK, NoMeeting,
       BackfillWithinLog
  <2>3. TypesOK' /\ ClosingOK'
    BY <1>1, <1>3 DEF IInv, TypesOK, ClosingOK, BeforeHdr
  <2> QED BY <2>1, <2>2, <2>3 DEF IInv
<1> QED BY <1>2, <1>3 DEF CloseHandle

\* Everything is as in a process that begins.
LEMMA StartsAgain ==
  ASSUME shm' = ZeroShm, s' = AllNew, closing' = None,
         excl' \in [Lock -> {None}], shrd' \in [Lock -> {{}}],
         \A fl \in {file', disk'} : "salt" \in DOMAIN fl /\ fl.salt \in Nat
  PROVE  IInv'
<1>1. TypesOK'
  BY DEF TypesOK, AllNew, ZeroShm
<1>2. \A k \in Conn : s'[k] = Fresh(FALSE)
  BY DEF AllNew
<1>3. Local(Fresh(FALSE))
  BY WalAssumption DEF Local, Fresh, Fields, Places, BeforeHdr, Marking, Restarting,
     Framing, Folding, Ckpt, Slot, Hdr, NoHdr
<1>4. \A l \in Lock : ~HoldsExcl(Fresh(FALSE), l) /\ ~HoldsShared(Fresh(FALSE), l)
  BY DEF HoldsExcl, HoldsShared, Fresh, Restarting
<1>5. shm'.h0 = None
  BY DEF ZeroShm
<1>6. \A k \in Conn : Local(s'[k]) /\ Own(s[k])'
  BY <1>2, <1>3, <1>5 DEF Own, HeaderOK, WriterOK, IgnoredOK, FoldingOK, Fresh, Folding, BeforeHdr,
     Restarting
<1>7. LocksOK'
  BY <1>2, <1>4, WalAssumption DEF LocksOK, HoldsExcl, HoldsShared
<1>8. CopiesOK' /\ SaltsOK' /\ ClosingOK' /\ NoMeeting' /\ BackfillWithinLog'
  BY <1>2, <1>5 DEF CopiesOK, SaltsOK, ClosingOK, NoMeeting, BackfillWithinLog, Fresh
<1> QED BY <1>1, <1>6, <1>7, <1>8 DEF IInv

\* The last handle deletes the log and the wal-index while nobody else is in.
LEMMA DeleteLogKeeps ==
  ASSUME IInv, NEW c \in Conn, DeleteLog(c)
  PROVE  IInv'
<1>1. /\ s[c].pc = "ckEnd" /\ closing = c /\ shm' = ZeroShm /\ s' = AllNew /\ closing' = None
      /\ UnlockExcl({CkptLock}) /\ UNCHANGED shrd
  BY DEF DeleteLog
<1>2. \A fl \in {file', disk'} : "salt" \in DOMAIN fl /\ fl.salt \in Nat
  <2>1. \A fl \in {file, disk} : "salt" \in DOMAIN fl /\ fl.salt \in Nat
    BY DEF IInv, TypesOK
  <2>2. file' = NoLog(file) /\ disk' = [disk EXCEPT !.gone = TRUE]
    BY DEF DeleteLog
  <2>3. "salt" \in DOMAIN file' /\ file'.salt \in Nat
    BY <2>1, <2>2 DEF NoLog
  <2>4. "salt" \in DOMAIN disk' /\ disk'.salt \in Nat
    BY <2>1, <2>2
  <2> QED BY <2>3, <2>4
<1>3. \A k \in Conn \ {c} : s[k].pc = "idle"
  BY <1>1, WalAssumption DEF IInv, ClosingOK
<1>4. \A k \in Conn, l \in Lock : /\ ~HoldsShared(s[k], l)
                                  /\ HoldsExcl(s[k], l) => l = CkptLock
  <2>1. /\ Local(s[c]) /\ s[c].tx = 0 /\ s[c].readLock = -1
    BY <1>1, InCkpt DEF Ckpt
  <2>2. \A l \in Lock : ~HoldsShared(s[c], l) /\ (HoldsExcl(s[c], l) => l = CkptLock)
    BY <1>1, <2>1 DEF HoldsShared, HoldsExcl, Restarting
  <2>3. ASSUME NEW k \in Conn \ {c}, NEW l \in Lock
        PROVE  ~HoldsShared(s[k], l) /\ ~HoldsExcl(s[k], l)
    <3>1. /\ s[k].pc = "idle" /\ s[k].tx = 0 /\ s[k].readLock = -1 /\ ~s[k].ckpt
      BY <1>3 DEF IInv, Local, BeforeHdr, Ckpt, Folding, Restarting, Framing
    <3> QED BY <3>1 DEF HoldsShared, HoldsExcl, Restarting
  <2> QED BY <2>2, <2>3
<1>5. excl' \in [Lock -> {None}] /\ shrd' \in [Lock -> {{}}]
  <2>1. \A l \in Lock : shrd[l] = {} /\ (l # CkptLock => excl[l] = None)
    BY <1>4 DEF IInv, TypesOK, LocksOK
  <2>2. DOMAIN shrd = Lock
    BY DEF IInv, TypesOK
  <2>3. shrd' \in [Lock -> {{}}]
    BY <1>1, <2>1, <2>2 DEF IInv, TypesOK
  <2>4. excl' \in [Lock -> {None}]
    BY <1>1, <2>1 DEF UnlockExcl
  <2> QED BY <2>3, <2>4
<1> QED BY <1>1, <1>2, <1>5, StartsAgain

\* After a crash or a power failure nobody holds anything and no header is left.
LEMMA StopKeeps ==
  ASSUME IInv, Crash \/ PowerFailure
  PROVE  IInv'
<1>1. /\ shm' = ZeroShm /\ s' = AllNew /\ closing' = None
      /\ excl' = [l \in Lock |-> None] /\ shrd' = [l \in Lock |-> {}]
  BY DEF Crash, PowerFailure, Stop
<1>2. \A fl \in {file, disk} : "salt" \in DOMAIN fl /\ fl.salt \in Nat
  BY DEF IInv, TypesOK
<1>3. \A fl \in {file', disk'} : "salt" \in DOMAIN fl /\ fl.salt \in Nat
  <2>1. CASE Crash
    BY <1>2, <2>1 DEF Crash
  <2>2. CASE PowerFailure
    <3> DEFINE old(b) == IF disk.gone /\ ~b THEN NoLog(disk) ELSE disk
               new(b) == IF b THEN [disk EXCEPT !.db = file.db] ELSE file
               frames(b) == {f \in Frame : new(b).frame[f] # old(b).frame[f]}
               pages(b) == {p \in Page : new(b).db[p] # old(b).db[p]}
               head(fl) == <<fl.salt, fl.again>>
               hd(b, h) == Pick(h, head(new(b)), head(old(b)), <<0, FALSE>>)
               frame(b, fs) == [f \in Frame |-> IF f \in frames(b)
                 THEN Pick(fs[f], new(b).frame[f], old(b).frame[f], NoFrame)
                 ELSE new(b).frame[f]]
               db(b, ps) == [p \in Page |-> IF p \in pages(b)
                 THEN Pick(ps[p], new(b).db[p], old(b).db[p], Torn) ELSE new(b).db[p]]
    <3> DEFINE result(b, h, fs, ps) ==
                 [new(b) EXCEPT !.salt = hd(b, h)[1], !.again = hd(b, h)[2], !.gone = FALSE,
                                !.frame = frame(b, fs), !.db = db(b, ps)]
               parts(b) == \E fs \in [frames(b) -> Survives], ps \in [pages(b) -> Survives],
                              h \in Survives :
                             /\ h = "new" \/ head(new(b)) # head(old(b))
                             /\ file' = result(b, h, fs, ps)
    <3>1. \E b \in {FALSE, disk.gone} : parts(b)
      BY <2>2, Zenon DEF PowerFailure
    <3>2. PICK b, fs, ps, h : h \in Survives /\ file' = result(b, h, fs, ps)
      <4> HIDE DEF frames, pages, head, new, old, result
      <4> QED BY <3>1
    <3>3. disk' = file'
      BY <2>2 DEF PowerFailure
    <3>4. \A fl \in {new(b), old(b)} : "salt" \in DOMAIN fl /\ fl.salt \in Nat
      <4>1. "salt" \in DOMAIN NoLog(disk) /\ NoLog(disk).salt \in Nat
        BY <1>2 DEF NoLog
      <4>2. LET fl == [disk EXCEPT !.db = file.db] IN "salt" \in DOMAIN fl /\ fl.salt \in Nat
        BY <1>2
      <4>3. old(b) \in {NoLog(disk), disk} /\ new(b) \in {[disk EXCEPT !.db = file.db], file}
        OBVIOUS
      <4> HIDE DEF new, old
      <4> QED BY <1>2, <4>1, <4>2, <4>3
    <3>5. hd(b, h)[1] \in Nat
      BY <3>2, <3>4 DEF Pick, Survives
    <3> HIDE DEF new, old, hd, frame, db
    <3> QED BY <3>2, <3>4, <3>5, <3>3
  <2> QED BY <2>1, <2>2
<1> QED BY <1>1, <1>3, StartsAgain

-----------------------------------------------------------------------------
(* The theorems.                                                           *)

\* The invariant holds before the first call.
LEMMA InitKeeps ==
  ASSUME Init
  PROVE  IInv
<1>1. /\ shm = ZeroShm /\ \A k \in Conn : s[k] = Fresh(FALSE)
      /\ closing = None /\ DOMAIN s = Conn
      /\ excl \in [Lock -> {None}] /\ shrd \in [Lock -> {{}}]
      /\ \A fl \in {file, disk} : "salt" \in DOMAIN fl /\ fl.salt \in Nat
  BY DEF Init
<1>2. TypesOK
  BY <1>1 DEF TypesOK, ZeroShm
<1>3. Local(Fresh(FALSE))
  BY WalAssumption DEF Local, Fresh, Fields, Places, BeforeHdr, Marking, Restarting,
     Framing, Folding, Ckpt, Slot, Hdr, NoHdr
<1>4. \A l \in Lock : ~HoldsExcl(Fresh(FALSE), l) /\ ~HoldsShared(Fresh(FALSE), l)
  BY DEF HoldsExcl, HoldsShared, Fresh, Restarting
<1>5. shm.h0 = None
  BY <1>1 DEF ZeroShm
<1>6. \A k \in Conn : Local(s[k]) /\ Own(s[k])
  <2>1. Own(Fresh(FALSE))
    BY <1>5 DEF Own, HeaderOK, WriterOK, IgnoredOK, FoldingOK, Fresh, Folding, BeforeHdr, Restarting
  <2> QED BY <1>1, <1>3, <2>1
<1>7. LocksOK
  BY <1>1, <1>4, WalAssumption DEF LocksOK, HoldsExcl, HoldsShared
<1>8. CopiesOK /\ SaltsOK /\ ClosingOK /\ NoMeeting /\ BackfillWithinLog
  BY <1>1, <1>5 DEF CopiesOK, SaltsOK, ClosingOK, NoMeeting, BackfillWithinLog, Fresh
<1> QED BY <1>2, <1>6, <1>7, <1>8 DEF IInv

\* Nothing in the invariant changes in a step that changes no variable.
LEMMA StutterKeeps ==
  ASSUME IInv, UNCHANGED vars
  PROVE  IInv'
<1>1. UNCHANGED <<shm, file, disk, excl, shrd, s, closing>>
  BY DEF vars
<1>2. TypesOK' /\ \A k \in Conn : Local(s[k])' /\ Own(s[k])'
  BY <1>1 DEF IInv, TypesOK, Local, Own, HeaderOK, WriterOK, IgnoredOK, FoldingOK
<1>3. LocksOK' /\ CopiesOK' /\ SaltsOK' /\ ClosingOK'
      /\ (~Overlap => NoMeeting' /\ BackfillWithinLog')
  BY <1>1 DEF IInv, LocksOK, HoldsExcl, HoldsShared, CopiesOK, SaltsOK, ClosingOK, NoMeeting,
     BackfillWithinLog
<1> QED BY <1>2, <1>3 DEF IInv

\* Every step keeps the invariant.
LEMMA StepKeeps ==
  ASSUME IInv, ntx \in Nat, [Next]_vars
  PROVE  IInv'
<1>1. ASSUME NEW c \in Conn, ReadStep(c) PROVE IInv'
  BY <1>1, BeginReadKeeps, HdrLockedKeeps, WalIndexRecoverKeeps, TryReadLock0Keeps, Check0Keeps,
     PickMarkKeeps, ClaimMarkKeeps, RaiseMarkKeeps, ShareMarkKeeps, SetMinFrameKeeps,
     CheckMarkKeeps, EndReadKeeps DEF ReadStep
<1>2. ASSUME NEW c \in Conn, WriteStep(c) PROVE IInv'
  BY <1>2, BeginWriteKeeps, RestartLogKeeps, GoOnKeeps, RestartHdrKeeps, RestartMarksKeeps,
     WriteLogHeaderKeeps, SyncLogHeaderKeeps, PutFrameKeeps, RewriteChecksumKeeps,
     AppendIndexKeeps, CommitKeeps, RollbackKeeps DEF WriteStep
<1>3. ASSUME NEW c \in Conn, CkptStep(c) PROVE IInv'
  BY <1>3, BeginCheckpointKeeps, CkptStartKeeps, CkptReadMarkKeeps, CkptTakeMarkKeeps,
     CkptSetMarkKeeps, CkptSyncKeeps, CkptCopyKeeps, CkptDoneKeeps DEF CkptStep
<1>4. ASSUME NEW c \in Conn, CloseHandle(c) \/ DeleteLog(c) PROVE IInv'
  BY <1>4, CloseHandleKeeps, DeleteLogKeeps
<1> QED BY <1>1, <1>2, <1>3, <1>4, StopKeeps, StutterKeeps DEF Next

\* Transactions are numbered from 1.
LEMMA CountStep ==
  ASSUME ntx \in Nat, [Next]_vars
  PROVE  ntx' \in Nat
<1>1. ASSUME NEW c \in Conn, ReadStep(c) \/ WriteStep(c) \/ CkptStep(c)
                             \/ CloseHandle(c) \/ DeleteLog(c)
      PROVE  ntx' = ntx \/ ntx' = ntx + 1
  <2>1. CASE ReadStep(c)
    BY <2>1 DEF ReadStep, BeginRead, HdrLocked, WalIndexRecover, TryReadLock0, Check0, PickMark,
       ClaimMark, RaiseMark, ShareMark, SetMinFrame, CheckMark, EndRead, counts
  <2>2. CASE WriteStep(c)
    BY <2>2 DEF WriteStep, BeginWrite, RestartLog, GoOn, RestartHdr, RestartMarks, WriteLogHeader,
       SyncLogHeader, PutFrame, RewriteChecksum, AppendIndex, Commit, Rollback, counts
  <2>3. CASE CkptStep(c)
    BY <2>3 DEF CkptStep, BeginCheckpoint, CkptStart, CkptReadMark, CkptTakeMark, CkptSetMark,
       CkptSync, CkptCopy, CkptDone, counts
  <2>4. CASE CloseHandle(c) \/ DeleteLog(c)
    BY <2>4 DEF CloseHandle, DeleteLog, counts
  <2> QED BY <1>1, <2>1, <2>2, <2>3, <2>4
<1>2. Crash \/ PowerFailure => ntx' = ntx
  BY DEF Crash, PowerFailure, Stop
<1> QED BY <1>1, <1>2 DEF Next, vars

\* The invariant holds, whether or not a log restart may fall between the two
\* reads of a checkpoint (walRestartLog, sqlite3WalCheckpoint).
THEOREM Invariance == Spec => []IInv
<1> DEFINE Inv == IInv /\ ntx \in Nat
<1>1. Init => Inv
  BY InitKeeps DEF Init
<1>2. Inv /\ [Next]_vars => Inv'
  BY StepKeeps, CountStep
<1>3. Inv => IInv
  OBVIOUS
<1> HIDE DEF Inv
<1> QED BY <1>1, <1>2, <1>3, PTL DEF Spec

\* A writer that ignores the log still finds all of it in the database: the
\* assertion of walRestartLog.
THEOREM IgnoredLogIsFolded == Spec => []FoldedWhenIgnored
<1>1. IInv => FoldedWhenIgnored
  <2> SUFFICES ASSUME IInv, NEW c \in Conn,
                      s[c].readLock = 0, s[c].tx # 0, s[c].pc # "restart1"
               PROVE  s[c].hdr.mx = 0 \/ shm.backfill = s[c].hdr.mx
    BY DEF FoldedWhenIgnored
  <2>1. Local(s[c]) /\ Own(s[c])
    BY DEF IInv
  <2>2. s[c].pc \in {"writing", "restart0"}
    BY <2>1 DEF Local, Restarting
  <2> QED BY <2>1, <2>2 DEF Local, Own, WriterOK, IgnoredOK, Restarting
<1> QED BY <1>1, Invariance, PTL

\* nBackfill is never greater than the last commit's mxFrame (wal.c:329), if
\* no log restart falls between the two reads of a checkpoint.
THEOREM BackfillIsWithinLog == ASSUME ~Overlap PROVE Spec => []BackfillWithinLog
<1>1. IInv => BackfillWithinLog
  BY DEF IInv
<1> QED BY <1>1, Invariance, PTL

-----------------------------------------------------------------------------
(***************************************************************************)
(* The log refines SnapshotStore, while nothing crashes and no log starts  *)
(* again between a checkpoint's two reads.  What follows looks at the      *)
(* pages: in the database, in the frames and in the wal-index's map.       *)
(***************************************************************************)

\* Frame f is the last of page p among the first mx frames of a file.
LastIn(fl, f, p, mx) ==
  /\ f \in 1..mx /\ fl.frame[f].pg = p
  /\ \A g \in f + 1..mx : fl.frame[g].pg # p
NoneIn(fl, p, mx) == \A g \in 1..mx : fl.frame[g].pg # p

\* The index has the first mx frames.
Recorded(mx) ==
  /\ mx <= MaxFrame
  /\ \A f \in 1..mx : shm.index[f] = file.frame[f].pg /\ file.frame[f].pg \in Page

\* What the first n frames hold and no later one is in the database.
Folded(n) ==
  \A p \in Page, f \in 1..n :
    LastIn(file, f, p, shm.h0.mx) => file.db[p] = file.frame[f].val

FilesV ==
  /\ DOMAIN file = {"db", "salt", "again", "frame", "gone"}
  /\ file.db \in [Page -> Val] /\ DOMAIN file.frame = Frame
  /\ \A f \in Frame : /\ DOMAIN file.frame[f] = DOMAIN NoFrame
                      /\ file.frame[f].pg \in Page \cup {0} /\ file.frame[f].val \in Val
  /\ DOMAIN shm.index = Frame
  /\ shm.h0 = None => file.salt = 0
  /\ shm.h0 # None => Recorded(shm.h0.mx) /\ Folded(shm.backfill)

\* The writer's frames, and the room for what it still has to put.
WriterV(x) ==
  x.tx # 0 =>
    /\ Recorded(x.hdr.mx)
    /\ x.first # 0 => x.first > shm.h0.mx
    /\ x.pc \in Marking => x.hdr = shm.h0 /\ shm.backfill = x.hdr.mx
    /\ x.pc # "writing" => x.todo \subseteq Page
    /\ x.pc \in Restarting \cup Marking \cup {"header", "syncHeader"}
         => x.todo # {} /\ x.hdr.mx + Cardinality(x.todo) <= MaxFrame
    /\ x.pc = "syncHeader" => x.hdr.mx = 0
    /\ x.pc = "publish" => x.commit
    /\ x.pc = "put" => x.todo # {} /\ x.cur + Cardinality(x.todo) <= MaxFrame
    /\ x.pc \in {"put", "recheck", "append"} =>
         x.cur <= MaxFrame /\ \A f \in x.hdr.mx + 1..x.cur : file.frame[f].pg \in Page

\* A reader's mark is in its snapshot, and what it leaves to the database is there.
ReaderV(x) ==
  /\ x.min \in Nat \ {0} /\ x.first \in Nat /\ (x.tx = 0 => x.first = 0)
  /\ x.pc \notin {"put", "recheck", "append"} => x.cur = 0
  /\ x.readLock > 0 => /\ shm.mark[x.readLock] <= x.hdr.mx
                       /\ shm.mark[x.readLock] <= shm.h0.mx
                       /\ x.min <= shm.backfill + 1
                       /\ x.tx = 0 => x.hdr.mx <= shm.h0.mx
  /\ x.pc \in {"claim", "raise", "share", "minFrame", "check"} => x.seen \in 0..x.hdr.mx
  /\ x.pc = "check" => x.min <= shm.backfill + 1

\* A checkpoint knows the last frame of each page, and what it has copied is
\* in the database.
CkptV(x) ==
  x.pc \in Folding =>
    /\ DOMAIN x.iter = Page
    /\ \A p \in Page : \/ x.iter[p] = 0 /\ NoneIn(file, p, x.hdr.mx)
                       \/ LastIn(file, x.iter[p], p, x.hdr.mx)
    /\ x.pc = "ckCopy" =>
         /\ x.todo \subseteq Page /\ shm.backfill < x.safe
         /\ \A p \in x.todo : x.iter[p] \in shm.backfill + 1..x.safe
         /\ \A p \in Page \ x.todo : x.iter[p] \in shm.backfill + 1..x.safe
              => file.db[p] = file.frame[x.iter[p]].val

\* What a checkpoint x may copy is in the snapshot of a reader y, or y's mark
\* is still to be looked at.
Bounded(x, y) ==
  x.pc \in Folding /\ y.readLock > 0 =>
    \/ x.safe <= y.hdr.mx
    \/ x.pc \in {"ckMark", "ckSet"} /\ x.i <= y.readLock
    \/ x.pc = "ckTake" /\ x.i <= y.readLock /\ (x.i = y.readLock => x.seen <= y.hdr.mx)

\* The checkpoint of the handle that closes the database folds all of the log.
CloseV ==
  closing # None =>
    /\ s[closing].pc \in {"ckGo"} \cup Folding => s[closing].hdr = shm.h0
    /\ s[closing].pc \in Folding => s[closing].safe = s[closing].hdr.mx
    /\ s[closing].pc = "ckEnd" => shm.h0 # None /\ shm.backfill = shm.h0.mx

VInv ==
  /\ FilesV
  /\ \A c \in Conn : WriterV(s[c]) /\ ReaderV(s[c]) /\ CkptV(s[c])
  /\ \A c, k \in Conn : Bounded(s[c], s[k])
  /\ \A c \in Conn : s[c].tx <= ntx
  /\ CloseV
  /\ ntx \in 0..MaxTx /\ stops = 0

-----------------------------------------------------------------------------
(* Which frame a page is read from.                                        *)

\* The largest of some frames' numbers, or 0.
LEMMA MaxOf ==
  ASSUME NEW n \in Nat, NEW S \in SUBSET (1..n)
  PROVE  \/ Max({0} \cup S) = 0 /\ S = {}
         \/ Max({0} \cup S) \in S /\ \A y \in S : y <= Max({0} \cup S)
<1> DEFINE T == {0} \cup S
<1>1. T \in SUBSET (0..n) /\ T # {}
  OBVIOUS
<1>2. Max(T) \in T /\ \A y \in T : Max(T) >= y
  <2>1. PICK x \in T : \A y \in T : x >= y
    <3> DEFINE U == {n - y : y \in T}
    <3>1. U \in SUBSET Nat /\ U # {}
      BY <1>1
    <3>2. PICK m \in U : \A y \in U : m <= y
      <4> HIDE DEF U
      <4> QED BY <3>1, LeastNatural
    <3>3. PICK x \in T : m = n - x
      BY <3>2
    <3>4. ASSUME NEW y \in T PROVE x >= y
      <4>1. n - y \in U /\ n - x <= n - y
        BY <3>2, <3>3
      <4> QED BY <1>1, <4>1
    <3> QED BY <3>4
  <2> HIDE DEF T
  <2>2. Max(T) = CHOOSE m \in T : \A y \in T : m >= y
    BY DEF Max
  <2> QED BY <2>1, <2>2
<1>3. CASE S = {}
  BY <1>2, <1>3
<1>4. CASE S # {}
  <2>1. PICK y \in S : y \in 1..n
    BY <1>4
  <2> QED BY <1>1, <1>2, <2>1
<1> QED BY <1>3, <1>4

\* sqlite3WalFindFrame's search, and that of walIteratorInit.
LEMMA LatestIs ==
  ASSUME NEW pageOf, NEW p, NEW lo \in Nat \ {0}, NEW hi \in Nat
  PROVE  \/ /\ Latest(pageOf, p, lo, hi) = 0
            /\ \A g \in lo..hi : pageOf[g] # p
         \/ /\ Latest(pageOf, p, lo, hi) \in lo..hi
            /\ pageOf[Latest(pageOf, p, lo, hi)] = p
            /\ \A g \in Latest(pageOf, p, lo, hi) + 1..hi : pageOf[g] # p
<1> DEFINE S == {f \in lo..hi : pageOf[f] = p}
<1>1. S \in SUBSET (1..hi)
  OBVIOUS
<1>2. \/ Max({0} \cup S) = 0 /\ S = {}
      \/ Max({0} \cup S) \in S /\ \A y \in S : y <= Max({0} \cup S)
  <2> HIDE DEF S
  <2> QED BY <1>1, MaxOf
<1>3. Latest(pageOf, p, lo, hi) = Max({0} \cup S)
  BY Zenon DEF Latest
<1>4. CASE Max({0} \cup S) = 0 /\ S = {}
  BY <1>3, <1>4
<1>5. CASE Max({0} \cup S) \in S /\ \A y \in S : y <= Max({0} \cup S)
  <2> DEFINE m == Max({0} \cup S)
  <2>1. m \in lo..hi /\ pageOf[m] = p /\ \A y \in S : y <= m
    BY <1>5
  <2> HIDE DEF m
  <2>2. \A g \in m + 1..hi : pageOf[g] # p
    BY <2>1
  <2> QED BY <1>3, <2>1, <2>2 DEF m
<1> QED BY <1>2, <1>4, <1>5

\* A page of a commit is its last frame, or else the database.
LEMMA PageIs ==
  ASSUME NEW fl, NEW mx \in Nat, NEW p \in Page
  PROVE  \/ NoneIn(fl, p, mx) /\ PagesAt(fl, mx)[p] = fl.db[p]
         \/ \E f \in 1..mx : LastIn(fl, f, p, mx) /\ PagesAt(fl, mx)[p] = fl.frame[f].val
<1> DEFINE S == {g \in 1..mx : fl.frame[g].pg = p}
           m == Max({0} \cup S)
<1>1. \/ m = 0 /\ S = {}
      \/ m \in S /\ \A y \in S : y <= m
  <2>1. S \in SUBSET (1..mx)
    OBVIOUS
  <2> HIDE DEF S
  <2> QED BY <2>1, MaxOf
<1>2. PagesAt(fl, mx)[p] = IF m = 0 THEN fl.db[p] ELSE fl.frame[m].val
  BY DEF PagesAt
<1>3. CASE m = 0 /\ S = {}
  BY <1>2, <1>3 DEF NoneIn
<1>4. CASE m \in S /\ \A y \in S : y <= m
  <2>1. m \in 1..mx /\ fl.frame[m].pg = p /\ \A y \in S : y <= m
    BY <1>4
  <2> HIDE DEF m
  <2>2. \A g \in m + 1..mx : fl.frame[g].pg # p
    BY <2>1
  <2> QED BY <1>2, <2>1, <2>2 DEF LastIn
<1> QED BY <1>1, <1>3, <1>4

\* There is one last frame.
LEMMA LastOnce ==
  ASSUME NEW fl, NEW mx \in Nat, NEW p, NEW f, NEW g,
         LastIn(fl, f, p, mx), LastIn(fl, g, p, mx)
  PROVE  f = g
  BY DEF LastIn

\* Two files have the same pages at a commit, if they have its frames and the
\* database of one has what that of the other has where there is no frame.
LEMMA PagesSame ==
  ASSUME NEW fl, NEW new, NEW mx \in Nat,
         \A f \in 1..mx : /\ new.frame[f].pg = fl.frame[f].pg
                          /\ new.frame[f].val = fl.frame[f].val,
         \A p \in Page : NoneIn(fl, p, mx) => new.db[p] = fl.db[p]
  PROVE  PagesAt(new, mx) = PagesAt(fl, mx)
<1>1. ASSUME NEW p \in Page PROVE PagesAt(new, mx)[p] = PagesAt(fl, mx)[p]
  <2>1. NoneIn(new, p, mx) <=> NoneIn(fl, p, mx)
    BY DEF NoneIn
  <2>2. \A f \in 1..mx : LastIn(new, f, p, mx) <=> LastIn(fl, f, p, mx)
    BY DEF LastIn
  <2>3. CASE NoneIn(fl, p, mx)
    <3>1. \A f \in 1..mx : ~LastIn(fl, f, p, mx)
      BY <2>3 DEF NoneIn, LastIn
    <3>2. PagesAt(fl, mx)[p] = fl.db[p]
      BY <3>1, PageIs
    <3>3. PagesAt(new, mx)[p] = new.db[p]
      BY <2>2, <3>1, PageIs
    <3> QED BY <2>3, <3>2, <3>3
  <2>4. CASE ~NoneIn(fl, p, mx)
    <3>1. PICK f \in 1..mx : LastIn(fl, f, p, mx) /\ PagesAt(fl, mx)[p] = fl.frame[f].val
      BY <2>4, PageIs
    <3>2. PICK g \in 1..mx : LastIn(new, g, p, mx) /\ PagesAt(new, mx)[p] = new.frame[g].val
      BY <2>1, <2>4, PageIs
    <3>3. f = g
      BY <2>2, <3>1, <3>2, LastOnce
    <3> QED BY <3>1, <3>2, <3>3
  <2> QED BY <2>3, <2>4
<1>2. /\ DOMAIN PagesAt(new, mx) = Page /\ DOMAIN PagesAt(fl, mx) = Page
      /\ PagesAt(new, mx) = [p \in Page |-> PagesAt(new, mx)[p]]
      /\ PagesAt(fl, mx) = [p \in Page |-> PagesAt(fl, mx)[p]]
  BY DEF PagesAt
<1>3. [p \in Page |-> PagesAt(new, mx)[p]] = [p \in Page |-> PagesAt(fl, mx)[p]]
  BY <1>1, Zenon
<1> QED BY <1>2, <1>3, Zenon

\* What a connection with the variables x reads of page p.
SeenBy(x, index, fl, p) ==
  {f \in Frame : \/ x.readLock > 0 /\ f >= x.min /\ f <= x.hdr.mx /\ index[f] = p
                 \/ f > x.hdr.mx /\ f <= x.cur /\ fl.frame[f].pg = p}
ReadBy(x, index, fl, p) ==
  LET f == Max({0} \cup SeenBy(x, index, fl, p))
  IN IF f = 0 THEN fl.db[p] ELSE fl.frame[f].val

\* What is read is the latest frame seen, or else the database.
LEMMA ReadIs ==
  ASSUME NEW x, NEW index, NEW fl, NEW p
  PROVE  \/ SeenBy(x, index, fl, p) = {} /\ ReadBy(x, index, fl, p) = fl.db[p]
         \/ \E f \in SeenBy(x, index, fl, p) :
              /\ \A g \in SeenBy(x, index, fl, p) : g <= f
              /\ ReadBy(x, index, fl, p) = fl.frame[f].val
<1> DEFINE S == SeenBy(x, index, fl, p)
<1>1. S \in SUBSET (1..MaxFrame)
  BY DEF SeenBy, Frame
<1>2. ReadBy(x, index, fl, p) =
        IF Max({0} \cup S) = 0 THEN fl.db[p] ELSE fl.frame[Max({0} \cup S)].val
  BY Zenon DEF ReadBy
<1> HIDE DEF S
<1> DEFINE m == Max({0} \cup S)
<1>3. \/ m = 0 /\ S = {}
      \/ m \in S /\ \A y \in S : y <= m
  BY <1>1, MaxOf, WalAssumption
<1>4. ReadBy(x, index, fl, p) = IF m = 0 THEN fl.db[p] ELSE fl.frame[m].val
  BY <1>2
<1> HIDE DEF m
<1>5. m \in S => m # 0
  BY <1>1
<1>6. \/ S = {} /\ ReadBy(x, index, fl, p) = fl.db[p]
      \/ \E f \in S : (\A g \in S : g <= f) /\ ReadBy(x, index, fl, p) = fl.frame[f].val
  BY <1>3, <1>4, <1>5
<1> QED BY <1>6 DEF S

\* It reads the same if it sees the same frames, or none and the same database.
LEMMA ReadSame ==
  ASSUME NEW x, NEW index, NEW fl, NEW x2, NEW index2, NEW fl2, NEW p,
         SeenBy(x2, index2, fl2, p) = SeenBy(x, index, fl, p),
         \A f \in SeenBy(x, index, fl, p) : fl2.frame[f].val = fl.frame[f].val,
         SeenBy(x, index, fl, p) = {} => fl2.db[p] = fl.db[p]
  PROVE  ReadBy(x2, index2, fl2, p) = ReadBy(x, index, fl, p)
<1> DEFINE S == SeenBy(x, index, fl, p)
<1>1. CASE S = {}
  BY <1>1, ReadIs
<1>2. CASE S # {}
  <2>1. PICK f \in S : /\ \A g \in S : g <= f
                       /\ ReadBy(x, index, fl, p) = fl.frame[f].val
    BY <1>2, ReadIs
  <2>2. PICK h \in S : /\ \A g \in S : g <= h
                       /\ ReadBy(x2, index2, fl2, p) = fl2.frame[h].val
    BY <1>2, ReadIs
  <2>3. f \in Int /\ h \in Int
    BY DEF SeenBy, Frame
  <2>4. f = h
    BY <2>1, <2>2, <2>3
  <2> QED BY <2>1, <2>2, <2>4
<1> QED BY <1>1, <1>2

\* A connection with the header of a commit reads that commit, if its part of
\* the index is right and the database has what it does not look up there.
Indexed(x, index, fl, mx) ==
  x.readLock > 0 => \A f \in 1..mx : index[f] = fl.frame[f].pg
RestIsIn(x, fl, p, mx) ==
  \A f \in 1..mx : (x.readLock > 0 => f < x.min) /\ LastIn(fl, f, p, mx)
                     => fl.db[p] = fl.frame[f].val

\* ... which is what the commit has.
LEMMA ReadsCommit ==
  ASSUME NEW x, NEW index, NEW fl, NEW mx \in Nat, NEW p \in Page,
         mx <= MaxFrame, x.hdr.mx = mx, x.cur = 0, x.min \in Nat \ {0}, x.readLock \in Int,
         Indexed(x, index, fl, mx), RestIsIn(x, fl, p, mx)
  PROVE  ReadBy(x, index, fl, p) = PagesAt(fl, mx)[p]
<1> DEFINE S == SeenBy(x, index, fl, p)
<1>1. \A f \in S : /\ f \in 1..mx /\ f >= x.min /\ x.readLock > 0
                   /\ fl.frame[f].pg = p
  BY DEF SeenBy, Frame, Indexed
<1>2. \A f \in 1..mx : f >= x.min /\ x.readLock > 0 /\ fl.frame[f].pg = p => f \in S
  BY WalAssumption DEF SeenBy, Frame, Indexed
<1>3. \/ S = {} /\ ReadBy(x, index, fl, p) = fl.db[p]
      \/ \E f \in S : /\ \A g \in S : g <= f
                      /\ ReadBy(x, index, fl, p) = fl.frame[f].val
  BY ReadIs
<1> HIDE DEF S
<1>4. CASE NoneIn(fl, p, mx) /\ PagesAt(fl, mx)[p] = fl.db[p]
  <2>1. S = {}
    BY <1>1, <1>4 DEF NoneIn
  <2> QED BY <1>3, <1>4, <2>1
<1>5. ASSUME NEW f \in 1..mx, LastIn(fl, f, p, mx), PagesAt(fl, mx)[p] = fl.frame[f].val
      PROVE  ReadBy(x, index, fl, p) = PagesAt(fl, mx)[p]
  <2>1. fl.frame[f].pg = p /\ \A g \in 1..mx : fl.frame[g].pg = p => g <= f
    BY <1>5 DEF LastIn
  <2>2. CASE x.readLock > 0 => f < x.min
    <3>1. S = {}
      BY <1>1, <2>1, <2>2
    <3> QED BY <1>3, <1>5, <2>2, <3>1 DEF RestIsIn
  <2>3. CASE x.readLock > 0 /\ f >= x.min
    <3>1. f \in S /\ \A g \in S : g <= f
      BY <1>1, <1>2, <2>1, <2>3
    <3>2. PICK h \in S : /\ \A g \in S : g <= h
                         /\ ReadBy(x, index, fl, p) = fl.frame[h].val
      BY <1>3, <3>1
    <3>3. f <= h /\ h <= f /\ h \in Int
      BY <1>1, <3>1, <3>2
    <3>4. h = f
      BY <3>3
    <3> QED BY <1>5, <3>2, <3>4
  <2> QED BY <2>2, <2>3
<1>6. \/ NoneIn(fl, p, mx) /\ PagesAt(fl, mx)[p] = fl.db[p]
      \/ \E f \in 1..mx : LastIn(fl, f, p, mx) /\ PagesAt(fl, mx)[p] = fl.frame[f].val
  BY PageIs
<1> QED BY <1>4, <1>5, <1>6

-----------------------------------------------------------------------------
(* The steps of SnapshotStore, in terms of its variables.                  *)

InTx(x) == x.readLock # -1 \/ x.tx # 0
InSeal(x) == x.pc \in {"append", "publish"} /\ x.commit
View == [c \in Conn |-> IF InTx(s[c]) THEN [p \in Page |-> Read(c, p)] ELSE None]
Writer == IF \E c \in Conn : s[c].tx # 0 THEN CHOOSE c \in Conn : s[c].tx # 0 ELSE None
Sealed == \E c \in Conn : InSeal(s[c])
Snap == <<Store, kept, View, Writer, Sealed>>
SnapStep == Snapshots!Next \/ Snap' = Snap

\* The variables of SnapshotStore under the mapping of Wal.
LEMMA SnapVars == Snapshots!vars = Snap /\ Snapshots!vars' = Snap'
<1>1. Snapshots!vars = Snap
  BY Zenon DEF Snapshots!vars, Snap, View, Writer, Sealed, InTx, InSeal
<1>2. Snapshots!vars' = Snap'
  BY Zenon DEF Snapshots!vars, Snap, View, Writer, Sealed, InTx, InSeal
<1> QED BY <1>1, <1>2

\* A step that opens the transaction of c on the last commit.
LEMMA SnapBegin ==
  ASSUME NEW c \in Conn, View[c] = None, View'[c] # None,
         View' = [View EXCEPT ![c] = Store],
         UNCHANGED <<Store, kept, Writer, Sealed>>
  PROVE  SnapStep
<1>1. Snapshots!Begin(c)
  BY Zenon DEF Snapshots!Begin, View, Writer, Sealed, InTx, InSeal
<1>2. Snapshots!Next \/ Snap' = Snap
  BY <1>1, Zenon DEF Snapshots!Next, Snapshots!vars, Snap, View, Writer, Sealed, InTx, InSeal
<1> QED BY <1>2 DEF SnapStep

\* A step that ends the transaction of c.
LEMMA SnapEnd ==
  ASSUME NEW c \in Conn, View[c] # None, View'[c] = None, Writer # c,
         View' = [View EXCEPT ![c] = None],
         UNCHANGED <<Store, kept, Writer, Sealed>>
  PROVE  SnapStep
<1>1. Snapshots!End(c)
  BY Zenon DEF Snapshots!End, View, Writer, Sealed, InTx, InSeal
<1>2. Snapshots!Next \/ Snap' = Snap
  BY <1>1, Zenon DEF Snapshots!Next, Snapshots!vars, Snap, View, Writer, Sealed, InTx, InSeal
<1> QED BY <1>2 DEF SnapStep

\* A step that makes c the writer.
LEMMA SnapBeginWrite ==
  ASSUME NEW c \in Conn, Writer = None, Writer' = c, View[c] = Store,
         UNCHANGED <<Store, kept, View, Sealed>>
  PROVE  SnapStep
<1>1. Snapshots!BeginWrite(c)
  BY Zenon DEF Snapshots!BeginWrite, View, Writer, Sealed, InTx, InSeal
<1>2. Snapshots!Next \/ Snap' = Snap
  BY <1>1, Zenon DEF Snapshots!Next, Snapshots!vars, Snap, View, Writer, Sealed, InTx, InSeal
<1> QED BY <1>2 DEF SnapStep

\* A step that changes one page of what the writer reads.
LEMMA SnapWrite ==
  ASSUME NEW c \in Conn, NEW p \in Page, Writer = c, ~Sealed, View'[c] \in [Page -> Val],
         View' = [View EXCEPT ![c][p] = View'[c][p]],
         UNCHANGED <<Store, kept, Writer>>
  PROVE  SnapStep
<1>1. Sealed' \in BOOLEAN
  BY DEF Sealed
<1>2. Snapshots!Write(c)
  BY <1>1, Zenon DEF Snapshots!Write, Snapshots!Pages, View, Writer, Sealed, InTx, InSeal
<1>3. Snapshots!Next \/ Snap' = Snap
  BY <1>2, Zenon DEF Snapshots!Next, Snapshots!vars, Snap, View, Writer, Sealed, InTx, InSeal
<1> QED BY <1>3 DEF SnapStep

\* A step that makes what the writer reads the last commit.
LEMMA SnapCommit ==
  ASSUME NEW c \in Conn, Writer = c, Sealed, Writer' = None, ~Sealed',
         Store' = View[c], kept' = kept \cup {View[c]}, UNCHANGED View
  PROVE  SnapStep
<1>1. Sealed' = FALSE
  BY DEF Sealed
<1>2. Snapshots!Commit(c)
  BY <1>1, Zenon DEF Snapshots!Commit, View, Writer, Sealed, InTx, InSeal
<1>3. Snapshots!Next \/ Snap' = Snap
  BY <1>2, Zenon DEF Snapshots!Next, Snapshots!vars, Snap, View, Writer, Sealed, InTx, InSeal
<1> QED BY <1>3 DEF SnapStep

\* A step that gives the writer the last commit back.
LEMMA SnapRollback ==
  ASSUME NEW c \in Conn, Writer = c, ~Sealed, Writer' = None,
         View' = [View EXCEPT ![c] = Store], UNCHANGED <<Store, kept, Sealed>>
  PROVE  SnapStep
<1>1. Snapshots!Rollback(c)
  BY Zenon DEF Snapshots!Rollback, View, Writer, Sealed, InTx, InSeal
<1>2. Snapshots!Next \/ Snap' = Snap
  BY <1>1, Zenon DEF Snapshots!Next, Snapshots!vars, Snap, View, Writer, Sealed, InTx, InSeal
<1> QED BY <1>2 DEF SnapStep

\* A step after which only the last commit survives.
LEMMA SnapSync ==
  ASSUME kept' = {Store}, UNCHANGED <<Store, View, Writer, Sealed>>
  PROVE  SnapStep
<1>1. Snapshots!Sync
  BY Zenon DEF Snapshots!Sync, View, Writer, Sealed, InTx, InSeal
<1>2. Snapshots!Next \/ Snap' = Snap
  BY <1>1, Zenon DEF Snapshots!Next, Snapshots!vars, Snap, View, Writer, Sealed, InTx, InSeal
<1> QED BY <1>2 DEF SnapStep

\* A step that SnapshotStore does not see.
LEMMA SnapStutter ==
  ASSUME UNCHANGED <<Store, kept, View, Writer, Sealed>>
  PROVE  SnapStep
  BY Zenon DEF SnapStep, Snap

-----------------------------------------------------------------------------
(* What a step leaves to SnapshotStore.                                    *)

\* Wal!Read in terms of the variables it depends on, before and after a step.
LEMMA ReadNow ==
  ASSUME NEW c, NEW p
  PROVE  /\ Read(c, p) = ReadBy(s[c], shm.index, file, p)
         /\ Read(c, p)' = ReadBy(s'[c], shm'.index, file', p)
<1>1. Read(c, p) = ReadBy(s[c], shm.index, file, p)
  BY Zenon DEF Read, ReadBy, SeenBy
<1>2. Read(c, p)' = ReadBy(s'[c], shm'.index, file', p)
  BY Zenon DEF Read, ReadBy, SeenBy
<1> QED BY <1>1, <1>2

\* Who has the write lock.
LEMMA WriterIs ==
  ASSUME IInv, NEW c \in Conn
  PROVE  /\ s[c].tx # 0 => Writer = c
         /\ Writer = c => s[c].tx # 0
         /\ (\A k \in Conn : s[k].tx = 0) <=> Writer = None
<1>1. ASSUME NEW k \in Conn, s[k].tx # 0 PROVE Writer = k
  <2>1. \A j \in Conn \ {k} : s[j].tx = 0
    BY <1>1, OneWriter
  <2>2. \E j \in Conn : s[j].tx # 0
    BY <1>1
  <2>3. (CHOOSE j \in Conn : s[j].tx # 0) = k
    BY <1>1, <2>1
  <2> QED BY <2>2, <2>3, Zenon DEF Writer
<1>2. (\A k \in Conn : s[k].tx = 0) => Writer = None
  BY DEF Writer
<1>3. c # None /\ \A k \in Conn : k # None
  BY WalAssumption
<1> QED BY <1>1, <1>2, <1>3

\* ... and who has it after a step.
LEMMA WriterNext ==
  ASSUME NEW c \in Conn
  PROVE  /\ s'[c].tx # 0 /\ (\A k \in Conn \ {c} : s'[k].tx = 0) => Writer' = c
         /\ (\A k \in Conn : s'[k].tx = 0) => Writer' = None
<1>1. ASSUME s'[c].tx # 0, \A k \in Conn \ {c} : s'[k].tx = 0 PROVE Writer' = c
  <2>1. \E j \in Conn : s'[j].tx # 0
    BY <1>1
  <2>2. (CHOOSE j \in Conn : s'[j].tx # 0) = c
    BY <1>1
  <2> QED BY <2>1, <2>2, Zenon DEF Writer
<1>2. (\A k \in Conn : s'[k].tx = 0) => Writer' = None
  BY DEF Writer
<1> QED BY <1>1, <1>2

\* The writer stays if the step of c does not make or end one.
LEMMA SameWriter ==
  ASSUME IInv, NEW c \in Conn, NEW x, Set(c, x), x.tx = 0 <=> s[c].tx = 0
  PROVE  Writer' = Writer
<1>1. s'[c] = x /\ \A k \in Conn \ {c} : s'[k] = s[k]
  BY OneMoves DEF IInv
<1>2. \A k \in Conn : s'[k].tx = 0 <=> s[k].tx = 0
  BY <1>1
<1>3. CASE \A k \in Conn : s[k].tx = 0
  BY <1>2, <1>3, WriterIs, WriterNext
<1>4. ASSUME NEW w \in Conn, s[w].tx # 0 PROVE Writer' = Writer
  <2>1. \A k \in Conn \ {w} : s[k].tx = 0
    BY <1>4, OneWriter
  <2> QED BY <1>2, <1>4, <2>1, WriterIs, WriterNext
<1> QED BY <1>3, <1>4

\* So does a sealed commit.
LEMMA SameSealed ==
  ASSUME IInv, NEW c \in Conn, NEW x, Set(c, x), InSeal(x) <=> InSeal(s[c])
  PROVE  Sealed' = Sealed
<1>1. s'[c] = x /\ \A k \in Conn \ {c} : s'[k] = s[k]
  BY OneMoves DEF IInv
<1>2. \A k \in Conn : InSeal(s'[k]) <=> InSeal(s[k])
  BY <1>1
<1>3. (\E k \in Conn : InSeal(s'[k])) <=> (\E k \in Conn : InSeal(s[k]))
  BY <1>2
<1>4. Sealed' = (\E k \in Conn : InSeal(s'[k])) /\ Sealed = (\E k \in Conn : InSeal(s[k]))
  BY Zenon DEF Sealed, InSeal
<1> QED BY <1>3, <1>4, Zenon

\* Only the writer seals.
LEMMA SealedIs ==
  ASSUME IInv, NEW c \in Conn, s[c].tx # 0
  PROVE  Sealed <=> InSeal(s[c])
<1>1. \A k \in Conn \ {c} : ~InSeal(s[k])
  BY OneWriter DEF InSeal, Framing
<1> QED BY <1>1 DEF Sealed

\* The views of those that read what they read before.
LEMMA ViewsAre ==
  ASSUME NEW c \in Conn
  PROVE  /\ View[c] = IF InTx(s[c]) THEN [p \in Page |-> Read(c, p)] ELSE None
         /\ View'[c] = IF InTx(s'[c]) THEN [p \in Page |-> Read(c, p)'] ELSE None
<1>1. View[c] = IF InTx(s[c]) THEN [p \in Page |-> Read(c, p)] ELSE None
  <2> HIDE DEF InTx, Read
  <2> QED BY DEF View
<1>2. View' = [k \in Conn |-> IF InTx(s'[k]) THEN [p \in Page |-> Read(k, p)'] ELSE None]
  BY Zenon DEF View, InTx
<1> QED BY <1>1, <1>2

\* A connection that reads the same pages has the same view.
LEMMA SameViewOf ==
  ASSUME NEW c \in Conn, InTx(s'[c]) <=> InTx(s[c]),
         InTx(s[c]) => \A p \in Page : ReadBy(s'[c], shm'.index, file', p) =
                                         ReadBy(s[c], shm.index, file, p)
  PROVE  View'[c] = View[c]
<1>1. InTx(s[c]) => \A p \in Page : Read(c, p)' = Read(c, p)
  BY ReadNow
<1>2. CASE InTx(s[c])
  <2>1. [p \in Page |-> Read(c, p)'] = [p \in Page |-> Read(c, p)]
    BY <1>1, <1>2, Zenon
  <2> QED BY <1>2, <2>1, ViewsAre, Zenon
<1>3. CASE ~InTx(s[c])
  BY <1>3, ViewsAre
<1> QED BY <1>2, <1>3

\* The views are the same if each is.
LEMMA SameView ==
  ASSUME \A c \in Conn : View'[c] = View[c]
  PROVE  View' = View
<1>1. View = [c \in Conn |-> View[c]]
  BY DEF View
<1>2. View' = [c \in Conn |-> View'[c]]
  BY DEF View
<1>3. [c \in Conn |-> View'[c]] = [c \in Conn |-> View[c]]
  BY Zenon
<1> QED BY <1>1, <1>2, <1>3, Zenon

\* Variables x see the frames that y see, whatever the files hold.
SameEyes(x, y) ==
  /\ InTx(x) <=> InTx(y)
  /\ InTx(y) =>
       /\ x.readLock > 0 <=> y.readLock > 0
       /\ x.readLock > 0 => x.min = y.min /\ x.hdr.mx = y.hdr.mx
       /\ \/ x.cur = y.cur /\ x.hdr.mx = y.hdr.mx
          \/ x.cur <= x.hdr.mx /\ y.cur <= y.hdr.mx

\* ... so they see the same frames.
LEMMA EyesSee ==
  ASSUME NEW x, NEW y, Local(x), Local(y), InTx(y), SameEyes(x, y), NEW index, NEW fl, NEW p
  PROVE  SeenBy(x, index, fl, p) = SeenBy(y, index, fl, p)
<1>1. x.cur \in Int /\ y.cur \in Int /\ x.hdr.mx \in Int /\ y.hdr.mx \in Int
  BY DEF Local, Hdr
<1>2. \A f \in Frame : f > x.hdr.mx /\ f <= x.cur <=> f > y.hdr.mx /\ f <= y.cur
  BY <1>1 DEF SameEyes, Frame
<1>3. \A f \in Frame : x.readLock > 0 /\ f >= x.min /\ f <= x.hdr.mx /\ index[f] = p
                         <=> y.readLock > 0 /\ f >= y.min /\ f <= y.hdr.mx /\ index[f] = p
  BY DEF SameEyes
<1> QED BY <1>2, <1>3 DEF SeenBy

\* Steps that change only the variables of c, and what no view depends on.
Calm(c, x) ==
  /\ Set(c, x)
  /\ shm'.h0 = shm.h0 /\ shm'.backfill = shm.backfill /\ shm'.index = shm.index
  /\ \A k \in Conn : s'[k].readLock > 0 =>
       shm'.mark[s'[k].readLock] = shm.mark[s'[k].readLock]
  /\ DOMAIN file' = DOMAIN file /\ file'.db = file.db /\ file'.frame = file.frame
  /\ shm.h0 = None => file'.salt = file.salt
  /\ ntx' \in ntx..MaxTx /\ x.tx <= ntx' /\ stops' = stops
  /\ WriterV(x) /\ ReaderV(x) /\ CkptV(x)
  /\ \A k \in Conn \ {c} : Bounded(x, s[k]) /\ Bounded(s[k], x)
  /\ closing' # None =>
       /\ closing' = c
       /\ x.pc \in {"ckGo"} \cup Folding => x.hdr = shm.h0
       /\ x.pc \in Folding => x.safe = x.hdr.mx
       /\ x.pc = "ckEnd" => shm.h0 # None /\ shm.backfill = shm.h0.mx

\* A calm step keeps the invariant.
LEMMA CalmKeepsV ==
  ASSUME IInv, VInv, NEW c \in Conn, NEW x, Calm(c, x), Local(x)
  PROVE  VInv'
<1>1. s'[c] = x /\ \A k \in Conn \ {c} : s'[k] = s[k]
  BY OneMoves DEF IInv, Calm
<1>2. /\ shm'.h0 = shm.h0 /\ shm'.backfill = shm.backfill /\ shm'.index = shm.index
      /\ \A k \in Conn : s'[k].readLock > 0 =>
           shm'.mark[s'[k].readLock] = shm.mark[s'[k].readLock]
      /\ DOMAIN file' = DOMAIN file /\ file'.db = file.db /\ file'.frame = file.frame
      /\ shm.h0 = None => file'.salt = file.salt
  BY DEF Calm
<1>3. FilesV'
  BY <1>2 DEF VInv, FilesV, Recorded, Folded, LastIn
<1>4. \A k \in Conn : WriterV(s'[k]) /\ ReaderV(s'[k]) /\ CkptV(s'[k])
  BY <1>1 DEF VInv, Calm
<1>5. \A k \in Conn : WriterV(s[k])' /\ ReaderV(s[k])' /\ CkptV(s[k])'
  <2> SUFFICES ASSUME NEW k \in Conn PROVE WriterV(s[k])' /\ ReaderV(s[k])' /\ CkptV(s[k])'
    OBVIOUS
  <2>1. WriterV(s[k])'
    BY <1>2, <1>4 DEF WriterV, Recorded
  <2>2. ReaderV(s[k])'
    BY <1>2, <1>4 DEF ReaderV
  <2>3. CkptV(s[k])'
    BY <1>2, <1>4 DEF CkptV, NoneIn, LastIn
  <2> QED BY <2>1, <2>2, <2>3
<1>6. \A k, j \in Conn : Bounded(s[k], s[j])'
  <2>1. \A k, j \in Conn : Bounded(s'[k], s'[j])
    <3>1. Bounded(x, x)
      BY DEF Bounded, Local, Folding, Restarting, Framing
    <3> QED BY <1>1, <3>1 DEF VInv, Calm
  <2> QED BY <2>1 DEF Bounded
<1>7. CloseV'
  BY <1>1, <1>2 DEF Calm, CloseV
<1>8. ntx' \in 0..MaxTx /\ stops' = 0 /\ \A k \in Conn : s'[k].tx <= ntx'
  <2>1. \A k \in Conn : s'[k].tx <= ntx'
    BY <1>1 DEF VInv, Calm, IInv, Local
  <2> QED BY <2>1 DEF VInv, Calm
<1> QED BY <1>3, <1>5, <1>6, <1>7, <1>8 DEF VInv

\* A log without a header has no frame to recover.
LEMMA NoLogNoMx ==
  ASSUME NEW fl, fl.salt = 0
  PROVE  RecoveredMx(fl) = 0
<1>1. {f \in Frame : \E last \in f..MaxFrame :
         /\ fl.salt # 0 /\ fl.frame[last].last
         /\ \A g \in 1..last : Valid(fl, g)} = {}
  OBVIOUS
<1> QED BY <1>1, FS_EmptySet, Zenon DEF RecoveredMx

\* A calm step keeps the last commit, and the views of those that see the same.
LEMMA CalmViews ==
  ASSUME IInv, VInv, NEW c \in Conn, NEW x, Calm(c, x), Local(x)
  PROVE  /\ Store' = Store
         /\ \A k \in Conn \ {c} : View'[k] = View[k]
         /\ SameEyes(x, s[c]) => View' = View
<1>1. s'[c] = x /\ \A k \in Conn \ {c} : s'[k] = s[k]
  BY OneMoves DEF IInv, Calm
<1>2. /\ shm'.h0 = shm.h0 /\ shm'.index = shm.index
      /\ file'.db = file.db /\ file'.frame = file.frame
      /\ shm.h0 = None => file'.salt = file.salt
  BY DEF Calm
<1>3. ASSUME NEW mx \in Nat PROVE PagesAt(file', mx) = PagesAt(file, mx)
  BY <1>2, PagesSame
<1>4. Store' = Store
  <2>1. CASE shm.h0 = None
    <3>1. RecoveredMx(file) = 0 /\ RecoveredMx(file') = 0
      BY <1>2, <2>1, NoLogNoMx DEF VInv, FilesV
    <3>2. Store = PagesAt(file, 0) /\ Store' = PagesAt(file', 0)
      BY <1>2, <2>1, <3>1, Zenon DEF Store
    <3> QED BY <1>3, <3>2
  <2>2. CASE shm.h0 # None
    <3>1. Store = PagesAt(file, shm.h0.mx) /\ Store' = PagesAt(file', shm.h0.mx)
      BY <1>2, <2>2, Zenon DEF Store
    <3>2. shm.h0.mx \in Nat
      BY <2>2 DEF IInv, TypesOK, Hdr
    <3> QED BY <1>3, <3>1, <3>2
  <2> QED BY <2>1, <2>2
<1>5. ASSUME NEW y, NEW p
      PROVE  ReadBy(y, shm'.index, file', p) = ReadBy(y, shm.index, file, p)
  <2>1. SeenBy(y, shm'.index, file', p) = SeenBy(y, shm.index, file, p)
    BY <1>2 DEF SeenBy
  <2> QED BY <1>2, <2>1, ReadSame
<1>6. \A k \in Conn \ {c} : View'[k] = View[k]
  BY <1>1, <1>5, SameViewOf
<1>7. ASSUME SameEyes(x, s[c]) PROVE View' = View
  <2>1. ASSUME InTx(s[c]), NEW p \in Page
        PROVE  ReadBy(x, shm'.index, file', p) = ReadBy(s[c], shm.index, file, p)
    <3>1. SeenBy(x, shm.index, file, p) = SeenBy(s[c], shm.index, file, p)
      BY <1>7, <2>1, EyesSee DEF IInv
    <3> QED BY <1>5, <3>1, ReadSame
  <2>2. InTx(s'[c]) <=> InTx(s[c])
    BY <1>1, <1>7 DEF SameEyes
  <2>3. View'[c] = View[c]
    BY <1>1, <2>1, <2>2, SameViewOf
  <2> QED BY <1>6, <2>3, SameView
<1> QED BY <1>4, <1>6, <1>7

\* A calm step that SnapshotStore does not see.
LEMMA CalmStutters ==
  ASSUME IInv, VInv, NEW c \in Conn, NEW x, Calm(c, x), Local(x), SameEyes(x, s[c]),
         x.tx = 0 <=> s[c].tx = 0, InSeal(x) <=> InSeal(s[c]), kept' = kept \/ kept' = {Store}
  PROVE  VInv' /\ SnapStep
<1>1. VInv' /\ Store' = Store /\ View' = View
  BY CalmKeepsV, CalmViews
<1>2. Writer' = Writer /\ Sealed' = Sealed
  BY SameWriter, SameSealed DEF Calm
<1> QED BY <1>1, <1>2, SnapStutter, SnapSync

-----------------------------------------------------------------------------
(* Steps on the way to a read lock, and those of a checkpoint.             *)

\* A calm step of a connection that has no read lock; it may change a mark
\* that it has locked.
LEMMA AsideMark ==
  ASSUME IInv, VInv, NEW c \in Conn, NEW x, Set(c, x), Local(x),
         shm'.h0 = shm.h0, shm'.backfill = shm.backfill, shm'.index = shm.index,
         \A l \in Slot : shm'.mark[l] = shm.mark[l] \/ excl[ReadLock(l)] = c,
         UNCHANGED <<file, ntx, stops, closing>>, kept' = kept \/ kept' = {Store},
         s[c].readLock = -1, x.readLock = -1, x.tx = s[c].tx,
         s[c].pc \notin Framing, x.pc \notin Framing,
         WriterV(x), ReaderV(x), CkptV(x), \A k \in Conn \ {c} : Bounded(x, s[k]),
         closing # None =>
           /\ closing = c
           /\ x.pc \in {"ckGo"} \cup Folding => x.hdr = shm.h0
           /\ x.pc \in Folding => x.safe = x.hdr.mx
           /\ x.pc = "ckEnd" => shm.h0 # None /\ shm.backfill = shm.h0.mx
  PROVE  VInv' /\ SnapStep
<1>1. /\ x.cur = 0 /\ s[c].cur = 0 /\ x.hdr.mx \in Nat /\ s[c].hdr.mx \in Nat
      /\ s[c].tx <= ntx /\ ntx \in 0..MaxTx
  BY DEF VInv, ReaderV, IInv, Local, Hdr, Framing
<1>2. Calm(c, x)
  <2>1. \A k \in Conn \ {c} : Bounded(s[k], x)
    BY DEF Bounded
  <2>2. ASSUME NEW k \in Conn, s'[k].readLock > 0
        PROVE  shm'.mark[s'[k].readLock] = shm.mark[s'[k].readLock]
    <3>1. k # c /\ s'[k] = s[k]
      BY <2>2, OneMoves DEF IInv
    <3>2. s[k].readLock \in Slot
      BY <2>2, <3>1 DEF IInv, Local, Slot
    <3>3. k \in shrd[ReadLock(s[k].readLock)] /\ ReadLock(s[k].readLock) \in Lock
      BY <3>2, LocksNow, LockSets DEF HoldsShared, Slot
    <3>4. excl[ReadLock(s[k].readLock)] = None
      BY <3>3, LocksNow
    <3> QED BY <3>1, <3>2, <3>4, LocksNow
  <2> QED BY <1>1, <2>1, <2>2, WalAssumption DEF Calm
<1>3. SameEyes(x, s[c])
  BY <1>1 DEF SameEyes, InTx
<1>4. InSeal(x) <=> InSeal(s[c])
  BY DEF InSeal, Framing
<1> QED BY <1>2, <1>3, <1>4, CalmStutters

\* A calm step of a connection that has no read lock, and touches no mark.
LEMMA Aside ==
  ASSUME IInv, VInv, NEW c \in Conn, NEW x, Set(c, x), Local(x),
         UNCHANGED <<shm, file, ntx, stops, closing>>, kept' = kept \/ kept' = {Store},
         s[c].readLock = -1, x.readLock = -1, x.tx = s[c].tx,
         s[c].pc \notin Framing, x.pc \notin Framing,
         WriterV(x), ReaderV(x), CkptV(x), \A k \in Conn \ {c} : Bounded(x, s[k]),
         closing # None =>
           /\ closing = c
           /\ x.pc \in {"ckGo"} \cup Folding => x.hdr = shm.h0
           /\ x.pc \in Folding => x.safe = x.hdr.mx
           /\ x.pc = "ckEnd" => shm.h0 # None /\ shm.backfill = shm.h0.mx
  PROVE  VInv' /\ SnapStep
<1>1. /\ shm'.h0 = shm.h0 /\ shm'.backfill = shm.backfill /\ shm'.index = shm.index
      /\ \A l \in Slot : shm'.mark[l] = shm.mark[l] \/ excl[ReadLock(l)] = c
  OBVIOUS
<1> QED BY <1>1, AsideMark

\* A connection between calls.
LEMMA FreshV ==
  ASSUME NEW again
  PROVE  /\ WriterV(Fresh(again)) /\ ReaderV(Fresh(again)) /\ CkptV(Fresh(again))
         /\ \A y : Bounded(Fresh(again), y)
         /\ Fresh(again).tx = 0 /\ Fresh(again).readLock = -1 /\ Fresh(again).pc = "idle"
  BY DEF Fresh, WriterV, ReaderV, CkptV, Bounded, Folding

\* The call is over.
LEMMA AsideFresh ==
  ASSUME IInv, VInv, NEW c \in Conn, NEW again, Set(c, Fresh(again)),
         UNCHANGED <<shm, file, ntx, stops, closing>>, kept' = kept \/ kept' = {Store},
         s[c].readLock = -1, s[c].tx = 0,
         closing # None => closing = c
  PROVE  VInv' /\ SnapStep
<1>1. PICK x : x = Fresh(again)
  OBVIOUS
<1>2. Local(x)
  BY <1>1, FreshOK
<1>3. /\ WriterV(x) /\ ReaderV(x) /\ CkptV(x) /\ \A y : Bounded(x, y)
      /\ x.tx = 0 /\ x.readLock = -1 /\ x.pc = "idle"
  BY <1>1, FreshV
<1>4. s[c].pc \notin Framing
  BY DEF IInv, Local
<1> QED BY <1>1, <1>2, <1>3, <1>4, Aside DEF Framing, Folding

\* walIndexReadHdr, the first try.
LEMMA ReadHdrSnap ==
  ASSUME IInv, VInv, IInv', NEW c \in Conn, NEW ckpt \in BOOLEAN, s[c].pc = "idle",
         closing # None => closing = c,
         ReadHdr(c, ckpt), UNCHANGED <<shm, file, kept, closing, ntx, stops>>
  PROVE  VInv' /\ SnapStep
<1>1. PICK x : /\ Set(c, x)
               /\ \/ x = [s[c] EXCEPT !.hdr = shm.h0, !.ckpt = ckpt,
                                      !.pc = IF ckpt THEN "ckGo" ELSE "begin"]
                  \/ x = [s[c] EXCEPT !.ckpt = ckpt, !.pc = "hdrLocked"]
  BY DEF ReadHdr
<1>2. /\ Local(s[c]) /\ s[c].tx = 0 /\ s[c].readLock = -1 /\ ReaderV(s[c])
  BY DEF IInv, Local, BeforeHdr, Restarting, Framing, Ckpt, Folding, VInv
<1>3. Local(x)
  BY <1>1, OneMoves DEF IInv
<1>4. /\ x.pc \in {"ckGo", "begin", "hdrLocked"} /\ x.tx = 0 /\ x.readLock = -1
      /\ x.min = s[c].min /\ x.cur = s[c].cur /\ x.first = s[c].first
      /\ x.pc = "ckGo" => x.hdr = shm.h0
  <2>1. DOMAIN s[c] = Fields
    BY <1>2 DEF Local
  <2>2. CASE x = [s[c] EXCEPT !.ckpt = ckpt, !.pc = "hdrLocked"]
    BY <1>2, <2>1, <2>2 DEF Fields, Fresh
  <2>3. CASE x = [s[c] EXCEPT !.hdr = shm.h0, !.ckpt = ckpt,
                              !.pc = IF ckpt THEN "ckGo" ELSE "begin"]
    BY <1>2, <2>1, <2>3 DEF Fields, Fresh
  <2> QED BY <1>1, <2>2, <2>3
<1>5. WriterV(x) /\ ReaderV(x) /\ CkptV(x) /\ \A y : Bounded(x, y)
  BY <1>2, <1>4 DEF WriterV, ReaderV, CkptV, Bounded, Folding
<1> QED BY <1>1, <1>2, <1>3, <1>4, <1>5, Aside DEF Framing, Folding

\* walIndexReadHdr under the write lock.
LEMMA HdrLockedSnap ==
  ASSUME IInv, VInv, IInv', NEW c \in Conn, HdrLocked(c)
  PROVE  VInv' /\ SnapStep
<1>1. /\ s[c].pc = "hdrLocked" /\ UNCHANGED <<shm, file, kept, closing, ntx, stops>>
      /\ \/ Set(c, [s[c] EXCEPT !.hdr = shm.h0, !.pc = Entered(c)])
         \/ Set(c, [s[c] EXCEPT !.pc = "recover"])
         \/ Set(c, Fresh(s[c].again))
  BY DEF HdrLocked, files, counts, Goto, Leave
<1>2. /\ Local(s[c]) /\ s[c].tx = 0 /\ s[c].readLock = -1 /\ ReaderV(s[c])
      /\ closing # None => closing = c
  BY <1>1, WhoseClose DEF IInv, Local, BeforeHdr, Restarting, Framing, Ckpt, Folding, VInv
<1>3. CASE Set(c, Fresh(s[c].again))
  BY <1>1, <1>2, <1>3, AsideFresh
<1>4. ASSUME NEW x, Set(c, x),
             x \in {[s[c] EXCEPT !.hdr = shm.h0, !.pc = Entered(c)],
                    [s[c] EXCEPT !.pc = "recover"]}
      PROVE  VInv' /\ SnapStep
  <2>1. Local(x)
    BY <1>4, OneMoves DEF IInv
  <2>2. /\ x.pc \in {"ckGo", "begin", "recover"} /\ x.tx = 0 /\ x.readLock = -1
        /\ x.min = s[c].min /\ x.cur = s[c].cur /\ x.first = s[c].first
        /\ x.pc = "ckGo" => x.hdr = shm.h0
    BY <1>2, <1>4 DEF Local, Fields, Fresh, Entered
  <2>3. WriterV(x) /\ ReaderV(x) /\ CkptV(x) /\ \A y : Bounded(x, y)
    BY <1>1, <1>2, <2>2 DEF WriterV, ReaderV, CkptV, Bounded, Folding
  <2> QED BY <1>1, <1>2, <1>4, <2>1, <2>2, <2>3, Aside DEF Framing, Folding
<1> QED BY <1>1, <1>3, <1>4

\* What is read is a page.
LEMMA ReadVal ==
  ASSUME NEW x, NEW index, NEW fl, NEW p \in Page,
         fl.db \in [Page -> Val], \A f \in Frame : fl.frame[f].val \in Val
  PROVE  ReadBy(x, index, fl, p) \in Val
<1>1. SeenBy(x, index, fl, p) \subseteq Frame
  BY DEF SeenBy
<1> QED BY <1>1, ReadIs

\* The last commit is pages, and those of the wal-index header.
LEMMA StoreIs ==
  ASSUME IInv, VInv
  PROVE  /\ Store \in [Page -> Val] /\ Store # None
         /\ shm.h0 # None => Store = PagesAt(file, shm.h0.mx)
         /\ shm.h0 = None => Store = PagesAt(file, 0)
<1>1. shm.h0 # None => Store = PagesAt(file, shm.h0.mx)
  BY Zenon DEF Store
<1>2. shm.h0 = None => Store = PagesAt(file, 0)
  <2>1. shm.h0 = None => RecoveredMx(file) = 0
    BY NoLogNoMx DEF VInv, FilesV
  <2> QED BY <2>1, Zenon DEF Store
<1>3. ASSUME NEW mx \in Nat, mx <= MaxFrame PROVE PagesAt(file, mx) \in [Page -> Val]
  <2>1. ASSUME NEW p \in Page PROVE PagesAt(file, mx)[p] \in Val
    <3>1. file.db[p] \in Val /\ \A f \in 1..mx : file.frame[f].val \in Val
      BY <1>3, WalAssumption DEF VInv, FilesV, Frame
    <3> QED BY <3>1, PageIs
  <2>2. PagesAt(file, mx) = [p \in Page |-> PagesAt(file, mx)[p]]
    BY DEF PagesAt
  <2> QED BY <2>1, <2>2
<1>4. Store \in [Page -> Val]
  <2>1. CASE shm.h0 = None
    BY <1>2, <1>3, <2>1, WalAssumption
  <2>2. CASE shm.h0 # None
    <3>1. shm.h0.mx \in Nat /\ shm.h0.mx <= MaxFrame
      BY <2>2 DEF IInv, TypesOK, Hdr, VInv, FilesV, Recorded
    <3> QED BY <1>1, <1>3, <2>2, <3>1
  <2> QED BY <2>1, <2>2
<1> QED BY <1>1, <1>2, <1>4, PageAssumption

\* Who has the last commit's header, and looks up what is not folded, reads
\* the last commit.
LEMMA SeesStore ==
  ASSUME IInv, VInv, NEW x, x.hdr = shm.h0, shm.h0 # None, x.cur = 0, x.min \in Nat \ {0},
         x.readLock \in Int, x.readLock > 0 => x.min <= shm.backfill + 1,
         x.readLock <= 0 => shm.backfill = shm.h0.mx,
         NEW p \in Page
  PROVE  ReadBy(x, shm.index, file, p) = Store[p]
<1>1. /\ shm.h0.mx \in Nat /\ shm.h0.mx <= MaxFrame /\ shm.backfill \in Nat
      /\ \A f \in 1..shm.h0.mx : shm.index[f] = file.frame[f].pg
      /\ Folded(shm.backfill)
  BY DEF IInv, TypesOK, Hdr, VInv, FilesV, Recorded
<1>2. \A f \in 1..shm.h0.mx :
        (x.readLock > 0 => f < x.min) /\ LastIn(file, f, p, shm.h0.mx)
          => file.db[p] = file.frame[f].val
  BY <1>1 DEF Folded
<1>3. ReadBy(x, shm.index, file, p) = PagesAt(file, shm.h0.mx)[p]
  <2>1. PICK mx \in Nat : mx = shm.h0.mx
    BY <1>1
  <2>2. /\ mx <= MaxFrame /\ x.hdr.mx = mx
        /\ Indexed(x, shm.index, file, mx) /\ RestIsIn(x, file, p, mx)
    BY <1>1, <1>2, <2>1 DEF Indexed, RestIsIn
  <2>3. ReadBy(x, shm.index, file, p) = PagesAt(file, mx)[p]
    BY <2>2, ReadsCommit
  <2> QED BY <2>1, <2>3
<1> QED BY <1>3, StoreIs

\* A read begins.
LEMMA Begins ==
  ASSUME IInv, VInv, NEW c \in Conn, NEW x, Calm(c, x), Local(x), UNCHANGED <<shm, file, kept>>,
         ~InTx(s[c]), x.tx = 0, x.readLock # -1, ~InSeal(x),
         \A p \in Page : ReadBy(x, shm.index, file, p) = Store[p]
  PROVE  VInv' /\ SnapStep
<1>1. /\ s'[c] = x /\ s[c].tx = 0 /\ ~InSeal(s[c])
  BY OneMoves DEF IInv, Calm, InTx, InSeal, Local, Framing
<1>2. /\ VInv' /\ Store' = Store /\ \A k \in Conn \ {c} : View'[k] = View[k]
      /\ Writer' = Writer /\ Sealed' = Sealed
  BY <1>1, CalmKeepsV, CalmViews, SameWriter, SameSealed DEF Calm
<1>3. View[c] = None
  BY ViewsAre
<1>4. View'[c] = Store
  <2>1. \A p \in Page : Read(c, p)' = Store[p]
    BY <1>1, ReadNow
  <2>2. View'[c] = [p \in Page |-> Read(c, p)']
    BY <1>1, ViewsAre DEF InTx
  <2>3. [p \in Page |-> Read(c, p)'] = [p \in Page |-> Store[p]]
    BY <2>1, Zenon
  <2>4. Store = [p \in Page |-> Store[p]]
    BY StoreIs
  <2> QED BY <2>2, <2>3, <2>4, Zenon
<1>5. View' = [View EXCEPT ![c] = Store]
  <2>1. View' = [k \in Conn |-> View'[k]] /\ DOMAIN View = Conn
    BY DEF View
  <2> QED BY <1>2, <1>4, <2>1
<1> QED BY <1>2, <1>3, <1>4, <1>5, StoreIs, SnapBegin

-----------------------------------------------------------------------------
(* walTryBeginRead.                                                        *)

\* Read lock 0 is tried.
LEMMA TryReadLock0Snap ==
  ASSUME IInv, VInv, IInv', NEW c \in Conn, TryReadLock0(c)
  PROVE  VInv' /\ SnapStep
<1>1. PICK x : /\ Set(c, x)
               /\ x = [s[c] EXCEPT !.pc = "check0"] \/ x = [s[c] EXCEPT !.pc = "marks"]
  BY DEF TryReadLock0, Goto
<1>2. /\ s[c].pc = "begin" /\ UNCHANGED <<shm, file, kept, closing, ntx, stops>>
      /\ Local(s[c]) /\ s[c].tx = 0 /\ s[c].readLock = -1 /\ closing = None
  BY AfterHdr DEF TryReadLock0, files, counts, Local
<1>3. Local(x) /\ ReaderV(s[c])
  BY <1>1, OneMoves DEF IInv, VInv
<1>4. /\ x.pc \in {"check0", "marks"} /\ x.tx = 0 /\ x.readLock = -1
      /\ x.min = s[c].min /\ x.cur = s[c].cur /\ x.first = s[c].first
  BY <1>1, <1>2 DEF Local, Fields, Fresh
<1>5. WriterV(x) /\ ReaderV(x) /\ CkptV(x) /\ \A y : Bounded(x, y)
  BY <1>2, <1>3, <1>4 DEF WriterV, ReaderV, CkptV, Bounded, Folding
<1> QED BY <1>1, <1>2, <1>3, <1>4, <1>5, Aside DEF Framing

\* WAL_RETRY.
LEMMA RetrySnap ==
  ASSUME IInv, VInv, IInv', NEW c \in Conn, s[c].pc \in {"check0", "claim", "share", "check"},
         Retry(c), UNCHANGED <<shm, file, kept, closing, ntx, stops>>
  PROVE  VInv' /\ SnapStep
<1>1. /\ Local(s[c]) /\ s[c].readLock = -1 /\ closing = None
      /\ ReaderV(s[c]) /\ WriterV(s[c])
  BY AfterHdr DEF Marking, VInv
<1>2. CASE excl[WriteLock] = c
  <2> DEFINE x == [s[c] EXCEPT !.i = 0, !.mxI = 0, !.seen = 0, !.min = 1, !.pc = "marks"]
  <2>1. Set(c, x) /\ s[c].tx # 0
    BY <1>1, <1>2, LocksNow, LockSets DEF Retry, HoldsExcl, Restarting
  <2>2. /\ x.pc = "marks" /\ x.tx = s[c].tx /\ x.readLock = -1 /\ x.hdr = s[c].hdr
        /\ x.min = 1 /\ x.cur = s[c].cur /\ x.first = s[c].first /\ x.todo = s[c].todo
    BY <1>1 DEF Local, Fields, Fresh
  <2> HIDE DEF x
  <2>3. Local(x) /\ s[c].pc \in Marking
    BY <1>1, <2>1, OneMoves DEF IInv, Local, Marking
  <2>4. WriterV(x) /\ ReaderV(x) /\ CkptV(x) /\ \A y : Bounded(x, y)
    BY <1>1, <2>2, <2>3 DEF WriterV, ReaderV, CkptV, Bounded, Folding, Marking
  <2> QED BY <1>1, <2>1, <2>2, <2>3, <2>4, Aside DEF Framing, Marking
<1>3. CASE excl[WriteLock] # c
  <2>1. Set(c, Fresh(s[c].again)) /\ s[c].tx = 0
    BY <1>1, <1>3, LocksNow, LockSets DEF Retry, HoldsExcl
  <2> QED BY <1>1, <2>1, AsideFresh
<1> QED BY <1>2, <1>3

\* With read lock 0 a read begins on the last commit: the database has it all.
LEMMA Check0Snap ==
  ASSUME IInv, VInv, IInv', NEW c \in Conn, Check0(c)
  PROVE  VInv' /\ SnapStep
<1>1. /\ s[c].pc = "check0" /\ UNCHANGED <<shm, file, kept, closing, ntx, stops>>
      /\ Local(s[c]) /\ s[c].tx = 0 /\ s[c].readLock = -1 /\ closing = None /\ shm.h0 # None
      /\ ReaderV(s[c]) /\ Own(s[c])
  BY AfterHdr DEF Check0, files, counts, Local, VInv
<1>2. CASE shm.h0 = s[c].hdr
  <2> DEFINE x == [s[c] EXCEPT !.readLock = 0, !.pc = "reading"]
  <2>1. Set(c, x)
    BY <1>2 DEF Check0
  <2>2. /\ x.pc = "reading" /\ x.tx = 0 /\ x.readLock = 0 /\ x.hdr = s[c].hdr
        /\ x.min = s[c].min /\ x.cur = s[c].cur /\ x.first = s[c].first
    BY <1>1 DEF Local, Fields, Fresh
  <2> HIDE DEF x
  <2>3. Local(x)
    BY <2>1, OneMoves DEF IInv
  <2>4. /\ WriterV(x) /\ ReaderV(x) /\ CkptV(x) /\ \A y : Bounded(x, y) /\ Bounded(y, x)
    BY <1>1, <2>2 DEF WriterV, ReaderV, CkptV, Bounded, Folding
  <2>5. Calm(c, x)
    BY <1>1, <2>1, <2>2, <2>4, WalAssumption DEF Calm, VInv
  <2>6. shm.backfill = shm.h0.mx
    BY <1>1, <1>2 DEF Own, IgnoredOK, Restarting
  <2>7. \A p \in Page : ReadBy(x, shm.index, file, p) = Store[p]
    BY <1>1, <1>2, <2>2, <2>6, SeesStore DEF ReaderV
  <2> QED BY <1>1, <2>2, <2>3, <2>5, <2>7, Begins DEF InTx, InSeal
<1>3. CASE shm.h0 # s[c].hdr
  <2>1. Retry(c)
    BY <1>3 DEF Check0
  <2> QED BY <1>1, <2>1, RetrySnap
<1> QED BY <1>2, <1>3

-----------------------------------------------------------------------------
(* walTryBeginRead, with a mark.                                           *)

\* On the way to a mark.
LEMMA MarkingStep ==
  ASSUME IInv, VInv, IInv', NEW c \in Conn, NEW x, Set(c, x),
         shm'.h0 = shm.h0, shm'.backfill = shm.backfill, shm'.index = shm.index,
         \A l \in Slot : shm'.mark[l] = shm.mark[l] \/ excl[ReadLock(l)] = c,
         UNCHANGED <<file, kept, closing, ntx, stops>>,
         s[c].pc \in Marking, x.pc \in Marking,
         x.tx = s[c].tx, x.hdr = s[c].hdr, x.cur = s[c].cur, x.first = s[c].first,
         x.todo = s[c].todo, x.min \in Nat \ {0},
         x.pc # "marks" => x.seen \in 0..x.hdr.mx,
         x.pc = "check" => x.min <= shm.backfill + 1
  PROVE  VInv' /\ SnapStep
<1>1. /\ Local(s[c]) /\ s[c].readLock = -1 /\ closing = None
      /\ ReaderV(s[c]) /\ WriterV(s[c])
  BY AfterHdr DEF VInv
<1>2. Local(x) /\ x.readLock = -1
  <2>1. Local(x)
    BY OneMoves DEF IInv
  <2> QED BY <2>1 DEF Local, Marking, Restarting, Framing
<1>3. WriterV(x)
  BY <1>1 DEF WriterV, Marking
<1>4. ReaderV(x) /\ CkptV(x) /\ \A y : Bounded(x, y)
  BY <1>1, <1>2 DEF ReaderV, CkptV, Bounded, Marking, Folding
<1>5. s[c].pc \notin Framing /\ x.pc \notin Framing
  BY DEF Marking, Framing
<1> QED BY <1>1, <1>2, <1>3, <1>4, <1>5, AsideMark

\* The mark is chosen.
LEMMA PickMarkSnap ==
  ASSUME IInv, VInv, IInv', NEW c \in Conn, PickMark(c)
  PROVE  VInv' /\ SnapStep
<1> DEFINE mx == s[c].hdr.mx
           fit == {i \in Slot : shm.mark[i] <= mx}
           best == Max({0} \cup {shm.mark[i] : i \in fit})
           mxI == Max({0} \cup {i \in fit : shm.mark[i] = best})
           x == [s[c] EXCEPT !.mxI = mxI, !.seen = best, !.i = 1,
                             !.pc = IF best < mx \/ mxI = 0 THEN "claim" ELSE "share"]
<1>1. /\ s[c].pc = "marks" /\ Set(c, x) /\ UNCHANGED <<shm, file, kept, closing, ntx, stops>>
      /\ Local(s[c]) /\ ReaderV(s[c])
  BY AfterHdr DEF PickMark, files, counts, Marking, VInv
<1>2. best \in 0..mx
  <2> DEFINE S == {0} \cup {shm.mark[i] : i \in fit}
  <2>1. mx \in Nat /\ S \in SUBSET (0..mx) /\ S # {}
    BY <1>1 DEF Local, Hdr, IInv, TypesOK
  <2>2. Max(S) \in S
    <3> HIDE DEF S, mx
    <3> QED BY <2>1, MaxIsIn
  <2> QED BY <2>1, <2>2
<1> HIDE DEF best, mxI, fit, mx
<1>3. /\ x.pc \in Marking /\ x.tx = s[c].tx /\ x.hdr = s[c].hdr /\ x.cur = s[c].cur
      /\ x.first = s[c].first /\ x.todo = s[c].todo /\ x.min = s[c].min
      /\ x.seen = best /\ x.pc # "check"
  BY <1>1 DEF Local, Fields, Fresh, Marking
<1> HIDE DEF x
<1> QED BY <1>1, <1>2, <1>3, MarkingStep DEF mx, Marking, ReaderV

\* A mark is locked, to be raised.
LEMMA ClaimMarkSnap ==
  ASSUME IInv, VInv, IInv', NEW c \in Conn, ClaimMark(c)
  PROVE  VInv' /\ SnapStep
<1>1. /\ s[c].pc = "claim" /\ UNCHANGED <<shm, file, kept, closing, ntx, stops>>
      /\ Local(s[c]) /\ ReaderV(s[c])
  BY AfterHdr DEF ClaimMark, files, counts, Marking, VInv
<1>2. \/ Retry(c)
      \/ \E x : /\ Set(c, x)
                /\ \/ x = [s[c] EXCEPT !.pc = "raise"] \/ x = [s[c] EXCEPT !.i = @ + 1]
                   \/ x = [s[c] EXCEPT !.pc = "share"]
  BY DEF ClaimMark, Goto
<1>3. CASE Retry(c)
  BY <1>1, <1>3, RetrySnap
<1>4. ASSUME NEW x, Set(c, x),
             \/ x = [s[c] EXCEPT !.pc = "raise"] \/ x = [s[c] EXCEPT !.i = @ + 1]
             \/ x = [s[c] EXCEPT !.pc = "share"]
      PROVE  VInv' /\ SnapStep
  <2>1. /\ x.pc \in Marking \ {"marks", "check"} /\ x.tx = s[c].tx /\ x.hdr = s[c].hdr
        /\ x.cur = s[c].cur /\ x.first = s[c].first /\ x.todo = s[c].todo /\ x.min = s[c].min
        /\ x.seen = s[c].seen
    <3>1. DOMAIN s[c] = Fields
      BY <1>1 DEF Local
    <3>2. CASE x = [s[c] EXCEPT !.pc = "raise"]
      BY <3>1, <3>2 DEF Fields, Fresh, Marking
    <3>3. CASE x = [s[c] EXCEPT !.i = @ + 1]
      BY <1>1, <3>1, <3>3 DEF Fields, Fresh, Marking
    <3>4. CASE x = [s[c] EXCEPT !.pc = "share"]
      BY <3>1, <3>4 DEF Fields, Fresh, Marking
    <3> QED BY <1>4, <3>2, <3>3, <3>4
  <2>2. x.min \in Nat \ {0} /\ x.seen \in 0..x.hdr.mx /\ s[c].pc \in Marking
    BY <1>1, <2>1 DEF ReaderV, Marking
  <2> QED BY <1>1, <1>4, <2>1, <2>2, MarkingStep
<1> QED BY <1>2, <1>3, <1>4

\* The mark of nobody is raised to the header's mxFrame.
LEMMA RaiseMarkSnap ==
  ASSUME IInv, VInv, IInv', NEW c \in Conn, RaiseMark(c)
  PROVE  VInv' /\ SnapStep
<1> DEFINE x == [s[c] EXCEPT !.mxI = s[c].i, !.seen = s[c].hdr.mx, !.pc = "share"]
<1>1. /\ s[c].pc = "raise" /\ Set(c, x) /\ UNCHANGED <<file, kept, closing, ntx, stops>>
      /\ shm' = [shm EXCEPT !.mark[s[c].i] = s[c].hdr.mx]
      /\ Local(s[c]) /\ ReaderV(s[c]) /\ s[c].i \in Slot
  BY AfterHdr DEF RaiseMark, files, counts, Marking, VInv, Local
<1>2. /\ x.pc \in Marking \ {"check"} /\ x.tx = s[c].tx /\ x.hdr = s[c].hdr
      /\ x.cur = s[c].cur /\ x.first = s[c].first /\ x.todo = s[c].todo /\ x.min = s[c].min
      /\ x.seen = s[c].hdr.mx /\ s[c].hdr.mx \in Nat
  BY <1>1 DEF Local, Fields, Fresh, Marking, Hdr
<1> HIDE DEF x
<1>3. /\ shm'.h0 = shm.h0 /\ shm'.backfill = shm.backfill /\ shm'.index = shm.index
      /\ \A l \in Slot \ {s[c].i} : shm'.mark[l] = shm.mark[l]
  BY <1>1 DEF IInv, TypesOK, ZeroShm
<1>4. excl[ReadLock(s[c].i)] = c
  BY <1>1, LocksNow, LockSets DEF HoldsExcl, Slot
<1>5. x.min \in Nat \ {0} /\ x.seen \in 0..x.hdr.mx /\ s[c].pc \in Marking
  BY <1>1, <1>2 DEF ReaderV, Marking
<1>6. \A l \in Slot : shm'.mark[l] = shm.mark[l] \/ excl[ReadLock(l)] = c
  BY <1>3, <1>4
<1> QED BY <1>1, <1>2, <1>3, <1>5, <1>6, MarkingStep

\* The mark is locked to be read under.
LEMMA ShareMarkSnap ==
  ASSUME IInv, VInv, IInv', NEW c \in Conn, ShareMark(c)
  PROVE  VInv' /\ SnapStep
<1>1. /\ s[c].pc = "share" /\ UNCHANGED <<shm, file, kept, closing, ntx, stops>>
      /\ Local(s[c]) /\ ReaderV(s[c])
      /\ Retry(c) \/ Set(c, [s[c] EXCEPT !.i = 0, !.pc = "minFrame"])
  BY AfterHdr DEF ShareMark, files, counts, Marking, VInv
<1>2. CASE Retry(c)
  BY <1>1, <1>2, RetrySnap
<1> DEFINE x == [s[c] EXCEPT !.i = 0, !.pc = "minFrame"]
<1>3. CASE Set(c, x)
  <2>1. /\ x.pc \in Marking \ {"check"} /\ x.tx = s[c].tx /\ x.hdr = s[c].hdr
        /\ x.cur = s[c].cur /\ x.first = s[c].first /\ x.todo = s[c].todo /\ x.min = s[c].min
        /\ x.seen = s[c].seen
    BY <1>1 DEF Local, Fields, Fresh, Marking
  <2> HIDE DEF x
  <2>2. x.min \in Nat \ {0} /\ x.seen \in 0..x.hdr.mx /\ s[c].pc \in Marking
    BY <1>1, <2>1 DEF ReaderV, Marking
  <2> QED BY <1>1, <1>3, <2>1, <2>2, MarkingStep
<1> QED BY <1>1, <1>2, <1>3

\* minFrame is after what is folded.
LEMMA SetMinFrameSnap ==
  ASSUME IInv, VInv, IInv', NEW c \in Conn, SetMinFrame(c)
  PROVE  VInv' /\ SnapStep
<1> DEFINE x == [s[c] EXCEPT !.min = shm.backfill + 1, !.pc = "check"]
<1>1. /\ s[c].pc = "minFrame" /\ UNCHANGED <<shm, file, kept, closing, ntx, stops>>
      /\ Local(s[c]) /\ ReaderV(s[c]) /\ Set(c, x) /\ shm.backfill \in Nat
  BY AfterHdr DEF SetMinFrame, files, counts, Marking, VInv, IInv, TypesOK
<1>2. /\ x.pc \in Marking /\ x.tx = s[c].tx /\ x.hdr = s[c].hdr
      /\ x.cur = s[c].cur /\ x.first = s[c].first /\ x.todo = s[c].todo
      /\ x.min = shm.backfill + 1 /\ x.seen = s[c].seen
  BY <1>1 DEF Local, Fields, Fresh, Marking
<1> HIDE DEF x
<1>3. x.min \in Nat \ {0} /\ x.seen \in 0..x.hdr.mx /\ s[c].pc \in Marking
  BY <1>1, <1>2 DEF ReaderV, Marking
<1> QED BY <1>1, <1>2, <1>3, MarkingStep

\* With a mark a read begins on the last commit, which the header still is; a
\* writer that comes from read lock 0 goes on with what it read.
LEMMA CheckMarkSnap ==
  ASSUME IInv, VInv, IInv', ~Overlap, NEW c \in Conn, CheckMark(c)
  PROVE  VInv' /\ SnapStep
<1>1. /\ s[c].pc = "check" /\ UNCHANGED <<shm, file, kept, closing, ntx, stops>>
      /\ Local(s[c]) /\ ReaderV(s[c]) /\ WriterV(s[c]) /\ closing = None /\ shm.h0 # None
      /\ s[c].readLock = -1 /\ s[c].mxI \in Slot
  BY AfterHdr DEF CheckMark, files, counts, Marking, VInv, Local
<1>2. CASE ~StillCurrent(c)
  BY <1>1, <1>2, RetrySnap DEF CheckMark
<1>3. CASE StillCurrent(c)
  <2> DEFINE place == IF excl[WriteLock] = c THEN "header" ELSE "reading"
             x == [s[c] EXCEPT !.readLock = s[c].mxI, !.mxI = 0, !.seen = 0, !.pc = place]
  <2>1. /\ Set(c, x) /\ shm.h0 = s[c].hdr /\ shm.mark[s[c].mxI] = s[c].seen
        /\ excl[WriteLock] = c <=> s[c].tx # 0
    BY <1>1, <1>3, LocksNow, LockSets DEF CheckMark, StillCurrent, HoldsExcl
  <2>2. /\ x.pc = place /\ x.tx = s[c].tx /\ x.hdr = s[c].hdr /\ x.readLock = s[c].mxI
        /\ x.min = s[c].min /\ x.cur = s[c].cur /\ x.first = s[c].first /\ x.todo = s[c].todo
    BY <1>1 DEF Local, Fields, Fresh
  <2> HIDE DEF x
  <2>3. Local(x)
    BY <2>1, OneMoves DEF IInv
  <2>4. /\ x.readLock > 0 /\ shm.mark[x.readLock] <= x.hdr.mx /\ shm.mark[x.readLock] <= shm.h0.mx
        /\ x.hdr = shm.h0 /\ x.min <= shm.backfill + 1 /\ x.cur = 0 /\ x.min \in Nat \ {0}
        /\ x.hdr.mx \in Nat /\ x.readLock \in Int
    BY <1>1, <2>1, <2>2, <2>3 DEF ReaderV, Slot, Local, Hdr
  <2>5. ReaderV(x) /\ CkptV(x) /\ WriterV(x)
    <3>1. ReaderV(x) /\ CkptV(x)
      BY <1>1, <2>2, <2>4 DEF ReaderV, CkptV, Folding
    <3>2. WriterV(x)
      BY <1>1, <2>1, <2>2 DEF WriterV, Marking, Restarting
    <3> QED BY <3>1, <3>2
  <2>6. ASSUME NEW k \in Conn \ {c} PROVE Bounded(x, s[k]) /\ Bounded(s[k], x)
    <3>1. Bounded(x, s[k])
      BY <2>2 DEF Bounded, Folding
    <3>2. s[k].pc \in Folding => s[k].safe <= s[k].hdr.mx /\ s[k].hdr.mx <= shm.h0.mx
      BY DEF IInv, Local, Own, FoldingOK
    <3>3. s[k].safe \in Nat /\ s[k].hdr.mx \in Nat
      BY DEF IInv, Local, Hdr
    <3>4. s[k].pc \in Folding => s[k].safe <= x.hdr.mx
      BY <2>4, <3>2, <3>3
    <3> QED BY <3>1, <3>4 DEF Bounded
  <2>7. Calm(c, x)
    BY <1>1, <2>1, <2>2, <2>5, <2>6, WalAssumption DEF Calm, VInv
  <2>8. \A p \in Page : ReadBy(x, shm.index, file, p) = Store[p]
    BY <1>1, <2>4, SeesStore
  <2>9. CASE s[c].tx = 0
    BY <1>1, <2>1, <2>2, <2>3, <2>4, <2>7, <2>8, <2>9, Begins DEF InTx, InSeal
  <2>10. CASE s[c].tx # 0
    <3>1. s[c].hdr = shm.h0 /\ shm.backfill = shm.h0.mx /\ s[c].cur = 0
      BY <1>1, <2>2, <2>4, <2>10 DEF WriterV, Marking
    <3>2. \A p \in Page : ReadBy(s[c], shm.index, file, p) = Store[p]
      BY <1>1, <3>1, SeesStore DEF ReaderV
    <3>3. VInv' /\ Store' = Store /\ \A k \in Conn \ {c} : View'[k] = View[k]
      BY <2>3, <2>7, CalmKeepsV, CalmViews
    <3>4. s'[c] = x
      BY <2>1, OneMoves DEF IInv
    <3>5. View'[c] = View[c]
      BY <1>1, <2>2, <2>8, <2>10, <3>2, <3>4, SameViewOf DEF InTx
    <3>6. View' = View
      BY <3>3, <3>5, SameView
    <3>7. Writer' = Writer /\ Sealed' = Sealed
      BY <1>1, <2>1, <2>2, SameWriter, SameSealed DEF InSeal
    <3> QED BY <1>1, <3>3, <3>6, <3>7, SnapStutter
  <2> QED BY <2>9, <2>10
<1> QED BY <1>2, <1>3

\* A view is not None.
LEMMA SomeView ==
  ASSUME IInv, VInv, NEW c \in Conn, InTx(s[c])
  PROVE  View[c] \in [Page -> Val] /\ View[c] # None
<1>1. \A p \in Page : Read(c, p) \in Val
  BY ReadNow, ReadVal DEF VInv, FilesV
<1>2. View[c] = [p \in Page |-> Read(c, p)]
  BY ViewsAre
<1>3. [p \in Page |-> Read(c, p)] \in [Page -> Val]
  BY <1>1, Zenon
<1> QED BY <1>2, <1>3, PageAssumption

\* A read ends.
LEMMA EndReadSnap ==
  ASSUME IInv, VInv, IInv', NEW c \in Conn, EndRead(c)
  PROVE  VInv' /\ SnapStep
<1>1. /\ s[c].pc = "reading" /\ UNCHANGED <<shm, file, kept, closing, ntx, stops>>
      /\ s[c].tx = 0 /\ s[c].readLock # -1 /\ closing = None
  BY AfterHdr DEF EndRead, files, counts, Local
<1>2. PICK x : Set(c, x) /\ x = Fresh(s[c].again)
  BY DEF EndRead
<1>3. Local(x)
  BY <1>2, OneMoves DEF IInv
<1>4. /\ WriterV(x) /\ ReaderV(x) /\ CkptV(x) /\ \A y : Bounded(x, y) /\ Bounded(y, x)
      /\ x.tx = 0 /\ x.readLock = -1 /\ x.pc = "idle"
  BY <1>2, FreshV DEF Bounded
<1>5. Calm(c, x)
  BY <1>1, <1>2, <1>4, WalAssumption DEF Calm, VInv
<1>6. /\ VInv' /\ Store' = Store /\ \A k \in Conn \ {c} : View'[k] = View[k]
  BY <1>3, <1>5, CalmKeepsV, CalmViews
<1>7. Writer' = Writer /\ Sealed' = Sealed /\ Writer # c
  BY <1>1, <1>2, <1>4, SameWriter, SameSealed, WriterIs DEF InSeal
<1>8. View[c] # None
  BY <1>1, SomeView DEF InTx
<1>9. s'[c] = x
  BY <1>2, OneMoves DEF IInv
<1>10. View'[c] = None
  BY <1>4, <1>9, ViewsAre DEF InTx
<1>11. View' = [View EXCEPT ![c] = None]
  <2>1. View' = [k \in Conn |-> View'[k]] /\ DOMAIN View = Conn
    BY DEF View
  <2> QED BY <1>6, <1>10, <2>1
<1> QED BY <1>1, <1>6, <1>7, <1>8, <1>10, <1>11, SnapEnd

\* A read reads the header.
LEMMA BeginReadSnap ==
  ASSUME IInv, VInv, IInv', NEW c \in Conn, BeginRead(c)
  PROVE  VInv' /\ SnapStep
  BY ReadHdrSnap DEF BeginRead, files, counts

\* A checkpoint reads the header.
LEMMA BeginCheckpointSnap ==
  ASSUME IInv, VInv, IInv', NEW c \in Conn, BeginCheckpoint(c)
  PROVE  VInv' /\ SnapStep
  BY ReadHdrSnap DEF BeginCheckpoint, files, counts

-----------------------------------------------------------------------------
(* The writer begins, and the header of the log.                           *)

\* A calm step of the writer.
LEMMA WriterStep ==
  ASSUME IInv, VInv, IInv', NEW c \in Conn, NEW x, Set(c, x),
         shm'.h0 = shm.h0, shm'.backfill = shm.backfill, shm'.index = shm.index,
         shm'.mark = shm.mark,
         DOMAIN file' = DOMAIN file, file'.db = file.db, file'.frame = file.frame,
         shm.h0 # None, kept' = kept \/ kept' = {Store},
         UNCHANGED <<closing, ntx, stops>>, closing = None,
         s[c].tx # 0, x.tx = s[c].tx,
         x.readLock <= 0 \/ (x.readLock = s[c].readLock /\ x.hdr.mx = s[c].hdr.mx),
         WriterV(x), ReaderV(x), SameEyes(x, s[c]), InSeal(x) <=> InSeal(s[c])
  PROVE  VInv' /\ SnapStep
<1>1. Local(x) /\ Local(s[c])
  BY OneMoves DEF IInv
<1>2. x.pc \notin Folding
  BY <1>1 DEF Local, Ckpt
<1>3. \A k \in Conn \ {c} : Bounded(x, s[k]) /\ Bounded(s[k], x)
  <2>1. \A k \in Conn \ {c} : Bounded(s[k], s[c])
    BY DEF VInv
  <2>2. x.readLock \in Int
    BY <1>1 DEF Local
  <2> QED BY <1>2, <2>1, <2>2 DEF Bounded
<1>4. CkptV(x)
  BY <1>2 DEF CkptV
<1>5. ntx \in 0..MaxTx /\ s[c].tx <= ntx /\ ntx \in ntx..MaxTx
  BY DEF VInv
<1>6. Calm(c, x)
  BY <1>3, <1>4, <1>5, WalAssumption DEF Calm
<1> QED BY <1>1, <1>6, CalmStutters

\* Who reads, or writes, with the last commit's header reads the last commit.
LEMMA ViewsStore ==
  ASSUME IInv, VInv, NEW c \in Conn, s[c].pc \in {"reading", "writing"}, s[c].hdr = shm.h0
  PROVE  View[c] = Store
<1>1. /\ Local(s[c]) /\ Own(s[c]) /\ shm.h0 # None /\ ReaderV(s[c]) /\ s[c].readLock # -1
  BY AfterHdr DEF VInv, Local
<1>2. s[c].readLock <= 0 => shm.backfill = shm.h0.mx
  BY <1>1 DEF Local, Own, IgnoredOK, Restarting
<1>3. \A p \in Page : ReadBy(s[c], shm.index, file, p) = Store[p]
  <2>1. /\ s[c].cur = 0 /\ s[c].min \in Nat \ {0} /\ s[c].readLock \in Int
        /\ s[c].readLock > 0 => s[c].min <= shm.backfill + 1
    BY <1>1 DEF ReaderV, Local
  <2> QED BY <1>1, <1>2, <2>1, SeesStore
<1>4. [p \in Page |-> Read(c, p)] = [p \in Page |-> Store[p]]
  BY <1>3, ReadNow, Zenon
<1>5. Store = [p \in Page |-> Store[p]]
  BY StoreIs
<1>6. View[c] = [p \in Page |-> Read(c, p)]
  BY <1>1, ViewsAre DEF InTx
<1> QED BY <1>4, <1>5, <1>6, Zenon

\* A writer has the last commit in view.
LEMMA BeginWriteSnap ==
  ASSUME IInv, VInv, IInv', NEW c \in Conn, BeginWrite(c)
  PROVE  VInv' /\ SnapStep
<1> DEFINE x == [s[c] EXCEPT !.tx = ntx + 1, !.pc = "writing"]
<1>1. /\ s[c].pc = "reading" /\ UNCHANGED <<shm, file, kept, closing, stops>> /\ Set(c, x)
      /\ s[c].hdr = shm.h0 /\ ntx < MaxTx /\ ntx' = ntx + 1 /\ Free(WriteLock)
      /\ Local(s[c]) /\ ReaderV(s[c]) /\ s[c].readLock # -1 /\ closing = None /\ shm.h0 # None
  BY AfterHdr DEF BeginWrite, files, counts, LockExcl, VInv, Local
<1>2. /\ x.pc = "writing" /\ x.tx = ntx + 1 /\ x.hdr = s[c].hdr /\ x.readLock = s[c].readLock
      /\ x.min = s[c].min /\ x.cur = s[c].cur /\ x.first = s[c].first
      /\ s[c].tx = 0 /\ s[c].cur = 0 /\ s[c].first = 0
  BY <1>1 DEF Local, Fields, Fresh, ReaderV
<1> HIDE DEF x
<1>3. Local(x) /\ ntx \in 0..MaxTx /\ s'[c] = x /\ \A k \in Conn \ {c} : s'[k] = s[k]
  BY <1>1, OneMoves DEF IInv, VInv
<1>4. WriterV(x) /\ ReaderV(x) /\ CkptV(x)
  BY <1>1, <1>2, <1>3 DEF WriterV, ReaderV, CkptV, VInv, FilesV, Marking, Restarting, Folding
<1>5. \A k \in Conn \ {c} : Bounded(x, s[k]) /\ Bounded(s[k], x)
  BY <1>2 DEF VInv, Bounded, Folding
<1>6. Calm(c, x)
  BY <1>1, <1>2, <1>3, <1>4, <1>5, WalAssumption DEF Calm
<1>7. SameEyes(x, s[c])
  BY <1>1, <1>2 DEF SameEyes, InTx
<1>8. VInv' /\ Store' = Store /\ View' = View
  BY <1>3, <1>6, <1>7, CalmKeepsV, CalmViews
<1>9. \A k \in Conn : s[k].tx = 0
  BY <1>1, LocksNow, LockSets DEF Free, HoldsExcl
<1>10. Writer = None
  BY <1>9, WriterIs
<1>11. Writer' = c
  BY <1>2, <1>3, <1>9, WriterNext
<1>12. Sealed' = Sealed
  BY <1>1, <1>2, SameSealed DEF InSeal
<1>13. View[c] = Store
  BY <1>1, ViewsStore
<1> QED BY <1>1, <1>8, <1>10, <1>11, <1>12, <1>13, SnapBeginWrite

\* The header of an empty log changes no commit.
LEMMA WriteLogHeaderSnap ==
  ASSUME IInv, VInv, IInv', NEW c \in Conn, WriteLogHeader(c)
  PROVE  VInv' /\ SnapStep
<1>1. /\ s[c].pc = "header" /\ UNCHANGED <<shm, kept, closing, ntx, stops>>
      /\ Local(s[c]) /\ ReaderV(s[c]) /\ WriterV(s[c]) /\ closing = None /\ shm.h0 # None
      /\ s[c].tx # 0 /\ s[c].cur = 0 /\ s[c].hdr.mx \in Nat /\ FilesV
  BY AfterHdr DEF WriteLogHeader, files, counts, Framing, VInv, Local, ReaderV, Hdr
<1>2. CASE s[c].hdr.mx = 0
  <2>1. PICK salt : /\ Set(c, [s[c] EXCEPT !.hdr = [mx |-> 0, salt |-> salt], !.cur = 0,
                                           !.pc = "syncHeader"])
                    /\ file' = [file EXCEPT !.salt = salt, !.again = s[c].again]
    BY <1>2 DEF WriteLogHeader
  <2> DEFINE x == [s[c] EXCEPT !.hdr = [mx |-> 0, salt |-> salt], !.cur = 0, !.pc = "syncHeader"]
  <2>2. DOMAIN file' = DOMAIN file /\ file'.db = file.db /\ file'.frame = file.frame
    BY <1>1, <2>1 DEF FilesV
  <2>3. /\ x.pc = "syncHeader" /\ x.tx = s[c].tx /\ x.hdr.mx = 0 /\ x.readLock = s[c].readLock
        /\ x.min = s[c].min /\ x.cur = 0 /\ x.first = s[c].first /\ x.todo = s[c].todo
    BY <1>1 DEF Local, Fields, Fresh
  <2>4. Set(c, x)
    BY <2>1
  <2> HIDE DEF x
  <2>5. WriterV(x) /\ ReaderV(x)
    BY <1>1, <1>2, <2>3 DEF WriterV, ReaderV, Marking, Restarting
  <2>6. SameEyes(x, s[c]) /\ (InSeal(x) <=> InSeal(s[c]))
    BY <1>1, <1>2, <2>3 DEF SameEyes, InTx, InSeal
  <2> QED BY <1>1, <1>2, <2>2, <2>3, <2>4, <2>5, <2>6, WriterStep
<1>3. CASE s[c].hdr.mx # 0
  <2> DEFINE x == [s[c] EXCEPT !.cur = s[c].hdr.mx, !.pc = "put"]
  <2>1. Set(c, x) /\ UNCHANGED file
    BY <1>3 DEF WriteLogHeader
  <2>2. /\ x.pc = "put" /\ x.tx = s[c].tx /\ x.hdr = s[c].hdr /\ x.readLock = s[c].readLock
        /\ x.min = s[c].min /\ x.cur = s[c].hdr.mx /\ x.first = s[c].first
        /\ x.todo = s[c].todo
    BY <1>1 DEF Local, Fields, Fresh
  <2> HIDE DEF x
  <2>3. WriterV(x) /\ ReaderV(x)
    BY <1>1, <2>2 DEF WriterV, ReaderV, Marking, Restarting, Recorded
  <2>4. SameEyes(x, s[c]) /\ (InSeal(x) <=> InSeal(s[c]))
    BY <1>1, <2>2 DEF SameEyes, InTx, InSeal
  <2> QED BY <1>1, <2>1, <2>2, <2>3, <2>4, WriterStep
<1> QED BY <1>2, <1>3

\* The log is synced.
LEMMA SyncLogHeaderSnap ==
  ASSUME IInv, VInv, IInv', NEW c \in Conn, SyncLogHeader(c)
  PROVE  VInv' /\ SnapStep
<1> DEFINE x == [s[c] EXCEPT !.pc = "put"]
<1>1. /\ s[c].pc = "syncHeader" /\ UNCHANGED <<shm, file, closing, ntx, stops>>
      /\ Set(c, x) /\ kept' = {Store}
      /\ Local(s[c]) /\ ReaderV(s[c]) /\ WriterV(s[c]) /\ closing = None /\ shm.h0 # None
      /\ s[c].tx # 0 /\ s[c].cur = 0 /\ s[c].hdr.mx = 0
  BY AfterHdr DEF SyncLogHeader, SyncLog, Goto, files, counts, Framing, VInv, Local, ReaderV,
     WriterV
<1>2. /\ x.pc = "put" /\ x.tx = s[c].tx /\ x.hdr = s[c].hdr /\ x.readLock = s[c].readLock
      /\ x.min = s[c].min /\ x.cur = s[c].cur /\ x.first = s[c].first
      /\ x.todo = s[c].todo
  BY <1>1 DEF Local, Fields, Fresh
<1> HIDE DEF x
<1>3. WriterV(x) /\ ReaderV(x)
  BY <1>1, <1>2, WalAssumption DEF WriterV, ReaderV, Marking, Restarting
<1>4. SameEyes(x, s[c]) /\ (InSeal(x) <=> InSeal(s[c]))
  BY <1>1, <1>2 DEF SameEyes, InTx, InSeal
<1> QED BY <1>1, <1>2, <1>3, <1>4, WriterStep

-----------------------------------------------------------------------------
(* The log goes on, or starts again.                                       *)

\* What a call of sqlite3WalFrames begins with.
LEMMA CalledIs ==
  ASSUME IInv, VInv, NEW c \in Conn, s[c].pc = "writing", NEW call \in Calls(c)
  PROVE  /\ call[1] \subseteq Page /\ call[1] # {} /\ Cardinality(call[1]) \in Nat
         /\ DOMAIN Called(c, call) = Fields
         /\ Called(c, call).hdr = s[c].hdr /\ Called(c, call).readLock = s[c].readLock
         /\ Called(c, call).tx = s[c].tx /\ Called(c, call).min = s[c].min
         /\ Called(c, call).cur = s[c].cur /\ Called(c, call).todo = call[1]
         /\ Called(c, call).first \in Nat
         /\ Called(c, call).first # 0 => Called(c, call).first > shm.h0.mx
<1>1. Local(s[c]) /\ shm.h0 # None /\ ReaderV(s[c]) /\ WriterV(s[c]) /\ s[c].tx # 0
  BY AfterHdr DEF VInv, Local
<1>2. call[1] \subseteq Page /\ call[1] # {}
  BY DEF Calls
<1>3. Cardinality(call[1]) \in Nat
  BY <1>2, PageAssumption, FS_Subset, FS_CardinalityType
<1>4. s[c].first \in Nat /\ (s[c].first # 0 => s[c].first > shm.h0.mx) /\ shm.h0.mx \in Nat
  BY <1>1 DEF ReaderV, WriterV, IInv, TypesOK, Hdr
<1> QED BY <1>1, <1>2, <1>3, <1>4 DEF Called, Local, Fields, Fresh

\* The log goes on.
LEMMA GoOnSnap ==
  ASSUME IInv, VInv, IInv', NEW c \in Conn, GoOn(c)
  PROVE  VInv' /\ SnapStep
<1>1. /\ s[c].pc = "writing" /\ UNCHANGED <<shm, file, kept, closing, ntx, stops>>
      /\ Local(s[c]) /\ Own(s[c]) /\ ReaderV(s[c]) /\ WriterV(s[c]) /\ closing = None
      /\ shm.h0 # None /\ s[c].tx # 0 /\ s[c].cur = 0 /\ s[c].readLock # -1
      /\ s[c].hdr.mx \in Nat
  BY AfterHdr DEF GoOn, files, counts, VInv, Local, ReaderV, Hdr
<1>2. PICK call \in Calls(c) :
        /\ s[c].hdr.mx + Cardinality(call[1]) <= MaxFrame
        /\ IF s[c].readLock = 0
           THEN /\ Set(c, [Called(c, call) EXCEPT !.readLock = -1, !.pc = "marks"])
                /\ UnlockShared(c, ReadLock(0))
           ELSE Set(c, [Called(c, call) EXCEPT !.pc = "header"]) /\ UNCHANGED shrd
  BY DEF GoOn
<1> DEFINE y == Called(c, call)
<1>3. /\ call[1] \subseteq Page /\ call[1] # {} /\ DOMAIN y = Fields
      /\ y.hdr = s[c].hdr /\ y.tx = s[c].tx /\ y.min = s[c].min /\ y.readLock = s[c].readLock
      /\ y.cur = 0 /\ y.todo = call[1] /\ y.first \in Nat /\ (y.first # 0 => y.first > shm.h0.mx)
  BY <1>1, CalledIs
<1> HIDE DEF y
<1>4. CASE s[c].readLock = 0
  <2> DEFINE x == [y EXCEPT !.readLock = -1, !.pc = "marks"]
  <2>1. Set(c, x)
    BY <1>2, <1>4 DEF y
  <2>2. /\ x.pc = "marks" /\ x.tx = s[c].tx /\ x.hdr = s[c].hdr /\ x.readLock = -1
        /\ x.min = s[c].min /\ x.cur = 0 /\ x.first = y.first /\ x.todo = call[1]
    BY <1>3 DEF Fields, Fresh
  <2> HIDE DEF x
  <2>3. s[c].hdr = shm.h0 /\ shm.backfill = s[c].hdr.mx
    BY <1>1, <1>4 DEF Own, WriterOK, IgnoredOK, Restarting
  <2>4. WriterV(x) /\ ReaderV(x)
    BY <1>1, <1>2, <1>3, <2>2, <2>3 DEF WriterV, ReaderV, Marking, Restarting
  <2>5. SameEyes(x, s[c]) /\ (InSeal(x) <=> InSeal(s[c]))
    BY <1>1, <1>4, <2>2 DEF SameEyes, InTx, InSeal
  <2> QED BY <1>1, <2>1, <2>2, <2>4, <2>5, WriterStep
<1>5. CASE s[c].readLock # 0
  <2> DEFINE x == [y EXCEPT !.pc = "header"]
  <2>1. Set(c, x)
    BY <1>2, <1>5 DEF y
  <2>2. /\ x.pc = "header" /\ x.tx = s[c].tx /\ x.hdr = s[c].hdr /\ x.readLock = s[c].readLock
        /\ x.min = s[c].min /\ x.cur = 0 /\ x.first = y.first /\ x.todo = call[1]
    BY <1>3 DEF Fields, Fresh
  <2> HIDE DEF x
  <2>3. WriterV(x) /\ ReaderV(x)
    BY <1>1, <1>2, <1>3, <2>2 DEF WriterV, ReaderV, Marking, Restarting
  <2>4. SameEyes(x, s[c]) /\ (InSeal(x) <=> InSeal(s[c]))
    BY <1>1, <2>2 DEF SameEyes, InTx, InSeal
  <2> QED BY <1>1, <2>1, <2>2, <2>3, <2>4, WriterStep
<1> QED BY <1>4, <1>5

\* The log starts again: it is all in the database, and nobody reads it.
LEMMA RestartLogSnap ==
  ASSUME IInv, VInv, IInv', NEW c \in Conn, RestartLog(c)
  PROVE  VInv' /\ SnapStep
<1>1. /\ s[c].pc = "writing" /\ UNCHANGED <<file, kept, closing, ntx, stops>>
      /\ Local(s[c]) /\ ReaderV(s[c]) /\ WriterV(s[c]) /\ closing = None
      /\ shm.h0 # None /\ s[c].tx # 0 /\ s[c].cur = 0 /\ s[c].readLock = 0
      /\ s[c].hdr.mx \in Nat
  BY AfterHdr DEF RestartLog, files, counts, VInv, Local, ReaderV, Hdr
<1>2. PICK call \in Calls(c), salt \in FreshSalts :
        /\ Cardinality(call[1]) <= MaxFrame
        /\ Set(c, [Called(c, call) EXCEPT !.hdr = [mx |-> 0, salt |-> salt], !.again = TRUE,
                                          !.pc = "restart0"])
        /\ shm' = [shm EXCEPT !.h1 = [mx |-> 0, salt |-> salt]]
  BY DEF RestartLog
<1> DEFINE y == Called(c, call)
           x == [y EXCEPT !.hdr = [mx |-> 0, salt |-> salt], !.again = TRUE, !.pc = "restart0"]
<1>3. /\ call[1] \subseteq Page /\ call[1] # {} /\ DOMAIN y = Fields
      /\ Cardinality(call[1]) \in Nat
      /\ y.hdr = s[c].hdr /\ y.tx = s[c].tx /\ y.min = s[c].min /\ y.readLock = s[c].readLock
      /\ y.cur = 0 /\ y.todo = call[1] /\ y.first \in Nat /\ (y.first # 0 => y.first > shm.h0.mx)
  BY <1>1, CalledIs
<1>4. Set(c, x)
  BY <1>2
<1> HIDE DEF y
<1>5. /\ x.pc = "restart0" /\ x.tx = s[c].tx /\ x.hdr.mx = 0 /\ x.readLock = 0
      /\ x.min = s[c].min /\ x.cur = 0 /\ x.first = y.first /\ x.todo = call[1]
  BY <1>1, <1>3 DEF Fields, Fresh
<1> HIDE DEF x
<1>6. /\ shm'.mark = shm.mark /\ shm'.index = shm.index
      /\ shm'.h0 = shm.h0 /\ shm'.backfill = shm.backfill
  BY <1>2 DEF IInv, TypesOK, ZeroShm
<1>7. WriterV(x) /\ ReaderV(x)
  BY <1>1, <1>2, <1>3, <1>5, WalAssumption DEF WriterV, ReaderV, Marking, Restarting, Recorded
<1>8. SameEyes(x, s[c]) /\ (InSeal(x) <=> InSeal(s[c]))
  BY <1>1, <1>5 DEF SameEyes, InTx, InSeal
<1> QED BY <1>1, <1>4, <1>5, <1>6, <1>7, <1>8, WriterStep

\* Views and the writer do not depend on the header.
LEMMA SameSnap ==
  ASSUME IInv, VInv, NEW c \in Conn, NEW x, Set(c, x), Local(x), SameEyes(x, s[c]),
         x.tx = 0 <=> s[c].tx = 0, InSeal(x) <=> InSeal(s[c]),
         shm'.index = shm.index, file' = file, Store' = Store, kept' = kept
  PROVE  SnapStep
<1>1. s'[c] = x /\ \A k \in Conn \ {c} : s'[k] = s[k]
  BY OneMoves DEF IInv
<1>2. ASSUME NEW k \in Conn PROVE View'[k] = View[k]
  <2>1. CASE k # c
    BY <1>1, <2>1, SameViewOf
  <2>2. CASE k = c
    <3>1. ASSUME InTx(s[c]), NEW p \in Page
          PROVE  ReadBy(x, shm'.index, file', p) = ReadBy(s[c], shm.index, file, p)
      <4>1. SeenBy(x, shm.index, file, p) = SeenBy(s[c], shm.index, file, p)
        BY <3>1, EyesSee DEF IInv
      <4> QED BY <4>1, ReadSame
    <3>2. InTx(s'[c]) <=> InTx(s[c])
      BY <1>1 DEF SameEyes
    <3> QED BY <1>1, <2>2, <3>1, <3>2, SameViewOf
  <2> QED BY <2>1, <2>2
<1>3. View' = View
  BY <1>2, SameView
<1>4. Writer' = Writer /\ Sealed' = Sealed
  BY SameWriter, SameSealed
<1> QED BY <1>3, <1>4, SnapStutter

\* Once all of the log is in the database, that is the last commit.
LEMMA AllInDb ==
  ASSUME IInv, VInv, shm.h0 # None, shm.backfill = shm.h0.mx
  PROVE  Store = PagesAt(file, 0)
<1>1. /\ shm.h0.mx \in Nat /\ Folded(shm.h0.mx)
  BY DEF IInv, TypesOK, Hdr, VInv, FilesV
<1>2. PICK mx \in Nat : mx = shm.h0.mx
  BY <1>1
<1>3. ASSUME NEW p \in Page PROVE PagesAt(file, mx)[p] = PagesAt(file, 0)[p]
  <2>1. PagesAt(file, 0)[p] = file.db[p]
    BY PageIs
  <2>2. CASE NoneIn(file, p, mx) /\ PagesAt(file, mx)[p] = file.db[p]
    BY <2>1, <2>2
  <2>3. ASSUME NEW f \in 1..mx, LastIn(file, f, p, mx), PagesAt(file, mx)[p] = file.frame[f].val
        PROVE  PagesAt(file, mx)[p] = file.db[p]
    BY <1>1, <1>2, <2>3 DEF Folded
  <2> QED BY <2>1, <2>2, <2>3, PageIs
<1>4. /\ PagesAt(file, mx) = [p \in Page |-> PagesAt(file, mx)[p]]
      /\ PagesAt(file, 0) = [p \in Page |-> PagesAt(file, 0)[p]]
  BY DEF PagesAt
<1>5. [p \in Page |-> PagesAt(file, mx)[p]] = [p \in Page |-> PagesAt(file, 0)[p]]
  BY <1>3, Zenon
<1>6. PagesAt(file, mx) = PagesAt(file, 0)
  BY <1>4, <1>5, Zenon
<1> QED BY <1>2, <1>6, StoreIs

\* While the log starts again, nobody else reads it.
LEMMA NoReaders ==
  ASSUME IInv, ~Overlap, NEW c \in Conn, s[c].pc \in Restarting,
         shm.backfill = shm.h0.mx \/ shm.h0.mx = 0
  PROVE  /\ closing = None /\ shm.h0 # None /\ Local(s[c]) /\ Own(s[c])
         /\ s[c].tx # 0 /\ s[c].readLock = 0 /\ s[c].hdr.mx = 0
         /\ \A k \in Conn \ {c} : /\ s[k].readLock <= 0 /\ s[k].tx = 0
                                  /\ s[k].pc \notin {"minFrame", "check"} \cup Folding
<1>1. /\ closing = None /\ shm.h0 # None /\ Local(s[c]) /\ Own(s[c])
      /\ s[c].tx # 0 /\ s[c].readLock = 0 /\ s[c].hdr.mx = 0
  BY WhoseClose DEF IInv, Local, Own, HeaderOK, Restarting, BeforeHdr, Ckpt, Folding
<1>2. \A l \in MarkLocks : excl[l] = c /\ shrd[l] = {}
  BY LocksNow, LockSets DEF HoldsExcl
<1>3. ASSUME NEW k \in Conn \ {c}
      PROVE  /\ s[k].readLock <= 0 /\ s[k].tx = 0
             /\ s[k].pc \notin {"minFrame", "check"} \cup Folding
  <2>1. Local(s[k]) /\ Own(s[k]) /\ s[k].tx = 0
    BY <1>1, OneWriter DEF IInv
  <2>2. \A l \in MarkLocks : l \in Lock /\ ~HoldsShared(s[k], l)
    BY <1>2, LocksNow, LockSets
  <2>3. s[k].readLock \notin Slot
    <3>1. \A i \in Slot : ReadLock(i) \in MarkLocks /\ i # -1
      BY LockSets, WalAssumption DEF Slot
    <3> QED BY <2>2, <3>1 DEF HoldsShared
  <2>4. s[k].readLock <= 0
    BY <2>1, <2>3, WalAssumption DEF Local, Slot
  <2>5. s[k].pc \notin {"minFrame", "check"}
    BY <2>1, <2>2, LockSets DEF HoldsShared, Local
  <2>6. s[k].pc \notin Folding
    BY <2>1 DEF Own, FoldingOK, IInv, TypesOK, Local, Hdr
  <2> QED BY <2>1, <2>4, <2>5, <2>6
<1> QED BY <1>1, <1>3

\* The header of the log that starts again: the last commit is the database.
LEMMA RestartHdrSnap ==
  ASSUME IInv, VInv, IInv', ~Overlap, NEW c \in Conn, RestartHdr(c)
  PROVE  VInv' /\ SnapStep
<1> DEFINE x == [s[c] EXCEPT !.pc = "restart1"]
<1>1. /\ s[c].pc = "restart0" /\ shm' = [shm EXCEPT !.h0 = s[c].hdr] /\ Set(c, x)
      /\ UNCHANGED <<file, kept, closing, ntx, stops>>
  BY DEF RestartHdr, Goto, files, counts
<1>2. shm.backfill = shm.h0.mx
  BY <1>1 DEF IInv, Own, WriterOK, Local, Restarting
<1>3. /\ closing = None /\ shm.h0 # None /\ Local(s[c]) /\ Own(s[c])
      /\ s[c].tx # 0 /\ s[c].readLock = 0 /\ s[c].hdr.mx = 0 /\ s[c].hdr # None
      /\ \A k \in Conn \ {c} : /\ s[k].readLock <= 0 /\ s[k].tx = 0
                               /\ s[k].pc \notin {"minFrame", "check"} \cup Folding
  <2>1. s[c].hdr # None
    BY WalAssumption DEF IInv, Local, Hdr
  <2> QED BY <1>1, <1>2, <2>1, NoReaders DEF Restarting
<1>4. /\ x.pc = "restart1" /\ x.tx = s[c].tx /\ x.hdr = s[c].hdr /\ x.readLock = 0
      /\ x.min = s[c].min /\ x.cur = s[c].cur /\ x.first = s[c].first /\ x.todo = s[c].todo
      /\ x.commit = s[c].commit
  BY <1>3 DEF Local, Fields, Fresh
<1> HIDE DEF x
<1>5. /\ shm'.h0 = s[c].hdr /\ shm'.backfill = shm.backfill /\ shm'.index = shm.index
      /\ shm'.mark = shm.mark
  BY <1>1 DEF IInv, TypesOK, ZeroShm
<1>6. Local(x) /\ s'[c] = x /\ \A k \in Conn \ {c} : s'[k] = s[k]
  BY <1>1, OneMoves DEF IInv
<1>7. FilesV'
  BY <1>1, <1>3, <1>5, WalAssumption DEF VInv, FilesV, Recorded, Folded, LastIn
<1>8. \A k \in Conn : WriterV(s[k])' /\ ReaderV(s[k])' /\ CkptV(s[k])'
  <2>1. WriterV(s[c])' /\ ReaderV(s[c])' /\ CkptV(s[c])'
    <3>1. WriterV(s[c]) /\ ReaderV(s[c])
      BY DEF VInv
    <3> QED BY <1>1, <1>3, <1>4, <1>5, <1>6, <3>1, WalAssumption
            DEF WriterV, ReaderV, CkptV, Restarting, Marking, Folding, Recorded
  <2>2. ASSUME NEW k \in Conn \ {c} PROVE WriterV(s[k])' /\ ReaderV(s[k])' /\ CkptV(s[k])'
    <3>1. ReaderV(s[k]) /\ s[k].readLock \in Int
      BY DEF VInv, IInv, Local
    <3> QED BY <1>3, <1>5, <1>6, <3>1 DEF WriterV, ReaderV, CkptV
  <2> QED BY <2>1, <2>2
<1>9. \A k, j \in Conn : Bounded(s[k], s[j])'
  <2>1. \A j \in Conn : s'[j].readLock <= 0 /\ s'[j].readLock \in Int
    BY <1>3, <1>4, <1>6 DEF IInv, Local
  <2> QED BY <2>1 DEF Bounded
<1>10. VInv'
  <2>1. \A k \in Conn : s'[k].tx <= ntx'
    BY <1>1, <1>4, <1>6 DEF VInv
  <2> QED BY <1>1, <1>3, <1>7, <1>8, <1>9, <2>1 DEF VInv, CloseV
<1>11. Store' = Store
  <2>1. Store' = PagesAt(file', shm'.h0.mx)
    BY <1>3, <1>5, Zenon DEF Store
  <2>2. Store = PagesAt(file, 0)
    BY <1>2, <1>3, AllInDb
  <2> QED BY <1>1, <1>3, <1>5, <2>1, <2>2, Zenon
<1>12. SameEyes(x, s[c]) /\ (InSeal(x) <=> InSeal(s[c]))
  BY <1>1, <1>3, <1>4 DEF SameEyes, InTx, InSeal
<1> QED BY <1>1, <1>4, <1>5, <1>6, <1>10, <1>11, <1>12, SameSnap

\* The marks of the log that starts again.
LEMMA RestartMarksSnap ==
  ASSUME IInv, VInv, IInv', ~Overlap, NEW c \in Conn, RestartMarks(c)
  PROVE  VInv' /\ SnapStep
<1> DEFINE x == [s[c] EXCEPT !.readLock = -1, !.pc = "marks"]
<1>1. /\ s[c].pc = "restart1" /\ shm' = Restarted /\ Set(c, x)
      /\ UNCHANGED <<file, kept, closing, ntx, stops>>
  BY DEF RestartMarks, files, counts
<1>2. s[c].hdr = shm.h0 /\ shm.h0.mx = 0
  BY <1>1 DEF IInv, Own, WriterOK, Local, Restarting
<1>3. /\ closing = None /\ shm.h0 # None /\ Local(s[c]) /\ Own(s[c])
      /\ s[c].tx # 0 /\ s[c].readLock = 0 /\ s[c].hdr.mx = 0
      /\ \A k \in Conn \ {c} : /\ s[k].readLock <= 0 /\ s[k].tx = 0
                               /\ s[k].pc \notin {"minFrame", "check"} \cup Folding
  BY <1>1, <1>2, NoReaders DEF Restarting
<1>4. /\ x.pc = "marks" /\ x.tx = s[c].tx /\ x.hdr = s[c].hdr /\ x.readLock = -1
      /\ x.min = s[c].min /\ x.cur = s[c].cur /\ x.first = s[c].first /\ x.todo = s[c].todo
      /\ x.commit = s[c].commit
  BY <1>3 DEF Local, Fields, Fresh
<1> HIDE DEF x
<1>5. /\ shm'.h0 = shm.h0 /\ shm'.backfill = 0 /\ shm'.index = shm.index
  BY <1>1 DEF IInv, TypesOK, ZeroShm, Restarted
<1>6. Local(x) /\ s'[c] = x /\ \A k \in Conn \ {c} : s'[k] = s[k]
  BY <1>1, OneMoves DEF IInv
<1>7. FilesV'
  BY <1>1, <1>2, <1>3, <1>5, WalAssumption DEF VInv, FilesV, Recorded, Folded, LastIn
<1>8. \A k \in Conn : WriterV(s[k])' /\ ReaderV(s[k])' /\ CkptV(s[k])'
  <2>1. WriterV(s[c])' /\ ReaderV(s[c])' /\ CkptV(s[c])'
    <3>1. WriterV(s[c]) /\ ReaderV(s[c])
      BY DEF VInv
    <3> QED BY <1>1, <1>2, <1>3, <1>4, <1>5, <1>6, <3>1, WalAssumption
            DEF WriterV, ReaderV, CkptV, Restarting, Marking, Folding, Recorded
  <2>2. ASSUME NEW k \in Conn \ {c} PROVE WriterV(s[k])' /\ ReaderV(s[k])' /\ CkptV(s[k])'
    <3>1. ReaderV(s[k]) /\ s[k].readLock \in Int
      BY DEF VInv, IInv, Local
    <3> QED BY <1>3, <1>5, <1>6, <3>1 DEF WriterV, ReaderV, CkptV
  <2> QED BY <2>1, <2>2
<1>9. \A k, j \in Conn : Bounded(s[k], s[j])'
  <2>1. \A j \in Conn : s'[j].readLock <= 0 /\ s'[j].readLock \in Int
    BY <1>3, <1>4, <1>6 DEF IInv, Local
  <2> QED BY <2>1 DEF Bounded
<1>10. VInv'
  <2>1. \A k \in Conn : s'[k].tx <= ntx'
    BY <1>1, <1>4, <1>6 DEF VInv
  <2> QED BY <1>1, <1>3, <1>7, <1>8, <1>9, <2>1 DEF VInv, CloseV
<1>11. Store' = Store
  BY <1>1, <1>5, Zenon DEF Store
<1>12. SameEyes(x, s[c]) /\ (InSeal(x) <=> InSeal(s[c]))
  BY <1>1, <1>3, <1>4 DEF SameEyes, InTx, InSeal
<1> QED BY <1>1, <1>4, <1>5, <1>6, <1>10, <1>11, <1>12, SameSnap

-----------------------------------------------------------------------------
(* Recovery.                                                               *)

\* No log is left to recover: nothing of the database is open, and the last
\* connection to close it has deleted the log.
LEMMA WalIndexRecoverSnap ==
  ASSUME IInv, VInv, IInv', NEW c \in Conn, WalIndexRecover(c)
  PROVE  VInv' /\ SnapStep
<1>1. /\ s[c].pc = "recover" /\ UNCHANGED <<file, kept, closing, ntx, stops>>
      /\ Local(s[c]) /\ Own(s[c]) /\ shm.h0 = None /\ ReaderV(s[c])
  BY DEF WalIndexRecover, files, counts, IInv, Own, HeaderOK, VInv
<1>2. RecoveredMx(file) = 0 /\ FilesV
  BY <1>1, NoLogNoMx DEF VInv, FilesV
<1>3. PICK x, hdr, index :
        /\ x = [s[c] EXCEPT !.hdr = hdr, !.again = file.again, !.pc = Entered(c)]
        /\ hdr = [mx |-> RecoveredMx(file), salt |-> file.salt]
        /\ DOMAIN index = Frame
        /\ shm' = [h0 |-> hdr, h1 |-> hdr, backfill |-> 0,
                   mark |-> [i \in Slot |-> IF i = 1 /\ RecoveredMx(file) > 0
                                            THEN RecoveredMx(file) ELSE Unused],
                   index |-> index]
        /\ Set(c, x)
  <2> DEFINE hd == [mx |-> RecoveredMx(file), salt |-> file.salt]
             ix == [f \in Frame |->
                      IF file.salt # 0 /\ f \in {g \in Frame : \A h \in 1..g : Valid(file, h)}
                      THEN file.frame[f].pg ELSE 0]
  <2>1. /\ shm' = [h0 |-> hd, h1 |-> hd, backfill |-> 0,
                   mark |-> [i \in Slot |-> IF i = 1 /\ RecoveredMx(file) > 0
                                            THEN RecoveredMx(file) ELSE Unused],
                   index |-> ix]
        /\ Set(c, [s[c] EXCEPT !.hdr = hd, !.again = file.again, !.pc = Entered(c)])
    BY Zenon DEF WalIndexRecover
  <2>2. DOMAIN ix = Frame
    OBVIOUS
  <2> HIDE DEF hd, ix
  <2>3. hd = [mx |-> RecoveredMx(file), salt |-> file.salt]
    BY DEF hd
  <2> QED BY <2>1, <2>2, <2>3, Zenon
<1>4. hdr.mx = 0 /\ hdr # None
  <2>1. file.salt \in Nat
    BY DEF IInv, TypesOK
  <2>2. hdr \in [mx : Nat, salt : Nat]
    BY <1>2, <1>3, <2>1
  <2> QED BY <1>2, <1>3, <2>2, WalAssumption
<1>5. shm'.h0 = hdr /\ shm'.backfill = 0 /\ DOMAIN shm'.index = Frame
  BY <1>3
<1>6. /\ x.pc \in {"ckGo", "begin"} /\ x.tx = s[c].tx /\ x.hdr = hdr
      /\ x.readLock = s[c].readLock /\ x.min = s[c].min /\ x.cur = s[c].cur
      /\ x.first = s[c].first
  BY <1>1, <1>3 DEF Local, Fields, Fresh, Entered
<1>7. s'[c] = x /\ \A k \in Conn \ {c} : s'[k] = s[k]
  BY <1>3, OneMoves DEF IInv
<1>8. \A k \in Conn : s[k].readLock = -1 /\ s[k].tx = 0 /\ s[k].pc \in BeforeHdr
  BY <1>1 DEF IInv, Local, Own, HeaderOK, BeforeHdr, Restarting, Framing
<1>9. \A k \in Conn : s'[k].readLock = -1 /\ s'[k].tx = 0 /\ s'[k].pc \in BeforeHdr \cup {"ckGo", "begin"}
  BY <1>6, <1>7, <1>8
<1>10. FilesV'
  BY <1>1, <1>2, <1>4, <1>5, WalAssumption DEF FilesV, Recorded, Folded
<1>11. \A k \in Conn : WriterV(s[k])' /\ ReaderV(s[k])' /\ CkptV(s[k])'
  <2> SUFFICES ASSUME NEW k \in Conn PROVE WriterV(s[k])' /\ ReaderV(s[k])' /\ CkptV(s[k])'
    OBVIOUS
  <2>1. /\ s'[k].readLock = -1 /\ s'[k].tx = 0
        /\ s'[k].pc \in BeforeHdr \cup {"ckGo", "begin"}
    BY <1>9
  <2>2. s'[k].min \in Nat \ {0} /\ s'[k].first \in Nat /\ s'[k].cur = 0 /\ s'[k].first = 0
    <3>1. ReaderV(s[k]) /\ s[k].tx = 0 /\ s[k].pc \in BeforeHdr
      BY <1>8 DEF VInv
    <3>2. s'[k].min = s[k].min /\ s'[k].first = s[k].first /\ s'[k].cur = s[k].cur
      BY <1>6, <1>7
    <3> QED BY <3>1, <3>2 DEF ReaderV, BeforeHdr
  <2>3. ReaderV(s[k])'
    BY <2>1, <2>2 DEF ReaderV, BeforeHdr
  <2>4. WriterV(s[k])' /\ CkptV(s[k])'
    BY <2>1 DEF WriterV, CkptV, BeforeHdr, Folding
  <2> QED BY <2>3, <2>4
<1>12. \A k, j \in Conn : Bounded(s[k], s[j])'
  BY <1>9 DEF Bounded
<1>13. CloseV'
  <2>1. closing # None => closing = c
    BY <1>1, WhoseClose
  <2> QED BY <1>1, <1>5, <1>6, <1>7, <2>1 DEF CloseV, Folding
<1>14. VInv'
  BY <1>1, <1>9, <1>10, <1>11, <1>12, <1>13 DEF VInv
<1>15. Store' = Store
  <2>1. Store = PagesAt(file, 0)
    BY <1>1, StoreIs
  <2>2. Store' = PagesAt(file', 0)
    BY <1>4, <1>5, Zenon DEF Store
  <2> QED BY <1>1, <2>1, <2>2, Zenon
<1>16. View' = View
  <2>1. \A k \in Conn : View'[k] = None /\ View[k] = None
    BY <1>8, <1>9, ViewsAre DEF InTx
  <2> QED BY <2>1, SameView
<1>17. Writer' = None /\ Writer = None
  BY <1>8, <1>9, WriterIs, WriterNext
<1>18. Sealed' = Sealed
  BY <1>3, <1>1, <1>6, SameSealed DEF InSeal
<1> QED BY <1>1, <1>14, <1>15, <1>16, <1>17, <1>18, SnapStutter

-----------------------------------------------------------------------------
(* Frames after the last commit.                                           *)

\* Steps of the writer that change frames, and their part of the index, only
\* after the last commit.
FramesAfter(mx) ==
  /\ DOMAIN file' = DOMAIN file /\ file'.db = file.db /\ DOMAIN file'.frame = Frame
  /\ \A f \in Frame : /\ DOMAIN file'.frame[f] = DOMAIN NoFrame
                      /\ file'.frame[f].pg \in Page \cup {0} /\ file'.frame[f].val \in Val
  /\ \A f \in 1..mx : /\ file'.frame[f].pg = file.frame[f].pg
                      /\ file'.frame[f].val = file.frame[f].val
IndexAfter(mx) ==
  /\ DOMAIN shm'.index = Frame
  /\ \A f \in 1..mx : shm'.index[f] = shm.index[f]

Ahead(c, x) ==
  /\ Set(c, x) /\ s[c].tx # 0 /\ x.tx \in {0, s[c].tx} /\ x.pc \notin Folding
  /\ x.readLock = s[c].readLock /\ x.hdr.mx >= shm.h0.mx
  /\ shm.h0 # None /\ closing = None
  /\ shm'.h0 = shm.h0 /\ shm'.backfill = shm.backfill /\ shm'.mark = shm.mark
  /\ FramesAfter(shm.h0.mx) /\ IndexAfter(shm.h0.mx)
  /\ UNCHANGED <<closing, ntx, stops>>

\* ... so the invariant, the last commit and the views of others are kept.
LEMMA AheadKeepsV ==
  ASSUME IInv, VInv, ~Overlap, NEW c \in Conn, NEW x, Ahead(c, x), Local(x),
         WriterV(s[c])', ReaderV(s[c])'
  PROVE  VInv' /\ Store' = Store /\ \A k \in Conn \ {c} : View'[k] = View[k]
<1>1. s'[c] = x /\ \A k \in Conn \ {c} : s'[k] = s[k]
  BY OneMoves DEF IInv, Ahead
<1>2. /\ shm.h0 # None /\ shm.h0.mx \in Nat /\ shm.h0.mx <= MaxFrame /\ shm.backfill \in Nat
      /\ FilesV /\ Recorded(shm.h0.mx) /\ Folded(shm.backfill)
  BY DEF Ahead, IInv, TypesOK, Hdr, VInv, FilesV, Recorded
<1>3. /\ shm'.h0 = shm.h0 /\ shm'.backfill = shm.backfill /\ shm'.mark = shm.mark
      /\ FramesAfter(shm.h0.mx) /\ IndexAfter(shm.h0.mx)
  BY DEF Ahead
<1>4. ASSUME NEW k \in Conn \ {c}
      PROVE  /\ s[k].tx = 0 /\ s[k].readLock \in Int /\ s[k].hdr.mx \in Nat /\ s[k].cur \in Nat
             /\ s[k].readLock > 0 => s[k].hdr.mx <= shm.h0.mx
             /\ s[k].pc \in Folding => /\ s[k].hdr.mx <= shm.h0.mx /\ s[k].safe <= s[k].hdr.mx
                                       /\ s[k].safe \in Nat
             /\ s[k].pc \notin Framing
  <2>1. s[k].tx = 0 /\ s[k].pc \notin Framing
    BY OneWriter DEF Ahead
  <2>2. s[k].readLock \in Int /\ s[k].hdr.mx \in Nat /\ s[k].cur \in Nat
    BY DEF IInv, Local, Hdr
  <2>3. s[k].readLock > 0 => s[k].hdr.mx <= shm.h0.mx
    BY <2>1 DEF VInv, ReaderV
  <2>4. s[k].pc \in Folding => /\ s[k].hdr.mx <= shm.h0.mx /\ s[k].safe <= s[k].hdr.mx
                               /\ s[k].safe \in Nat
    BY DEF IInv, Own, FoldingOK, Local
  <2> QED BY <2>1, <2>2, <2>3, <2>4
<1>5. FilesV'
  <2>1. Recorded(shm.h0.mx)'
    BY <1>2, <1>3 DEF Recorded, FramesAfter, IndexAfter
  <2>2. Folded(shm.backfill)'
    BY <1>2, <1>3 DEF Folded, LastIn, FramesAfter
  <2> QED BY <1>2, <1>3, <2>1, <2>2 DEF FilesV, FramesAfter, IndexAfter
<1>6. ASSUME NEW k \in Conn \ {c}
      PROVE  WriterV(s[k])' /\ ReaderV(s[k])' /\ CkptV(s[k])'
  <2>1. WriterV(s[k])' /\ ReaderV(s[k])'
    BY <1>1, <1>3, <1>4 DEF VInv, WriterV, ReaderV
  <2>2. CkptV(s[k])'
    <3>1. s[k].pc \in Folding =>
            \A p \in Page : NoneIn(file', p, s[k].hdr.mx) <=> NoneIn(file, p, s[k].hdr.mx)
      BY <1>2, <1>3, <1>4 DEF NoneIn, FramesAfter
    <3>2. s[k].pc \in Folding => \A p \in Page, f \in 1..s[k].hdr.mx :
            /\ LastIn(file', f, p, s[k].hdr.mx) <=> LastIn(file, f, p, s[k].hdr.mx)
            /\ file'.frame[f].val = file.frame[f].val
      BY <1>2, <1>3, <1>4 DEF LastIn, FramesAfter
    <3>3. CkptV(s[k])
      BY DEF VInv
    <3>4. file'.db = file.db
      BY <1>3 DEF FramesAfter
    <3>5. SUFFICES ASSUME s[k].pc \in Folding PROVE CkptV(s[k])'
      BY <1>1 DEF CkptV
    <3>6. \A p \in Page : s[k].iter[p] = 0 \/ s[k].iter[p] \in 1..s[k].hdr.mx
      BY <3>3, <3>5 DEF CkptV, LastIn
    <3>7. \A p \in Page : \/ s[k].iter[p] = 0 /\ NoneIn(file', p, s[k].hdr.mx)
                          \/ LastIn(file', s[k].iter[p], p, s[k].hdr.mx)
      BY <3>1, <3>2, <3>3, <3>5 DEF CkptV, LastIn
    <3>8. s[k].pc = "ckCopy" =>
            /\ s[k].todo \subseteq Page /\ shm.backfill < s[k].safe
            /\ \A p \in s[k].todo : s[k].iter[p] \in shm.backfill + 1..s[k].safe
            /\ \A p \in Page \ s[k].todo : s[k].iter[p] \in shm.backfill + 1..s[k].safe
                 => file'.db[p] = file'.frame[s[k].iter[p]].val
      BY <1>2, <1>4, <3>2, <3>3, <3>4, <3>5, <3>6 DEF CkptV
    <3> QED BY <1>1, <1>3, <3>3, <3>5, <3>7, <3>8 DEF CkptV
  <2> QED BY <2>1, <2>2
<1>7. CkptV(s[c])'
  BY <1>1 DEF CkptV, Ahead
<1>8. \A k, j \in Conn : Bounded(s[k], s[j])'
  <2>1. x.hdr.mx \in Nat /\ x.hdr.mx >= shm.h0.mx /\ x.pc \notin Folding
    BY DEF Ahead, Local, Hdr
  <2>2. ASSUME NEW k \in Conn, NEW j \in Conn PROVE Bounded(s'[k], s'[j])
    <3>1. CASE k = c
      BY <1>1, <2>1, <3>1 DEF Bounded
    <3>2. CASE k # c /\ j # c
      BY <1>1, <3>2 DEF VInv, Bounded
    <3>3. CASE k # c /\ j = c
      BY <1>1, <1>2, <1>4, <2>1, <3>3 DEF Bounded
    <3> QED BY <3>1, <3>2, <3>3
  <2> QED BY <2>2 DEF Bounded
<1>9. VInv'
  <2>1. \A k \in Conn : s'[k].tx <= ntx'
    BY <1>1 DEF VInv, Ahead
  <2>2. CloseV'
    BY DEF CloseV, Ahead
  <2>3. ntx' \in 0..MaxTx /\ stops' = 0
    BY DEF VInv, Ahead
  <2> QED BY <1>5, <1>6, <1>7, <1>8, <2>1, <2>2, <2>3 DEF VInv
<1>10. Store' = Store
  <2>1. PICK mx \in Nat : mx = shm.h0.mx
    BY <1>2
  <2>2. PagesAt(file', mx) = PagesAt(file, mx)
    BY <1>3, <2>1, PagesSame DEF FramesAfter
  <2>3. Store' = PagesAt(file', mx) /\ Store = PagesAt(file, mx)
    BY <1>2, <1>3, <2>1, Zenon DEF Store
  <2> QED BY <2>2, <2>3
<1>11. ASSUME NEW k \in Conn \ {c} PROVE View'[k] = View[k]
  <2>1. ASSUME NEW p \in Page
        PROVE  ReadBy(s'[k], shm'.index, file', p) = ReadBy(s[k], shm.index, file, p)
    <3>1. s[k].cur = 0
      BY <1>4 DEF VInv, ReaderV, Framing
    <3>2. SeenBy(s'[k], shm'.index, file', p) = SeenBy(s[k], shm.index, file, p)
      BY <1>1, <1>2, <1>3, <1>4, <3>1 DEF SeenBy, IndexAfter, Frame
    <3>3. \A f \in SeenBy(s[k], shm.index, file, p) : f \in 1..shm.h0.mx
      BY <1>2, <1>4, <3>1 DEF SeenBy, Frame
    <3>4. /\ \A f \in SeenBy(s[k], shm.index, file, p) : file'.frame[f].val = file.frame[f].val
          /\ file'.db[p] = file.db[p]
      BY <1>3, <3>3 DEF FramesAfter
    <3> QED BY <3>2, <3>4, ReadSame
  <2> QED BY <1>1, <2>1, SameViewOf
<1> QED BY <1>9, <1>10, <1>11

\* The writer among its frames, after the last commit.
LEMMA Putting ==
  ASSUME IInv, VInv, ~Overlap, NEW c \in Conn, s[c].pc \in Framing
  PROVE  /\ Local(s[c]) /\ Own(s[c]) /\ WriterV(s[c]) /\ ReaderV(s[c]) /\ FilesV
         /\ closing = None /\ shm.h0 # None /\ s[c].tx # 0 /\ s[c].tx \in 1..MaxTx
         /\ s[c].readLock \in Slot /\ s[c].hdr.mx \in Nat /\ s[c].cur \in Nat
         /\ shm.h0.mx \in Nat /\ shm.h0.mx <= s[c].hdr.mx /\ s[c].hdr.mx <= MaxFrame
         /\ s[c].min \in Nat \ {0} /\ s[c].min <= shm.backfill + 1
         /\ shm.backfill \in Nat /\ shm.backfill <= shm.h0.mx
         /\ Writer = c
<1>1. /\ Local(s[c]) /\ Own(s[c]) /\ WriterV(s[c]) /\ ReaderV(s[c]) /\ FilesV
      /\ closing = None /\ shm.h0 # None /\ s[c].tx # 0
      /\ s[c].readLock \in Slot /\ s[c].hdr.mx \in Nat /\ s[c].cur \in Nat
  BY Frames DEF VInv, Slot
<1>2. s[c].tx \in 1..MaxTx
  BY <1>1, WalAssumption DEF VInv, Local
<1>3. shm.h0.mx \in Nat /\ shm.h0.mx <= s[c].hdr.mx
  BY <1>1 DEF IInv, TypesOK, Hdr, Own, WriterOK, Framing
<1>4. s[c].hdr.mx <= MaxFrame
  BY <1>1 DEF WriterV, Recorded
<1>5. s[c].min \in Nat \ {0} /\ s[c].min <= shm.backfill + 1 /\ shm.backfill \in Nat
  BY <1>1 DEF ReaderV, Slot, IInv, TypesOK
<1>6. shm.backfill <= shm.h0.mx
  <2>1. \A k \in Conn \ {c} : s[k].pc \notin Restarting
    BY <1>1, OneWriter
  <2>2. \A k \in Conn : s[k].pc # "restart1"
    BY <2>1 DEF Restarting, Framing
  <2> QED BY <1>1, <2>2 DEF IInv, BackfillWithinLog
<1>7. Writer = c
  BY <1>1, WriterIs
<1> QED BY <1>1, <1>2, <1>3, <1>4, <1>5, <1>6, <1>7

\* The least of some page numbers.
LEMMA LeastPage ==
  ASSUME NEW T \in SUBSET Page, T # {}
  PROVE  Min(T) \in T
<1>1. T \in SUBSET Nat
  BY WalAssumption
<1>2. PICK m \in T : \A y \in T : m <= y
  BY <1>1, LeastNatural
<1>3. Min(T) = CHOOSE x \in T : \A y \in T : x <= y
  BY DEF Min
<1> QED BY <1>2, <1>3

\* What is left to put.
LEMMA LessToDo ==
  ASSUME NEW T \in SUBSET Page, NEW p \in T
  PROVE  /\ Cardinality(T) \in Nat /\ Cardinality(T) >= 1
         /\ Cardinality(T \ {p}) = Cardinality(T) - 1
<1>1. IsFiniteSet(T)
  BY PageAssumption, FS_Subset
<1>2. Cardinality(T \ {p}) = Cardinality(T) - 1 /\ IsFiniteSet(T \ {p})
  BY <1>1, FS_RemoveElement
<1>3. Cardinality(T) \in Nat /\ Cardinality(T \ {p}) \in Nat
  BY <1>1, <1>2, FS_CardinalityType
<1> QED BY <1>2, <1>3

\* The frame f that PutFrame writes for page p comes after the last commit, and
\* is one of the writer's or the next.
Puts(c, x, p, f, val) ==
  /\ Set(c, x) /\ p \in Page /\ f \in Frame /\ f > shm.h0.mx /\ val \in Val
  /\ x.tx = s[c].tx /\ x.hdr = s[c].hdr /\ x.readLock = s[c].readLock
  /\ x.min = s[c].min /\ x.first = s[c].first
  /\ x.todo = s[c].todo \ {p} /\ p \in s[c].todo
  /\ x.pc \in {"put", "recheck", "append"} /\ (x.pc = "put" => x.todo # {})
  /\ \/ /\ f <= s[c].hdr.mx /\ shm.index[f] = p /\ x.cur = s[c].cur
        /\ file' = [file EXCEPT !.frame[f].val = val]
     \/ /\ f = s[c].cur + 1 /\ x.cur = f
        /\ \E new : /\ file' = [file EXCEPT !.frame[f] = new] /\ new.pg = p
                    /\ new.val = val /\ DOMAIN new = DOMAIN NoFrame

\* What PutFrame does, in its two cases.
LEMMA PutFrameIs ==
  ASSUME IInv, VInv, ~Overlap, NEW c \in Conn, PutFrame(c)
  PROVE  \E x, p, f, val : Puts(c, x, p, f, val)
<1>1. /\ s[c].pc = "put" /\ s[c].todo # {} /\ s[c].todo \subseteq Page
      /\ s[c].cur + Cardinality(s[c].todo) <= MaxFrame
      /\ s[c].cur >= s[c].hdr.mx
      /\ s[c].first # 0 => s[c].first > shm.h0.mx
      /\ s[c].first \in Nat
  <2>1. s[c].pc = "put" /\ s[c].pc \in Framing
    BY DEF PutFrame, Framing
  <2> QED BY <2>1, Putting DEF WriterV, Local, ReaderV
<1>2. /\ Local(s[c]) /\ s[c].tx \in 1..MaxTx /\ s[c].readLock # 0
      /\ s[c].hdr.mx \in Nat /\ s[c].cur \in Nat /\ shm.h0.mx \in Nat
      /\ shm.h0.mx <= s[c].hdr.mx /\ s[c].hdr.mx <= MaxFrame /\ s[c].min \in Nat \ {0}
      /\ MaxTx \in Nat /\ MaxFrame \in Nat
  BY <1>1, Putting, WalAssumption DEF Framing, Slot
<1> DEFINE p == Min(s[c].todo)
           again == \E f \in shm.h0.mx + 1 .. s[c].cur : file.frame[f].pg = p
           val == 2 * s[c].tx - (IF again THEN 0 ELSE 1)
           over == /\ s[c].first # 0 /\ (s[c].todo # {p} \/ ~s[c].commit)
                   /\ FindFrame(c, p) >= s[c].first
           f == IF over THEN FindFrame(c, p) ELSE s[c].cur + 1
           last == s[c].commit /\ s[c].todo = {p}
           plain == s[c].reck = 0
           reck == IF over /\ (plain \/ f < s[c].reck) THEN f ELSE s[c].reck
           new == [pg |-> p, val |-> val, last |-> last,
                   salt |-> IF plain THEN s[c].hdr.salt ELSE 0,
                   sum |-> IF plain THEN Append(Contents(file.frame, f - 1), <<p, val, last>>)
                                    ELSE <<>>]
           cur == IF over THEN s[c].cur ELSE f
           place == IF s[c].todo # {p} THEN "put"
                    ELSE IF s[c].commit /\ reck # 0 THEN "recheck" ELSE "append"
           x == [s[c] EXCEPT !.todo = @ \ {p}, !.reck = reck, !.cur = cur, !.pc = place]
<1>3. /\ file' = IF over THEN [file EXCEPT !.frame[f].val = val]
                         ELSE [file EXCEPT !.frame[f] = new]
      /\ Set(c, x)
  <2>1. "cur" \in DOMAIN s[c]
    BY <1>2 DEF Local, Fields, Fresh
  <2> QED BY <2>1 DEF PutFrame
<1>4. p \in s[c].todo
  BY <1>1, LeastPage
<1>5. val \in Val
  BY <1>2 DEF Val
<1>6. over => f \in s[c].min..s[c].hdr.mx /\ shm.index[f] = p /\ f > shm.h0.mx
  <2>1. FindFrame(c, p) = Latest(shm.index, p, s[c].min, s[c].hdr.mx)
    BY <1>2 DEF FindFrame
  <2>2. \/ FindFrame(c, p) = 0
        \/ /\ FindFrame(c, p) \in s[c].min..s[c].hdr.mx
           /\ shm.index[FindFrame(c, p)] = p
    <3> HIDE DEF p
    <3> QED BY <1>2, <2>1, LatestIs
  <2> HIDE DEF p
  <2> QED BY <1>1, <1>2, <2>2
<1>7. ~over => f = s[c].cur + 1 /\ f <= MaxFrame /\ f > shm.h0.mx
  <2>1. Cardinality(s[c].todo) \in Nat /\ Cardinality(s[c].todo) >= 1
    BY <1>1, <1>4, LessToDo
  <2> HIDE DEF p
  <2> QED BY <1>1, <1>2, <2>1
<1>8. place \in {"put", "recheck", "append"} /\ (place = "put" => s[c].todo # {p})
  <2> HIDE DEF p, reck
  <2> QED OBVIOUS
<1>9. new.pg = p /\ new.val = val /\ DOMAIN new = DOMAIN NoFrame
  BY DEF NoFrame
<1> HIDE DEF p, val, over, new, reck, place
<1>10. /\ x.tx = s[c].tx /\ x.hdr = s[c].hdr /\ x.readLock = s[c].readLock
       /\ x.min = s[c].min /\ x.first = s[c].first /\ x.todo = s[c].todo \ {p}
       /\ x.cur = cur /\ x.pc = place
  BY <1>2 DEF Local, Fields, Fresh
<1>11. f \in Frame /\ f > shm.h0.mx
  BY <1>2, <1>6, <1>7 DEF Frame
<1>12. \/ /\ f <= s[c].hdr.mx /\ shm.index[f] = p /\ cur = s[c].cur
          /\ file' = [file EXCEPT !.frame[f].val = val]
       \/ /\ f = s[c].cur + 1 /\ cur = f
          /\ file' = [file EXCEPT !.frame[f] = new]
  BY <1>2, <1>3, <1>6, <1>7
<1>13. x.pc = "put" => x.todo # {}
  BY <1>4, <1>8, <1>10
<1>14. \/ /\ f <= s[c].hdr.mx /\ shm.index[f] = p /\ x.cur = s[c].cur
          /\ file' = [file EXCEPT !.frame[f].val = val]
       \/ /\ f = s[c].cur + 1 /\ x.cur = f
          /\ \E n : /\ file' = [file EXCEPT !.frame[f] = n] /\ n.pg = p
                    /\ n.val = val /\ DOMAIN n = DOMAIN NoFrame
  BY <1>9, <1>10, <1>12, Zenon
<1>15. /\ Set(c, x) /\ p \in Page /\ p \in s[c].todo
       /\ x.pc \in {"put", "recheck", "append"}
  BY <1>1, <1>3, <1>4, <1>8, <1>10
<1> HIDE DEF x, f, cur
<1>16. Puts(c, x, p, f, val)
  BY <1>5, <1>10, <1>11, <1>13, <1>14, <1>15, Zenon DEF Puts
<1> QED BY <1>16, Zenon

\* A frame changes one page of the writer's view.
LEMMA PutFrameSnap ==
  ASSUME IInv, VInv, IInv', ~Overlap, NEW c \in Conn, PutFrame(c)
  PROVE  VInv' /\ SnapStep
<1>1. s[c].pc = "put" /\ UNCHANGED <<shm, kept, closing, ntx, stops>> /\ s[c].pc \in Framing
  BY DEF PutFrame, counts, Framing
<1>2. /\ Local(s[c]) /\ Own(s[c]) /\ WriterV(s[c]) /\ ReaderV(s[c]) /\ FilesV
      /\ closing = None /\ shm.h0 # None /\ s[c].tx # 0 /\ s[c].tx \in 1..MaxTx
      /\ s[c].readLock \in Slot /\ s[c].hdr.mx \in Nat /\ s[c].cur \in Nat
      /\ shm.h0.mx \in Nat /\ shm.h0.mx <= s[c].hdr.mx /\ s[c].hdr.mx <= MaxFrame
      /\ s[c].min \in Nat \ {0} /\ s[c].min <= shm.backfill + 1 /\ Writer = c
  BY <1>1, Putting
<1>3. PICK x, p, f, val : Puts(c, x, p, f, val)
  BY PutFrameIs
<1>4. /\ Set(c, x) /\ p \in Page /\ f \in Frame /\ f > shm.h0.mx /\ val \in Val
      /\ x.tx = s[c].tx /\ x.hdr = s[c].hdr /\ x.readLock = s[c].readLock
      /\ x.min = s[c].min /\ x.first = s[c].first
      /\ x.todo = s[c].todo \ {p} /\ p \in s[c].todo
      /\ x.pc \in {"put", "recheck", "append"} /\ (x.pc = "put" => x.todo # {})
      /\ \/ f <= s[c].hdr.mx /\ shm.index[f] = p /\ x.cur = s[c].cur
         \/ f = s[c].cur + 1 /\ x.cur = f
      /\ s[c].cur >= s[c].hdr.mx
  BY <1>1, <1>2, <1>3 DEF Puts, Local
<1>5. /\ DOMAIN file' = DOMAIN file /\ file'.db = file.db /\ DOMAIN file'.frame = Frame
      /\ \A g \in Frame \ {f} : file'.frame[g] = file.frame[g]
      /\ DOMAIN file'.frame[f] = DOMAIN NoFrame /\ file'.frame[f].val = val
      /\ file'.frame[f].pg = p
  <2>1. ASSUME f <= s[c].hdr.mx, shm.index[f] = p, file' = [file EXCEPT !.frame[f].val = val]
        PROVE  /\ DOMAIN file' = DOMAIN file /\ file'.db = file.db /\ DOMAIN file'.frame = Frame
               /\ \A g \in Frame \ {f} : file'.frame[g] = file.frame[g]
               /\ DOMAIN file'.frame[f] = DOMAIN NoFrame /\ file'.frame[f].val = val
               /\ file'.frame[f].pg = p
    <3>1. file.frame[f].pg = p
      BY <1>2, <1>4, <2>1 DEF WriterV, Recorded, Frame
    <3> QED BY <1>2, <1>4, <2>1, <3>1 DEF FilesV, NoFrame
  <2>2. ASSUME NEW new, file' = [file EXCEPT !.frame[f] = new], new.pg = p,
               new.val = val, DOMAIN new = DOMAIN NoFrame
        PROVE  /\ DOMAIN file' = DOMAIN file /\ file'.db = file.db /\ DOMAIN file'.frame = Frame
               /\ \A g \in Frame \ {f} : file'.frame[g] = file.frame[g]
               /\ DOMAIN file'.frame[f] = DOMAIN NoFrame /\ file'.frame[f].val = val
               /\ file'.frame[f].pg = p
    BY <1>2, <1>4, <2>2 DEF FilesV
  <2> QED BY <1>3, <2>1, <2>2 DEF Puts
<1>6. \A g \in 1..s[c].hdr.mx : g \in Frame /\ file'.frame[g].pg = file.frame[g].pg
  <2>1. \A g \in 1..s[c].hdr.mx : g \in Frame /\ file.frame[g].pg = shm.index[g]
    BY <1>2, WalAssumption DEF WriterV, Recorded, Frame
  <2>2. f <= s[c].hdr.mx => shm.index[f] = p
    BY <1>2, <1>4
  <2> QED BY <1>2, <1>4, <1>5, <2>1, <2>2 DEF Frame
<1>7. Local(x) /\ s'[c] = x /\ \A k \in Conn \ {c} : s'[k] = s[k]
  BY <1>4, OneMoves DEF IInv
<1>8. Ahead(c, x)
  <2>1. FramesAfter(shm.h0.mx)
    <3>1. \A g \in 1..shm.h0.mx : g \in Frame /\ g # f
      BY <1>2, <1>4, WalAssumption DEF Frame
    <3> QED BY <1>2, <1>4, <1>5, <3>1 DEF FramesAfter, FilesV
  <2>2. IndexAfter(shm.h0.mx)
    BY <1>1, <1>2 DEF IndexAfter, FilesV
  <2> QED BY <1>1, <1>2, <1>4, <2>1, <2>2 DEF Ahead, Folding
<1>9. WriterV(s[c])'
  <2>1. Recorded(s[c].hdr.mx)'
    BY <1>1, <1>2, <1>4, <1>6, <1>7 DEF WriterV, Recorded
  <2>2. x.pc = "put" => x.cur + Cardinality(x.todo) <= MaxFrame
    <3>1. s[c].todo \subseteq Page /\ s[c].cur + Cardinality(s[c].todo) <= MaxFrame
      BY <1>1, <1>2 DEF WriterV
    <3>2. /\ Cardinality(s[c].todo) \in Nat
          /\ Cardinality(x.todo) = Cardinality(s[c].todo) - 1
      BY <1>4, <3>1, LessToDo
    <3>3. x.cur \in Nat /\ x.cur <= s[c].cur + 1
      BY <1>2, <1>4
    <3> QED BY <1>2, <3>1, <3>2, <3>3, WalAssumption
  <2>3. x.cur <= MaxFrame /\ \A g \in s[c].hdr.mx + 1..x.cur : file'.frame[g].pg \in Page
    <3>1. s[c].cur <= MaxFrame /\ \A g \in s[c].hdr.mx + 1..s[c].cur : file.frame[g].pg \in Page
      BY <1>1, <1>2 DEF WriterV
    <3>2. x.cur <= MaxFrame
      BY <1>4, <3>1 DEF Frame
    <3>3. ASSUME NEW g \in s[c].hdr.mx + 1..x.cur PROVE file'.frame[g].pg \in Page
      <4>1. g \in Frame
        BY <1>2, <1>4, <3>2, WalAssumption DEF Frame
      <4>2. g # f => g \in s[c].hdr.mx + 1..s[c].cur
        BY <1>2, <1>4, <3>3
      <4> QED BY <1>4, <1>5, <3>1, <4>1, <4>2
    <3> QED BY <3>2, <3>3
  <2>4. x.todo \subseteq Page /\ (x.first # 0 => x.first > shm.h0.mx)
    BY <1>1, <1>2, <1>4 DEF WriterV
  <2> QED BY <1>1, <1>4, <1>7, <2>1, <2>2, <2>3, <2>4 DEF WriterV, Marking, Restarting
<1>10. ReaderV(s[c])'
  BY <1>1, <1>2, <1>4, <1>7 DEF ReaderV
<1>11. VInv' /\ Store' = Store /\ \A k \in Conn \ {c} : View'[k] = View[k]
  BY <1>7, <1>8, <1>9, <1>10, AheadKeepsV
<1>12. ASSUME NEW q \in Page, q # p
       PROVE  ReadBy(x, shm'.index, file', q) = ReadBy(s[c], shm.index, file, q)
  <2>1. \A g \in Frame : g > x.hdr.mx /\ g <= x.cur /\ file'.frame[g].pg = q
                          <=> g > s[c].hdr.mx /\ g <= s[c].cur /\ file.frame[g].pg = q
    <3>1. SUFFICES ASSUME NEW g \in Frame, g > s[c].hdr.mx
                   PROVE  g <= x.cur /\ file'.frame[g].pg = q
                            <=> g <= s[c].cur /\ file.frame[g].pg = q
      BY <1>4
    <3>2. CASE g = f
      <4>1. file'.frame[g].pg # q
        BY <1>5, <1>12, <3>2
      <4>2. ~(g <= s[c].cur)
        BY <1>2, <1>4, <3>1, <3>2 DEF Frame
      <4> QED BY <4>1, <4>2
    <3>3. CASE g # f
      <4>1. g <= x.cur <=> g <= s[c].cur
        BY <1>2, <1>4, <3>3 DEF Frame
      <4> QED BY <1>5, <3>3, <4>1
    <3> QED BY <3>2, <3>3
  <2>2. f \notin SeenBy(s[c], shm.index, file, q)
    BY <1>2, <1>4, <1>12 DEF SeenBy, Frame
  <2>3. SeenBy(x, shm'.index, file', q) = SeenBy(s[c], shm.index, file, q)
    BY <1>1, <1>4, <2>1 DEF SeenBy
  <2>4. /\ \A g \in SeenBy(s[c], shm.index, file, q) : file'.frame[g].val = file.frame[g].val
        /\ file'.db[q] = file.db[q]
    BY <1>5, <2>2 DEF SeenBy
  <2> QED BY <2>3, <2>4, ReadSame
<1>13. ASSUME NEW q \in Page PROVE ReadBy(x, shm'.index, file', q) \in Val
  BY <1>11, <1>13, ReadVal DEF VInv, FilesV
<1>14. /\ InTx(s[c]) /\ InTx(s'[c])
  BY <1>2, <1>4, <1>7 DEF InTx
<1>15. View'[c] = [q \in Page |-> ReadBy(x, shm'.index, file', q)]
  <2>1. \A q \in Page : Read(c, q)' = ReadBy(x, shm'.index, file', q)
    BY <1>7, ReadNow
  <2>2. [q \in Page |-> Read(c, q)'] = [q \in Page |-> ReadBy(x, shm'.index, file', q)]
    BY <2>1, Zenon
  <2>3. View'[c] = [q \in Page |-> Read(c, q)']
    BY <1>14, ViewsAre
  <2> QED BY <2>2, <2>3, Zenon
<1>16. View[c] = [q \in Page |-> ReadBy(s[c], shm.index, file, q)]
  <2>1. \A q \in Page : Read(c, q) = ReadBy(s[c], shm.index, file, q)
    BY ReadNow
  <2>2. [q \in Page |-> Read(c, q)] = [q \in Page |-> ReadBy(s[c], shm.index, file, q)]
    BY <2>1, Zenon
  <2>3. View[c] = [q \in Page |-> Read(c, q)]
    BY <1>14, ViewsAre
  <2> QED BY <2>2, <2>3, Zenon
<1>17. View'[c] \in [Page -> Val]
  BY <1>13, <1>15
<1>18. View' = [View EXCEPT ![c][p] = View'[c][p]]
  <2>1. View' = [k \in Conn |-> View'[k]] /\ DOMAIN View = Conn
    BY DEF View
  <2>2. View'[c] = [View[c] EXCEPT ![p] = View'[c][p]]
    BY <1>4, <1>12, <1>15, <1>16
  <2>3. View' = [View EXCEPT ![c] = View'[c]]
    BY <1>11, <2>1
  <2> QED BY <2>1, <2>2, <2>3
<1>19. ~Sealed /\ Writer' = Writer
  BY <1>1, <1>2, <1>4, SealedIs, SameWriter DEF InSeal
<1> QED BY <1>1, <1>2, <1>4, <1>11, <1>17, <1>18, <1>19, SnapWrite

\* A checksum changes no page.
LEMMA RewriteChecksumSnap ==
  ASSUME IInv, VInv, IInv', ~Overlap, NEW c \in Conn, RewriteChecksum(c)
  PROVE  VInv' /\ SnapStep
<1>1. s[c].pc = "recheck" /\ UNCHANGED <<shm, kept, closing, ntx, stops>> /\ s[c].pc \in Framing
  BY DEF RewriteChecksum, counts, Framing
<1>2. /\ Local(s[c]) /\ WriterV(s[c]) /\ ReaderV(s[c]) /\ FilesV
      /\ closing = None /\ shm.h0 # None /\ s[c].tx # 0 /\ s[c].readLock \in Slot
      /\ s[c].hdr.mx \in Nat /\ s[c].cur \in Nat
      /\ shm.h0.mx \in Nat /\ shm.h0.mx <= s[c].hdr.mx /\ s[c].hdr.mx <= MaxFrame
      /\ Writer = c
  BY <1>1, Putting
<1>3. PICK x : /\ Set(c, x)
               /\ \/ x = [s[c] EXCEPT !.reck = 0, !.pc = "append"]
                  \/ x = [s[c] EXCEPT !.reck = s[c].reck + 1]
  BY DEF RewriteChecksum
<1>4. /\ x.pc \in {"recheck", "append"} /\ x.tx = s[c].tx /\ x.hdr = s[c].hdr
      /\ x.readLock = s[c].readLock /\ x.min = s[c].min /\ x.cur = s[c].cur
      /\ x.first = s[c].first /\ x.todo = s[c].todo /\ x.commit = s[c].commit
  <2>1. DOMAIN s[c] = Fields
    BY <1>2 DEF Local
  <2>2. CASE x = [s[c] EXCEPT !.reck = 0, !.pc = "append"]
    BY <2>1, <2>2 DEF Fields, Fresh
  <2>3. CASE x = [s[c] EXCEPT !.reck = s[c].reck + 1]
    BY <1>1, <2>1, <2>3 DEF Fields, Fresh
  <2> QED BY <1>3, <2>2, <2>3
<1>5. Local(x) /\ s'[c] = x /\ \A k \in Conn \ {c} : s'[k] = s[k]
  BY <1>3, OneMoves DEF IInv
<1>6. /\ DOMAIN file' = DOMAIN file /\ file'.db = file.db /\ DOMAIN file'.frame = Frame
      /\ \A g \in Frame : /\ DOMAIN file'.frame[g] = DOMAIN file.frame[g]
                          /\ file'.frame[g].pg = file.frame[g].pg
                          /\ file'.frame[g].val = file.frame[g].val
  <2>1. PICK f, salt, sum :
          file' = [file EXCEPT !.frame[f].salt = salt, !.frame[f].sum = sum]
    BY DEF RewriteChecksum
  <2> QED BY <1>2, <2>1 DEF FilesV, NoFrame
<1>7. Ahead(c, x)
  <2>1. FramesAfter(shm.h0.mx)
    <3>1. \A g \in 1..shm.h0.mx : g \in Frame
      BY <1>2, WalAssumption DEF Frame
    <3> QED BY <1>2, <1>6, <3>1 DEF FramesAfter, FilesV
  <2>2. IndexAfter(shm.h0.mx)
    BY <1>1, <1>2 DEF IndexAfter, FilesV
  <2> QED BY <1>1, <1>2, <1>3, <1>4, <2>1, <2>2 DEF Ahead, Folding
<1>8. s[c].cur <= MaxFrame /\ \A g \in s[c].hdr.mx + 1..s[c].cur : file.frame[g].pg \in Page
  BY <1>1, <1>2 DEF WriterV
<1>9. WriterV(s[c])'
  <2>1. Recorded(s[c].hdr.mx)'
    <3>1. \A g \in 1..s[c].hdr.mx : g \in Frame
      BY <1>2, WalAssumption DEF Frame
    <3> QED BY <1>1, <1>2, <1>4, <1>5, <1>6, <3>1 DEF WriterV, Recorded
  <2>2. \A g \in s[c].hdr.mx + 1..s[c].cur : g \in Frame /\ file'.frame[g].pg \in Page
    <3>1. \A g \in s[c].hdr.mx + 1..s[c].cur : g \in Frame
      BY <1>2, <1>8, WalAssumption DEF Frame
    <3> QED BY <1>6, <1>8, <3>1
  <2> QED BY <1>1, <1>2, <1>4, <1>5, <1>8, <2>1, <2>2 DEF WriterV, Marking, Restarting
<1>10. ReaderV(s[c])'
  BY <1>1, <1>2, <1>4, <1>5 DEF ReaderV
<1>11. VInv' /\ Store' = Store /\ \A k \in Conn \ {c} : View'[k] = View[k]
  BY <1>5, <1>7, <1>9, <1>10, AheadKeepsV
<1>12. View'[c] = View[c]
  <2>1. ASSUME NEW q \in Page
        PROVE  ReadBy(x, shm'.index, file', q) = ReadBy(s[c], shm.index, file, q)
    <3>1. SeenBy(x, shm'.index, file', q) = SeenBy(s[c], shm.index, file, q)
      BY <1>1, <1>4, <1>6 DEF SeenBy
    <3>2. \A g \in SeenBy(s[c], shm.index, file, q) : file'.frame[g].val = file.frame[g].val
      BY <1>6 DEF SeenBy
    <3> QED BY <1>6, <3>1, <3>2, ReadSame
  <2>2. InTx(s[c]) /\ InTx(s'[c])
    BY <1>2, <1>4, <1>5 DEF InTx
  <2> QED BY <1>5, <2>1, <2>2, SameViewOf
<1>13. View' = View
  BY <1>11, <1>12, SameView
<1>14. ~Sealed /\ Writer' = Writer
  BY <1>1, <1>2, <1>3, <1>4, SealedIs, SameWriter DEF InSeal
\* There is a frame that the step does not change, for SnapWrite.
<1>15. PICK p \in Page : TRUE
  <2>1. s[c].cur \in s[c].hdr.mx + 1..s[c].cur
    BY <1>1, <1>2 DEF Local
  <2> QED BY <1>8, <2>1
<1>16. View[c] \in [Page -> Val]
  BY <1>2, SomeView DEF InTx
<1>17. View' = [View EXCEPT ![c][p] = View'[c][p]]
  <2>1. DOMAIN View = Conn
    BY DEF View
  <2>2. View = [View EXCEPT ![c] = [View[c] EXCEPT ![p] = View[c][p]]]
    <3>1. View = [k \in Conn |-> View[k]]
      BY DEF View
    <3>2. View[c] = [View[c] EXCEPT ![p] = View[c][p]]
      BY <1>16
    <3> QED BY <2>1, <3>1, <3>2
  <2> QED BY <1>13, <2>2
<1> QED BY <1>1, <1>2, <1>11, <1>13, <1>14, <1>15, <1>16, <1>17, SnapWrite

-----------------------------------------------------------------------------
(* The end of a transaction.                                               *)

\* The index takes in the frames that the writer saw in its cache.
LEMMA AppendIndexSnap ==
  ASSUME IInv, VInv, IInv', ~Overlap, NEW c \in Conn, AppendIndex(c)
  PROVE  VInv' /\ SnapStep
<1>1. s[c].pc = "append" /\ UNCHANGED <<file, kept, closing, ntx, stops>> /\ s[c].pc \in Framing
  BY DEF AppendIndex, files, counts, Framing
<1>2. /\ Local(s[c]) /\ WriterV(s[c]) /\ ReaderV(s[c]) /\ FilesV
      /\ closing = None /\ shm.h0 # None /\ s[c].tx # 0 /\ s[c].readLock \in Slot
      /\ s[c].hdr.mx \in Nat /\ s[c].cur \in Nat
      /\ shm.h0.mx \in Nat /\ shm.h0.mx <= s[c].hdr.mx /\ s[c].hdr.mx <= MaxFrame
      /\ s[c].min \in Nat \ {0} /\ s[c].min <= shm.backfill + 1
      /\ shm.backfill \in Nat /\ shm.backfill <= shm.h0.mx
  BY <1>1, Putting
<1> DEFINE mx == s[c].hdr.mx
           clean == IF s[c].cur = mx THEN shm.index
                    ELSE IF mx = 0 THEN [f \in Frame |-> 0]
                    ELSE IF shm.index[mx + 1] # 0 THEN Cleaned(shm.index, mx)
                    ELSE shm.index
           index == [f \in Frame |-> IF f \in (mx + 1)..s[c].cur
                                     THEN file.frame[f].pg ELSE clean[f]]
           hdr == [s[c].hdr EXCEPT !.mx = s[c].cur]
           x == [s[c] EXCEPT !.hdr = hdr, !.cur = 0,
                   !.pc = IF s[c].commit THEN "publish" ELSE "writing"]
<1>3. /\ Set(c, x)
      /\ shm' = [shm EXCEPT !.index = index, !.h1 = IF s[c].commit THEN hdr ELSE @]
  BY DEF AppendIndex
<1>4. /\ hdr.mx = s[c].cur
      /\ x.pc = (IF s[c].commit THEN "publish" ELSE "writing") /\ x.tx = s[c].tx /\ x.hdr = hdr
      /\ x.readLock = s[c].readLock /\ x.min = s[c].min /\ x.cur = 0
      /\ x.first = s[c].first /\ x.todo = s[c].todo /\ x.commit = s[c].commit
  BY <1>2 DEF Local, Fields, Fresh, Hdr
<1>5. \A f \in Frame : f <= mx => clean[f] = shm.index[f]
  BY <1>2 DEF Cleaned, Frame
<1>6. /\ DOMAIN index = Frame
      /\ \A f \in Frame : f <= mx => index[f] = shm.index[f]
      /\ \A f \in Frame : f > mx /\ f <= s[c].cur => index[f] = file.frame[f].pg
  <2> HIDE DEF clean
  <2> QED BY <1>2, <1>5 DEF Frame
<1> HIDE DEF clean, index, hdr, x
<1>7. /\ shm'.h0 = shm.h0 /\ shm'.backfill = shm.backfill /\ shm'.mark = shm.mark
      /\ shm'.index = index
  BY <1>3 DEF IInv, TypesOK, ZeroShm
<1>8. Local(x) /\ s'[c] = x /\ \A k \in Conn \ {c} : s'[k] = s[k]
  BY <1>3, OneMoves DEF IInv
<1>9. /\ s[c].cur <= MaxFrame /\ s[c].cur >= mx
      /\ \A g \in mx + 1..s[c].cur : file.frame[g].pg \in Page
      /\ Recorded(mx)
  BY <1>1, <1>2 DEF WriterV, Local
<1>10. Ahead(c, x)
  <2>1. FramesAfter(shm.h0.mx)
    BY <1>1, <1>2 DEF FramesAfter, FilesV
  <2>2. IndexAfter(shm.h0.mx)
    <3>1. \A g \in 1..shm.h0.mx : g \in Frame /\ g <= mx
      BY <1>2, WalAssumption DEF Frame
    <3> QED BY <1>6, <1>7, <3>1 DEF IndexAfter
  <2> QED BY <1>1, <1>2, <1>3, <1>4, <1>7, <1>9, <2>1, <2>2 DEF Ahead, Folding
<1>11. WriterV(s[c])'
  <2>1. Recorded(s[c].hdr.mx)'
    <3>1. \A g \in 1..s[c].cur : g \in Frame
      BY <1>2, <1>9, WalAssumption DEF Frame
    <3>2. \A g \in 1..mx : shm.index[g] = file.frame[g].pg /\ file.frame[g].pg \in Page
      BY <1>9 DEF Recorded
    <3>3. ASSUME NEW g \in 1..s[c].cur
          PROVE  index[g] = file.frame[g].pg /\ file.frame[g].pg \in Page
      <4>1. CASE g <= mx
        BY <1>2, <1>6, <3>1, <3>2, <4>1
      <4>2. CASE g > mx
        BY <1>2, <1>6, <1>9, <3>1, <4>2
      <4> QED BY <1>2, <4>1, <4>2
    <3>4. \A g \in 1..s[c].cur : shm'.index[g] = file'.frame[g].pg /\ file'.frame[g].pg \in Page
      BY <1>1, <1>7, <3>3
    <3>5. s[c].cur <= MaxFrame /\ s'[c].hdr.mx = s[c].cur
      BY <1>4, <1>8, <1>9
    <3> QED BY <3>4, <3>5 DEF Recorded
  <2>2. /\ s'[c].first # 0 => s'[c].first > shm.h0.mx
        /\ s'[c].todo \subseteq Page
    BY <1>1, <1>2, <1>4, <1>8 DEF WriterV
  <2>3. s'[c].pc = "publish" => s'[c].commit
    BY <1>4, <1>8
  <2>4. s'[c].pc \in {"publish", "writing"}
    BY <1>4, <1>8
  <2> QED BY <1>7, <2>1, <2>2, <2>3, <2>4 DEF WriterV, Marking, Restarting
<1>12. ReaderV(s[c])'
  <2>1. s[c].readLock > 0 /\ s[c].first \in Nat /\ shm.mark[s[c].readLock] <= shm.h0.mx
    BY <1>2 DEF ReaderV, Slot
  <2>2. shm.mark[s[c].readLock] \in Nat
    BY <1>2 DEF IInv, TypesOK
  <2>3. shm.mark[s[c].readLock] <= s[c].cur
    BY <1>2, <1>9, <2>1, <2>2
  <2>4. s'[c].pc \in {"publish", "writing"}
    BY <1>4, <1>8
  <2>5. /\ s'[c].min = s[c].min /\ s'[c].first = s[c].first /\ s'[c].tx = s[c].tx
        /\ s'[c].cur = 0 /\ s'[c].readLock = s[c].readLock /\ s'[c].hdr.mx = s[c].cur
    BY <1>4, <1>8
  <2> QED BY <1>2, <1>7, <2>1, <2>3, <2>4, <2>5 DEF ReaderV
<1>13. VInv' /\ Store' = Store /\ \A k \in Conn \ {c} : View'[k] = View[k]
  BY <1>8, <1>10, <1>11, <1>12, AheadKeepsV
<1>14. View'[c] = View[c]
  <2>1. ASSUME NEW q \in Page
        PROVE  ReadBy(x, shm'.index, file', q) = ReadBy(s[c], shm.index, file, q)
    <3>1. ASSUME NEW g \in Frame
          PROVE  g \in SeenBy(x, shm'.index, file', q) <=> g \in SeenBy(s[c], shm.index, file, q)
      <4>1. g \in Nat /\ s[c].readLock > 0
        BY <1>2 DEF Frame, Slot
      <4>2. g \in SeenBy(x, shm'.index, file', q)
              <=> g >= s[c].min /\ g <= s[c].cur /\ index[g] = q
        BY <1>2, <1>4, <1>7, <4>1 DEF SeenBy
      <4>3. g \in SeenBy(s[c], shm.index, file, q)
              <=> \/ g >= s[c].min /\ g <= mx /\ shm.index[g] = q
                  \/ g > mx /\ g <= s[c].cur /\ file.frame[g].pg = q
        BY <4>1 DEF SeenBy
      <4>4. CASE g <= mx
        BY <1>2, <1>6, <1>9, <4>1, <4>2, <4>3, <4>4
      <4>5. CASE g > mx
        BY <1>2, <1>6, <1>9, <4>1, <4>2, <4>3, <4>5
      <4> QED BY <1>2, <4>1, <4>4, <4>5
    <3>2. SeenBy(x, shm'.index, file', q) = SeenBy(s[c], shm.index, file, q)
      <4>1. /\ SeenBy(x, shm'.index, file', q) \subseteq Frame
            /\ SeenBy(s[c], shm.index, file, q) \subseteq Frame
        BY DEF SeenBy
      <4> QED BY <3>1, <4>1
    <3> QED BY <1>1, <3>2, ReadSame
  <2>2. InTx(s[c]) /\ InTx(s'[c])
    BY <1>2, <1>4, <1>8 DEF InTx
  <2> QED BY <1>8, <2>1, <2>2, SameViewOf
<1>15. View' = View
  BY <1>13, <1>14, SameView
<1>16. InSeal(x) <=> InSeal(s[c])
  BY <1>1, <1>4 DEF InSeal
<1>17. Writer' = Writer /\ Sealed' = Sealed
  BY <1>2, <1>3, <1>4, <1>16, SameWriter, SameSealed
<1> QED BY <1>1, <1>13, <1>15, <1>17, SnapStutter

\* The header makes what the writer reads the last commit.
LEMMA CommitSnap ==
  ASSUME IInv, VInv, IInv', ~Overlap, NEW c \in Conn, Commit(c)
  PROVE  VInv' /\ SnapStep
<1> DEFINE hdr == s[c].hdr
           x == Ended(c, hdr)
<1>1. /\ s[c].pc = "publish" /\ shm' = [shm EXCEPT !.h0 = hdr] /\ Set(c, x)
      /\ kept' = kept \cup {PagesAt(file, hdr.mx)}
      /\ UNCHANGED <<file, closing, ntx, stops>> /\ s[c].pc \in Framing
  BY DEF Commit, counts, Framing
<1>2. /\ Local(s[c]) /\ WriterV(s[c]) /\ ReaderV(s[c]) /\ FilesV
      /\ closing = None /\ shm.h0 # None /\ s[c].tx # 0
      /\ s[c].readLock \in Slot /\ hdr.mx \in Nat
      /\ shm.h0.mx \in Nat /\ shm.h0.mx <= hdr.mx /\ hdr.mx <= MaxFrame
      /\ s[c].min \in Nat \ {0} /\ s[c].min <= shm.backfill + 1
      /\ shm.backfill \in Nat /\ shm.backfill <= shm.h0.mx /\ Writer = c
  BY <1>1, Putting
<1>3. /\ hdr # None /\ s[c].cur = 0 /\ s[c].commit /\ Recorded(hdr.mx) /\ s[c].tx <= ntx
  <2>1. hdr # None
    BY <1>2, WalAssumption DEF Local, Hdr
  <2> QED BY <1>1, <1>2, <2>1 DEF ReaderV, WriterV, VInv
<1>4. /\ x.pc = "reading" /\ x.hdr = hdr /\ x.tx = 0 /\ x.readLock = s[c].readLock
      /\ x.min = s[c].min /\ x.cur = 0 /\ x.first = 0
  BY <1>2, <1>3 DEF Ended, Local, Fields, Fresh
<1> HIDE DEF x
<1>5. /\ shm'.h0 = hdr /\ shm'.backfill = shm.backfill /\ shm'.mark = shm.mark
      /\ shm'.index = shm.index
  BY <1>1 DEF IInv, TypesOK, ZeroShm
<1>6. Local(x) /\ s'[c] = x /\ \A k \in Conn \ {c} : s'[k] = s[k]
  BY <1>1, OneMoves DEF IInv
<1>7. \A k \in Conn \ {c} : s[k].tx = 0 /\ s[k].pc \notin Framing
  BY <1>2, OneWriter
\* The last frames that are folded are followed by none of the commit's.
<1>8. \A p \in Page, f \in 1..shm.backfill :
        LastIn(file, f, p, hdr.mx) => file.db[p] = file.frame[f].val
  <2> SUFFICES ASSUME NEW p \in Page, NEW f \in 1..shm.backfill, LastIn(file, f, p, hdr.mx)
               PROVE  file.db[p] = file.frame[f].val
    OBVIOUS
  <2>1. LastIn(file, f, p, shm.h0.mx)
    BY <1>2 DEF LastIn
  <2> QED BY <1>2, <2>1 DEF FilesV, Folded
<1>9. FilesV'
  <2>1. Recorded(shm.h0.mx)'
    BY <1>1, <1>3, <1>5 DEF Recorded
  <2>2. Folded(shm.backfill)'
    BY <1>1, <1>5, <1>8 DEF Folded, LastIn
  <2> QED BY <1>1, <1>2, <1>3, <1>5, <2>1, <2>2 DEF FilesV
<1>10. \A k \in Conn : WriterV(s[k])' /\ ReaderV(s[k])' /\ CkptV(s[k])'
  <2>1. WriterV(s[c])' /\ ReaderV(s[c])' /\ CkptV(s[c])'
    <3>1. shm.mark[s[c].readLock] <= shm.h0.mx /\ shm.mark[s[c].readLock] <= hdr.mx
      BY <1>2 DEF ReaderV, Slot
    <3> QED BY <1>2, <1>4, <1>5, <1>6, <3>1 DEF WriterV, ReaderV, CkptV, Folding
  <2>2. ASSUME NEW k \in Conn \ {c} PROVE WriterV(s[k])' /\ ReaderV(s[k])' /\ CkptV(s[k])'
    <3>1. /\ ReaderV(s[k]) /\ CkptV(s[k]) /\ s[k].tx = 0 /\ s'[k] = s[k]
          /\ s[k].hdr.mx \in Nat /\ s[k].readLock \in -1..NReader
      BY <1>6, <1>7 DEF VInv, IInv, Local, Hdr
    <3>2. ReaderV(s[k])'
      <4>1. s[k].readLock > 0 => shm.mark[s[k].readLock] \in Nat
        BY <3>1 DEF IInv, TypesOK, Slot
      <4> QED BY <1>2, <1>5, <3>1, <4>1 DEF ReaderV
    <3>3. WriterV(s[k])'
      BY <3>1 DEF WriterV
    <3>4. CkptV(s[k])'
      BY <1>1, <1>5, <3>1 DEF CkptV, NoneIn, LastIn
    <3> QED BY <3>2, <3>3, <3>4
  <2> QED BY <2>1, <2>2
<1>11. \A k, j \in Conn : Bounded(s[k], s[j])'
  <2>1. \A k, j \in Conn : Bounded(s'[k], s'[j])
    <3>1. \A j \in Conn : s'[j].readLock = s[j].readLock /\ s'[j].hdr = s[j].hdr
      BY <1>4, <1>6
    <3>2. s'[c].pc \notin Folding
      BY <1>4, <1>6 DEF Folding
    <3> QED BY <1>6, <3>1, <3>2 DEF VInv, Bounded
  <2> QED BY <2>1 DEF Bounded
<1>12. VInv'
  <2>1. \A k \in Conn : s'[k].tx <= ntx'
    BY <1>1, <1>4, <1>6 DEF VInv
  <2> QED BY <1>1, <1>2, <1>9, <1>10, <1>11, <2>1 DEF VInv, CloseV
<1>13. View[c] = PagesAt(file, hdr.mx)
  <2>1. ASSUME NEW p \in Page PROVE ReadBy(s[c], shm.index, file, p) = PagesAt(file, hdr.mx)[p]
    <3>1. PICK mx \in Nat : mx = hdr.mx
      BY <1>2
    <3>2. Indexed(s[c], shm.index, file, mx)
      BY <1>3, <3>1 DEF Indexed, Recorded
    <3>3. RestIsIn(s[c], file, p, mx)
      <4> SUFFICES ASSUME NEW f \in 1..mx, f < s[c].min, LastIn(file, f, p, mx)
                   PROVE  file.db[p] = file.frame[f].val
        BY <1>2 DEF RestIsIn, Slot
      <4>1. f \in 1..shm.backfill
        BY <1>2
      <4> QED BY <1>8, <3>1, <4>1
    <3>4. ReadBy(s[c], shm.index, file, p) = PagesAt(file, mx)[p]
      BY <1>2, <1>3, <3>1, <3>2, <3>3, ReadsCommit DEF Slot
    <3> QED BY <3>1, <3>4
  <2>2. \A p \in Page : Read(c, p) = PagesAt(file, hdr.mx)[p]
    BY <2>1, ReadNow
  <2>3. View[c] = [p \in Page |-> Read(c, p)]
    BY <1>2, ViewsAre DEF InTx
  <2>4. [p \in Page |-> Read(c, p)] = [p \in Page |-> PagesAt(file, hdr.mx)[p]]
    BY <2>2, Zenon
  <2>5. PagesAt(file, hdr.mx) = [p \in Page |-> PagesAt(file, hdr.mx)[p]]
    BY DEF PagesAt
  <2> QED BY <2>3, <2>4, <2>5, Zenon
<1>14. Store' = PagesAt(file, hdr.mx)
  <2>1. Store' = PagesAt(file', shm'.h0.mx)
    BY <1>3, <1>5, Zenon DEF Store
  <2> QED BY <1>1, <1>5, <2>1, Zenon
<1>15. View' = View
  <2>1. ASSUME NEW k \in Conn PROVE View'[k] = View[k]
    <3>1. /\ s'[k].readLock = s[k].readLock /\ s'[k].hdr = s[k].hdr /\ s'[k].min = s[k].min
          /\ s'[k].cur = s[k].cur
      BY <1>3, <1>4, <1>6
    <3>2. InTx(s'[k]) <=> InTx(s[k])
      BY <1>2, <1>4, <1>6, WalAssumption DEF InTx, Slot
    <3>3. ASSUME NEW p \in Page
          PROVE  ReadBy(s'[k], shm'.index, file', p) = ReadBy(s[k], shm.index, file, p)
      <4>1. SeenBy(s'[k], shm'.index, file', p) = SeenBy(s[k], shm.index, file, p)
        BY <1>1, <1>5, <3>1 DEF SeenBy
      <4> QED BY <1>1, <4>1, ReadSame
    <3> QED BY <3>2, <3>3, SameViewOf
  <2> QED BY <2>1, SameView
<1>16. Sealed
  BY <1>1, <1>2, <1>3, SealedIs DEF InSeal
<1>17. ~Sealed'
  <2>1. \A k \in Conn : ~InSeal(s'[k])
    BY <1>4, <1>6, <1>7 DEF InSeal, Framing
  <2>2. Sealed' <=> \E k \in Conn : InSeal(s'[k])
    BY Zenon DEF Sealed, InSeal
  <2> QED BY <2>1, <2>2
<1>18. Writer' = None
  BY <1>4, <1>6, <1>7, WriterNext
<1> QED BY <1>1, <1>2, <1>12, <1>13, <1>14, <1>15, <1>16, <1>17, <1>18, SnapCommit

\* The writer goes back to the last commit.
LEMMA RollbackSnap ==
  ASSUME IInv, VInv, IInv', ~Overlap, NEW c \in Conn, Rollback(c)
  PROVE  VInv' /\ SnapStep
<1> DEFINE x == Ended(c, shm.h0)
           index == IF s[c].hdr.mx = shm.h0.mx THEN shm.index ELSE Cleaned(shm.index, shm.h0.mx)
<1>1. /\ s[c].pc = "writing" /\ Set(c, x) /\ UNCHANGED <<file, kept, closing, ntx, stops>>
  BY DEF Rollback, files, counts
<1>2. /\ Local(s[c]) /\ Own(s[c]) /\ closing = None /\ shm.h0 # None /\ s[c].tx # 0
      /\ WriterV(s[c]) /\ ReaderV(s[c]) /\ FilesV
      /\ shm.h0 \in Hdr /\ s[c].readLock \in 0..NReader
      /\ shm.h0.mx \in Nat /\ shm.h0.mx <= MaxFrame /\ shm.backfill \in Nat
      /\ s[c].cur = 0 /\ s[c].min \in Nat \ {0}
      /\ s[c].readLock > 0 => s[c].min <= shm.backfill + 1
  BY <1>1, AfterHdr DEF Local, IInv, TypesOK, VInv, Hdr, FilesV, Recorded, ReaderV
<1>3. /\ DOMAIN index = Frame
      /\ \A f \in 1..shm.h0.mx : index[f] = shm.index[f]
  <2>1. \A f \in 1..shm.h0.mx : f \in Frame
    BY <1>2, WalAssumption DEF Frame
  <2>2. /\ DOMAIN Cleaned(shm.index, shm.h0.mx) = Frame
        /\ \A f \in 1..shm.h0.mx : Cleaned(shm.index, shm.h0.mx)[f] = shm.index[f]
    BY <1>2, <2>1 DEF Cleaned
  <2>3. DOMAIN shm.index = Frame
    BY <1>2 DEF FilesV
  <2> QED BY <2>2, <2>3
<1>4. shm' = [shm EXCEPT !.index = index]
  BY DEF Rollback
<1> HIDE DEF index
<1>5. /\ shm'.h0 = shm.h0 /\ shm'.backfill = shm.backfill /\ shm'.mark = shm.mark
      /\ shm'.index = index
  BY <1>4 DEF IInv, TypesOK, ZeroShm
<1>6. /\ x.pc = "reading" /\ x.hdr = shm.h0 /\ x.tx = 0 /\ x.readLock = s[c].readLock
      /\ x.min = s[c].min /\ x.cur = 0 /\ x.first = 0
  BY <1>2 DEF Ended, Local, Fields, Fresh
<1> HIDE DEF x
<1>7. Local(x) /\ s'[c] = x /\ \A k \in Conn \ {c} : s'[k] = s[k]
  BY <1>1, OneMoves DEF IInv
<1>8. Ahead(c, x)
  <2>1. FramesAfter(shm.h0.mx)
    BY <1>1, <1>2 DEF FramesAfter, FilesV
  <2>2. IndexAfter(shm.h0.mx)
    BY <1>3, <1>5 DEF IndexAfter
  <2> QED BY <1>1, <1>2, <1>5, <1>6, <2>1, <2>2 DEF Ahead, Folding
<1>9. WriterV(s[c])' /\ ReaderV(s[c])'
  BY <1>2, <1>5, <1>6, <1>7 DEF WriterV, ReaderV
<1>10. VInv' /\ Store' = Store /\ \A k \in Conn \ {c} : View'[k] = View[k]
  BY <1>7, <1>8, <1>9, AheadKeepsV
<1>11. View'[c] = Store
  <2>1. x.readLock <= 0 => shm.backfill = shm.h0.mx
    BY <1>1, <1>2, <1>6 DEF Own, WriterOK, IgnoredOK, Restarting
  <2>2. \A p \in Page : ReadBy(x, shm.index, file, p) = Store[p]
    BY <1>2, <1>6, <2>1, SeesStore
  <2>3. ASSUME NEW p \in Page
        PROVE  ReadBy(x, shm'.index, file', p) = ReadBy(x, shm.index, file, p)
    <3>1. SeenBy(x, shm'.index, file', p) = SeenBy(x, shm.index, file, p)
      BY <1>2, <1>3, <1>5, <1>6 DEF SeenBy, Frame
    <3> QED BY <1>1, <3>1, ReadSame
  <2>4. \A p \in Page : Read(c, p)' = Store[p]
    BY <1>7, <2>2, <2>3, ReadNow
  <2>5. View'[c] = [p \in Page |-> Read(c, p)']
    <3>1. InTx(s'[c])
      BY <1>2, <1>6, <1>7 DEF InTx
    <3> QED BY <3>1, ViewsAre
  <2>6. [p \in Page |-> Read(c, p)'] = [p \in Page |-> Store[p]]
    BY <2>4, Zenon
  <2>7. Store = [p \in Page |-> Store[p]]
    BY StoreIs
  <2> QED BY <2>5, <2>6, <2>7, Zenon
<1>12. View' = [View EXCEPT ![c] = Store]
  <2>1. View' = [k \in Conn |-> View'[k]] /\ DOMAIN View = Conn
    BY DEF View
  <2> QED BY <1>10, <1>11, <2>1
<1>13. ~Sealed /\ Sealed' = Sealed
  BY <1>1, <1>2, <1>6, SealedIs, SameSealed DEF InSeal
<1>14. Writer = c /\ Writer' = None
  <2>1. \A k \in Conn \ {c} : s[k].tx = 0
    BY <1>2, OneWriter
  <2> QED BY <1>2, <1>6, <1>7, <2>1, WriterIs, WriterNext
<1> QED BY <1>1, <1>10, <1>12, <1>13, <1>14, SnapRollback

-----------------------------------------------------------------------------
(* The checkpointer.                                                       *)

\* A checkpoint at work.
LEMMA Checkpointing ==
  ASSUME IInv, VInv, ~Overlap, NEW c \in Conn, s[c].pc \in Ckpt
  PROVE  /\ Local(s[c]) /\ ReaderV(s[c]) /\ CkptV(s[c]) /\ FilesV
         /\ shm.h0 # None /\ s[c].tx = 0 /\ s[c].readLock = -1
         /\ s[c].hdr.mx \in Nat /\ s[c].safe \in Nat /\ s[c].i \in Nat
         /\ shm.h0.mx \in Nat /\ shm.backfill \in Nat
         /\ s[c].pc \in {"ckGo"} \cup Folding => s[c].hdr.mx <= shm.h0.mx
         /\ s[c].pc \in Folding => shm.backfill < s[c].hdr.mx /\ s[c].safe <= s[c].hdr.mx
         /\ s[c].pc \notin Framing
         /\ closing # None =>
              /\ closing = c /\ \A k \in Conn \ {c} : s[k].pc = "idle"
              /\ s[c].pc \in {"ckGo"} \cup Folding => s[c].hdr = shm.h0
              /\ s[c].pc \in Folding => s[c].safe = s[c].hdr.mx
<1>1. /\ Local(s[c]) /\ Own(s[c]) /\ s[c].ckpt /\ shm.h0 # None
      /\ s[c].tx = 0 /\ s[c].readLock = -1 /\ s[c].hdr.mx \in Nat /\ s[c].safe \in Nat
      /\ closing # None => closing = c
  BY InCkpt
<1>2. ReaderV(s[c]) /\ CkptV(s[c]) /\ FilesV
  BY DEF VInv
<1>3. shm.h0.mx \in Nat /\ shm.backfill \in Nat
  BY <1>1 DEF IInv, TypesOK, Hdr
<1>4. s[c].i \in Nat /\ (s[c].pc \in Folding => s[c].safe <= s[c].hdr.mx)
  BY <1>1 DEF Local
<1>5. /\ s[c].pc \in {"ckGo"} \cup Folding => s[c].hdr.mx <= shm.h0.mx
      /\ s[c].pc \in Folding => shm.backfill < s[c].hdr.mx
  BY <1>1 DEF Own, FoldingOK
<1>6. closing # None =>
        /\ \A k \in Conn \ {c} : s[k].pc = "idle"
        /\ s[c].pc \in {"ckGo"} \cup Folding => s[c].hdr = shm.h0
        /\ s[c].pc \in Folding => s[c].safe = s[c].hdr.mx
  BY <1>1 DEF IInv, ClosingOK, VInv, CloseV
<1>7. s[c].pc \notin Framing
  BY DEF Framing, Ckpt, Folding
<1> QED BY <1>1, <1>2, <1>3, <1>4, <1>5, <1>6, <1>7

\* While the database is being closed the other connections hold no lock.
LEMMA ClosingFree ==
  ASSUME IInv, NEW c \in Conn, closing = c, NEW l \in Lock, ~HoldsExcl(s[c], l),
         ~HoldsShared(s[c], l)
  PROVE  Free(l)
<1>1. ASSUME NEW k \in Conn \ {c} PROVE ~HoldsExcl(s[k], l) /\ ~HoldsShared(s[k], l)
  <2>1. /\ s[k].pc = "idle" /\ s[k].tx = 0 /\ s[k].readLock = -1 /\ ~s[k].ckpt
    BY WalAssumption DEF IInv, ClosingOK, Local, BeforeHdr, Ckpt, Folding, Restarting, Framing
  <2> QED BY <2>1 DEF HoldsExcl, HoldsShared, Restarting
<1>2. \A k \in Conn : excl[l] # k /\ k \notin shrd[l]
  BY <1>1, LocksNow
<1> QED BY <1>2, LocksNow DEF Free

\* The call of a checkpoint ends without another page in the database.
LEMMA CkptOverSnap ==
  ASSUME IInv, VInv, IInv', ~Overlap, NEW c \in Conn, s[c].pc \in Ckpt, NEW ls, CkptOver(c, ls),
         UNCHANGED <<shm, file, kept, closing, ntx, stops>>,
         closing = c => shm.backfill = shm.h0.mx
  PROVE  VInv' /\ SnapStep
<1>1. /\ Local(s[c]) /\ shm.h0 # None /\ s[c].tx = 0 /\ s[c].readLock = -1
      /\ s[c].pc \notin Framing /\ (closing # None => closing = c)
  BY Checkpointing
<1>2. CASE closing = c
  <2>1. PICK x : x = [Fresh(s[c].again) EXCEPT !.ckpt = TRUE, !.pc = "ckEnd"]
    OBVIOUS
  <2>2. Set(c, x)
    BY <1>2, <2>1 DEF CkptOver
  <2>3. /\ x.pc = "ckEnd" /\ x.tx = 0 /\ x.readLock = -1 /\ x.min = 1 /\ x.cur = 0 /\ x.first = 0
    BY <2>1 DEF Fresh
  <2>4. Local(x)
    BY <2>2, OneMoves DEF IInv
  <2>5. WriterV(x) /\ ReaderV(x) /\ CkptV(x) /\ \A y : Bounded(x, y)
    BY <2>3 DEF WriterV, ReaderV, CkptV, Bounded, Folding
  <2> QED BY <1>1, <1>2, <2>2, <2>3, <2>4, <2>5, Aside DEF Framing, Folding
<1>3. CASE closing # c
  BY <1>1, <1>3, AsideFresh DEF CkptOver
<1> QED BY <1>2, <1>3

\* A checkpoint knows each page's last frame.
LEMMA CkptStartSnap ==
  ASSUME IInv, VInv, IInv', ~Overlap, NEW c \in Conn, CkptStart(c)
  PROVE  VInv' /\ SnapStep
<1> DEFINE mx == s[c].hdr.mx
           x == [s[c] EXCEPT !.safe = mx, !.i = 1, !.pc = "ckMark",
                             !.iter = [p \in Page |-> Latest(shm.index, p, 1, mx)]]
<1>1. /\ s[c].pc = "ckGo" /\ UNCHANGED <<shm, file, kept, closing, ntx, stops>>
      /\ s[c].pc \in Ckpt
  BY DEF CkptStart, files, counts, Ckpt
<1>2. /\ Local(s[c]) /\ ReaderV(s[c]) /\ FilesV
      /\ shm.h0 # None /\ s[c].tx = 0 /\ s[c].readLock = -1 /\ mx \in Nat
      /\ shm.h0.mx \in Nat /\ shm.backfill \in Nat /\ mx <= shm.h0.mx
      /\ s[c].pc \notin Framing
      /\ closing # None => closing = c /\ s[c].hdr = shm.h0
                           /\ \A k \in Conn \ {c} : s[k].pc = "idle"
  BY <1>1, Checkpointing
<1>3. CASE shm.backfill < mx
  <2>1. Set(c, x)
    BY <1>3 DEF CkptStart
  <2>2. /\ x.pc = "ckMark" /\ x.i = 1 /\ x.safe = mx /\ x.hdr = s[c].hdr
        /\ x.iter = [p \in Page |-> Latest(shm.index, p, 1, mx)]
        /\ x.tx = 0 /\ x.readLock = -1 /\ x.min = s[c].min /\ x.cur = s[c].cur
        /\ x.first = s[c].first
    BY <1>2 DEF Local, Fields, Fresh
  <2> HIDE DEF x
  <2>3. Local(x)
    BY <2>1, OneMoves DEF IInv
  <2>4. CkptV(x)
    <3>1. ASSUME NEW p \in Page
          PROVE  (x.iter[p] = 0 /\ NoneIn(file, p, mx)) \/ LastIn(file, x.iter[p], p, mx)
      <4>1. \A f \in 1..mx : shm.index[f] = file.frame[f].pg
        BY <1>2 DEF FilesV, Recorded
      <4>2. x.iter[p] = Latest(shm.index, p, 1, mx)
        BY <2>2
      <4>3. PICK f : f = Latest(shm.index, p, 1, mx)
        OBVIOUS
      <4>4. \/ f = 0 /\ \A g \in 1..mx : shm.index[g] # p
            \/ /\ f \in 1..mx /\ shm.index[f] = p
               /\ \A g \in f + 1..mx : shm.index[g] # p
        <5>1. PICK lo \in Nat \ {0}, hi \in Nat : lo = 1 /\ hi = mx
          BY <1>2
        <5>2. PICK index : index = shm.index
          OBVIOUS
        <5>3. \/ /\ Latest(index, p, lo, hi) = 0
                 /\ \A g \in lo..hi : index[g] # p
              \/ /\ Latest(index, p, lo, hi) \in lo..hi
                 /\ index[Latest(index, p, lo, hi)] = p
                 /\ \A g \in Latest(index, p, lo, hi) + 1..hi : index[g] # p
          BY LatestIs
        <5> QED BY <4>3, <5>1, <5>2, <5>3
      <4>5. CASE f = 0 /\ \A g \in 1..mx : shm.index[g] # p
        BY <4>1, <4>2, <4>3, <4>5 DEF NoneIn
      <4>6. CASE /\ f \in 1..mx /\ shm.index[f] = p
                 /\ \A g \in f + 1..mx : shm.index[g] # p
        BY <1>2, <4>1, <4>2, <4>3, <4>6 DEF LastIn
      <4> QED BY <4>4, <4>5, <4>6
    <3> QED BY <2>2, <3>1 DEF CkptV
  <2>5. WriterV(x) /\ ReaderV(x)
    BY <1>1, <1>2, <2>2 DEF WriterV, ReaderV
  <2>6. \A k \in Conn \ {c} : Bounded(x, s[k])
    BY <2>2 DEF Bounded, IInv, Local
  <2> QED BY <1>1, <1>2, <2>1, <2>2, <2>3, <2>4, <2>5, <2>6, Aside DEF Framing, Folding
<1>4. CASE ~(shm.backfill < mx)
  <2>1. CkptOver(c, {})
    BY <1>4 DEF CkptStart
  <2>2. closing = c => shm.backfill = shm.h0.mx
    <3> SUFFICES ASSUME closing = c PROVE shm.backfill = shm.h0.mx
      OBVIOUS
    <3>1. mx = shm.h0.mx /\ \A k \in Conn : s[k].pc # "restart1"
      BY <1>1, <1>2, WalAssumption
    <3>2. shm.backfill <= shm.h0.mx
      BY <1>2, <3>1 DEF IInv, BackfillWithinLog
    <3> QED BY <1>2, <1>4, <3>1, <3>2
  <2> QED BY <1>1, <2>1, <2>2, CkptOverSnap
<1> QED BY <1>3, <1>4

\* A step of a checkpoint among the marks.
LEMMA MarksStep ==
  ASSUME IInv, VInv, IInv', ~Overlap, NEW c \in Conn, s[c].pc \in Folding \ {"ckCopy"},
         NEW x, Set(c, x), x.pc \in Folding \ {"ckCopy"},
         shm'.h0 = shm.h0, shm'.backfill = shm.backfill, shm'.index = shm.index,
         \A l \in Slot : shm'.mark[l] = shm.mark[l] \/ excl[ReadLock(l)] = c,
         UNCHANGED <<file, kept, closing, ntx, stops>>,
         x.tx = s[c].tx, x.hdr = s[c].hdr, x.readLock = s[c].readLock, x.min = s[c].min,
         x.cur = s[c].cur, x.first = s[c].first, x.iter = s[c].iter,
         x.safe = s[c].safe \/ closing = None,
         \A k \in Conn \ {c} : Bounded(x, s[k])
  PROVE  VInv' /\ SnapStep
<1>1. /\ Local(s[c]) /\ ReaderV(s[c]) /\ CkptV(s[c])
      /\ shm.h0 # None /\ s[c].tx = 0 /\ s[c].readLock = -1 /\ s[c].pc \notin Framing
      /\ closing # None => closing = c /\ s[c].hdr = shm.h0 /\ s[c].safe = s[c].hdr.mx
  BY Checkpointing DEF Ckpt
<1>2. Local(x)
  BY OneMoves DEF IInv
<1>3. x.pc \notin Framing /\ x.pc \in Folding /\ x.pc # "ckEnd"
  BY DEF Framing, Folding
<1>4. CkptV(x)
  BY <1>1 DEF CkptV
<1>5. WriterV(x) /\ ReaderV(x)
  BY <1>1 DEF WriterV, ReaderV, Folding
<1> QED BY <1>1, <1>2, <1>3, <1>4, <1>5, AsideMark

\* A mark is looked at.
LEMMA CkptReadMarkSnap ==
  ASSUME IInv, VInv, IInv', ~Overlap, NEW c \in Conn, CkptReadMark(c)
  PROVE  VInv' /\ SnapStep
<1> DEFINE y == shm.mark[s[c].i]
           taken == [s[c] EXCEPT !.seen = y, !.pc = "ckTake"]
           next == [s[c] EXCEPT !.i = @ + 1]
<1>1. /\ s[c].pc = "ckMark" /\ s[c].i <= NReader
      /\ UNCHANGED <<shm, file, kept, closing, ntx, stops>>
      /\ s[c].pc \in Folding \ {"ckCopy"} /\ s[c].pc \in Ckpt
  BY DEF CkptReadMark, files, counts, Folding, Ckpt
<1>2. Local(s[c]) /\ s[c].i \in Slot /\ s[c].safe \in Nat /\ y \in Nat
  <2>1. Local(s[c]) /\ s[c].safe \in Nat /\ s[c].i \in Nat
    BY <1>1, Checkpointing
  <2>2. s[c].i \in Slot
    BY <1>1, <2>1 DEF Local, Slot
  <2> QED BY <2>1, <2>2 DEF IInv, TypesOK
<1>3. ASSUME NEW k \in Conn \ {c}
      PROVE  /\ Bounded(s[c], s[k]) /\ s[k].hdr.mx \in Nat /\ s[k].readLock \in Int
             /\ s[k].readLock = s[c].i => y <= s[k].hdr.mx
  BY <1>2 DEF VInv, IInv, Local, Hdr, ReaderV, Slot
<1>4. CASE s[c].safe > y
  <2>1. PICK x : Set(c, x) /\ x = taken
    BY <1>4 DEF CkptReadMark
  <2>2. /\ x.pc = "ckTake" /\ x.seen = y /\ x.i = s[c].i /\ x.safe = s[c].safe
        /\ x.tx = s[c].tx /\ x.hdr = s[c].hdr /\ x.readLock = s[c].readLock
        /\ x.min = s[c].min /\ x.cur = s[c].cur /\ x.first = s[c].first /\ x.iter = s[c].iter
    BY <1>2, <2>1 DEF Local, Fields, Fresh
  <2>3. \A k \in Conn \ {c} : Bounded(x, s[k])
    BY <1>1, <1>2, <1>3, <2>2 DEF Bounded
  <2>4. x.pc \in Folding \ {"ckCopy"}
    BY <2>2 DEF Folding
  <2> QED BY <1>1, <2>1, <2>2, <2>3, <2>4, MarksStep
<1>5. CASE ~(s[c].safe > y)
  <2>1. PICK x : Set(c, x) /\ x = next
    BY <1>5 DEF CkptReadMark
  <2>2. /\ x.pc = "ckMark" /\ x.i = s[c].i + 1 /\ x.safe = s[c].safe
        /\ x.tx = s[c].tx /\ x.hdr = s[c].hdr /\ x.readLock = s[c].readLock
        /\ x.min = s[c].min /\ x.cur = s[c].cur /\ x.first = s[c].first /\ x.iter = s[c].iter
    BY <1>1, <1>2, <2>1 DEF Local, Fields, Fresh
  <2>3. ASSUME NEW k \in Conn \ {c} PROVE Bounded(x, s[k])
    <3>1. CASE s[k].readLock = s[c].i
      BY <1>2, <1>3, <1>5, <2>2, <3>1 DEF Bounded
    <3>2. CASE s[k].readLock # s[c].i
      BY <1>1, <1>2, <1>3, <2>2, <3>2 DEF Bounded, Slot
    <3> QED BY <3>1, <3>2
  <2>4. x.pc \in Folding \ {"ckCopy"}
    BY <2>2 DEF Folding
  <2> QED BY <1>1, <2>1, <2>2, <2>3, <2>4, MarksStep
<1> QED BY <1>4, <1>5

\* A mark in use bounds the checkpoint; one that is not is locked.
LEMMA CkptTakeMarkSnap ==
  ASSUME IInv, VInv, IInv', ~Overlap, NEW c \in Conn, CkptTakeMark(c)
  PROVE  VInv' /\ SnapStep
<1> DEFINE taken == [s[c] EXCEPT !.pc = "ckSet"]
           busy == [s[c] EXCEPT !.safe = s[c].seen, !.seen = 0, !.i = @ + 1, !.pc = "ckMark"]
<1>1. /\ s[c].pc = "ckTake" /\ UNCHANGED <<shm, file, kept, closing, ntx, stops>>
      /\ s[c].pc \in Folding \ {"ckCopy"} /\ s[c].pc \in Ckpt
  BY DEF CkptTakeMark, files, counts, Folding, Ckpt
<1>2. /\ Local(s[c]) /\ s[c].i \in Slot /\ s[c].safe \in Nat /\ s[c].seen \in Nat
      /\ s[c].seen < s[c].safe /\ s[c].tx = 0 /\ s[c].readLock = -1
      /\ closing # None => closing = c
  BY <1>1, Checkpointing DEF Local
<1>3. ASSUME NEW k \in Conn \ {c}
      PROVE  Bounded(s[c], s[k]) /\ s[k].hdr.mx \in Nat /\ s[k].readLock \in Int
  BY DEF VInv, IInv, Local, Hdr
<1>4. CASE Free(ReadLock(s[c].i))
  <2>1. PICK x : Set(c, x) /\ x = taken
    BY <1>4 DEF CkptTakeMark, Goto
  <2>2. /\ x.pc = "ckSet" /\ x.i = s[c].i /\ x.safe = s[c].safe
        /\ x.tx = s[c].tx /\ x.hdr = s[c].hdr /\ x.readLock = s[c].readLock
        /\ x.min = s[c].min /\ x.cur = s[c].cur /\ x.first = s[c].first /\ x.iter = s[c].iter
    BY <1>2, <2>1 DEF Local, Fields, Fresh
  <2>3. \A k \in Conn \ {c} : Bounded(x, s[k])
    BY <1>1, <1>3, <2>2 DEF Bounded
  <2>4. x.pc \in Folding \ {"ckCopy"}
    BY <2>2 DEF Folding
  <2> QED BY <1>1, <2>1, <2>2, <2>3, <2>4, MarksStep
<1>5. CASE ~Free(ReadLock(s[c].i))
  <2>1. PICK x : Set(c, x) /\ x = busy
    BY <1>5 DEF CkptTakeMark
  <2>2. /\ x.pc = "ckMark" /\ x.i = s[c].i + 1 /\ x.safe = s[c].seen
        /\ x.tx = s[c].tx /\ x.hdr = s[c].hdr /\ x.readLock = s[c].readLock
        /\ x.min = s[c].min /\ x.cur = s[c].cur /\ x.first = s[c].first /\ x.iter = s[c].iter
    BY <1>2, <2>1 DEF Local, Fields, Fresh
  <2>3. ASSUME NEW k \in Conn \ {c} PROVE Bounded(x, s[k])
    <3>1. CASE s[k].readLock = s[c].i
      BY <1>1, <1>2, <1>3, <2>2, <3>1 DEF Bounded
    <3>2. CASE s[k].readLock # s[c].i
      BY <1>1, <1>2, <1>3, <2>2, <3>2 DEF Bounded, Slot
    <3> QED BY <3>1, <3>2
  <2>4. closing = None
    <3>1. ReadLock(s[c].i) \in Lock /\ ReadLock(s[c].i) \in MarkLocks
      BY <1>2, LockSets DEF Slot
    <3>2. ~HoldsExcl(s[c], ReadLock(s[c].i)) /\ ~HoldsShared(s[c], ReadLock(s[c].i))
      BY <1>1, <1>2, <3>1, LockSets DEF HoldsExcl, HoldsShared, Restarting
    <3> QED BY <1>2, <1>5, <3>1, <3>2, ClosingFree
  <2>5. x.pc \in Folding \ {"ckCopy"}
    BY <2>2 DEF Folding
  <2> QED BY <1>1, <2>1, <2>2, <2>3, <2>4, <2>5, MarksStep
<1> QED BY <1>4, <1>5

\* The mark of nobody is moved out of the way.
LEMMA CkptSetMarkSnap ==
  ASSUME IInv, VInv, IInv', ~Overlap, NEW c \in Conn, CkptSetMark(c)
  PROVE  VInv' /\ SnapStep
<1> DEFINE x == [s[c] EXCEPT !.seen = 0, !.i = @ + 1, !.pc = "ckMark"]
           mark == IF s[c].i = 1 THEN s[c].safe ELSE Unused
<1>1. /\ s[c].pc = "ckSet" /\ UNCHANGED <<file, kept, closing, ntx, stops>>
      /\ shm' = [shm EXCEPT !.mark[s[c].i] = mark] /\ Set(c, x)
      /\ s[c].pc \in Folding \ {"ckCopy"} /\ s[c].pc \in Ckpt
  BY DEF CkptSetMark, files, counts, Folding, Ckpt
<1>2. Local(s[c]) /\ s[c].i \in Slot /\ s[c].i \in Nat
  BY <1>1, Checkpointing DEF Local
<1>3. /\ x.pc = "ckMark" /\ x.i = s[c].i + 1 /\ x.safe = s[c].safe
      /\ x.tx = s[c].tx /\ x.hdr = s[c].hdr /\ x.readLock = s[c].readLock
      /\ x.min = s[c].min /\ x.cur = s[c].cur /\ x.first = s[c].first /\ x.iter = s[c].iter
  BY <1>2 DEF Local, Fields, Fresh
<1> HIDE DEF x, mark
<1>4. /\ shm'.h0 = shm.h0 /\ shm'.backfill = shm.backfill /\ shm'.index = shm.index
      /\ \A l \in Slot \ {s[c].i} : shm'.mark[l] = shm.mark[l]
  BY <1>1 DEF IInv, TypesOK, ZeroShm
<1>5. ReadLock(s[c].i) \in Lock /\ excl[ReadLock(s[c].i)] = c
  BY <1>1, <1>2, LocksNow, LockSets DEF HoldsExcl, Slot
<1>6. ASSUME NEW k \in Conn \ {c} PROVE Bounded(x, s[k])
  <2>1. Bounded(s[c], s[k]) /\ s[k].readLock \in Int
    BY DEF VInv, IInv, Local
  <2>2. s[k].readLock # s[c].i
    <3>1. k \notin shrd[ReadLock(s[c].i)]
      BY <1>5, LocksNow
    <3>2. ~HoldsShared(s[k], ReadLock(s[c].i))
      BY <1>5, <3>1, LocksNow
    <3> QED BY <1>2, <3>2, WalAssumption DEF HoldsShared, Slot
  <2> QED BY <1>1, <1>2, <1>3, <2>1, <2>2 DEF Bounded
<1>7. \A l \in Slot : shm'.mark[l] = shm.mark[l] \/ excl[ReadLock(l)] = c
  BY <1>4, <1>5
<1>8. x.pc \in Folding \ {"ckCopy"}
  BY <1>3 DEF Folding
<1> QED BY <1>1, <1>3, <1>4, <1>6, <1>7, <1>8, MarksStep

\* The log is synced before its pages are copied.
LEMMA CkptSyncSnap ==
  ASSUME IInv, VInv, IInv', ~Overlap, NEW c \in Conn, CkptSync(c)
  PROVE  VInv' /\ SnapStep
<1> DEFINE todo == {p \in Page : s[c].iter[p] \in shm.backfill + 1 .. s[c].safe}
           x == [s[c] EXCEPT !.pc = "ckCopy", !.todo = todo]
<1>1. /\ s[c].pc = "ckMark" /\ s[c].i > NReader
      /\ UNCHANGED <<shm, file, closing, ntx, stops>>
      /\ s[c].pc \in Folding /\ s[c].pc \in Ckpt
  BY DEF CkptSync, counts, Folding, Ckpt
<1>2. /\ Local(s[c]) /\ ReaderV(s[c]) /\ CkptV(s[c])
      /\ shm.h0 # None /\ s[c].tx = 0 /\ s[c].readLock = -1 /\ s[c].pc \notin Framing
      /\ s[c].i \in Nat /\ s[c].safe \in Nat /\ shm.backfill \in Nat
      /\ shm.backfill < s[c].hdr.mx
      /\ closing # None => closing = c /\ s[c].hdr = shm.h0 /\ s[c].safe = s[c].hdr.mx
  BY <1>1, Checkpointing
<1>3. CASE shm.backfill < s[c].safe /\ Free(ReadLock(0))
  <2>1. Set(c, x) /\ kept' = {Store}
    BY <1>3 DEF CkptSync, SyncLog
  <2>2. /\ x.pc = "ckCopy" /\ x.todo = todo /\ x.safe = s[c].safe
        /\ x.tx = s[c].tx /\ x.hdr = s[c].hdr /\ x.readLock = s[c].readLock
        /\ x.min = s[c].min /\ x.cur = s[c].cur /\ x.first = s[c].first /\ x.iter = s[c].iter
    BY <1>2 DEF Local, Fields, Fresh
  <2> HIDE DEF x
  <2>3. Local(x)
    BY <2>1, OneMoves DEF IInv
  <2>4. CkptV(x)
    BY <1>1, <1>2, <1>3, <2>2 DEF CkptV
  <2>5. WriterV(x) /\ ReaderV(x)
    BY <1>1, <1>2, <2>2 DEF WriterV, ReaderV
  <2>6. ASSUME NEW k \in Conn \ {c} PROVE Bounded(x, s[k])
    <3>1. Bounded(s[c], s[k]) /\ s[k].readLock \in -1..NReader
      BY DEF VInv, IInv, Local
    <3> QED BY <1>1, <1>2, <2>2, <3>1, WalAssumption DEF Bounded
  <2>7. x.pc \notin Framing
    BY <2>2 DEF Framing
  <2> QED BY <1>1, <1>2, <2>1, <2>2, <2>3, <2>4, <2>5, <2>6, <2>7, Aside
<1>4. CASE ~(shm.backfill < s[c].safe /\ Free(ReadLock(0)))
  <2>1. CkptOver(c, {}) /\ kept' = kept
    BY <1>4 DEF CkptSync
  <2>2. closing # c
    <3> SUFFICES ASSUME closing = c PROVE FALSE
      OBVIOUS
    <3>1. closing # None
      BY WalAssumption
    <3>2. ReadLock(0) \in Lock /\ ~HoldsExcl(s[c], ReadLock(0)) /\ ~HoldsShared(s[c], ReadLock(0))
      BY <1>1, <1>2, LockSets DEF HoldsExcl, HoldsShared, Restarting
    <3>3. Free(ReadLock(0))
      BY <3>2, ClosingFree
    <3> QED BY <1>2, <1>4, <3>1, <3>3
  <2> QED BY <1>1, <2>1, <2>2, CkptOverSnap
<1> QED BY <1>3, <1>4

\* A transaction finds what a checkpoint copies in the log.
LEMMA SeenInLog ==
  ASSUME IInv, VInv, ~Overlap, NEW c \in Conn, s[c].pc = "ckCopy",
         NEW p \in Page, NEW f, f = s[c].iter[p], f \in shm.backfill + 1..s[c].safe,
         NEW k \in Conn, InTx(s[k])
  PROVE  SeenBy(s[k], shm.index, file, p) # {}
<1>1. /\ Local(s[c]) /\ CkptV(s[c]) /\ FilesV /\ shm.h0 # None /\ s[c].tx = 0
      /\ s[c].readLock = -1 /\ s[c].hdr.mx \in Nat /\ s[c].safe \in Nat
      /\ shm.h0.mx \in Nat /\ shm.backfill \in Nat /\ s[c].hdr.mx <= shm.h0.mx
      /\ shm.backfill < s[c].hdr.mx /\ s[c].safe <= s[c].hdr.mx /\ s[c].pc \in Folding
  BY Checkpointing DEF Ckpt, Folding
<1>2. k # c /\ Local(s[k]) /\ WriterV(s[k]) /\ ReaderV(s[k]) /\ Bounded(s[c], s[k])
  BY <1>1 DEF InTx, VInv, IInv
<1>3. f \in Nat \ {0} /\ f <= shm.h0.mx /\ shm.h0.mx <= MaxFrame /\ shm.index[f] = file.frame[f].pg
  BY <1>1 DEF FilesV, Recorded
<1>4. file.frame[f].pg = p
  BY <1>1, <1>3 DEF CkptV, LastIn
<1>5. f \in Frame
  <2>1. PICK mx \in Nat : mx = shm.h0.mx /\ f <= mx /\ mx <= MaxFrame
    BY <1>1, <1>3
  <2> QED BY <1>3, <2>1, WalAssumption DEF Frame
<1>6. CASE s[k].readLock > 0
  <2>1. s[c].safe <= s[k].hdr.mx
    BY <1>1, <1>2, <1>6 DEF Bounded
  <2>2. s[k].min \in Nat /\ s[k].min <= shm.backfill + 1 /\ s[k].hdr.mx \in Nat
    BY <1>2, <1>6 DEF ReaderV, Local, Hdr
  <2>3. f >= s[k].min /\ f <= s[k].hdr.mx
    BY <1>1, <2>1, <2>2
  <2> QED BY <1>3, <1>4, <1>5, <1>6, <2>3 DEF SeenBy
<1>7. CASE s[k].readLock = 0
  <2>1. k \in shrd[ReadLock(0)]
    <3>1. HoldsShared(s[k], ReadLock(0))
      BY <1>7 DEF HoldsShared
    <3> QED BY <3>1, LocksNow, LockSets
  <2>2. excl[ReadLock(0)] = c
    <3>1. HoldsExcl(s[c], ReadLock(0))
      BY DEF HoldsExcl
    <3> QED BY <3>1, LocksNow, LockSets
  <2> QED BY <2>1, <2>2, LocksNow, LockSets
<1>8. CASE s[k].readLock = -1
  <2>1. s[k].tx # 0
    BY <1>8 DEF InTx
  <2>2. s[k].pc \in Marking
    BY <1>2, <1>8, <2>1 DEF Local, Places, Marking
  <2>3. shm.backfill = shm.h0.mx
    BY <1>2, <2>1, <2>2 DEF WriterV
  <2> QED BY <1>1, <2>3
<1> QED BY <1>2, <1>6, <1>7, <1>8, WalAssumption DEF Local

\* A page that is copied is read from the log by every transaction.
LEMMA CkptCopySnap ==
  ASSUME IInv, VInv, IInv', ~Overlap, NEW c \in Conn, CkptCopy(c)
  PROVE  VInv' /\ SnapStep
<1> DEFINE least == Min(s[c].todo)
<1>1. /\ s[c].pc = "ckCopy" /\ s[c].todo # {} /\ UNCHANGED <<shm, kept, closing, ntx, stops>>
      /\ file' = [file EXCEPT !.db[least] = file.frame[s[c].iter[least]].val]
      /\ Set(c, [s[c] EXCEPT !.todo = @ \ {least}])
      /\ s[c].pc \in Folding /\ s[c].pc \in Ckpt
  BY DEF CkptCopy, counts, Folding, Ckpt
<1>2. /\ Local(s[c]) /\ ReaderV(s[c]) /\ CkptV(s[c]) /\ FilesV /\ shm.h0 # None /\ s[c].tx = 0
      /\ s[c].readLock = -1 /\ s[c].hdr.mx \in Nat /\ s[c].safe \in Nat
      /\ shm.h0.mx \in Nat /\ shm.backfill \in Nat /\ s[c].hdr.mx <= shm.h0.mx
      /\ shm.backfill < s[c].hdr.mx /\ s[c].safe <= s[c].hdr.mx
  BY <1>1, Checkpointing
<1>3. s[c].todo \subseteq Page
  BY <1>1, <1>2 DEF CkptV
<1>4. PICK p \in Page : p = least /\ p \in s[c].todo
  BY <1>1, <1>3, LeastPage
<1>5. PICK f : f = s[c].iter[p]
  OBVIOUS
<1>6. /\ f \in shm.backfill + 1..s[c].safe /\ f \in Nat /\ f <= shm.h0.mx
      /\ file.frame[f].pg = p /\ shm.h0.mx <= MaxFrame
  BY <1>1, <1>2, <1>4, <1>5 DEF CkptV, LastIn, FilesV, Recorded
<1>7. f \in Frame /\ file.frame[f].val \in Val
  <2>1. f \in Frame
    BY <1>2, <1>6, WalAssumption DEF Frame
  <2> QED BY <1>2, <2>1 DEF FilesV
<1>8. PICK x : x = [s[c] EXCEPT !.todo = @ \ {p}]
  OBVIOUS
<1>9. /\ file' = [file EXCEPT !.db[p] = file.frame[f].val] /\ Set(c, x)
  BY <1>1, <1>4, <1>5, <1>8
<1>10. /\ x.pc = s[c].pc /\ x.tx = 0 /\ x.hdr = s[c].hdr /\ x.readLock = -1 /\ x.min = s[c].min
       /\ x.cur = s[c].cur /\ x.first = s[c].first /\ x.iter = s[c].iter /\ x.safe = s[c].safe
       /\ x.i = s[c].i /\ x.seen = s[c].seen /\ x.todo = s[c].todo \ {p} /\ x.commit = s[c].commit
  BY <1>2, <1>8 DEF Local, Fields, Fresh
<1>11. s'[c] = x /\ \A k \in Conn \ {c} : s'[k] = s[k]
  BY <1>9, OneMoves DEF IInv
<1>12. /\ DOMAIN file' = DOMAIN file /\ file'.frame = file.frame
       /\ file'.db \in [Page -> Val] /\ file'.db[p] = file.frame[f].val
       /\ \A q \in Page \ {p} : file'.db[q] = file.db[q]
  BY <1>2, <1>7, <1>9 DEF FilesV
<1>13. FilesV'
  <2>1. Recorded(shm.h0.mx)'
    BY <1>1, <1>2, <1>12 DEF FilesV, Recorded
  <2>2. Folded(shm.backfill)'
    <3>1. ASSUME NEW q \in Page, NEW g \in 1..shm.backfill, LastIn(file, g, q, shm.h0.mx)
          PROVE  file'.db[q] = file.frame[g].val
      <4>1. q # p
        BY <1>2, <1>6, <3>1 DEF LastIn
      <4> QED BY <1>2, <1>12, <3>1, <4>1 DEF FilesV, Folded
    <3>2. shm' = shm /\ file'.frame = file.frame
      BY <1>1, <1>12
    <3> QED BY <3>1, <3>2 DEF Folded, LastIn
  <2> QED BY <1>1, <1>2, <1>12, <2>1, <2>2 DEF FilesV
<1>14. \A k \in Conn : WriterV(s[k])' /\ ReaderV(s[k])' /\ CkptV(s[k])'
  <2>1. WriterV(s[c])' /\ ReaderV(s[c])'
    BY <1>1, <1>2, <1>10, <1>11 DEF WriterV, ReaderV
  <2>2. CkptV(s[c])'
    <3>1. ASSUME NEW q \in Page \ x.todo, x.iter[q] \in shm.backfill + 1..x.safe
          PROVE  file'.db[q] = file.frame[x.iter[q]].val
      <4>1. CASE q = p
        BY <1>5, <1>10, <1>12, <4>1
      <4>2. CASE q # p
        <5>1. q \in Page \ s[c].todo
          BY <1>10, <4>2
        <5> QED BY <1>1, <1>2, <1>10, <1>12, <3>1, <4>2, <5>1 DEF CkptV
      <4> QED BY <4>1, <4>2
    <3>2. /\ DOMAIN x.iter = Page /\ x.todo \subseteq Page /\ shm.backfill < x.safe
          /\ \A q \in Page : \/ x.iter[q] = 0 /\ NoneIn(file, q, x.hdr.mx)
                             \/ LastIn(file, x.iter[q], q, x.hdr.mx)
          /\ \A q \in x.todo : x.iter[q] \in shm.backfill + 1..x.safe
      BY <1>1, <1>2, <1>10 DEF CkptV
    <3>3. shm' = shm /\ file'.frame = file.frame /\ s'[c] = x
      BY <1>1, <1>11, <1>12
    <3> QED BY <3>1, <3>2, <3>3 DEF CkptV, NoneIn, LastIn
  <2>3. ASSUME NEW k \in Conn \ {c} PROVE WriterV(s[k])' /\ ReaderV(s[k])' /\ CkptV(s[k])'
    <3>1. WriterV(s[k]) /\ ReaderV(s[k]) /\ s'[k] = s[k] /\ s[k].pc \notin Folding
      BY <1>1, <1>11, InCkpt DEF VInv, Ckpt
    <3>2. shm' = shm /\ file'.frame = file.frame
      BY <1>1, <1>12
    <3>3. WriterV(s[k])'
      BY <3>1, <3>2 DEF WriterV, Recorded
    <3>4. ReaderV(s[k])'
      BY <3>1, <3>2 DEF ReaderV
    <3>5. CkptV(s[k])'
      BY <3>1 DEF CkptV
    <3> QED BY <3>3, <3>4, <3>5
  <2> QED BY <2>1, <2>2, <2>3
<1>15. \A k, j \in Conn : Bounded(s[k], s[j])'
  <2>1. \A k, j \in Conn : Bounded(s'[k], s'[j])
    <3>1. \A k \in Conn : /\ s'[k].pc = s[k].pc /\ s'[k].safe = s[k].safe /\ s'[k].i = s[k].i
                          /\ s'[k].seen = s[k].seen /\ s'[k].hdr = s[k].hdr
                          /\ s'[k].readLock = s[k].readLock
      BY <1>2, <1>10, <1>11
    <3> QED BY <3>1 DEF VInv, Bounded
  <2> QED BY <2>1 DEF Bounded
<1>16. CloseV'
  <2>1. closing # None => closing = c
    BY <1>1, Checkpointing
  <2> QED BY <1>1, <1>10, <1>11, <2>1 DEF VInv, CloseV
<1>17. VInv'
  <2>1. \A k \in Conn : s'[k].tx <= ntx'
    BY <1>1, <1>2, <1>10, <1>11 DEF VInv
  <2> QED BY <1>1, <1>13, <1>14, <1>15, <1>16, <2>1 DEF VInv
<1>18. Store' = Store
  <2>1. PICK mx \in Nat : mx = shm.h0.mx
    BY <1>2
  <2>2. \A q \in Page : NoneIn(file, q, mx) => file'.db[q] = file.db[q]
    <3>1. f \in 1..mx
      BY <1>2, <1>6, <2>1
    <3> QED BY <1>6, <1>12, <2>1, <3>1 DEF NoneIn
  <2>3. PagesAt(file', mx) = PagesAt(file, mx)
    BY <1>12, <2>2, PagesSame
  <2>4. Store' = PagesAt(file', mx) /\ Store = PagesAt(file, mx)
    BY <1>1, <1>2, <2>1, Zenon DEF Store
  <2> QED BY <2>3, <2>4
<1>19. View' = View
  <2>1. ASSUME NEW k \in Conn PROVE View'[k] = View[k]
    <3>1. InTx(s'[k]) <=> InTx(s[k])
      BY <1>2, <1>10, <1>11 DEF InTx
    <3>2. ASSUME InTx(s[k]), NEW q \in Page
          PROVE  ReadBy(s'[k], shm'.index, file', q) = ReadBy(s[k], shm.index, file, q)
      <4>1. s'[k] = s[k]
        BY <1>2, <1>11, <3>2 DEF InTx
      <4>2. SeenBy(s'[k], shm'.index, file', q) = SeenBy(s[k], shm.index, file, q)
        BY <1>1, <1>12, <4>1 DEF SeenBy
      <4>3. SeenBy(s[k], shm.index, file, q) = {} => q # p
        BY <1>1, <1>5, <1>6, <3>2, SeenInLog
      <4> QED BY <1>12, <4>2, <4>3, ReadSame
    <3> QED BY <3>1, <3>2, SameViewOf
  <2> QED BY <2>1, SameView
<1>20. Writer' = Writer /\ Sealed' = Sealed
  BY <1>2, <1>9, <1>10, SameWriter, SameSealed DEF InSeal
<1> QED BY <1>1, <1>17, <1>18, <1>19, <1>20, SnapStutter

\* What a checkpoint has copied is folded.
LEMMA CopiedIsFolded ==
  ASSUME IInv, VInv, ~Overlap, NEW c \in Conn, s[c].pc = "ckCopy", s[c].todo = {}
  PROVE  Folded(s[c].safe)
<1>1. /\ CkptV(s[c]) /\ FilesV /\ shm.h0 # None
      /\ s[c].hdr.mx \in Nat /\ s[c].safe \in Nat
      /\ shm.h0.mx \in Nat /\ shm.backfill \in Nat /\ s[c].hdr.mx <= shm.h0.mx
      /\ s[c].safe <= s[c].hdr.mx /\ s[c].pc \in Folding
  BY Checkpointing DEF Ckpt, Folding
<1>2. ASSUME NEW p \in Page, NEW f \in 1..s[c].safe, LastIn(file, f, p, shm.h0.mx)
      PROVE  file.db[p] = file.frame[f].val
  <2>1. CASE f <= shm.backfill
    <3>1. f \in 1..shm.backfill
      BY <1>1, <2>1
    <3> QED BY <1>1, <1>2, <3>1 DEF FilesV, Folded
  <2>2. CASE f > shm.backfill
    <3>1. PICK mx \in Nat : mx = s[c].hdr.mx
      BY <1>1
    <3>2. LastIn(file, f, p, mx) /\ f \in 1..mx /\ file.frame[f].pg = p
      BY <1>1, <1>2, <3>1 DEF LastIn
    <3>3. (s[c].iter[p] = 0 /\ NoneIn(file, p, mx)) \/ LastIn(file, s[c].iter[p], p, mx)
      BY <1>1, <3>1 DEF CkptV
    <3>4. s[c].iter[p] = f
      BY <3>2, <3>3, LastOnce DEF NoneIn
    <3>5. f \in shm.backfill + 1..s[c].safe
      BY <1>1, <2>2
    <3> QED BY <1>1, <3>4, <3>5 DEF CkptV
  <2> QED BY <1>1, <2>1, <2>2
<1> QED BY <1>2 DEF Folded

\* nBackfill goes up to what has been copied.
LEMMA CkptDoneSnap ==
  ASSUME IInv, VInv, IInv', ~Overlap, NEW c \in Conn, CkptDone(c)
  PROVE  VInv' /\ SnapStep
<1>1. /\ s[c].pc = "ckCopy" /\ s[c].todo = {} /\ shm' = [shm EXCEPT !.backfill = s[c].safe]
      /\ CkptOver(c, {ReadLock(0)}) /\ UNCHANGED <<file, kept, closing, ntx, stops>>
      /\ s[c].pc \in Folding /\ s[c].pc \in Ckpt
  BY DEF CkptDone, counts, Folding, Ckpt
<1>2. /\ Local(s[c]) /\ ReaderV(s[c]) /\ CkptV(s[c]) /\ FilesV
      /\ shm.h0 # None /\ s[c].tx = 0 /\ s[c].readLock = -1
      /\ s[c].hdr.mx \in Nat /\ s[c].safe \in Nat
      /\ shm.h0.mx \in Nat /\ shm.backfill \in Nat
      /\ s[c].hdr.mx <= shm.h0.mx /\ shm.backfill < s[c].hdr.mx /\ s[c].safe <= s[c].hdr.mx
      /\ s[c].pc \notin Framing
      /\ closing # None => closing = c /\ s[c].hdr = shm.h0 /\ s[c].safe = s[c].hdr.mx
  BY <1>1, Checkpointing
<1>3. /\ shm'.h0 = shm.h0 /\ shm'.backfill = s[c].safe /\ shm'.mark = shm.mark
      /\ shm'.index = shm.index
  BY <1>1 DEF IInv, TypesOK, ZeroShm
<1>4. shm.backfill < s[c].safe
  BY <1>1, <1>2 DEF CkptV
<1>5. PICK x : /\ Set(c, x)
               /\ \/ x = Fresh(s[c].again)
                  \/ x = [Fresh(s[c].again) EXCEPT !.ckpt = TRUE, !.pc = "ckEnd"]
  BY <1>1 DEF CkptOver
<1>6. /\ x.pc \in {"idle", "ckEnd"} /\ x.tx = 0 /\ x.readLock = -1 /\ x.min = 1
      /\ x.cur = 0 /\ x.first = 0
  <2>1. CASE x = Fresh(s[c].again)
    BY <2>1 DEF Fresh
  <2>2. CASE x = [Fresh(s[c].again) EXCEPT !.ckpt = TRUE, !.pc = "ckEnd"]
    BY <2>2 DEF Fresh
  <2> QED BY <1>5, <2>1, <2>2
<1>7. s'[c] = x /\ Local(x) /\ \A k \in Conn \ {c} : s'[k] = s[k]
  BY <1>5, OneMoves DEF IInv
<1>8. FilesV'
  <2>1. Folded(shm.backfill)'
    <3>1. Folded(s[c].safe)
      BY <1>1, CopiedIsFolded
    <3> QED BY <1>1, <1>3, <3>1 DEF Folded, LastIn
  <2>2. Recorded(shm.h0.mx)'
    BY <1>1, <1>2, <1>3 DEF FilesV, Recorded
  <2> QED BY <1>1, <1>2, <1>3, <2>1, <2>2 DEF FilesV
<1>9. \A k \in Conn : WriterV(s[k])' /\ ReaderV(s[k])' /\ CkptV(s[k])'
  <2>1. WriterV(s[c])' /\ ReaderV(s[c])' /\ CkptV(s[c])'
    BY <1>6, <1>7 DEF WriterV, ReaderV, CkptV, Folding
  <2>2. ASSUME NEW k \in Conn \ {c} PROVE WriterV(s[k])' /\ ReaderV(s[k])' /\ CkptV(s[k])'
    <3>1. /\ WriterV(s[k]) /\ ReaderV(s[k]) /\ s'[k] = s[k] /\ s[k].pc \notin Folding
          /\ s[k].hdr.mx \in Nat
      BY <1>1, <1>7, InCkpt DEF VInv, Ckpt, IInv, Local, Hdr
    <3>2. WriterV(s[k])'
      <4>1. ~(s[k].tx # 0 /\ s[k].pc \in Marking)
        BY <1>2, <3>1 DEF WriterV
      <4> QED BY <1>1, <1>3, <3>1, <4>1 DEF WriterV, Recorded
    <3>3. ReaderV(s[k])'
      BY <1>1, <1>2, <1>3, <1>4, <3>1 DEF ReaderV
    <3>4. CkptV(s[k])'
      BY <3>1 DEF CkptV
    <3> QED BY <3>2, <3>3, <3>4
  <2> QED BY <2>1, <2>2
<1>10. \A k, j \in Conn : Bounded(s[k], s[j])'
  <2>1. \A k, j \in Conn : Bounded(s'[k], s'[j])
    <3>1. \A j \in Conn : s'[j].readLock = s[j].readLock /\ (j # c => s'[j] = s[j])
      BY <1>2, <1>6, <1>7
    <3>2. s'[c].pc \notin Folding /\ ~(s'[c].readLock > 0)
      BY <1>6, <1>7 DEF Folding
    <3> QED BY <1>7, <3>1, <3>2 DEF VInv, Bounded
  <2> QED BY <2>1 DEF Bounded
<1>11. CloseV'
  <2>1. closing # None => closing = c /\ s[c].safe = shm.h0.mx
    BY <1>2
  <2> QED BY <1>1, <1>2, <1>3, <1>6, <1>7, <2>1 DEF CloseV, Folding
<1>12. VInv'
  <2>1. \A k \in Conn : s'[k].tx <= ntx'
    BY <1>1, <1>2, <1>6, <1>7 DEF VInv
  <2> QED BY <1>1, <1>8, <1>9, <1>10, <1>11, <2>1 DEF VInv
<1>13. Store' = Store
  <2>1. shm'.h0 = shm.h0 /\ file' = file /\ shm.h0 # None
    BY <1>1, <1>2, <1>3
  <2>2. Store = PagesAt(file, shm.h0.mx) /\ Store' = PagesAt(file', shm'.h0.mx)
    BY <2>1, Zenon DEF Store
  <2> QED BY <2>1, <2>2, Zenon
<1>14. SameEyes(x, s[c]) /\ InSeal(x) = FALSE /\ InSeal(s[c]) = FALSE
  BY <1>1, <1>2, <1>6 DEF SameEyes, InTx, InSeal
<1> QED BY <1>1, <1>2, <1>3, <1>5, <1>6, <1>7, <1>12, <1>13, <1>14, SameSnap

-----------------------------------------------------------------------------
(* Closing, and the whole.                                                 *)

\* A step that changes neither the wal-index nor the log nor a connection.
LEMMA StillSnap ==
  ASSUME UNCHANGED <<shm, file, s, kept>>
  PROVE  SnapStep
<1>1. shm' = shm /\ file' = file /\ s' = s /\ kept' = kept
  OBVIOUS
<1>2. ASSUME NEW k \in Conn PROVE View'[k] = View[k]
  BY <1>1, SameViewOf
<1>3. View' = View
  BY <1>2, SameView
<1>4. Writer' = Writer
  BY <1>1, Zenon DEF Writer
<1>5. Sealed' = Sealed
  BY <1>1, Zenon DEF Sealed, InSeal
<1>6. Store' = Store
  BY <1>1, Zenon DEF Store
<1> QED BY <1>1, <1>3, <1>4, <1>5, <1>6, SnapStutter

\* ... and leaves the invariant, whoever is closing.
LEMMA StillV ==
  ASSUME VInv, UNCHANGED <<shm, file, s, ntx, stops>>, CloseV'
  PROVE  VInv'
<1>1. shm' = shm /\ file' = file /\ s' = s /\ ntx' = ntx /\ stops' = stops
  OBVIOUS
<1>2. FilesV'
  BY <1>1 DEF VInv, FilesV, Recorded, Folded, LastIn
<1>3. ASSUME NEW k \in Conn PROVE WriterV(s[k])' /\ ReaderV(s[k])' /\ CkptV(s[k])'
  <2>1. WriterV(s[k]) /\ ReaderV(s[k]) /\ CkptV(s[k])
    BY DEF VInv
  <2>2. WriterV(s[k])'
    BY <1>1, <2>1 DEF WriterV, Recorded
  <2>3. ReaderV(s[k])'
    BY <1>1, <2>1 DEF ReaderV
  <2>4. CkptV(s[k])'
    BY <1>1, <2>1 DEF CkptV, NoneIn, LastIn
  <2> QED BY <2>2, <2>3, <2>4
<1>4. \A k, j \in Conn : Bounded(s[k], s[j])'
  BY <1>1 DEF VInv, Bounded
<1> QED BY <1>1, <1>2, <1>3, <1>4 DEF VInv

\* A handle goes, or begins to close the database.
LEMMA CloseHandleSnap ==
  ASSUME IInv, VInv, IInv', ~Overlap, NEW c \in Conn, CloseHandle(c)
  PROVE  VInv' /\ SnapStep
<1>1. /\ s[c].pc = "idle" /\ closing = None /\ UNCHANGED <<shm, file, kept, ntx, stops>>
  BY DEF CloseHandle, files, counts
<1>2. CASE Set(c, Fresh(FALSE)) /\ UNCHANGED closing
  <2>1. s[c].readLock = -1 /\ s[c].tx = 0
    BY <1>1 DEF IInv, Local, BeforeHdr, Restarting, Framing
  <2> QED BY <1>1, <1>2, <2>1, AsideFresh
<1>3. CASE closing' = c /\ UNCHANGED s
  <2>1. CloseV'
    BY <1>1, <1>3 DEF CloseV, Folding
  <2> QED BY <1>1, <1>3, <2>1, StillV, StillSnap
<1> QED BY <1>2, <1>3 DEF CloseHandle

\* The log that is deleted is all in the database, and nobody reads.
LEMMA DeleteLogSnap ==
  ASSUME IInv, VInv, IInv', ~Overlap, NEW c \in Conn, DeleteLog(c)
  PROVE  VInv' /\ SnapStep
<1>1. /\ s[c].pc = "ckEnd" /\ closing = c /\ file' = NoLog(file) /\ shm' = ZeroShm
      /\ s' = AllNew /\ closing' = None /\ UNCHANGED <<kept, ntx, stops>> /\ s[c].pc \in Ckpt
  BY DEF DeleteLog, counts, Ckpt
<1>2. /\ shm.h0 # None /\ shm.backfill = shm.h0.mx /\ FilesV /\ ntx \in 0..MaxTx /\ stops = 0
      /\ closing # None
  BY <1>1, WalAssumption DEF VInv, CloseV
<1>3. /\ DOMAIN file' = DOMAIN file /\ file'.db = file.db /\ file'.salt = 0
      /\ file'.frame = [f \in Frame |-> NoFrame]
      /\ shm'.h0 = None /\ DOMAIN shm'.index = Frame
  BY <1>1, <1>2 DEF NoLog, ZeroShm, FilesV
<1>4. \A k \in Conn : s'[k].tx = 0 /\ s'[k].readLock = -1 /\ s'[k].pc = "idle"
                      /\ s'[k].min = 1 /\ s'[k].first = 0 /\ s'[k].cur = 0
  BY <1>1 DEF AllNew, Fresh
<1>5. FilesV'
  <2>1. NoFrame.pg = 0 /\ NoFrame.val = 0 /\ 0 \in Val
    BY WalAssumption DEF NoFrame, Val
  <2> QED BY <1>2, <1>3, <2>1 DEF FilesV
<1>6. \A k \in Conn : WriterV(s[k])' /\ ReaderV(s[k])' /\ CkptV(s[k])'
  <2> SUFFICES ASSUME NEW k \in Conn PROVE WriterV(s[k])' /\ ReaderV(s[k])' /\ CkptV(s[k])'
    OBVIOUS
  <2>1. ReaderV(s[k])'
    BY <1>4 DEF ReaderV
  <2>2. WriterV(s[k])' /\ CkptV(s[k])'
    BY <1>4 DEF WriterV, CkptV, Folding
  <2> QED BY <2>1, <2>2
<1>7. \A k, j \in Conn : Bounded(s[k], s[j])'
  BY <1>4 DEF Bounded, Folding
<1>8. VInv'
  <2>1. ntx' \in 0..MaxTx /\ stops' = 0 /\ CloseV'
    BY <1>1, <1>2 DEF CloseV
  <2>2. \A k \in Conn : s'[k].tx <= ntx'
    BY <1>4, <2>1, WalAssumption
  <2> QED BY <1>5, <1>6, <1>7, <2>1, <2>2 DEF VInv
<1>9. Store' = Store
  <2>1. Store = PagesAt(file, 0)
    BY <1>2, AllInDb
  <2>2. RecoveredMx(file') = 0
    BY <1>3, NoLogNoMx
  <2>3. Store' = PagesAt(file', 0)
    BY <1>3, <2>2, Zenon DEF Store
  <2>4. PagesAt(file', 0) = PagesAt(file, 0)
    <3>1. PICK mx \in Nat : mx = 0
      OBVIOUS
    <3>2. /\ \A f \in 1..mx : /\ file'.frame[f].pg = file.frame[f].pg
                              /\ file'.frame[f].val = file.frame[f].val
          /\ \A p \in Page : NoneIn(file, p, mx) => file'.db[p] = file.db[p]
      BY <1>3, <3>1
    <3>3. PagesAt(file', mx) = PagesAt(file, mx)
      BY <3>2, PagesSame
    <3> QED BY <3>1, <3>3
  <2> QED BY <2>1, <2>3, <2>4
<1>10. \A k \in Conn : s[k].tx = 0 /\ s[k].readLock = -1 /\ s[k].pc \in {"idle", "ckEnd"}
  <2>1. \A k \in Conn : s[k].pc \in {"idle", "ckEnd"}
    BY <1>1, <1>2 DEF IInv, ClosingOK
  <2> QED BY <2>1 DEF IInv, Local, BeforeHdr, Ckpt, Restarting, Framing
<1>11. View' = View
  <2>1. ASSUME NEW k \in Conn PROVE View'[k] = View[k]
    BY <1>4, <1>10, SameViewOf DEF InTx
  <2> QED BY <2>1, SameView
<1>12. Writer' = Writer
  BY <1>4, <1>10 DEF Writer
<1>13. Sealed' = Sealed
  BY <1>4, <1>10 DEF Sealed, InSeal
<1> QED BY <1>1, <1>8, <1>9, <1>11, <1>12, <1>13, SnapStutter

-----------------------------------------------------------------------------

\* The log of a new database promises its contents.
LEMMA InitV ==
  ASSUME Init, MaxStops = 0
  PROVE  VInv /\ Snapshots!Init
<1>1. /\ shm = ZeroShm /\ file.db = [p \in Page |-> 0] /\ file.salt = 0
      /\ DOMAIN file = {"db", "salt", "again", "frame", "gone"}
      /\ file.frame = [f \in Frame |-> NoFrame]
      /\ closing = None /\ kept = {file.db} /\ ntx = 0 /\ stops = 0
  BY DEF Init
<1>2. \A k \in Conn : s[k].tx = 0 /\ s[k].readLock = -1 /\ s[k].pc = "idle"
  BY DEF Init, Fresh
<1>3. FilesV
  <2>1. NoFrame.pg = 0 /\ NoFrame.val = 0 /\ 0 \in Val
    BY WalAssumption DEF NoFrame, Val
  <2>2. shm.h0 = None /\ DOMAIN shm.index = Frame
    BY <1>1 DEF ZeroShm
  <2> QED BY <1>1, <2>1, <2>2 DEF FilesV
<1>4. \A k \in Conn : WriterV(s[k]) /\ ReaderV(s[k]) /\ CkptV(s[k])
  <2>1. \A k \in Conn : s[k] = Fresh(FALSE)
    BY DEF Init
  <2> QED BY <2>1, FreshV
<1>5. \A k, j \in Conn : Bounded(s[k], s[j])
  BY <1>2 DEF Bounded, Folding
<1>6. VInv
  <2>1. ntx \in 0..MaxTx /\ stops = 0 /\ CloseV
    BY <1>1, WalAssumption DEF CloseV
  <2>2. \A k \in Conn : s[k].tx <= ntx
    BY <1>1, <1>2
  <2> QED BY <1>3, <1>4, <1>5, <2>1, <2>2 DEF VInv
<1>7. Store = file.db /\ Store \in [Page -> Val]
  <2>1. IInv
    BY InitKeeps
  <2>2. Store = PagesAt(file, 0) /\ Store \in [Page -> Val]
    BY <1>1, <1>6, <2>1, StoreIs DEF ZeroShm
  <2>3. ASSUME NEW p \in Page PROVE PagesAt(file, 0)[p] = file.db[p]
    BY PageIs
  <2>4. PagesAt(file, 0) = [p \in Page |-> PagesAt(file, 0)[p]]
    BY DEF PagesAt
  <2>5. [p \in Page |-> PagesAt(file, 0)[p]] = [p \in Page |-> file.db[p]]
    BY <2>3, Zenon
  <2>6. file.db = [p \in Page |-> file.db[p]]
    BY <1>1
  <2> QED BY <2>2, <2>4, <2>5, <2>6, Zenon
<1>8. View = [k \in Conn |-> None]
  BY <1>2 DEF View, InTx
<1>9. Writer = None
  BY <1>2 DEF Writer
<1>10. Sealed = FALSE
  BY <1>2 DEF Sealed, InSeal
<1>11. Store \in [Page -> Val] /\ kept = {Store}
  BY <1>1, <1>7
<1>12. Snapshots!Init
  BY <1>8, <1>9, <1>10, <1>11, Zenon
     DEF Snapshots!Init, Snapshots!Pages, View, Writer, Sealed, InTx, InSeal
<1> QED BY <1>6, <1>12

\* Every step of the log is one of SnapshotStore, or changes nothing there.
LEMMA StepSnap ==
  ASSUME IInv, VInv, IInv', ~Overlap, MaxStops = 0, [Next]_vars
  PROVE  VInv' /\ SnapStep
<1>1. ASSUME NEW c \in Conn, ReadStep(c) PROVE VInv' /\ SnapStep
  BY <1>1, BeginReadSnap, HdrLockedSnap, WalIndexRecoverSnap, TryReadLock0Snap, Check0Snap,
     PickMarkSnap, ClaimMarkSnap, RaiseMarkSnap, ShareMarkSnap, SetMinFrameSnap,
     CheckMarkSnap, EndReadSnap DEF ReadStep
<1>2. ASSUME NEW c \in Conn, WriteStep(c) PROVE VInv' /\ SnapStep
  BY <1>2, BeginWriteSnap, RestartLogSnap, GoOnSnap, RestartHdrSnap, RestartMarksSnap,
     WriteLogHeaderSnap, SyncLogHeaderSnap, PutFrameSnap, RewriteChecksumSnap,
     AppendIndexSnap, CommitSnap, RollbackSnap DEF WriteStep
<1>3. ASSUME NEW c \in Conn, CkptStep(c) PROVE VInv' /\ SnapStep
  BY <1>3, BeginCheckpointSnap, CkptStartSnap, CkptReadMarkSnap, CkptTakeMarkSnap,
     CkptSetMarkSnap, CkptSyncSnap, CkptCopySnap, CkptDoneSnap DEF CkptStep
<1>4. ASSUME NEW c \in Conn, CloseHandle(c) \/ DeleteLog(c) PROVE VInv' /\ SnapStep
  BY <1>4, CloseHandleSnap, DeleteLogSnap
<1>5. ~Crash /\ ~PowerFailure
  BY DEF Crash, PowerFailure, Stop, VInv
<1>6. CASE UNCHANGED vars
  <2>1. UNCHANGED <<shm, file, s, kept, closing, ntx, stops>>
    BY <1>6 DEF vars
  <2>2. CloseV'
    BY <2>1 DEF VInv, CloseV
  <2> QED BY <2>1, <2>2, StillV, StillSnap
<1> QED BY <1>1, <1>2, <1>3, <1>4, <1>5, <1>6 DEF Next

\* Through every interleaving of readers, the writer and a checkpoint, and
\* through restarts of the log, a transaction reads one commit.
THEOREM SnapshotsAreKept ==
  ASSUME ~Overlap, MaxStops = 0
  PROVE  Spec => KeepsSnapshots
<1> DEFINE Inv == IInv /\ VInv
<1>1. Init => Inv /\ Snapshots!Init
  BY InitKeeps, InitV
<1>2. ASSUME Inv, ntx \in Nat, [Next]_vars
      PROVE  Inv' /\ [Snapshots!Next]_(Snapshots!vars)
  <2>1. IInv'
    BY <1>2, StepKeeps
  <2>2. VInv' /\ SnapStep
    BY <1>2, <2>1, StepSnap
  <2>3. SnapStep => Snapshots!Next \/ Snapshots!vars' = Snapshots!vars
    BY SnapVars, Zenon DEF SnapStep
  <2> QED BY <2>1, <2>2, <2>3
<1>3. Inv => ntx \in Nat
  BY DEF VInv
<1>4. Inv /\ [Next]_vars => Inv' /\ [Snapshots!Next]_(Snapshots!vars)
  BY <1>2, <1>3
<1> HIDE DEF Inv
<1> QED BY <1>1, <1>4, PTL DEF Spec, KeepsSnapshots, Snapshots!Spec

-----------------------------------------------------------------------------
(* Type correctness: what of TypeOK the invariant leaves open.             *)

GoodHdr == [mx : 0..MaxFrame, salt : Salt]

\* The bounds that TypeOK adds to TypesOK and VInv.
BoundsOK ==
  /\ shm.h0 \in GoodHdr \cup {None} /\ shm.h1 \in GoodHdr \cup {None}
  /\ \A c \in Conn : s[c].hdr \in GoodHdr
  /\ shm.backfill <= MaxFrame /\ shm.mark \in [Slot -> 0..Unused]
  /\ shm.index \in [Frame -> Page \cup {0}]
  /\ file.salt \in Salt /\ disk.salt \in Salt
  /\ DOMAIN disk = DOMAIN file /\ disk.db \in [Page -> Val \cup {Torn}]

KeptOK == kept \subseteq [Page -> Val] /\ Store \in kept

\* A step keeps the bounds if what it changes is within them.
Within ==
  /\ shm'.h0 \in {shm.h0, shm.h1} \cup GoodHdr \cup {None}
  /\ shm'.h1 \in {shm.h0, shm.h1} \cup GoodHdr \cup {None}
  /\ shm'.backfill <= MaxFrame /\ shm'.mark \in [Slot -> 0..Unused]
  /\ shm'.index \in [Frame -> Page \cup {0}]
  /\ file'.salt \in Salt /\ disk'.salt \in Salt
  /\ DOMAIN file' = DOMAIN file /\ DOMAIN disk' = DOMAIN file
  /\ disk'.db \in [Page -> Val \cup {Torn}]

HdrsGo == \A c \in Conn : s'[c].hdr \in GoodHdr \cup {s[c].hdr, NoHdr, shm.h0}

\* The bounds come back after a step within them.
LEMMA WithinBounds ==
  ASSUME IInv', BoundsOK, Within, HdrsGo
  PROVE  BoundsOK'
<1>1. NoHdr \in GoodHdr
  BY WalAssumption, FS_CardinalityType DEF NoHdr, GoodHdr, Salt
<1>2. \A c \in Conn : s'[c].hdr \in GoodHdr
  <2>1. \A c \in Conn : s'[c].hdr # None
    BY WalAssumption DEF IInv, Local, Hdr
  <2> QED BY <1>1, <2>1 DEF BoundsOK, HdrsGo
<1> QED BY <1>2 DEF BoundsOK, Within

\* Most steps change none of this.
LEMMA WithinSame ==
  ASSUME VInv, BoundsOK, UNCHANGED <<shm, file, disk>>
  PROVE  Within
  BY DEF Within, BoundsOK

\* Only the connection that moves changes its header.
LEMMA HdrsFollow ==
  ASSUME IInv, NEW c \in Conn, NEW x, Set(c, x),
         x.hdr \in GoodHdr \cup {s[c].hdr, NoHdr, shm.h0}
  PROVE  HdrsGo
<1>1. s'[c] = x /\ \A k \in Conn \ {c} : s'[k] = s[k]
  BY OneMoves DEF IInv
<1> QED BY <1>1 DEF HdrsGo

\* A call that is over or tried again has no header, or the one it had.
LEMMA HdrsOver ==
  ASSUME IInv, NEW c \in Conn, Set(c, Fresh(s[c].again)) \/ Retry(c)
  PROVE  HdrsGo
<1>1. DOMAIN s[c] = Fields
  BY DEF IInv, Local
<1>2. CASE Set(c, Fresh(s[c].again))
  <2>1. Fresh(s[c].again).hdr = NoHdr
    BY DEF Fresh
  <2> QED BY <1>2, <2>1, HdrsFollow
<1>3. CASE Set(c, [s[c] EXCEPT !.i = 0, !.mxI = 0, !.seen = 0, !.min = 1, !.pc = "marks"])
  <2> DEFINE x == [s[c] EXCEPT !.i = 0, !.mxI = 0, !.seen = 0, !.min = 1, !.pc = "marks"]
  <2>1. x.hdr = s[c].hdr
    BY <1>1 DEF Fields, Fresh
  <2> HIDE DEF x
  <2> QED BY <1>3, <2>1, HdrsFollow DEF x
<1> QED BY <1>2, <1>3 DEF Retry

\* A connection that goes on has the header it had.
LEMMA HdrsStay ==
  ASSUME IInv, NEW c \in Conn, NEW x, Set(c, x),
         \E place : x = [s[c] EXCEPT !.pc = place]
  PROVE  HdrsGo
<1>1. DOMAIN s[c] = Fields
  BY DEF IInv, Local
<1>2. x.hdr = s[c].hdr
  BY <1>1 DEF Fields, Fresh
<1> QED BY <1>2, HdrsFollow

\* The steps to a read lock, and its end.
LEMMA ReadHdrs ==
  ASSUME IInv, NEW c \in Conn, ReadStep(c), ~WalIndexRecover(c)
  PROVE  HdrsGo
<1>1. DOMAIN s[c] = Fields
  BY DEF IInv, Local
<1>2. CASE BeginRead(c)
  <2>1. PICK x : /\ Set(c, x)
                 /\ \/ x = [s[c] EXCEPT !.hdr = shm.h0, !.ckpt = FALSE, !.pc = "begin"]
                    \/ x = [s[c] EXCEPT !.ckpt = FALSE, !.pc = "hdrLocked"]
    BY <1>2 DEF BeginRead, ReadHdr
  <2>2. x.hdr \in {s[c].hdr, shm.h0}
    BY <1>1, <2>1 DEF Fields, Fresh
  <2> QED BY <2>1, <2>2, HdrsFollow
<1>3. CASE HdrLocked(c)
  <2>1. PICK x : /\ Set(c, x)
                 /\ \/ x = [s[c] EXCEPT !.hdr = shm.h0, !.pc = Entered(c)]
                    \/ x = [s[c] EXCEPT !.pc = "recover"]
                    \/ x = Fresh(s[c].again)
    BY <1>3 DEF HdrLocked, Goto, Leave
  <2>2. CASE x = Fresh(s[c].again)
    BY <2>1, <2>2, HdrsOver
  <2>3. CASE x # Fresh(s[c].again)
    <3>1. x.hdr \in {s[c].hdr, shm.h0}
      BY <1>1, <2>1, <2>3 DEF Fields, Fresh
    <3> QED BY <2>1, <3>1, HdrsFollow
  <2> QED BY <2>2, <2>3
<1>4. CASE TryReadLock0(c)
  <2>1. PICK x : Set(c, x) /\ (x = [s[c] EXCEPT !.pc = "check0"] \/ x = [s[c] EXCEPT !.pc = "marks"])
    BY <1>4 DEF TryReadLock0, Goto
  <2> QED BY <2>1, HdrsStay
<1>5. CASE Check0(c)
  <2>1. CASE Retry(c)
    BY <2>1, HdrsOver
  <2>2. CASE Set(c, [s[c] EXCEPT !.readLock = 0, !.pc = "reading"])
    <3>1. PICK x : Set(c, x) /\ x = [s[c] EXCEPT !.readLock = 0, !.pc = "reading"]
      BY <2>2
    <3>2. x.hdr = s[c].hdr
      BY <1>1, <3>1 DEF Fields, Fresh
    <3> QED BY <3>1, <3>2, HdrsFollow
  <2> QED BY <1>5, <2>1, <2>2 DEF Check0
<1>6. CASE PickMark(c)
  <2>1. DOMAIN s = Conn
    BY DEF IInv, TypesOK
  <2> QED BY <1>1, <1>6, <2>1 DEF PickMark, Set, Fields, Fresh, HdrsGo
<1>7. CASE ClaimMark(c)
  <2>1. CASE Retry(c)
    BY <2>1, HdrsOver
  <2>2. CASE ~Retry(c)
    <3>1. PICK x : /\ Set(c, x)
                   /\ \/ x = [s[c] EXCEPT !.pc = "raise"] \/ x = [s[c] EXCEPT !.pc = "share"]
                      \/ x = [s[c] EXCEPT !.i = @ + 1]
      BY <1>7, <2>2 DEF ClaimMark, Goto
    <3>2. x.hdr = s[c].hdr
      BY <1>1, <3>1 DEF Fields, Fresh
    <3> QED BY <3>1, <3>2, HdrsFollow
  <2> QED BY <2>1, <2>2
<1>8. CASE RaiseMark(c)
  <2>1. PICK x : /\ Set(c, x)
                 /\ x = [s[c] EXCEPT !.mxI = s[c].i, !.seen = s[c].hdr.mx, !.pc = "share"]
    BY <1>8 DEF RaiseMark
  <2>2. x.hdr = s[c].hdr
    BY <1>1, <2>1 DEF Fields, Fresh
  <2> QED BY <2>1, <2>2, HdrsFollow
<1>9. CASE ShareMark(c)
  <2>1. CASE Retry(c)
    BY <2>1, HdrsOver
  <2>2. CASE ~Retry(c)
    <3>1. PICK x : Set(c, x) /\ x = [s[c] EXCEPT !.i = 0, !.pc = "minFrame"]
      BY <1>9, <2>2 DEF ShareMark
    <3>2. x.hdr = s[c].hdr
      BY <1>1, <3>1 DEF Fields, Fresh
    <3> QED BY <3>1, <3>2, HdrsFollow
  <2> QED BY <2>1, <2>2
<1>10. CASE SetMinFrame(c)
  <2>1. PICK x : Set(c, x) /\ x = [s[c] EXCEPT !.min = shm.backfill + 1, !.pc = "check"]
    BY <1>10 DEF SetMinFrame
  <2>2. x.hdr = s[c].hdr
    BY <1>1, <2>1 DEF Fields, Fresh
  <2> QED BY <2>1, <2>2, HdrsFollow
<1>11. CASE CheckMark(c)
  <2>1. CASE Retry(c)
    BY <2>1, HdrsOver
  <2>2. CASE ~Retry(c)
    <3>1. PICK x, place : /\ Set(c, x)
                          /\ x = [s[c] EXCEPT !.readLock = s[c].mxI, !.mxI = 0, !.seen = 0,
                                              !.pc = place]
      BY <1>11, <2>2 DEF CheckMark
    <3>2. x.hdr = s[c].hdr
      BY <1>1, <3>1 DEF Fields, Fresh
    <3> QED BY <3>1, <3>2, HdrsFollow
  <2> QED BY <2>1, <2>2
<1>12. CASE EndRead(c)
  BY <1>12, HdrsOver DEF EndRead
<1> QED BY <1>2, <1>3, <1>4, <1>5, <1>6, <1>7, <1>8, <1>9, <1>10, <1>11, <1>12 DEF ReadStep

\* The steps of a checkpoint.
LEMMA CkptHdrs ==
  ASSUME IInv, NEW c \in Conn, CkptStep(c)
  PROVE  HdrsGo
<1>1. DOMAIN s[c] = Fields
  BY DEF IInv, Local
<1>2. ASSUME NEW ls, CkptOver(c, ls) PROVE HdrsGo
  <2>1. CASE Set(c, Fresh(s[c].again))
    BY <2>1, HdrsOver
  <2>2. CASE ~Set(c, Fresh(s[c].again))
    <3>1. PICK x : Set(c, x) /\ x = [Fresh(s[c].again) EXCEPT !.ckpt = TRUE, !.pc = "ckEnd"]
      BY <1>2, <2>2 DEF CkptOver
    <3>2. x.hdr = NoHdr
      BY <3>1 DEF Fresh
    <3> QED BY <3>1, <3>2, HdrsFollow
  <2> QED BY <2>1, <2>2
<1>3. CASE BeginCheckpoint(c)
  <2>1. PICK x : /\ Set(c, x)
                 /\ \/ x = [s[c] EXCEPT !.hdr = shm.h0, !.ckpt = TRUE, !.pc = "ckGo"]
                    \/ x = [s[c] EXCEPT !.ckpt = TRUE, !.pc = "hdrLocked"]
    BY <1>3 DEF BeginCheckpoint, ReadHdr
  <2>2. x.hdr \in {s[c].hdr, shm.h0}
    BY <1>1, <2>1 DEF Fields, Fresh
  <2> QED BY <2>1, <2>2, HdrsFollow
<1>4. CASE CkptStart(c)
  <2>1. CASE CkptOver(c, {})
    BY <1>2, <2>1
  <2>2. CASE ~CkptOver(c, {})
    <3>1. PICK x : /\ Set(c, x)
                   /\ x = [s[c] EXCEPT !.safe = s[c].hdr.mx, !.i = 1, !.pc = "ckMark",
                        !.iter = [p \in Page |-> Latest(shm.index, p, 1, s[c].hdr.mx)]]
      BY <1>4, <2>2 DEF CkptStart
    <3>2. x.hdr = s[c].hdr
      BY <1>1, <3>1 DEF Fields, Fresh
    <3> QED BY <3>1, <3>2, HdrsFollow
  <2> QED BY <2>1, <2>2
<1>5. CASE CkptReadMark(c)
  <2>1. PICK x, y : /\ Set(c, x)
                    /\ \/ x = [s[c] EXCEPT !.seen = y, !.pc = "ckTake"]
                       \/ x = [s[c] EXCEPT !.i = @ + 1]
    BY <1>5 DEF CkptReadMark
  <2>2. x.hdr = s[c].hdr
    BY <1>1, <2>1 DEF Fields, Fresh
  <2> QED BY <2>1, <2>2, HdrsFollow
<1>6. CASE CkptTakeMark(c) \/ CkptSetMark(c)
  <2>1. PICK x : /\ Set(c, x)
                 /\ \/ x = [s[c] EXCEPT !.pc = "ckSet"]
                    \/ x = [s[c] EXCEPT !.safe = s[c].seen, !.seen = 0, !.i = @ + 1,
                                        !.pc = "ckMark"]
                    \/ x = [s[c] EXCEPT !.seen = 0, !.i = @ + 1, !.pc = "ckMark"]
    BY <1>6 DEF CkptTakeMark, CkptSetMark, Goto
  <2>2. x.hdr = s[c].hdr
    BY <1>1, <2>1 DEF Fields, Fresh
  <2> QED BY <2>1, <2>2, HdrsFollow
<1>7. CASE CkptSync(c)
  <2>1. CASE CkptOver(c, {})
    BY <1>2, <2>1
  <2>2. CASE ~CkptOver(c, {})
    <3>1. PICK x, todo : Set(c, x) /\ x = [s[c] EXCEPT !.pc = "ckCopy", !.todo = todo]
      BY <1>7, <2>2 DEF CkptSync
    <3>2. x.hdr = s[c].hdr
      BY <1>1, <3>1 DEF Fields, Fresh
    <3> QED BY <3>1, <3>2, HdrsFollow
  <2> QED BY <2>1, <2>2
<1>8. CASE CkptCopy(c)
  <2>1. PICK x, p : Set(c, x) /\ x = [s[c] EXCEPT !.todo = @ \ {p}]
    BY <1>8 DEF CkptCopy
  <2>2. x.hdr = s[c].hdr
    BY <1>1, <2>1 DEF Fields, Fresh
  <2> QED BY <2>1, <2>2, HdrsFollow
<1>9. CASE CkptDone(c)
  BY <1>2, <1>9 DEF CkptDone
<1> QED BY <1>3, <1>4, <1>5, <1>6, <1>7, <1>8, <1>9 DEF CkptStep

\* The salts of a new log.
LEMMA FreshHdr ==
  ASSUME NEW salt \in FreshSalts, NEW hdr, hdr = [mx |-> 0, salt |-> salt]
  PROVE  hdr \in GoodHdr
<1>1. salt \in Salt
  BY DEF FreshSalts
<1> QED BY <1>1, WalAssumption DEF GoodHdr

\* The steps of a writer.
LEMMA WriteHdrs ==
  ASSUME IInv, VInv, ~Overlap, BoundsOK, NEW c \in Conn, WriteStep(c)
  PROVE  HdrsGo
<1>1. DOMAIN s[c] = Fields /\ s[c].hdr \in GoodHdr
  BY DEF IInv, Local, BoundsOK
<1>2. CASE BeginWrite(c)
  <2>1. PICK x : Set(c, x) /\ x = [s[c] EXCEPT !.tx = ntx + 1, !.pc = "writing"]
    BY <1>2 DEF BeginWrite
  <2>2. x.hdr = s[c].hdr
    BY <1>1, <2>1 DEF Fields, Fresh
  <2> QED BY <2>1, <2>2, HdrsFollow
<1>3. CASE RestartLog(c)
  <2>1. PICK call \in Calls(c), salt \in FreshSalts :
          Set(c, [Called(c, call) EXCEPT !.hdr = [mx |-> 0, salt |-> salt], !.again = TRUE,
                                         !.pc = "restart0"])
    BY <1>3 DEF RestartLog
  <2>2. PICK hdr : hdr = [mx |-> 0, salt |-> salt]
    OBVIOUS
  <2>3. PICK x : /\ Set(c, x)
                 /\ x = [Called(c, call) EXCEPT !.hdr = hdr, !.again = TRUE, !.pc = "restart0"]
    BY <2>1, <2>2
  <2>4. x.hdr = hdr
    BY <1>1, <2>3 DEF Called, Fields, Fresh
  <2> QED BY <2>2, <2>3, <2>4, FreshHdr, HdrsFollow
<1>4. CASE GoOn(c)
  <2>1. PICK call \in Calls(c) :
          \/ Set(c, [Called(c, call) EXCEPT !.readLock = -1, !.pc = "marks"])
          \/ Set(c, [Called(c, call) EXCEPT !.pc = "header"])
    BY <1>4 DEF GoOn
  <2>2. PICK x : /\ Set(c, x)
                 /\ \/ x = [Called(c, call) EXCEPT !.readLock = -1, !.pc = "marks"]
                    \/ x = [Called(c, call) EXCEPT !.pc = "header"]
    BY <2>1
  <2>3. x.hdr = s[c].hdr
    BY <1>1, <2>2 DEF Called, Fields, Fresh
  <2> QED BY <2>2, <2>3, HdrsFollow
<1>5. CASE RestartHdr(c) \/ SyncLogHeader(c)
  BY <1>5, HdrsStay DEF RestartHdr, SyncLogHeader, Goto
<1>6. CASE RestartMarks(c)
  <2>1. PICK x : Set(c, x) /\ x = [s[c] EXCEPT !.readLock = -1, !.pc = "marks"]
    BY <1>6 DEF RestartMarks
  <2>2. x.hdr = s[c].hdr
    BY <1>1, <2>1 DEF Fields, Fresh
  <2> QED BY <2>1, <2>2, HdrsFollow
<1>7. CASE WriteLogHeader(c)
  <2>1. CASE s[c].hdr.mx # 0
    <3>1. PICK x : Set(c, x) /\ x = [s[c] EXCEPT !.cur = s[c].hdr.mx, !.pc = "put"]
      BY <1>7, <2>1 DEF WriteLogHeader
    <3>2. x.hdr = s[c].hdr
      BY <1>1, <3>1 DEF Fields, Fresh
    <3> QED BY <3>1, <3>2, HdrsFollow
  <2>2. CASE s[c].hdr.mx = 0
    <3>1. PICK salt \in IF s[c].again THEN {s[c].hdr.salt} ELSE FreshSalts :
            Set(c, [s[c] EXCEPT !.hdr = [mx |-> 0, salt |-> salt], !.cur = 0,
                                !.pc = "syncHeader"])
      BY <1>7, <2>2 DEF WriteLogHeader
    <3>2. PICK hdr : hdr = [mx |-> 0, salt |-> salt]
      OBVIOUS
    <3>3. PICK x : Set(c, x) /\ x = [s[c] EXCEPT !.hdr = hdr, !.cur = 0, !.pc = "syncHeader"]
      BY <3>1, <3>2
    <3>4. x.hdr = hdr
      BY <1>1, <3>3 DEF Fields, Fresh
    <3>5. hdr \in GoodHdr
      <4>1. salt \in Salt
        BY <1>1, <3>1 DEF GoodHdr, FreshSalts
      <4> QED BY <3>2, <4>1, WalAssumption DEF GoodHdr
    <3> QED BY <3>3, <3>4, <3>5, HdrsFollow
  <2> QED BY <2>1, <2>2
<1>8. CASE PutFrame(c)
  <2>1. PICK x, p, f, val : Puts(c, x, p, f, val)
    BY <1>8, PutFrameIs
  <2> QED BY <2>1, HdrsFollow DEF Puts
<1>9. CASE RewriteChecksum(c)
  <2>1. PICK x : /\ Set(c, x)
                 /\ \/ x = [s[c] EXCEPT !.reck = 0, !.pc = "append"]
                    \/ x = [s[c] EXCEPT !.reck = s[c].reck + 1]
    BY <1>9 DEF RewriteChecksum
  <2>2. x.hdr = s[c].hdr
    BY <1>1, <2>1 DEF Fields, Fresh
  <2> QED BY <2>1, <2>2, HdrsFollow
<1>10. CASE AppendIndex(c)
  <2>1. PICK hdr : hdr = [s[c].hdr EXCEPT !.mx = s[c].cur]
    OBVIOUS
  <2>2. PICK x, place : Set(c, x) /\ x = [s[c] EXCEPT !.hdr = hdr, !.cur = 0, !.pc = place]
    BY <1>10, <2>1 DEF AppendIndex
  <2>3. x.hdr = hdr
    BY <1>1, <2>2 DEF Fields, Fresh
  <2>4. s[c].cur \in 0..MaxFrame
    <3>1. s[c].pc = "append" /\ s[c].tx # 0 /\ s[c].cur \in Nat
      BY <1>10 DEF AppendIndex, IInv, Local, Framing
    <3> QED BY <3>1, WalAssumption DEF VInv, WriterV
  <2>5. hdr \in GoodHdr
    BY <1>1, <2>1, <2>4 DEF GoodHdr
  <2> QED BY <2>2, <2>3, <2>5, HdrsFollow
<1>11. CASE Commit(c) \/ Rollback(c)
  <2>1. PICK x, hdr : Set(c, x) /\ x = Ended(c, hdr) /\ hdr \in {s[c].hdr, shm.h0}
    BY <1>11 DEF Commit, Rollback
  <2>2. x.hdr = hdr
    BY <1>1, <2>1 DEF Ended, Fields, Fresh
  <2> QED BY <2>1, <2>2, HdrsFollow
<1> QED BY <1>2, <1>3, <1>4, <1>5, <1>6, <1>7, <1>8, <1>9, <1>10, <1>11 DEF WriteStep

\* A step that only changes the wal-index.
LEMMA WithinShm ==
  ASSUME IInv, VInv, BoundsOK, UNCHANGED <<file, disk>>,
         shm'.h0 \in {shm.h0, shm.h1} \cup GoodHdr \cup {None},
         shm'.h1 \in {shm.h0, shm.h1} \cup GoodHdr \cup {None},
         shm'.backfill <= MaxFrame, shm'.mark \in [Slot -> 0..Unused],
         shm'.index \in [Frame -> Page \cup {0}]
  PROVE  Within
  BY DEF Within, BoundsOK

\* ... or a step that only changes the files.
LEMMA WithinFiles ==
  ASSUME IInv, VInv, BoundsOK, UNCHANGED shm, file'.salt \in Salt, disk'.salt \in Salt,
         DOMAIN file' = DOMAIN file, DOMAIN disk' = DOMAIN file,
         disk'.db \in {disk.db, file.db}
  PROVE  Within
<1>1. disk'.db \in [Page -> Val \cup {Torn}]
  <2>1. disk.db \in [Page -> Val \cup {Torn}] /\ file.db \in [Page -> Val]
    BY DEF BoundsOK, VInv, FilesV
  <2>2. file.db \in [Page -> Val \cup {Torn}]
    BY <2>1
  <2> QED BY <2>1, <2>2
<1> QED BY <1>1 DEF Within, BoundsOK

\* What a field of the wal-index is after an EXCEPT.
LEMMA ShmFields ==
  ASSUME IInv
  PROVE  /\ DOMAIN shm = {"h0", "h1", "backfill", "mark", "index"}
         /\ DOMAIN shm.mark = Slot
  BY DEF IInv, TypesOK, ZeroShm

\* The steps to a read lock, and its end.
LEMMA ReadWithin ==
  ASSUME IInv, VInv, BoundsOK, NEW c \in Conn, ReadStep(c), ~WalIndexRecover(c)
  PROVE  Within
<1>1. CASE RaiseMark(c)
  <2>1. /\ shm' = [shm EXCEPT !.mark[s[c].i] = s[c].hdr.mx] /\ UNCHANGED <<file, disk>>
    BY <1>1 DEF RaiseMark, files
  <2>2. s[c].hdr.mx \in 0..Unused
    BY WalAssumption DEF BoundsOK, GoodHdr, Unused
  <2>3. shm'.mark \in [Slot -> 0..Unused]
    BY <2>1, <2>2, ShmFields DEF BoundsOK
  <2> QED BY <2>1, <2>3, ShmFields, WithinShm DEF BoundsOK
<1>2. CASE ~RaiseMark(c)
  <2>1. UNCHANGED <<shm, file, disk>>
    BY <1>2 DEF ReadStep, BeginRead, HdrLocked, TryReadLock0, Check0, PickMark,
       ClaimMark, ShareMark, SetMinFrame, CheckMark, EndRead, files
  <2> QED BY <2>1, WithinSame
<1> QED BY <1>1, <1>2

\* The recovery of a log that is not there.
LEMMA RecoverWithin ==
  ASSUME IInv, VInv, BoundsOK, NEW c \in Conn, WalIndexRecover(c)
  PROVE  Within /\ HdrsGo
<1>1. /\ s[c].pc = "recover" /\ UNCHANGED <<file, disk>> /\ shm.h0 = None /\ Local(s[c])
  BY DEF WalIndexRecover, files, IInv, Own, HeaderOK
<1>2. file.salt = 0 /\ RecoveredMx(file) = 0
  BY <1>1, NoLogNoMx DEF VInv, FilesV
<1> DEFINE hdr == [mx |-> RecoveredMx(file), salt |-> file.salt]
           x == [s[c] EXCEPT !.hdr = hdr, !.again = file.again, !.pc = Entered(c)]
<1>3. hdr \in GoodHdr
  BY <1>2, WalAssumption DEF GoodHdr, BoundsOK
<1>4. /\ Set(c, x) /\ shm'.h0 = hdr /\ shm'.h1 = hdr /\ shm'.backfill = 0
  BY DEF WalIndexRecover
<1>5. shm'.mark \in [Slot -> 0..Unused]
  <2>1. shm'.mark \in [Slot -> {RecoveredMx(file), Unused}]
    BY DEF WalIndexRecover
  <2>2. RecoveredMx(file) \in 0..Unused /\ Unused \in 0..Unused
    BY <1>2, WalAssumption DEF Unused
  <2> QED BY <2>1, <2>2
<1>6. shm'.index \in [Frame -> Page \cup {0}]
  BY <1>2 DEF WalIndexRecover
<1>7. x.hdr = hdr
  BY <1>1 DEF Local, Fields, Fresh
<1> HIDE DEF hdr, x
<1>8. HdrsGo
  BY <1>3, <1>4, <1>7, HdrsFollow
<1>9. shm'.backfill <= MaxFrame
  BY <1>4, WalAssumption
<1> QED BY <1>1, <1>3, <1>4, <1>5, <1>6, <1>8, <1>9, WithinShm

\* The steps of a writer that change the wal-index.
LEMMA WriteWithin ==
  ASSUME IInv, VInv, ~Overlap, BoundsOK, NEW c \in Conn, WriteStep(c)
  PROVE  Within
<1>1. /\ DOMAIN s[c] = Fields /\ s[c].hdr \in GoodHdr /\ shm.backfill <= MaxFrame
      /\ shm.mark \in [Slot -> 0..Unused]
      /\ shm.index \in [Frame -> Page \cup {0}]
      /\ file.salt \in Salt /\ disk.salt \in Salt /\ DOMAIN disk = DOMAIN file
  BY DEF IInv, Local, BoundsOK
<1>2. CASE BeginWrite(c) \/ GoOn(c)
  BY <1>2, WithinSame DEF BeginWrite, GoOn, files
<1>3. CASE RestartLog(c)
  <2>1. PICK salt \in FreshSalts :
          shm' = [shm EXCEPT !.h1 = [mx |-> 0, salt |-> salt]] /\ UNCHANGED <<file, disk>>
    BY <1>3 DEF RestartLog, files
  <2>2. PICK hdr : hdr = [mx |-> 0, salt |-> salt]
    OBVIOUS
  <2>3. shm' = [shm EXCEPT !.h1 = hdr] /\ hdr \in GoodHdr
    BY <2>1, <2>2, FreshHdr
  <2> QED BY <1>1, <2>1, <2>3, ShmFields, WithinShm
<1>4. CASE RestartHdr(c) \/ Commit(c)
  <2>1. shm' = [shm EXCEPT !.h0 = s[c].hdr] /\ UNCHANGED <<file, disk>>
    BY <1>4 DEF RestartHdr, Commit, files
  <2> QED BY <1>1, <2>1, ShmFields, WithinShm
<1>5. CASE RestartMarks(c)
  <2>1. shm' = [shm EXCEPT !.backfill = 0, !.mark = RestartedMarks] /\ UNCHANGED <<file, disk>>
    BY <1>5 DEF RestartMarks, Restarted, files
  <2>2. shm'.mark \in [Slot -> 0..Unused]
    BY <2>1, ShmFields, WalAssumption DEF RestartedMarks, Unused
  <2> QED BY <1>1, <2>1, <2>2, ShmFields, WithinShm, WalAssumption
<1>6. CASE WriteLogHeader(c)
  <2>1. CASE s[c].hdr.mx = 0
    <3>1. PICK salt \in IF s[c].again THEN {s[c].hdr.salt} ELSE FreshSalts :
            file' = [file EXCEPT !.salt = salt, !.again = s[c].again]
      BY <1>6, <2>1 DEF WriteLogHeader
    <3>2. salt \in Salt
      BY <1>1, <3>1 DEF GoodHdr, FreshSalts
    <3>3. UNCHANGED <<shm, disk>> /\ file'.salt = salt /\ DOMAIN file' = DOMAIN file
      BY <1>6, <3>1 DEF WriteLogHeader, VInv, FilesV
    <3> QED BY <1>1, <3>2, <3>3, WithinFiles
  <2>2. CASE s[c].hdr.mx # 0
    BY <1>6, <2>2, WithinSame DEF WriteLogHeader
  <2> QED BY <2>1, <2>2
<1>7. CASE SyncLogHeader(c)
  <2>1. disk' = [file EXCEPT !.db = disk.db] /\ UNCHANGED <<shm, file>>
    BY <1>7 DEF SyncLogHeader, SyncLog
  <2>2. disk'.db = disk.db /\ disk'.salt = file.salt /\ DOMAIN disk' = DOMAIN file
    BY <2>1 DEF VInv, FilesV
  <2> QED BY <1>1, <2>1, <2>2, WithinFiles
<1>8. CASE PutFrame(c) \/ RewriteChecksum(c)
  <2>1. UNCHANGED <<shm, disk>>
    BY <1>8 DEF PutFrame, RewriteChecksum
  <2>2. file'.salt = file.salt /\ DOMAIN file' = DOMAIN file
    <3>1. CASE PutFrame(c)
      <4>1. \E f, val, new : file' = [file EXCEPT !.frame[f].val = val]
                             \/ file' = [file EXCEPT !.frame[f] = new]
        BY <3>1 DEF PutFrame
      <4> QED BY <4>1 DEF VInv, FilesV
    <3>2. CASE RewriteChecksum(c)
      <4>1. \E f, salt, sum : file' = [file EXCEPT !.frame[f].salt = salt, !.frame[f].sum = sum]
        BY <3>2 DEF RewriteChecksum
      <4> QED BY <4>1 DEF VInv, FilesV
    <3> QED BY <1>8, <3>1, <3>2
  <2> QED BY <1>1, <2>1, <2>2, WithinFiles
<1>9. CASE AppendIndex(c)
  <2> DEFINE mx == s[c].hdr.mx
             clean == IF s[c].cur = mx THEN shm.index
                      ELSE IF mx = 0 THEN [f \in Frame |-> 0]
                      ELSE IF shm.index[mx + 1] # 0 THEN Cleaned(shm.index, mx)
                      ELSE shm.index
             index == [f \in Frame |-> IF f \in (mx + 1)..s[c].cur
                                       THEN file.frame[f].pg ELSE clean[f]]
             hdr == [s[c].hdr EXCEPT !.mx = s[c].cur]
  <2>1. /\ shm' = [shm EXCEPT !.index = index, !.h1 = IF s[c].commit THEN hdr ELSE @]
        /\ UNCHANGED <<file, disk>>
    BY <1>9 DEF AppendIndex, files
  <2>2. index \in [Frame -> Page \cup {0}]
    <3>1. clean \in [Frame -> Page \cup {0}]
      BY <1>1 DEF Cleaned
    <3>2. \A f \in Frame : file.frame[f].pg \in Page \cup {0}
      BY DEF VInv, FilesV
    <3> HIDE DEF clean
    <3> QED BY <3>1, <3>2
  <2>3. hdr \in GoodHdr
    <3>1. s[c].pc = "append" /\ s[c].tx # 0 /\ s[c].cur \in Nat
      BY <1>9 DEF AppendIndex, IInv, Local, Framing
    <3>2. s[c].cur \in 0..MaxFrame
      BY <3>1, WalAssumption DEF VInv, WriterV
    <3> QED BY <1>1, <3>2 DEF GoodHdr
  <2> HIDE DEF index, hdr
  <2>4. /\ shm'.h0 = shm.h0 /\ shm'.h1 \in {shm.h1, hdr} /\ shm'.index = index
        /\ shm'.backfill = shm.backfill /\ shm'.mark = shm.mark
    BY <2>1, ShmFields
  <2> QED BY <1>1, <2>1, <2>2, <2>3, <2>4, WithinShm
<1>10. CASE Rollback(c)
  <2>1. PICK index :
          /\ shm' = [shm EXCEPT !.index = index] /\ UNCHANGED <<file, disk>>
          /\ index \in {shm.index, Cleaned(shm.index, shm.h0.mx)}
    BY <1>10 DEF Rollback, files
  <2>2. shm'.index \in [Frame -> Page \cup {0}]
    BY <1>1, <2>1, ShmFields DEF Cleaned
  <2>3. /\ shm'.h0 = shm.h0 /\ shm'.h1 = shm.h1
        /\ shm'.backfill = shm.backfill /\ shm'.mark = shm.mark
    BY <2>1, ShmFields
  <2> QED BY <1>1, <2>1, <2>2, <2>3, WithinShm
<1> QED BY <1>2, <1>3, <1>4, <1>5, <1>6, <1>7, <1>8, <1>9, <1>10 DEF WriteStep

\* The steps of a checkpoint that change the wal-index or what was synced.
LEMMA CkptWithin ==
  ASSUME IInv, VInv, BoundsOK, NEW c \in Conn, CkptStep(c)
  PROVE  Within
<1>1. /\ DOMAIN s[c] = Fields /\ s[c].hdr \in GoodHdr /\ shm.backfill <= MaxFrame
      /\ shm.mark \in [Slot -> 0..Unused]
      /\ shm.index \in [Frame -> Page \cup {0}]
      /\ file.salt \in Salt /\ disk.salt \in Salt /\ DOMAIN disk = DOMAIN file
  BY DEF IInv, Local, BoundsOK
<1>2. s[c].pc \in {"ckSet", "ckCopy"} => s[c].safe <= MaxFrame
  <2>1. s[c].pc \in Folding => s[c].safe <= s[c].hdr.mx /\ s[c].safe \in Nat
    BY DEF IInv, Local
  <2> QED BY <1>1, <2>1, WalAssumption DEF GoodHdr, Folding
<1>3. CASE BeginCheckpoint(c) \/ CkptStart(c) \/ CkptReadMark(c) \/ CkptTakeMark(c)
  BY <1>3, WithinSame DEF BeginCheckpoint, CkptStart, CkptReadMark, CkptTakeMark, files
<1>4. CASE CkptSetMark(c)
  <2>1. /\ shm' = [shm EXCEPT !.mark[s[c].i] = IF s[c].i = 1 THEN s[c].safe ELSE Unused]
        /\ s[c].pc = "ckSet" /\ UNCHANGED <<file, disk>>
    BY <1>4 DEF CkptSetMark, files
  <2>2. s[c].safe \in 0..Unused /\ Unused \in 0..Unused
    BY <1>2, <2>1, WalAssumption DEF Unused, IInv, Local
  <2>3. shm'.mark \in [Slot -> 0..Unused]
    BY <1>1, <2>1, <2>2, ShmFields
  <2> QED BY <1>1, <2>1, <2>3, ShmFields, WithinShm
<1>5. CASE CkptSync(c)
  <2>1. CASE disk' = [file EXCEPT !.db = disk.db]
    <3>1. disk'.db = disk.db /\ disk'.salt = file.salt /\ DOMAIN disk' = DOMAIN file
      BY <2>1 DEF VInv, FilesV
    <3> QED BY <1>1, <1>5, <3>1, WithinFiles DEF CkptSync
  <2>2. CASE disk' = disk
    BY <1>5, <2>2, WithinSame DEF CkptSync
  <2> QED BY <1>5, <2>1, <2>2 DEF CkptSync, SyncLog
<1>6. CASE CkptCopy(c)
  <2>1. \E p, val : file' = [file EXCEPT !.db[p] = val]
    BY <1>6 DEF CkptCopy
  <2>2. file'.salt = file.salt /\ DOMAIN file' = DOMAIN file
    BY <2>1 DEF VInv, FilesV
  <2> QED BY <1>1, <1>6, <2>2, WithinFiles DEF CkptCopy
<1>7. CASE CkptDone(c)
  <2>1. /\ s[c].pc = "ckCopy" /\ shm' = [shm EXCEPT !.backfill = s[c].safe] /\ file' = file
        /\ disk' = disk \/ disk' = [disk EXCEPT !.db = file.db]
    BY <1>7 DEF CkptDone
  <2>2. /\ disk'.salt = disk.salt /\ DOMAIN disk' = DOMAIN disk
        /\ disk'.db \in {disk.db, file.db}
    BY <1>1, <2>1 DEF VInv, FilesV
  <2>3. disk'.db \in [Page -> Val \cup {Torn}]
    <3>1. disk.db \in [Page -> Val \cup {Torn}] /\ file.db \in [Page -> Val]
      BY DEF BoundsOK, VInv, FilesV
    <3>2. file.db \in [Page -> Val \cup {Torn}]
      BY <3>1
    <3> QED BY <2>2, <3>1, <3>2
  <2> QED BY <1>1, <1>2, <2>1, <2>2, <2>3, ShmFields DEF Within
<1> QED BY <1>3, <1>4, <1>5, <1>6, <1>7 DEF CkptStep

\* A handle goes, or the last one deletes the log.
LEMMA CloseWithin ==
  ASSUME IInv, VInv, BoundsOK, NEW c \in Conn, CloseHandle(c) \/ DeleteLog(c)
  PROVE  Within /\ HdrsGo
<1>1. CASE CloseHandle(c)
  <2>1. UNCHANGED <<shm, file, disk>>
    BY <1>1 DEF CloseHandle, files
  <2>2. HdrsGo
    <3>1. CASE UNCHANGED s
      BY <3>1 DEF HdrsGo
    <3>2. CASE Set(c, Fresh(FALSE))
      <4>1. Fresh(FALSE).hdr = NoHdr
        BY DEF Fresh
      <4> QED BY <3>2, <4>1, HdrsFollow
    <3> QED BY <1>1, <3>1, <3>2 DEF CloseHandle
  <2> QED BY <2>1, <2>2, WithinSame
<1>2. CASE DeleteLog(c)
  <2>1. /\ file' = NoLog(file) /\ disk' = [disk EXCEPT !.gone = TRUE] /\ shm' = ZeroShm
        /\ s' = AllNew
    BY <1>2 DEF DeleteLog
  <2>2. HdrsGo
    BY <2>1 DEF HdrsGo, AllNew, Fresh
  <2>3. /\ file'.salt = 0 /\ DOMAIN file' = DOMAIN file /\ DOMAIN disk' = DOMAIN file
        /\ disk'.salt = disk.salt /\ disk'.db = disk.db /\ disk.salt \in Salt
        /\ disk.db \in [Page -> Val \cup {Torn}]
    BY <2>1 DEF NoLog, VInv, FilesV, BoundsOK
  <2>4. 0 \in Salt
    BY WalAssumption, FS_CardinalityType DEF Salt
  <2> QED BY <2>1, <2>2, <2>3, <2>4, WalAssumption DEF Within, ZeroShm, Unused
<1> QED BY <1>1, <1>2

\* Every step keeps the bounds.
LEMMA StepBounds ==
  ASSUME IInv, VInv, IInv', ~Overlap, MaxStops = 0, BoundsOK, [Next]_vars
  PROVE  BoundsOK'
<1>1. ASSUME NEW c \in Conn, ReadStep(c) PROVE Within /\ HdrsGo
  BY <1>1, ReadWithin, ReadHdrs, RecoverWithin
<1>2. ASSUME NEW c \in Conn, WriteStep(c) PROVE Within /\ HdrsGo
  BY <1>2, WriteWithin, WriteHdrs
<1>3. ASSUME NEW c \in Conn, CkptStep(c) PROVE Within /\ HdrsGo
  BY <1>3, CkptWithin, CkptHdrs
<1>4. ASSUME NEW c \in Conn, CloseHandle(c) \/ DeleteLog(c) PROVE Within /\ HdrsGo
  BY <1>4, CloseWithin
<1>5. ~Crash /\ ~PowerFailure
  BY DEF Crash, PowerFailure, Stop, VInv
<1>6. CASE UNCHANGED vars
  <2>1. UNCHANGED <<shm, file, disk, s>>
    BY <1>6 DEF vars
  <2>2. HdrsGo
    BY <2>1 DEF HdrsGo
  <2> QED BY <2>1, <2>2, WithinSame, WithinBounds
<1> QED BY <1>1, <1>2, <1>3, <1>4, <1>5, <1>6, WithinBounds DEF Next

\* A new database is within them.
LEMMA InitBounds ==
  ASSUME Init
  PROVE  BoundsOK
<1>1. 0 \in Salt /\ NoHdr \in GoodHdr
  BY WalAssumption, FS_CardinalityType DEF Salt, NoHdr, GoodHdr
<1>2. \A c \in Conn : s[c].hdr \in GoodHdr
  BY <1>1 DEF Init, Fresh
<1>3. /\ shm.h0 = None /\ shm.h1 = None /\ shm.backfill = 0
      /\ shm.mark = [i \in Slot |-> 0] /\ shm.index = [f \in Frame |-> 0]
  BY DEF Init, ZeroShm
<1>4. file.salt = 0 /\ disk = file /\ file.db = [p \in Page |-> 0]
  BY DEF Init
<1>5. 0 \in Val
  BY WalAssumption DEF Val
<1> QED BY <1>1, <1>2, <1>3, <1>4, <1>5, WalAssumption DEF BoundsOK, Unused

\* What a power failure may bring back is a commit, or what is one now.
LEMMA KeptFollows ==
  ASSUME KeptOK, SnapStep, Store' \in [Page -> Val]
  PROVE  KeptOK'
<1>1. Snapshots!Next \/ Snap' = Snap
  BY DEF SnapStep
<1>2. \/ Store' = Store /\ kept' = kept
      \/ kept' = {Store'} \/ kept' = kept \cup {Store'}
  <2>1. CASE Snap' = Snap
    BY <2>1 DEF Snap
  <2>2. CASE Snapshots!Next
    BY <2>2, Zenon
       DEF Snapshots!Next, Snapshots!Begin, Snapshots!End, Snapshots!BeginWrite,
           Snapshots!Write, Snapshots!Commit, Snapshots!Rollback, Snapshots!Sync,
           Snapshots!Crash, Snapshots!PowerFailure
  <2> QED BY <1>1, <2>1, <2>2
<1> QED BY <1>2 DEF KeptOK

\* The parts of the invariant are TypeOK.
LEMMA BoundsAreTypes ==
  ASSUME IInv, VInv, BoundsOK, KeptOK, MaxStops = 0
  PROVE  TypeOK
<1>1. {shm.h0, shm.h1} \subseteq [mx : 0..MaxFrame, salt : Salt] \cup {None}
  BY DEF BoundsOK, GoodHdr
<1>2. shm.backfill \in 0..MaxFrame
  BY WalAssumption DEF BoundsOK, IInv, TypesOK
<1>3. \A l \in Lock : excl[l] # None => shrd[l] = {}
  BY DEF IInv, LocksOK
<1>4. file.db \in [Page -> Val \cup {Torn}]
  <2>1. file.db \in [Page -> Val]
    BY DEF VInv, FilesV
  <2> QED BY <2>1
<1>5. ntx \in 0..MaxTx /\ stops \in 0..MaxStops
  BY WalAssumption DEF VInv
<1> QED BY <1>1, <1>2, <1>3, <1>4, <1>5 DEF TypeOK, BoundsOK, KeptOK

\* The wal-index, the files and the locks keep their types; every commit that
\* a power failure may bring back is a whole one, and so is the last.
THEOREM TypeCorrect ==
  ASSUME ~Overlap, MaxStops = 0
  PROVE  Spec => []TypeOK
<1> DEFINE Inv == IInv /\ VInv /\ BoundsOK
           Whole == Store \in [Page -> Val]
<1>1. Init => Inv /\ KeptOK
  <2> SUFFICES ASSUME Init PROVE Inv /\ KeptOK
    OBVIOUS
  <2>1. IInv /\ VInv /\ BoundsOK
    BY InitKeeps, InitV, InitBounds
  <2>2. Store \in [Page -> Val] /\ kept = {Store}
    BY <2>1, InitV, StoreIs, Zenon DEF Snapshots!Init
  <2> QED BY <2>1, <2>2 DEF KeptOK
<1>2. Inv /\ [Next]_vars => Inv' /\ SnapStep
  BY StepKeeps, StepSnap, StepBounds DEF VInv
<1>3. Inv => Whole
  BY StoreIs
<1>4. KeptOK /\ SnapStep /\ Whole' => KeptOK'
  BY KeptFollows
<1>5. Inv /\ KeptOK => TypeOK
  BY BoundsAreTypes
<1> HIDE DEF Inv, Whole
<1> QED BY <1>1, <1>2, <1>3, <1>4, <1>5, PTL DEF Spec
=============================================================================
