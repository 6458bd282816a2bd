--------------------------------- MODULE Wal ---------------------------------
(***************************************************************************)
(* The write-ahead log of one WCDB database: its connections are handles   *)
(* of one process, which share the wal-index (shm), the database file and  *)
(* the log.  An action is a step between two accesses to what is shared;   *)
(* pc is where a connection is, named for what it does next.               *)
(*                                                                         *)
(* A page's contents are numbers: transaction n writes 2n - 1, and 2n when *)
(* it writes the page again.  Out of the model: pages added to or cut from *)
(* the database, I/O errors, and the pager's cache.                        *)
(***************************************************************************)
EXTENDS Integers, Sequences, FiniteSets, FiniteSetsExt

CONSTANTS
  Conn,           \* handles of the database
  Readers,        \* those that read
  Writers,        \* those of them that write
  Checkpointers,  \* those that run PRAGMA wal_checkpoint
  Page,           \* page numbers
  NReader,        \* WAL_NREADER - 1: aReadMark[1..NReader]
  MaxFrame,       \* bound: frames in the log
  MaxTx,          \* bound: write transactions
  MaxStops,       \* bound: crashes and power failures
  Overlap,        \* a log restart may fall between a checkpoint's two reads
  None

ASSUME WalAssumption ==
  /\ Readers \subseteq Conn /\ Writers \subseteq Readers /\ Checkpointers \subseteq Conn
  /\ IsFiniteSet(Conn) /\ Page \subseteq Nat \ {0}
  /\ NReader \in Nat \ {0} /\ MaxFrame \in Nat /\ MaxTx \in Nat
  /\ MaxStops \in Nat /\ Overlap \in BOOLEAN
  /\ None \notin Conn /\ None \notin [mx : Nat, salt : Nat]

Slot == 1..NReader
Frame == 1..MaxFrame
Salt == 0..(2 * MaxFrame + Cardinality(Conn) + 5)
Torn == -1
Val == 0..(2 * MaxTx)

ASSUME PageAssumption == IsFiniteSet(Page) /\ None \notin [Page -> Val]

Unused == MaxFrame + 1                   \* READMARK_NOT_USED
WriteLock == 0                           \* WAL_WRITE_LOCK
CkptLock == 1                            \* WAL_CKPT_LOCK
RecoverLock == 2                         \* WAL_RECOVER_LOCK
ReadLock(i) == 3 + i                     \* WAL_READ_LOCK(i)
Lock == 0..ReadLock(NReader)
MarkLocks == ReadLock(1)..ReadLock(NReader)
NoHdr == [mx |-> 0, salt |-> 0]
NoFrame == [pg |-> 0, val |-> 0, last |-> FALSE, salt |-> 0, sum |-> <<>>]

VARIABLES
  shm,     \* the wal-index: header copies h0 and h1, backfill, mark, index
  file,    \* what the files hold: db; the log's salt, again (nCkpt > 0), frame
  disk,    \* what of it was synced; gone: its log has been deleted since
  excl,    \* who holds each lock exclusively, or None
  shrd,    \* who holds each lock shared
  s,       \* each connection's Wal object and local variables
  closing, \* the last connection, while it holds the EXCLUSIVE lock, or None
  kept,    \* history: commits that a power failure may bring back
  ntx,     \* write transactions so far
  stops    \* crashes and power failures so far

vars == <<shm, file, disk, excl, shrd, s, closing, kept, ntx, stops>>
files == <<file, disk, kept>>
counts == <<ntx, stops>>

ZeroShm == [h0 |-> None, h1 |-> None, backfill |-> 0,
            mark |-> [i \in Slot |-> 0], index |-> [f \in Frame |-> 0]]

\* again is nCkpt > 0; the rest is reset between calls.
Fresh(again) ==
  [pc |-> "idle", hdr |-> NoHdr, again |-> again,
   readLock |-> -1, min |-> 1,                         \* Wal.readLock, minFrame
   i |-> 0, mxI |-> 0, seen |-> 0,                     \* walTryBeginRead
   ckpt |-> FALSE, safe |-> 0, iter |-> [p \in Page |-> 0],
   todo |-> {}, commit |-> FALSE, first |-> 0, cur |-> 0, reck |-> 0, tx |-> 0]

Init ==
  /\ shm = ZeroShm
  /\ file = [db |-> [p \in Page |-> 0], salt |-> 0, again |-> FALSE,
             frame |-> [f \in Frame |-> NoFrame], gone |-> FALSE]
  /\ disk = file
  /\ excl = [l \in Lock |-> None] /\ shrd = [l \in Lock |-> {}]
  /\ s = [c \in Conn |-> Fresh(FALSE)]
  /\ closing = None /\ kept = {file.db} /\ ntx = 0 /\ stops = 0

NotExclusive(l) == excl[l] = None                       \* mutant
Free(l) == excl[l] = None /\ shrd[l] = {}
LockShared(c, l) == excl[l] = None /\ shrd' = [shrd EXCEPT ![l] = @ \cup {c}]
UnlockShared(c, l) == shrd' = [shrd EXCEPT ![l] = @ \ {c}]
LockExcl(c, ls) ==
  /\ \A l \in ls : Free(l)
  /\ excl' = [l \in Lock |-> IF l \in ls THEN c ELSE excl[l]]
UnlockExcl(ls) == excl' = [l \in Lock |-> IF l \in ls THEN None ELSE excl[l]]

Set(c, new) == s' = [s EXCEPT ![c] = new]
Goto(c, place) == Set(c, [s[c] EXCEPT !.pc = place])

\* The latest frame of page p among frames lo..hi of a page map, or 0.
Latest(pageOf, p, lo, hi) == Max({0} \cup {f \in lo..hi : pageOf[f] = p})

\* A frame of the file is valid if its salt is the header's and its checksum
\* covers the frames up to it as they are.
Contents(fr, n) == [f \in 1..n |-> <<fr[f].pg, fr[f].val, fr[f].last>>]
Valid(fl, f) ==
  /\ fl.frame[f].pg # 0 /\ fl.frame[f].salt = fl.salt
  /\ fl.frame[f].sum = Contents(fl.frame, f)

\* mxFrame as walIndexRecover finds it: the frames up to the last valid commit.
RecoveredMx(fl) ==
  Cardinality({f \in Frame : \E last \in f..MaxFrame :
                 /\ fl.salt # 0 /\ fl.frame[last].last
                 /\ \A g \in 1..last : Valid(fl, g)})

PagesAt(fl, mx) ==
  [p \in Page |-> LET f == Max({0} \cup {g \in 1..mx : fl.frame[g].pg = p})
                  IN IF f = 0 THEN fl.db[p] ELSE fl.frame[f].val]

\* What a transaction that begins now reads.
Store == PagesAt(file, IF shm.h0 = None THEN RecoveredMx(file) ELSE shm.h0.mx)

-----------------------------------------------------------------------------
(* Reading the header, and recovery.                                       *)

HdrGood == shm.h0 # None /\ shm.h0 = shm.h1
Entered(c) == IF s[c].ckpt THEN "ckGo" ELSE "begin"

\* Out of the call: a BUSY checkpoint gives up, a BUSY read is tried again.
Leave(c) ==
  /\ Set(c, Fresh(s[c].again))
  /\ excl' = [l \in Lock |-> IF excl[l] = c THEN None ELSE excl[l]]

\* walIndexReadHdr, first try, under CkptLock in a checkpoint.  A read that
\* straddles a write of the header is one that finds the copies different.
ReadHdr(c, ckpt) ==
  LET lock == IF ckpt THEN {CkptLock} ELSE {}
  IN IF HdrGood
     THEN /\ LockExcl(c, lock)
          /\ Set(c, [s[c] EXCEPT !.hdr = shm.h0, !.ckpt = ckpt,
                     !.pc = IF ckpt THEN "ckGo" ELSE "begin"])
     ELSE /\ LockExcl(c, lock \cup {WriteLock})
          /\ Set(c, [s[c] EXCEPT !.ckpt = ckpt, !.pc = "hdrLocked"])

BeginRead(c) ==
  /\ s[c].pc = "idle" /\ c \in Readers /\ closing = None
  /\ ReadHdr(c, FALSE)
  /\ UNCHANGED <<shm, files, shrd, closing, counts>>

HdrLocked(c) ==
  /\ s[c].pc = "hdrLocked"
  /\ LET others == Lock \ (IF s[c].ckpt THEN {WriteLock, CkptLock} ELSE {WriteLock})
     IN IF HdrGood
        THEN /\ Set(c, [s[c] EXCEPT !.hdr = shm.h0, !.pc = Entered(c)])
             /\ UnlockExcl({WriteLock})
        ELSE IF \A l \in others : Free(l)
             THEN LockExcl(c, others) /\ Goto(c, "recover")
             ELSE Leave(c)
  /\ UNCHANGED <<shm, files, shrd, closing, counts>>

\* The rest of walIndexRecover, with every lock held.
WalIndexRecover(c) ==
  /\ s[c].pc = "recover"
  /\ LET mx == RecoveredMx(file)
         hdr == [mx |-> mx, salt |-> file.salt]
         valid == {f \in Frame : \A g \in 1..f : Valid(file, g)}
     IN /\ shm' = [h0 |-> hdr, h1 |-> hdr, backfill |-> 0,
                   mark |-> [i \in Slot |-> IF i = 1 /\ mx > 0 THEN mx ELSE Unused],
                   index |-> [f \in Frame |->
                     IF file.salt # 0 /\ f \in valid THEN file.frame[f].pg ELSE 0]]
        /\ Set(c, [s[c] EXCEPT !.hdr = hdr, !.again = file.again, !.pc = Entered(c)])
  /\ UnlockExcl(Lock \ (IF s[c].ckpt THEN {CkptLock} ELSE {}))
  /\ UNCHANGED <<files, shrd, closing, counts>>

-----------------------------------------------------------------------------
(* walTryBeginRead after the header is read.                               *)

\* WAL_RETRY: from the header again, or with useWal from the marks.
Retry(c) ==
  IF excl[WriteLock] = c
  THEN Set(c, [s[c] EXCEPT !.i = 0, !.mxI = 0, !.seen = 0, !.min = 1, !.pc = "marks"])
  ELSE Set(c, Fresh(s[c].again))

PartlyFolded(c) == shm.backfill <= s[c].hdr.mx          \* mutant
AllFolded(c) == shm.backfill = s[c].hdr.mx

TryReadLock0(c) ==
  /\ s[c].pc = "begin"
  /\ IF AllFolded(c) /\ excl[ReadLock(0)] = None
     THEN LockShared(c, ReadLock(0)) /\ Goto(c, "check0")
     ELSE Goto(c, "marks") /\ UNCHANGED shrd
  /\ UNCHANGED <<shm, files, excl, closing, counts>>

Check0(c) ==
  /\ s[c].pc = "check0"
  /\ IF shm.h0 = s[c].hdr
     THEN Set(c, [s[c] EXCEPT !.readLock = 0, !.pc = "reading"]) /\ UNCHANGED shrd
     ELSE Retry(c) /\ UnlockShared(c, ReadLock(0))
  /\ UNCHANGED <<shm, files, excl, closing, counts>>

\* The last of the largest marks that do not exceed the header's mxFrame.
PickMark(c) ==
  /\ s[c].pc = "marks"
  /\ LET mx == s[c].hdr.mx
         fit == {i \in Slot : shm.mark[i] <= mx}
         best == Max({0} \cup {shm.mark[i] : i \in fit})
         mxI == Max({0} \cup {i \in fit : shm.mark[i] = best})
     IN Set(c, [s[c] EXCEPT !.mxI = mxI, !.seen = best, !.i = 1,
                !.pc = IF best < mx \/ mxI = 0 THEN "claim" ELSE "share"])
  /\ UNCHANGED <<shm, files, excl, shrd, closing, counts>>

ClaimMark(c) ==
  /\ s[c].pc = "claim"
  /\ IF s[c].i <= NReader /\ Free(ReadLock(s[c].i))
     THEN LockExcl(c, {ReadLock(s[c].i)}) /\ Goto(c, "raise")
     ELSE /\ UNCHANGED excl
          /\ IF s[c].i < NReader THEN Set(c, [s[c] EXCEPT !.i = @ + 1])
             ELSE IF s[c].mxI = 0 THEN Retry(c) ELSE Goto(c, "share")
  /\ UNCHANGED <<shm, files, shrd, closing, counts>>

RaiseMark(c) ==
  /\ s[c].pc = "raise"
  /\ shm' = [shm EXCEPT !.mark[s[c].i] = s[c].hdr.mx]
  /\ Set(c, [s[c] EXCEPT !.mxI = s[c].i, !.seen = s[c].hdr.mx, !.pc = "share"])
  /\ UnlockExcl({ReadLock(s[c].i)})
  /\ UNCHANGED <<files, shrd, closing, counts>>

ShareMark(c) ==
  /\ s[c].pc = "share"
  /\ IF excl[ReadLock(s[c].mxI)] = None
     THEN /\ LockShared(c, ReadLock(s[c].mxI))
          /\ Set(c, [s[c] EXCEPT !.i = 0, !.pc = "minFrame"])
     ELSE Retry(c) /\ UNCHANGED shrd
  /\ UNCHANGED <<shm, files, excl, closing, counts>>

SetMinFrame(c) ==
  /\ s[c].pc = "minFrame"
  /\ Set(c, [s[c] EXCEPT !.min = shm.backfill + 1, !.pc = "check"])
  /\ UNCHANGED <<shm, files, excl, shrd, closing, counts>>

MarkIsMine(c) == shm.mark[s[c].mxI] = s[c].seen         \* mutant
StillCurrent(c) == shm.mark[s[c].mxI] = s[c].seen /\ shm.h0 = s[c].hdr

\* A writer that comes here from walRestartLog goes on with its frames.
CheckMark(c) ==
  /\ s[c].pc = "check"
  /\ IF StillCurrent(c)
     THEN /\ Set(c, [s[c] EXCEPT !.readLock = s[c].mxI, !.mxI = 0, !.seen = 0,
                     !.pc = IF excl[WriteLock] = c THEN "header" ELSE "reading"])
          /\ UNCHANGED shrd
     ELSE Retry(c) /\ UnlockShared(c, ReadLock(s[c].mxI))
  /\ UNCHANGED <<shm, files, excl, closing, counts>>

EndRead(c) ==
  /\ s[c].pc = "reading"
  /\ Set(c, Fresh(s[c].again))
  /\ UnlockShared(c, ReadLock(s[c].readLock))
  /\ UNCHANGED <<shm, files, excl, closing, counts>>

\* sqlite3WalFindFrame.
FindFrame(c, p) ==
  IF s[c].readLock = 0 THEN 0 ELSE Latest(shm.index, p, s[c].min, s[c].hdr.mx)

-----------------------------------------------------------------------------
(* The writer.                                                             *)

\* A connection whose snapshot is not the last commit is refused.
BeginWrite(c) ==
  /\ s[c].pc = "reading" /\ c \in Writers /\ ntx < MaxTx
  /\ shm.h0 = s[c].hdr
  /\ LockExcl(c, {WriteLock})
  /\ ntx' = ntx + 1
  /\ Set(c, [s[c] EXCEPT !.tx = ntx + 1, !.pc = "writing"])
  /\ UNCHANGED <<shm, files, shrd, closing, stops>>

\* aSalt: salt-1 is one more than before and salt-2 is random, so the pair is
\* new; the least number not in use stands for it.
FreshSalts ==
  LET frames == {fl.frame[f] : fl \in {file, disk}, f \in Frame}
      used == {x.salt : x \in frames \cup {file, disk, shm.h0, shm.h1}
                              \cup {s[c].hdr : c \in Conn}}
      unused == (Salt \ {0}) \ used
  IN {x \in unused : \A y \in unused : x <= y}

\* sqlite3WalFrames begins: a spill of one page, or the commit.  walRestartLog
\* starts the log again if it is in the database and nobody reads it.
Calls(c) == {call \in ((SUBSET Page) \ {{}}) \X BOOLEAN :
               call[2] \/ Cardinality(call[1]) = 1}

Called(c, call) ==
  [s[c] EXCEPT !.todo = call[1], !.commit = call[2],
               !.first = IF @ # 0 \/ s[c].hdr = shm.h0 THEN @ ELSE shm.h0.mx + 1]

RestartLog(c) ==
  /\ s[c].pc = "writing" /\ s[c].readLock = 0 /\ shm.backfill > 0
  /\ Overlap \/ \A k \in Conn : s[k].pc # "ckGo"
  /\ LockExcl(c, MarkLocks)
  /\ \E call \in Calls(c), salt \in FreshSalts :
       LET hdr == [mx |-> 0, salt |-> salt]
       IN /\ Cardinality(call[1]) <= MaxFrame
          /\ Set(c, [Called(c, call) EXCEPT !.hdr = hdr, !.again = TRUE, !.pc = "restart0"])
          /\ shm' = [shm EXCEPT !.h1 = hdr]
  /\ UNCHANGED <<files, shrd, closing, counts>>

\* The log goes on, but a writer with read lock 0 must leave it for a mark.
GoOn(c) ==
  /\ s[c].pc = "writing"
  /\ s[c].readLock = 0 =>
       shm.backfill = 0 \/ \E i \in Slot : ~Free(ReadLock(i))
  /\ \E call \in Calls(c) :
       /\ s[c].hdr.mx + Cardinality(call[1]) <= MaxFrame
       /\ IF s[c].readLock = 0
          THEN /\ Set(c, [Called(c, call) EXCEPT !.readLock = -1, !.pc = "marks"])
               /\ UnlockShared(c, ReadLock(0))
          ELSE Set(c, [Called(c, call) EXCEPT !.pc = "header"]) /\ UNCHANGED shrd
  /\ UNCHANGED <<shm, files, excl, closing, counts>>

\* walRestartHdr, from its write of the other copy of the header.
RestartHdr(c) ==
  /\ s[c].pc = "restart0"
  /\ shm' = [shm EXCEPT !.h0 = s[c].hdr]
  /\ Goto(c, "restart1")
  /\ UNCHANGED <<files, excl, shrd, closing, counts>>

RestartedMarks == [i \in Slot |-> IF i = 1 THEN 0 ELSE Unused]
MarksOnly == [shm EXCEPT !.mark = RestartedMarks]       \* mutant
Restarted == [shm EXCEPT !.backfill = 0, !.mark = RestartedMarks]

RestartMarks(c) ==
  /\ s[c].pc = "restart1"
  /\ shm' = Restarted
  /\ Set(c, [s[c] EXCEPT !.readLock = -1, !.pc = "marks"])
  /\ UnlockExcl(MarkLocks) /\ UnlockShared(c, ReadLock(0))
  /\ UNCHANGED <<files, closing, counts>>

\* The header of an empty log; a connection that never restarted one draws
\* new salts.
WriteLogHeader(c) ==
  /\ s[c].pc = "header"
  /\ \/ /\ s[c].hdr.mx = 0
        /\ \E salt \in IF s[c].again THEN {s[c].hdr.salt} ELSE FreshSalts :
             /\ file' = [file EXCEPT !.salt = salt, !.again = s[c].again]
             /\ Set(c, [s[c] EXCEPT !.hdr = [mx |-> 0, salt |-> salt], !.cur = 0,
                        !.pc = "syncHeader"])
     \/ /\ s[c].hdr.mx # 0
        /\ Set(c, [s[c] EXCEPT !.cur = s[c].hdr.mx, !.pc = "put"])
        /\ UNCHANGED file
  /\ UNCHANGED <<shm, disk, excl, shrd, closing, kept, counts>>

SyncNothing == UNCHANGED disk /\ kept' = {Store}        \* mutant
SyncLog == disk' = [file EXCEPT !.db = disk.db] /\ kept' = {Store}

SyncLogHeader(c) ==
  /\ s[c].pc = "syncHeader"
  /\ SyncLog
  /\ Goto(c, "put")
  /\ UNCHANGED <<shm, file, excl, shrd, closing, counts>>

\* One page: over the frame that this transaction gave it, or a new frame.
\* Once a frame is overwritten, new ones have no checksum until the commit.
PutFrame(c) ==
  /\ s[c].pc = "put"
  /\ LET p == Min(s[c].todo)
         again == \E f \in shm.h0.mx + 1 .. s[c].cur : file.frame[f].pg = p
         val == 2 * s[c].tx - (IF again THEN 0 ELSE 1)
         over == /\ s[c].first # 0 /\ (s[c].todo # {p} \/ ~s[c].commit)
                 /\ FindFrame(c, p) >= s[c].first
         f == IF over THEN FindFrame(c, p) ELSE s[c].cur + 1
         last == s[c].commit /\ s[c].todo = {p}
         plain == s[c].reck = 0
         reck == IF over /\ (plain \/ f < s[c].reck) THEN f ELSE s[c].reck
         new == [pg |-> p, val |-> val, last |-> last,
                 salt |-> IF plain THEN s[c].hdr.salt ELSE 0,
                 sum |-> IF plain THEN Append(Contents(file.frame, f - 1), <<p, val, last>>)
                                  ELSE <<>>]
     IN /\ file' = IF over THEN [file EXCEPT !.frame[f].val = val]
                           ELSE [file EXCEPT !.frame[f] = new]
        /\ Set(c, [s[c] EXCEPT !.todo = @ \ {p}, !.reck = reck,
                   !.cur = IF over THEN @ ELSE f,
                   !.pc = IF s[c].todo # {p} THEN "put"
                          ELSE IF s[c].commit /\ reck # 0 THEN "recheck" ELSE "append"])
  /\ UNCHANGED <<shm, disk, excl, shrd, closing, kept, counts>>

\* walRewriteChecksums, one frame.
RewriteChecksum(c) ==
  /\ s[c].pc = "recheck"
  /\ LET f == s[c].reck
     IN /\ file' = [file EXCEPT !.frame[f].salt = s[c].hdr.salt,
                                !.frame[f].sum = Contents(file.frame, f)]
        /\ IF f = s[c].cur THEN Set(c, [s[c] EXCEPT !.reck = 0, !.pc = "append"])
                           ELSE Set(c, [s[c] EXCEPT !.reck = f + 1])
  /\ UNCHANGED <<shm, disk, excl, shrd, closing, kept, counts>>

\* walCleanupHash.
Cleaned(index, mx) == [f \in Frame |-> IF mx > 0 /\ f > mx THEN 0 ELSE index[f]]

\* walIndexAppend for each new frame; the private header; a commit's first copy.
AppendIndex(c) ==
  /\ s[c].pc = "append"
  /\ LET mx == s[c].hdr.mx
         clean == IF s[c].cur = mx THEN shm.index
                  ELSE IF mx = 0 THEN [f \in Frame |-> 0]
                  ELSE IF shm.index[mx + 1] # 0 THEN Cleaned(shm.index, mx)
                  ELSE shm.index
         index == [f \in Frame |-> IF f \in (mx + 1)..s[c].cur
                                   THEN file.frame[f].pg ELSE clean[f]]
         hdr == [s[c].hdr EXCEPT !.mx = s[c].cur]
     IN /\ shm' = [shm EXCEPT !.index = index, !.h1 = IF s[c].commit THEN hdr ELSE @]
        /\ Set(c, [s[c] EXCEPT !.hdr = hdr, !.cur = 0,
                   !.pc = IF s[c].commit THEN "publish" ELSE "writing"])
  /\ UNCHANGED <<files, excl, shrd, closing, counts>>

\* The transaction is over and the connection reads what it wrote.
Ended(c, hdr) ==
  [s[c] EXCEPT !.hdr = hdr, !.tx = 0, !.commit = FALSE, !.first = 0, !.reck = 0, !.pc = "reading"]

\* The header's other copy makes it the last commit; the write lock goes.
Commit(c) ==
  /\ s[c].pc = "publish"
  /\ shm' = [shm EXCEPT !.h0 = s[c].hdr]
  /\ kept' = kept \cup {PagesAt(file, s[c].hdr.mx)}
  /\ Set(c, Ended(c, s[c].hdr))
  /\ UnlockExcl({WriteLock})
  /\ UNCHANGED <<file, disk, shrd, closing, counts>>

\* sqlite3WalUndo and sqlite3WalEndWriteTransaction.
Rollback(c) ==
  /\ s[c].pc = "writing"
  /\ shm' = [shm EXCEPT !.index = IF s[c].hdr.mx = shm.h0.mx THEN @
                                  ELSE Cleaned(@, shm.h0.mx)]
  /\ Set(c, Ended(c, shm.h0))
  /\ UnlockExcl({WriteLock})
  /\ UNCHANGED <<files, shrd, closing, counts>>

-----------------------------------------------------------------------------
(* The checkpointer: sqlite3WalCheckpoint, PASSIVE.                        *)

BeginCheckpoint(c) ==
  /\ s[c].pc = "idle"
  /\ closing = c \/ (closing = None /\ c \in Checkpointers)
  /\ ReadHdr(c, TRUE)
  /\ UNCHANGED <<shm, files, shrd, closing, counts>>

\* The call ends, but for the handle that closes the database.
CkptOver(c, ls) ==
  IF closing = c
  THEN /\ Set(c, [Fresh(s[c].again) EXCEPT !.ckpt = TRUE, !.pc = "ckEnd"])
       /\ UnlockExcl(ls)
  ELSE Set(c, Fresh(s[c].again)) /\ UnlockExcl(ls \cup {CkptLock})

\* walCheckpoint reads nBackfill; walIteratorInit finds each page's last frame.
CkptStart(c) ==
  /\ s[c].pc = "ckGo"
  /\ LET mx == s[c].hdr.mx
     IN IF shm.backfill < mx
        THEN /\ Set(c, [s[c] EXCEPT !.safe = mx, !.i = 1, !.pc = "ckMark",
                        !.iter = [p \in Page |-> Latest(shm.index, p, 1, mx)]])
             /\ UNCHANGED excl
        ELSE CkptOver(c, {})
  /\ UNCHANGED <<shm, files, shrd, closing, counts>>

CkptReadMark(c) ==
  /\ s[c].pc = "ckMark" /\ s[c].i <= NReader
  /\ LET y == shm.mark[s[c].i]
     IN IF s[c].safe > y THEN Set(c, [s[c] EXCEPT !.seen = y, !.pc = "ckTake"])
                         ELSE Set(c, [s[c] EXCEPT !.i = @ + 1])
  /\ UNCHANGED <<shm, files, excl, shrd, closing, counts>>

\* A mark in use bounds what may be copied.
CkptTakeMark(c) ==
  /\ s[c].pc = "ckTake"
  /\ IF Free(ReadLock(s[c].i))
     THEN LockExcl(c, {ReadLock(s[c].i)}) /\ Goto(c, "ckSet")
     ELSE /\ Set(c, [s[c] EXCEPT !.safe = s[c].seen, !.seen = 0, !.i = @ + 1, !.pc = "ckMark"])
          /\ UNCHANGED excl
  /\ UNCHANGED <<shm, files, shrd, closing, counts>>

CkptSetMark(c) ==
  /\ s[c].pc = "ckSet"
  /\ shm' = [shm EXCEPT !.mark[s[c].i] = IF s[c].i = 1 THEN s[c].safe ELSE Unused]
  /\ UnlockExcl({ReadLock(s[c].i)})
  /\ Set(c, [s[c] EXCEPT !.seen = 0, !.i = @ + 1, !.pc = "ckMark"])
  /\ UNCHANGED <<files, shrd, closing, counts>>

CkptSync(c) ==
  /\ s[c].pc = "ckMark" /\ s[c].i > NReader
  /\ IF shm.backfill < s[c].safe /\ Free(ReadLock(0))
     THEN /\ LockExcl(c, {ReadLock(0)})
          /\ SyncLog
          /\ Set(c, [s[c] EXCEPT !.pc = "ckCopy",
                     !.todo = {p \in Page : s[c].iter[p] \in shm.backfill + 1 .. s[c].safe}])
     ELSE CkptOver(c, {}) /\ UNCHANGED <<disk, kept>>
  /\ UNCHANGED <<shm, file, shrd, closing, counts>>

CkptCopy(c) ==
  /\ s[c].pc = "ckCopy" /\ s[c].todo # {}
  /\ LET p == Min(s[c].todo)
     IN /\ file' = [file EXCEPT !.db[p] = file.frame[s[c].iter[p]].val]
        /\ Set(c, [s[c] EXCEPT !.todo = @ \ {p}])
  /\ UNCHANGED <<shm, disk, excl, shrd, closing, kept, counts>>

\* The database is synced only if all of the log is in it.
CkptDone(c) ==
  /\ s[c].pc = "ckCopy" /\ s[c].todo = {}
  /\ disk' = IF s[c].safe = shm.h0.mx THEN [disk EXCEPT !.db = file.db] ELSE disk
  /\ shm' = [shm EXCEPT !.backfill = s[c].safe]
  /\ CkptOver(c, {ReadLock(0)})
  /\ UNCHANGED <<file, shrd, closing, kept, counts>>

-----------------------------------------------------------------------------
(* Closing, and stops.                                                     *)

AllNew == [c \in Conn |-> Fresh(FALSE)]

NoLog(fl) == [fl EXCEPT !.salt = 0, !.again = FALSE, !.frame = [f \in Frame |-> NoFrame]]

\* sqlite3WalClose: a handle goes; the last one checkpoints under the
\* EXCLUSIVE lock and deletes the log and the wal-index.
CloseHandle(c) ==
  /\ s[c].pc = "idle" /\ closing = None
  /\ \/ s[c].again /\ Set(c, Fresh(FALSE)) /\ UNCHANGED closing
     \/ /\ \A k \in Conn : s[k].pc = "idle"
        /\ shm.h0 # None
        /\ closing' = c /\ UNCHANGED s
  /\ UNCHANGED <<shm, files, excl, shrd, counts>>

DeleteLog(c) ==
  /\ s[c].pc = "ckEnd" /\ closing = c
  /\ file' = NoLog(file) /\ disk' = [disk EXCEPT !.gone = TRUE]
  /\ shm' = ZeroShm
  /\ s' = AllNew /\ closing' = None
  /\ UnlockExcl({CkptLock})
  /\ UNCHANGED <<shrd, kept, counts>>

Stop ==
  /\ stops < MaxStops /\ stops' = stops + 1
  /\ shm' = ZeroShm /\ s' = AllNew /\ closing' = None
  /\ excl' = [l \in Lock |-> None] /\ shrd' = [l \in Lock |-> {}]
  /\ UNCHANGED ntx

\* The process dies: the files stay as they are.
Crash ==
  /\ Stop
  /\ kept' = kept \cup {PagesAt(file, RecoveredMx(file))}
  /\ UNCHANGED <<file, disk>>

\* Of what was not synced, each part is as written, as it was, or torn.
Survives == {"new", "old", "torn"}
Pick(how, new, old, torn) ==
  CASE how = "new" -> new [] how = "old" -> old [] OTHER -> torn

PowerFailure ==
  /\ Stop
  /\ \E back \in {FALSE, disk.gone} :           \* the deleted log is there again
       LET old == IF disk.gone /\ ~back THEN NoLog(disk) ELSE disk
           new == IF back THEN [disk EXCEPT !.db = file.db] ELSE file
           frames == {f \in Frame : new.frame[f] # old.frame[f]}
           pages == {p \in Page : new.db[p] # old.db[p]}
           head(fl) == <<fl.salt, fl.again>>
       IN \E fs \in [frames -> Survives], ps \in [pages -> Survives], h \in Survives :
            LET hd == Pick(h, head(new), head(old), <<0, FALSE>>)
            IN /\ h = "new" \/ head(new) # head(old)
               /\ file' = [new EXCEPT
                    !.salt = hd[1], !.again = hd[2], !.gone = FALSE,
                    !.frame = [f \in Frame |-> IF f \in frames
                       THEN Pick(fs[f], @[f], old.frame[f], NoFrame) ELSE @[f]],
                    !.db = [p \in Page |-> IF p \in pages
                       THEN Pick(ps[p], @[p], old.db[p], Torn) ELSE @[p]]]
  /\ disk' = file'
  /\ kept' = {PagesAt(file', RecoveredMx(file'))}

ReadStep(c) ==
  \/ BeginRead(c) \/ HdrLocked(c) \/ WalIndexRecover(c)
  \/ TryReadLock0(c) \/ Check0(c)
  \/ PickMark(c) \/ ClaimMark(c) \/ RaiseMark(c) \/ ShareMark(c)
  \/ SetMinFrame(c) \/ CheckMark(c) \/ EndRead(c)

WriteStep(c) ==
  \/ BeginWrite(c) \/ RestartLog(c) \/ GoOn(c) \/ RestartHdr(c) \/ RestartMarks(c)
  \/ WriteLogHeader(c) \/ SyncLogHeader(c) \/ PutFrame(c) \/ RewriteChecksum(c)
  \/ AppendIndex(c) \/ Commit(c) \/ Rollback(c)

CkptStep(c) ==
  \/ BeginCheckpoint(c) \/ CkptStart(c)
  \/ CkptReadMark(c) \/ CkptTakeMark(c) \/ CkptSetMark(c)
  \/ CkptSync(c) \/ CkptCopy(c) \/ CkptDone(c)

Next ==
  \/ \E c \in Conn : ReadStep(c) \/ WriteStep(c) \/ CkptStep(c)
                     \/ CloseHandle(c) \/ DeleteLog(c)
  \/ Crash \/ PowerFailure

Spec == Init /\ [][Next]_vars

-----------------------------------------------------------------------------
(* Properties.                                                             *)

\* The parts of the wal-index, the files and the locks keep their types, a
\* lock with an exclusive holder has no shared one, and no torn page is read.
TypeOK ==
  /\ {shm.h0, shm.h1} \subseteq [mx : 0..MaxFrame, salt : Salt] \cup {None}
  /\ shm.backfill \in 0..MaxFrame /\ shm.mark \in [Slot -> 0..Unused]
  /\ shm.index \in [Frame -> Page \cup {0}]
  /\ \A fl \in {file, disk} : fl.db \in [Page -> Val \cup {Torn}] /\ fl.salt \in Salt
  /\ \A l \in Lock : excl[l] # None => shrd[l] = {}
  /\ kept \subseteq [Page -> Val] /\ Store \in kept
  /\ ntx \in 0..MaxTx /\ stops \in 0..MaxStops

\* What connection c reads of page p: the latest frame that its part of the
\* index has; of a frame not yet in it, the writer has the page in its cache.
Read(c, p) ==
  LET seen == {f \in Frame :
                 \/ /\ s[c].readLock > 0 /\ f >= s[c].min /\ f <= s[c].hdr.mx
                    /\ shm.index[f] = p
                 \/ f > s[c].hdr.mx /\ f <= s[c].cur /\ file.frame[f].pg = p}
      f == Max({0} \cup seen)
  IN IF f = 0 THEN file.db[p] ELSE file.frame[f].val

Snapshots == INSTANCE SnapshotStore WITH
  store <- Store,
  view <- [c \in Conn |-> IF s[c].readLock # -1 \/ s[c].tx # 0
                          THEN [p \in Page |-> Read(c, p)] ELSE None],
  writer <- IF \E c \in Conn : s[c].tx # 0 THEN CHOOSE c \in Conn : s[c].tx # 0 ELSE None,
  sealed <- \E c \in Conn : s[c].pc \in {"append", "publish"} /\ s[c].commit

\* The log keeps the promise of SnapshotStore: however readers, the writer and a
\* checkpoint interleave (without Overlap), through a restart of the log, a crash
\* or a power failure, a transaction reads exactly one commit, and the next
\* one begins from the last commit that must have survived.
KeepsSnapshots == Snapshots!Spec

\* "The nBackfill number is never greater than WalIndexHdr.mxFrame" (wal.c:329),
\* but for the moment in which a restart has set one and not yet the other.
BackfillWithinLog ==
  shm.h0 # None /\ (\A c \in Conn : s[c].pc # "restart1")
    => shm.backfill <= shm.h0.mx

\* The assertion of walRestartLog (wal.c:2811): a writer that ignores the log
\* still finds all of it in the database when it comes to its first frame.
FoldedWhenIgnored ==
  \A c \in Conn : s[c].readLock = 0 /\ s[c].tx # 0 /\ s[c].pc # "restart1"
    => s[c].hdr.mx = 0 \/ shm.backfill = s[c].hdr.mx

=============================================================================
