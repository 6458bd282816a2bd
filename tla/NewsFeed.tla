------------------------------ MODULE NewsFeed ------------------------------
(***************************************************************************)
(* The news pages of the app: every NewsViewController of the title bar,   *)
(* the one AFNetworkReachabilityManager they all register with, the one    *)
(* AFHTTPSessionManager that answers their GETs, their MJRefresh headers,  *)
(* the background blocks that rewrite the news table, and the WCDB table   *)
(* itself, which all pages share.                                          *)
(*                                                                         *)
(* Threads.  The main queue runs handlers one at a time; the success block *)
(* of a GET is split into its single appends, because the background save  *)
(* blocks read the same NSMutableArray while it runs.  A save block is a   *)
(* "job": count check, delete, then the WCDB insert.                       *)
(*                                                                         *)
(* Data.  dataArray only ever grows during a launch, so it is its length;  *)
(* the rows a job wrote are one batch: the page, how many objects, whether *)
(* a transaction wrote them and whether an earlier launch did.             *)
(***************************************************************************)
EXTENDS Naturals, Sequences, FiniteSets

CONSTANTS
  Pages,         \* the NewsViewControllers of the title bar
  Jobs,          \* slots for save blocks of the global queue
  NoPage, NoJob,
  MaxItems,      \* bound: articles one answer carries for a category
  MaxCauses,     \* bound: openings, network changes and pulls per launch
  MaxLaunches,   \* bound: launches of the app
  ProbeCanFail,  \* SCNetworkReachabilityGetFlags may return false
  StoreCanFail   \* a WCDB statement may return NO

ASSUME NewsAssumption ==
  /\ NoPage \notin Pages
  /\ NoJob \notin Jobs
  /\ IsFiniteSet(Jobs)
  /\ MaxItems \in Nat
  /\ MaxCauses \in Nat
  /\ MaxLaunches \in Nat
  /\ ProbeCanFail \in BOOLEAN
  /\ StoreCanFail \in BOOLEAN

VARIABLES
  shown,      \* pages whose viewDidLoad has run
  owner,      \* page captured by the manager's networkReachabilityStatusBlock
  probes,     \* startMonitoring's background blocks that have not posted yet
  notices,    \* status blocks queued on the main queue
  header,     \* MJRefreshState of each page's mj_header
  calls,      \* executeRefreshingCallback blocks on their way
  ends,       \* endRefreshing blocks on the main queue
  gets,       \* GETs in flight
  dataArray,  \* length of each page's dataArray
  busy, left, \* page whose success block is running, articles left to append
  pc, of,     \* state and page of each save block
  snap,       \* objects an enumerating save block set out to insert
  writer,     \* job inside BEGIN IMMEDIATE
  table,      \* contents of newsTableName, as batches
  clean,      \* history: the last delete of this launch succeeded
  dropped,    \* history: an insert of this launch failed after the last good one
  causes,     \* openings, network changes and pulls of this launch, for the bound
  unread,     \* history: pages registered when a read of the flags failed
  loads,      \* history: GETs each page started in this launch
  launches

mainVars  == <<shown, owner, header, calls, ends, gets, busy, left, loads>>
netVars   == <<probes, notices, causes, unread>>
jobVars   == <<pc, of, snap>>
storeVars == <<writer, table, clean, dropped>>
vars == <<mainVars, netVars, dataArray, jobVars, storeVars, launches>>

Batch == [page : Pages, size : Nat \ {0}, atomic : BOOLEAN, old : BOOLEAN]

Writing == {"deleted", "rows", "begin", "inserting"}

PagesTypeOK ==
  /\ shown \subseteq Pages
  /\ owner \in Pages \cup {NoPage} /\ unread \subseteq Pages
  /\ probes \in Nat /\ notices \in Nat /\ causes \in Nat /\ left \in Nat
  /\ header \in [Pages -> {"Idle", "Pulling", "WillRefresh", "Refreshing"}]
  /\ calls \in [Pages -> Nat]
  /\ ends \in [Pages -> Nat]
  /\ gets \in [Pages -> Nat]
  /\ dataArray \in [Pages -> Nat]
  /\ loads \in [Pages -> Nat]
  /\ busy \in Pages \cup {NoPage}

SavesTypeOK ==
  /\ pc \in [Jobs -> {"free", "queued"} \cup Writing]
  /\ of \in [Jobs -> Pages \cup {NoPage}]
  /\ \A j \in Jobs : pc[j] # "free" => of[j] \in Pages
  /\ snap \in [Jobs -> Nat]
  /\ writer \in Jobs \cup {NoJob}
  /\ table \in Seq(Batch)
  /\ clean \in BOOLEAN /\ dropped \in BOOLEAN
  /\ launches \in Nat

TypeOK == PagesTypeOK /\ SavesTypeOK

Zero == [p \in Pages |-> 0]

Init ==
  /\ shown = {} /\ owner = NoPage
  /\ probes = 0 /\ notices = 0 /\ causes = 0 /\ unread = {}
  /\ header = [p \in Pages |-> "Idle"]
  /\ calls = Zero /\ ends = Zero /\ gets = Zero
  /\ dataArray = Zero /\ loads = Zero
  /\ busy = NoPage /\ left = 0
  /\ pc = [j \in Jobs |-> "free"]
  /\ of = [j \in Jobs |-> NoPage]
  /\ snap = [j \in Jobs |-> 0]
  /\ writer = NoJob
  /\ clean = FALSE /\ dropped = FALSE
  /\ table = <<>> /\ launches = 1

Aged(batch) == [batch EXCEPT !.old = TRUE]

\* The process dies, killed or by an uncaught exception, and is started again:
\* everything is as at first but the table, from which the database has rolled
\* back an open transaction.
Relaunch ==
  /\ launches < MaxLaunches
  /\ shown' = {} /\ owner' = NoPage
  /\ probes' = 0 /\ notices' = 0 /\ causes' = 0 /\ unread' = {}
  /\ header' = [p \in Pages |-> "Idle"]
  /\ calls' = Zero /\ ends' = Zero /\ gets' = Zero
  /\ dataArray' = Zero /\ loads' = Zero
  /\ busy' = NoPage /\ left' = 0
  /\ pc' = [j \in Jobs |-> "free"]
  /\ of' = [j \in Jobs |-> NoPage]
  /\ snap' = [j \in Jobs |-> 0]
  /\ writer' = NoJob
  /\ clean' = FALSE /\ dropped' = FALSE
  /\ table' = [i \in 1..Len(table) |-> Aged(table[i])]
  /\ launches' = launches + 1

MainIdle == busy = NoPage

-----------------------------------------------------------------------------
(* The main queue: page set-up, reachability, headers.                     *)

\* startMonitoring schedules a background block that reads the flags.
\* (Mutant: monitoring that is already running is not started again.)
StartMonitoringOnce == probes' = IF owner = NoPage THEN probes + 1 ELSE probes
StartMonitoring == probes' = probes + 1

\* viewDidLoad: registers the page's block with the shared reachability
\* manager, in place of any other page's, and restarts the monitoring.
OpenPage(p) ==
  /\ MainIdle /\ p \notin shown /\ causes < MaxCauses
  /\ shown' = shown \cup {p}
  /\ owner' = p
  /\ StartMonitoring
  /\ causes' = causes + 1
  /\ UNCHANGED <<notices, unread, header, calls, ends, gets, busy, left, loads,
                 dataArray, jobVars, storeVars, launches>>

\* startMonitoring's background block: reads the flags, posts to the main queue.
ProbePosts ==
  /\ probes > 0
  /\ probes' = probes - 1 /\ notices' = notices + 1
  /\ UNCHANGED <<causes, unread, mainVars, dataArray, jobVars, storeVars, launches>>

\* The same block when the flags cannot be read: it posts nothing.
ProbeFails ==
  /\ ProbeCanFail /\ probes > 0
  /\ probes' = probes - 1
  /\ unread' = unread \cup {owner}
  /\ UNCHANGED <<notices, causes, mainVars, dataArray, jobVars, storeVars, launches>>

\* The run-loop callback of a monitored network change.
\* (Mutant: the manager reports changes before anybody has asked it to.)
ChangesUnasked ==
  /\ causes < MaxCauses
  /\ notices' = notices + 1 /\ causes' = causes + 1
  /\ UNCHANGED <<probes, unread, mainVars, dataArray, jobVars, storeVars, launches>>

NetworkChanges ==
  /\ owner # NoPage /\ causes < MaxCauses
  /\ notices' = notices + 1 /\ causes' = causes + 1
  /\ UNCHANGED <<probes, unread, mainVars, dataArray, jobVars, storeVars, launches>>

\* (Mutant: a page with a GET in flight returns early.)
LoadDataOnce(p) ==
  IF gets[p] > 0
  THEN UNCHANGED <<gets, loads, ends>>
  ELSE /\ gets' = [gets EXCEPT ![p] = @ + 1]
       /\ loads' = [loads EXCEPT ![p] = @ + 1]
       /\ ends' = [ends EXCEPT ![p] = @ + 1]

\* A GET with no parameters, then endRefreshing, which only queues a block.
LoadData(p) ==
  /\ gets' = [gets EXCEPT ![p] = @ + 1]
  /\ loads' = [loads EXCEPT ![p] = @ + 1]
  /\ ends' = [ends EXCEPT ![p] = @ + 1]

\* A status block reaches the page registered NOW; whatever the status, the
\* page loads (`state == wifi || fourG' is always true).
StatusNotice ==
  /\ MainIdle /\ notices > 0
  /\ notices' = notices - 1
  /\ LoadData(owner)
  /\ UNCHANGED <<shown, owner, header, calls, busy, left, probes, causes, unread,
                 dataArray, jobVars, storeVars, launches>>

\* The user drags a page's list past the header, and back, or lets go.
Pull(p) ==
  /\ MainIdle /\ p \in shown /\ header[p] = "Idle"
  /\ header' = [header EXCEPT ![p] = "Pulling"]
  /\ UNCHANGED <<shown, owner, calls, ends, gets, busy, left, loads, netVars,
                 dataArray, jobVars, storeVars, launches>>

PullBack(p) ==
  /\ MainIdle /\ header[p] = "Pulling"
  /\ header' = [header EXCEPT ![p] = "Idle"]
  /\ UNCHANGED <<shown, owner, calls, ends, gets, busy, left, loads, netVars,
                 dataArray, jobVars, storeVars, launches>>

\* setState: refreshing, which has the callback called after an animation.
Refreshes(p) ==
  /\ header' = [header EXCEPT ![p] = "Refreshing"]
  /\ calls' = [calls EXCEPT ![p] = @ + 1]

\* beginRefreshing.  A page that has just left the window only notes it.
LetGo(p) ==
  /\ MainIdle /\ header[p] = "Pulling" /\ causes < MaxCauses
  /\ \/ Refreshes(p)
     \/ header' = [header EXCEPT ![p] = "WillRefresh"] /\ UNCHANGED calls
  /\ causes' = causes + 1
  /\ UNCHANGED <<shown, owner, ends, gets, busy, left, loads, probes, notices, unread,
                 dataArray, jobVars, storeVars, launches>>

\* drawRect: the page is back in the window, its header still to refresh.
DrawHeader(p) ==
  /\ MainIdle /\ header[p] = "WillRefresh"
  /\ Refreshes(p)
  /\ UNCHANGED <<shown, owner, ends, gets, busy, left, loads, netVars,
                 dataArray, jobVars, storeVars, launches>>

\* refreshingBlock, once the header's animation is over.
RefreshingBlock(p) ==
  /\ MainIdle /\ calls[p] > 0
  /\ calls' = [calls EXCEPT ![p] = @ - 1]
  /\ LoadData(p)
  /\ UNCHANGED <<shown, owner, header, busy, left, netVars,
                 dataArray, jobVars, storeVars, launches>>

\* The queued half of endRefreshing, whatever the header is in: a pull that is
\* still to refresh is forgotten.
EndRefreshing(p) ==
  /\ MainIdle /\ ends[p] > 0
  /\ ends' = [ends EXCEPT ![p] = @ - 1]
  /\ header' = [header EXCEPT ![p] = "Idle"]
  /\ UNCHANGED <<shown, owner, calls, gets, busy, left, loads, netVars,
                 dataArray, jobVars, storeVars, launches>>

-----------------------------------------------------------------------------
(* The success block of a GET, on the main queue.                          *)

\* An answer: n articles of the page's category.  n = 0 when the category is
\* missing and when the GET failed, which HttpTool reports as a nil answer.
Answer(p, n) ==
  /\ MainIdle /\ gets[p] > 0
  /\ gets' = [gets EXCEPT ![p] = @ - 1]
  /\ busy' = p /\ left' = n
  /\ UNCHANGED <<shown, owner, header, calls, ends, loads, netVars,
                 dataArray, jobVars, storeVars, launches>>

AppendArticle ==
  /\ busy # NoPage /\ left > 0
  /\ dataArray' = [dataArray EXCEPT ![busy] = @ + 1]
  /\ left' = left - 1
  /\ UNCHANGED <<shown, owner, header, calls, ends, gets, busy, loads, netVars,
                 jobVars, storeVars, launches>>

\* reloadData, then dispatch_async of the save block to the global queue.
DispatchSave(j) ==
  /\ busy # NoPage /\ left = 0 /\ pc[j] = "free"
  /\ pc' = [pc EXCEPT ![j] = "queued"]
  /\ of' = [of EXCEPT ![j] = busy]
  /\ busy' = NoPage
  /\ UNCHANGED <<shown, owner, header, calls, ends, gets, left, loads, netVars,
                 dataArray, snap, storeVars, launches>>
-----------------------------------------------------------------------------
(* The save block, on a thread of the global queue.                        *)

JobStep(j, from, to) == pc[j] = from /\ pc' = [pc EXCEPT ![j] = to]

\* if (dataArray.count).  (Mutant: the condition is dropped.)
SavesAnything(j) == TRUE
HasArticles(j) == dataArray[of[j]] > 0

SaveSkips(j) ==
  /\ JobStep(j, "queued", "free")
  /\ ~HasArticles(j)
  /\ UNCHANGED <<mainVars, netVars, dataArray, of, snap, storeVars, launches>>

\* A write waits until no transaction holds the write lock.
\* (Mutant: it does not.)
NoWaiting == TRUE
WriteLockFree == writer = NoJob

\* The delete's statement has no condition.
\* (Mutant: it keeps the rows of other pages.)
OtherPagesRows(j) == SelectSeq(table, LAMBDA b : b.page # of[j])
RowsAfterDelete(j) == <<>>

\* deleteAllObjectsFromTable: one autocommitted statement, which waits for a
\* running write transaction and takes the rows of every page.
SaveDeletes(j) ==
  /\ JobStep(j, "queued", "deleted")
  /\ HasArticles(j) /\ WriteLockFree
  /\ table' = RowsAfterDelete(j) /\ clean' = TRUE
  /\ UNCHANGED <<mainVars, netVars, dataArray, of, snap, writer, dropped, launches>>

\* The delete returns NO; nobody looks.
SaveDeleteFails(j) ==
  /\ StoreCanFail
  /\ JobStep(j, "queued", "deleted")
  /\ HasArticles(j)
  /\ clean' = FALSE
  /\ UNCHANGED <<mainVars, netVars, dataArray, of, snap, writer, table, dropped,
                 launches>>

\* (Mutant: a block that sees a newer one of its page leaves the insert to it.)
CountUnlessNewer(j) ==
  /\ JobStep(j, "deleted",
             IF \E k \in Jobs : pc[k] = "queued" /\ of[k] = of[j] THEN "free"
             ELSE IF dataArray[of[j]] = 1 THEN "rows" ELSE "begin")
  /\ UNCHANGED <<mainVars, netVars, dataArray, of, snap, storeVars, launches>>

\* executeWithObjects: one object is inserted without a transaction.
CountObjects(j) ==
  /\ JobStep(j, "deleted", IF dataArray[of[j]] = 1 THEN "rows" ELSE "begin")
  /\ UNCHANGED <<mainVars, netVars, dataArray, of, snap, storeVars, launches>>

\* BEGIN IMMEDIATE waits for the write lock; then the enumeration starts.
BeginInsert(j) ==
  /\ JobStep(j, "begin", "inserting")
  /\ WriteLockFree
  /\ writer' = j
  /\ snap' = [snap EXCEPT ![j] = dataArray[of[j]]]
  /\ UNCHANGED <<mainVars, netVars, dataArray, of, table, clean, dropped, launches>>

RowsOf(j, n, atomic) == [page |-> of[j], size |-> n, atomic |-> atomic, old |-> FALSE]

\* COMMIT.  If the array grew meanwhile, the enumeration may have missed it.
CommitInsert(j) ==
  /\ JobStep(j, "inserting", "free")
  /\ writer' = NoJob
  /\ table' = Append(table, RowsOf(j, snap[j], TRUE))
  /\ dropped' = FALSE
  /\ UNCHANGED <<mainVars, netVars, dataArray, of, snap, clean, launches>>

\* The array grew and the enumeration noticed: an uncaught exception.
EnumerationFault(j) ==
  /\ pc[j] = "inserting" /\ dataArray[of[j]] # snap[j]
  /\ Relaunch

\* Without a transaction each row commits alone.  The array was counted at one
\* and may have grown: any number of its rows can be left in the table.
WriteRows(j, n) ==
  /\ JobStep(j, "rows", "free")
  /\ WriteLockFree
  /\ n <= dataArray[of[j]]
  /\ table' = Append(table, RowsOf(j, n, FALSE))
  /\ dropped' = FALSE
  /\ UNCHANGED <<mainVars, netVars, dataArray, of, snap, writer, clean, launches>>

\* The lock after a rollback.  (Mutant: the rollback is left out.)
LockKept(j) == writer
LockReleased(j) == IF writer = j THEN NoJob ELSE writer

\* BEGIN, a step or COMMIT fails: rolled back, NO returned; nobody looks.
InsertFails(j) ==
  /\ StoreCanFail
  /\ pc[j] \in {"rows", "begin", "inserting"}
  /\ pc' = [pc EXCEPT ![j] = "free"]
  /\ writer' = LockReleased(j)
  /\ dropped' = TRUE
  /\ UNCHANGED <<mainVars, netVars, dataArray, of, snap, table, clean, launches>>

-----------------------------------------------------------------------------
SaveGoesOn(j) ==
  \/ SaveSkips(j) \/ SaveDeletes(j)
  \/ CountObjects(j) \/ BeginInsert(j) \/ CommitInsert(j)
  \/ \E n \in 1..(MaxItems * MaxCauses) : WriteRows(j, n)

SaveStep(j) == SaveGoesOn(j) \/ SaveDeleteFails(j) \/ InsertFails(j)

PageStep(p) ==
  \/ RefreshingBlock(p) \/ EndRefreshing(p)
  \/ \E n \in 0..MaxItems : Answer(p, n)

UserStep(p) == OpenPage(p) \/ Pull(p) \/ PullBack(p) \/ LetGo(p) \/ DrawHeader(p)

Next ==
  \/ \E p \in Pages : UserStep(p) \/ PageStep(p)
  \/ ProbePosts \/ ProbeFails \/ NetworkChanges \/ StatusNotice
  \/ AppendArticle
  \/ \E j \in Jobs : DispatchSave(j) \/ SaveStep(j) \/ EnumerationFault(j)
  \/ Relaunch

\* The main queue, the global queues and the request timeouts make progress;
\* the user, the network, a failing statement and the process's death are not
\* fair: a save block that waits for the write lock is not saved by an error.
Fairness ==
  /\ WF_vars(ProbePosts \/ ProbeFails)
  /\ WF_vars(StatusNotice)
  /\ WF_vars(AppendArticle)
  /\ WF_vars(\E j \in Jobs : DispatchSave(j))
  /\ \A p \in Pages : WF_vars(RefreshingBlock(p))
  /\ \A p \in Pages : WF_vars(EndRefreshing(p))
  /\ \A p \in Pages : WF_vars(\E n \in 0..MaxItems : Answer(p, n))
  /\ \A j \in Jobs : WF_vars(SaveGoesOn(j))

Spec == Init /\ [][Next]_vars
FairSpec == Spec /\ Fairness
-----------------------------------------------------------------------------
(* Properties.                                                             *)

\* A save block of page p has not reached its delete, or p's success block is
\* still running and will dispatch one.
SavePending(p) ==
  \/ busy = p
  \/ \E j \in Jobs : pc[j] = "queued" /\ of[j] = p

Quiet == busy = NoPage /\ \A j \in Jobs : pc[j] = "free"

\* When no success block and no save block is running and the last delete went
\* through, every batch that a transaction put into the shared table is this
\* launch's and holds the whole dataArray of its page as it is now, however
\* the pages' save blocks interleaved (loadData: each append is followed by a
\* new block that deletes before it inserts).
SettledCacheIsCurrent ==
  Quiet /\ clean =>
    \A i \in 1..Len(table) :
      /\ ~table[i].old
      /\ table[i].atomic => table[i].size = dataArray[table[i].page]

\* While the deletes go through, refreshing does not make the cache grow: it
\* holds at most one batch for each save block that could run at once, those
\* that have still to insert included.
CacheBounded ==
  clean => Len(table) + Cardinality({j \in Jobs : pc[j] \in Writing})
             <= Cardinality(Jobs)

\* Once a delete of this launch has gone through, the table is empty only
\* while a save block stands between its delete and its insert, or after an
\* insert has failed.
EmptyOnlyBetweenDeleteAndInsert ==
  clean /\ table = <<>> => dropped \/ \E j \in Jobs : pc[j] \in Writing

\* A refreshing header always has its callback or an endRefreshing on the way:
\* no interleaving of pulls and status-driven loads leaves it spinning.
NoStuckHeader ==
  \A p \in Pages : header[p] = "Refreshing" => calls[p] > 0 \/ ends[p] > 0

\* The page registered with the shared reachability manager, the newest one, is
\* never left without news for nothing: until its first GET, a read of the flags
\* or a status block is on its way, which will find it registered, unless a read
\* failed since it registered (getgetReachabilityStatus restarts the monitoring
\* for each page; pages opened before it have no such promise).
NewestPageLoads ==
  \A p \in Pages :
    owner = p /\ loads[p] = 0 => probes + notices > 0 \/ p \in unread

\* The pages get their status notifications as StatusNotices promises and as
\* Reachability shows of the manager: they assume no more of it.
Notices == INSTANCE StatusNotices WITH
  monitoring <- owner # NoPage, starts <- probes, notices <- notices
UsesNoticesPromise == Notices!Spec

\* A page that registers with the reachability manager starts a load, unless a
\* page opened later takes its registration over first.
FirstLoad ==
  \A p \in Pages : owner = p ~> (loads[p] > 0 \/ owner # p)

\* Every save block that is dispatched ends, even when several of them wait
\* for the database's write lock.
EverySaveEnds ==
  \A j \in Jobs : pc[j] = "queued" ~> pc[j] = "free"

\* A header that refreshes goes back to idle, and every GET in flight leads to a
\* save block of its page.
RefreshEnds ==
  \A p \in Pages :
    /\ header[p] = "Refreshing" ~> header[p] = "Idle"
    /\ gets[p] > 0 ~> \E j \in Jobs : pc[j] = "queued" /\ of[j] = p
=============================================================================
