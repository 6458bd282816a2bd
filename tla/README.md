# MixedProject: a TLA+ verification project

The repository is an iOS app, MixedDemo: a news reader with a cache, a video page,
a friend circle, and the libraries under `src/Pods`. Its own code is under
`src/MixedDemo`; `src/MixedDemo/MixedDemo` is an older copy of the same files.
The test targets are empty Xcode templates. This project models the parts whose
correctness depends on the order of events: callbacks, background blocks,
notifications, fingers and timers.

## Inventory

| Component | State | Operations | Hard part | Module |
|---|---|---|---|---|
| News pages (`NewsViewController`, `HttpTool`, MJRefresh's header, WCDB's insert and delete) | `dataArray`, header state, GETs and blocks in flight, the table | open, pull, answer, save, process death | pages share one status block and one table; saves run concurrently with answers | `NewsFeed` |
| Reachability (`AFNetworkReachabilityManager`) | status, run-loop source, background reads, queued notifications | start, stop, callback, read, post, deliver | two threads post statuses | `Reachability`, `StatusNotices` |
| Page controller (`WMPageController`, the selection of `WMMenuView`) | children on display, cache, background copy, scroll view, menu, cache policy, timers | life cycle, select, reload, drag, animate, warnings, suspend | late and reversed frames, timers against reload, stale copies | `PageController` |
| Video page (`VideoDetailViewController`, `ChildTableViewController`) | two `canScroll`s, two offsets, observers | scroll, GoTop, LeaveTop, appear, disappear | one finger moves two views; notifications are missed | `NestedScroll` |
| Friend circle (`FriendCircleViewController`, `CircleModelViewModel`, `SectionHeadView`) | likes, comments, folding, cached heights, comment menu | like, comment, fold, reload | cached heights and row numbers against a changing model, a cover view that must follow the keyboard | `CircleFeed` |
| WCDB handle pool (`handle_pool.cpp`, `rwlock.cpp`, `concurrent_list.hpp`, the thread's handle of `core_base.cpp` and `database_transaction.cpp`) | free handles, counters, reader and writer waits, the thread's handle | flow out, flow back, fill, begin, commit, close, blockade, purge | blocking, counters on failure paths | `HandlePool`, `ReadersWriter` |
| Write-ahead log (`wal.c` of WCDB's SQLCipher) | wal-index, log, database file, locks, each connection's `Wal` | read, write, roll back, checkpoint, restart the log, recover, close | reads of shared counters without a lock, checked afterwards; what a power failure leaves | `Wal`, `SnapshotStore` |
| Waiting for wal-index locks (`unixShmLock`, `os_wcdb.c`, `queue.c`) | masks of locks, a queue of waiters, sleeping threads | lock, unlock, signal, time out, open, close | lost wakes, stale entries, a queue woken in order | `ShmLock` |
| WCDB registry of pools (`s_pools`) | a pool and a count for each path | get by path, get by tag, release | a count that must match the objects | no |
| WCDB checkpoint queue, transactions, statements | timed queue, a `Transaction`'s mutex | queue a path, expire; begin, commit | | no |
| Title bar, tab bar, My page, models, cells | built once | | static | no |
| Full-screen pop gesture | UIKit's navigation stack | guards of a recogniser | the state is UIKit's | no |
| Other vendored code (AFNetworking's sessions, SDWebImage, Masonry, ZFPlayer, SQLCipher's pager and SQL) | | | third party | only as used |

How they interact:

- A news page registers a block with the shared reachability manager, which is
  the one slot the manager has; every status notification makes the page that is
  registered then load. A load is a GET through the shared session manager. Its
  answer appends to `dataArray`, reloads the table view and dispatches a save
  block to the global queue, where the shared WCDB table is emptied and refilled.
- WCDB gives each thread that works on a database a handle of its own from the pool. The handles
  of one path share one wal-index, log and database file. One more thread runs
  `PRAGMA wal_checkpoint` on a handle of its own, two seconds after a commit that left more than
  1000 pages in the log. A handle that cannot get a lock sleeps in the queue
  of the shared-memory node until an unlock wakes it.
- The title bar's pages and the video page's lists are children of scroll views;
  `WMPageController` makes, shows, caches and drops the video page's lists.
- The video page and its lists speak by the notifications `kHomeGoTopNotification`
  and `kHomeLeaveTopNotification`.

Everything runs on the main thread except the save blocks (global queue), WCDB's checkpoint
thread, the reachability manager's background block, and AFNetworking's session queue, whose
completions come back to the main queue. So a handler of the main thread is one
step, and a background block is as many steps as it has accesses to shared state.

What makes each part correct:

- News pages: when no block runs and the last delete went through, every whole batch in the
  table is its page's `dataArray` as it is now (`SettledCacheIsCurrent`); refreshing does not make
  the table grow (`CacheBounded`), and it is empty only while a save is between its two
  statements or an insert has failed (`EmptyOnlyBetweenDeleteAndInsert`); a spinning header always
  has something on the way that ends it (`NoStuckHeader`, `RefreshEnds`); the page that registered
  last has loaded or is about to, unless a read of the flags failed (`NewestPageLoads`); every page's first load and every save come to an end
  (`FirstLoad`, `EverySaveEnds`).
- Reachability: the listener is left with the last status posted, if that was current when it
  was posted (`SettledStatusIsCurrent`), and one becomes known (`StatusBecomesKnown`).
- Page controller: something is on display (`NoBlankPage`), the menu shows the same page and
  takes touches again (`MenuFollowsPage`, `MenuNotLocked`), a page gets a second child only by the
  return to the foreground (`OnlyReturnDoubles`), and the cache policy after
  warnings does what the header says (`NoGrowthAfterTooMany`, `GrowsBack`).
- Video page: one view scrolls at a time (`OneScroller`, `HeaderMovesAlone`) and both
  ends can be reached (`HeaderReturns`, `ListReachesEnd`).
- Friend circle: caches, rows and menus agree with the posts (`EveryRowAnswered`,
  `HeaderFits`, `MenuTellsTheTruth`), only a bare post makes the table scroll to a row
  that is not there (`OnlyBarePostsRaise`), and the cover is up with the keyboard and only
  then (`CoverFollowsKeyboard`).
- Handle pool: the lock excludes (`LockExcludes`), counts agree with handles
  (`CountsAgree`), nobody uses a handle when the callback of a close runs
  (`ClosedForCallback`), everybody is served unless a thread waits with a handle in its hands
  (`EveryCloseReturns`, `EveryUserServed`).
- Write-ahead log: it is a `SnapshotStore` (`KeepsSnapshots`): a transaction reads exactly one
  commit, only a connection that has seen the last commit writes, and what was committed
  survives as promised. `nBackfill` never exceeds `mxFrame` (`BackfillWithinLog`), and a
  writer that ignores the log may (`FoldedWhenIgnored`).
- Waiting: a sleeper is in the queue (`SleepersAreQueued`), the queue is empty when nobody holds a lock
  (`QueueEmptyWhenFree`), and sleepers are woken (`SleepersWake`).

## The modules

**`NewsFeed`** (run through `MCNewsFeed`, which adds symmetry). `OpenPage` is
`viewDidLoad`; `ProbePosts`, `ProbeFails`, `NetworkChanges` are the manager as the
pages see it; `StatusNotice` is the block of `getReachabilityStatus:` on the page
registered now (`owner`); `Pull`, `PullBack`, `LetGo`, `DrawHeader`, `RefreshingBlock`,
`EndRefreshing` are MJRefresh's header. `LetGo` is `beginRefreshing`: a header whose page has left the
window is set to `WillRefresh`, to refresh when it is drawn again (`DrawHeader`, which nothing forces), and an
`endRefreshing` before that takes it back to idle without a load. `Answer`, `AppendArticle`, `DispatchSave` are
the success block of `loadData`, cut at each append because save blocks read the array
meanwhile; `SaveSkips` to `InsertFails` are the save block, down to WCDB's
statement, transaction and rollback. `EnumerationFault` is the exception of an
`NSMutableArray` changed while it is enumerated; `Relaunch` is any death of the
process and its next launch, which keeps only the table.
An article is not represented: `dataArray` is its length, a batch of rows is who
wrote it, how many, in a transaction or not, in this launch or before. Several
properties compare those numbers. The status itself is left out because
`state == wifi || fourG` is true whatever `state` is, so `getCacheData` never runs.

**`Reachability`** is the manager from inside: `StartMonitoring`, `StopMonitoring`,
`Callback`, the background block in two steps (`ProbeReads` or `ProbeFails`, then
`ProbePosts`), the main queue (`Deliver`). The variable `news` is history: how true
the last notification was when it was posted.

**`StatusNotices`** is the contract between the two: a notification is caused by a
start or by a change while monitoring, and each start is good for at most one. It
says nothing of statuses. `Reachability` implements it (`KeepsNoticesPromise`), and
`NewsFeed`, with its own abbreviation of the manager, stays within it
(`UsesNoticesPromise`), which is what lets the two be checked apart.

**`PageController`**: record `c` holds what the methods of the class pass around
(children on display, cache, `_selectIndex`, `_initializedIndex`,
`currentViewController`), and functions on it translate the methods, in the order the
handlers call them (`Layout`, `Create`, `Restore`, `Remove`, `DidEnter`, `JumpTo`).
The handlers are the actions. UIKit is external: a drag
moves by half a page or a whole one (a late frame), turns, is caught again; a
release ends on a page, because the scroll view pages; an animation or a deceleration
goes to its target in frames of any size. A selection while the page moves takes a deceleration or an
animation over, which then reports no end, and may or may not take the page from a finger: the code
does not say, so both are steps. `reloadData` removes a scroll view that may be moving, which then
reports nothing more either. The host's choices (count, preload, animation, when it
sets `selectIndex`, whether it reloads) are constants; before the first layout it sets `selectIndex` and does not reload.
The history variable `overruled` says that `setSelectIndex` came during a drag or a deceleration. Bouncing past the first or the
last page is left out: the layout there is that of the end page. So is the
delegate's call for lazy loading, which this app's delegate does not implement.

**`NestedScroll`**: a frame of a view with all that its delegate does and posts is
one step, since notifications are delivered where they are posted. Setting
`contentOffset` in the delegate calls the delegate again; `OuterDidScroll` depends on it,
and the mutant `OuterDidScrollOnce` shows that without it a user could not get the
player back. The children's life is abstracted: `PageController` says when they
come and go.

**`CircleFeed`**: each post is its text's height, its number of pictures, who likes
it and how many comments it has; beside it stand the values the view model caches
(`likerRowHeight`, `commentHeights`, `cellCount`, `headerHeight`), the rows the table
view was last told of, and each section header's menu. Each handler recomputes some of the
caches, as in the code, and `ReloadData` closes it. The last group of variables is the comment
text view and the invisible view that covers the table while the keyboard is up: it
is shown by the click on "comment", given its frame by the observer of the rising keyboard
and hidden by that of the falling one, and the observers live between `viewWillAppear` and
`viewWillDisappear`. There is one finger, and the keyboard covers the tab bar, so
nobody leaves while typing. `raised` is the exception of a scroll to a row that does not
exist, which ends the app. `MenuBottom` and `PicturesBottom` are the places
`SectionHeadView`'s constraints give, written down independently of the heights the view
model computes; `HeaderFits` compares the two.

**`HandlePool`**: threads whose `pc` names the place in the call they are in.
`RWLock` is modelled with its three counters and its condition variable: a thread
that cannot enter sleeps (`asleep`), `NotifyAll` or a spurious wake lets it look
again, `queued` are the writers that have counted themselves as pending. The pool's
count is an atomic beside a list with a spinlock of its own, so taking a handle, checking the
count, making a handle and counting it are separate steps, and so are refusing a
handle, uncounting it and closing it. A thread in a transaction has its handle in
`threaded` and takes it from there without the lock. A thread that keeps a handle, in an iteration over a
select or as a `WCTTransaction`, may call the pool once more (`Enter`, `nested`), also to close it. After
`flowBack` or `fillOne` has given the lock back its caller still has the pointer (`uncount`, `release`), and
a handle that is not in the list is closed only when that goes (`Release`). Handles are counted, not
named. `Capacity` is the list's limit and `MaxConcurrency` the pool's.

**`ReadersWriter`** is what the pool needs of the lock: readers together or one writer
alone. `LockExcludes` maps it to the threads between `lockRead` and `unlockRead`
(`At(Reading)` and `nested`) and those between `lockWrite` and `unlockWrite` (`At(Writing)`).

**`SnapshotStore`** is what a log promises its database's connections: a store (the last
commit), the view of each open transaction, one writer, and the set `kept` of commits that a power
failure may fall back to, which a sync empties down to the last one. It has no log.

**`Wal`** is `wal.c`. An action is what a connection does between two accesses to something
shared; `pc` names the place. `ReadHdr` and `HdrLocked` are `walIndexReadHdr`, `WalIndexRecover`
recovery under all locks; `TryReadLock0` to `CheckMark` are `walTryBeginRead`, each of whose unlocked
reads (`nBackfill`, the marks, `minFrame`, the header again) is a step of its own.
`RestartLog`, `RestartHdr`, `RestartMarks` are `walRestartLog` and `walRestartHdr`, cut where the
header's second copy, its first copy and `nBackfill` are written. `WriteLogHeader` to
`AppendIndex` are one call of `sqlite3WalFrames`, for a spill or the commit: frames go out one at a
time, a page spilled twice overwrites its frame (`PutFrame`), and the commit then
recomputes checksums frame by frame (`RewriteChecksum`). `Commit` is the last write of the header.
`CkptStart` to `CkptDone` are `walCheckpoint`, each mark read and then locked in separate steps
and one page copied at a time. `CloseHandle` and `DeleteLog` are `sqlite3WalClose`.
Contents are abstract: a page holds the number of the transaction that wrote it, and whether for the first
or a second time; a salt is a number that was not in use; a checksum is the contents it covers, so that
it is right exactly when those are still there. The header's two copies are two variables
and a read that straddles a write finds them different. `Crash` keeps the files as they are. `PowerFailure` lets every
frame, page and log header that differs from what was last synced be the new one, the old one or torn,
each by itself, and a log that was deleted come back. The durability settings are WCDB's
(`synchronous=NORMAL`): commits are not synced, a restarted log's header and a checkpoint are.
`Overlap` says whether a writer may restart the log between the two reads of a checkpoint
(its header, `nBackfill`). The code lets it; `wal_reset` shows what comes of it, and the other runs
leave that one window out so that they can show that nothing else is wrong: what they say of every interleaving is said of
all the others. `PickMark` reads all marks in one step and `TryReadLock0` reads `nBackfill` and takes its lock in one, where the code has a step for each word;
what was read is looked at again under the lock (`Check0`, `CheckMark`).
Symmetry of the two connections is sound in `Wal.cfg`: they play the same parts and no
property names one.

**`ShmLock`** is `unixShmLock` with WCDB's waiting. A call runs under the mutex of the
shared-memory node, so a lock, an unlock with its signals, and falling asleep are one step each. `Request`
takes the lock or, for a caller that waits, enters `WCDBOsShmWait`: that compares the caller with the
front of the queue and, if each holds what the other wants, wakes the front instead of sleeping
(`Crossed`). `TrySignal` wakes from the front up to the first that cannot have its lock. An
entry stays in the queue when its thread's ten seconds are over (`Timeout`) and when its connection
closes; a comparison with a closed one reads freed memory, by a pointer that is itself in the freed structure: it may come out
either way, and that it could also end the process is left out. The callers
are `wal.c`'s, abstracted to what they hold when they ask: that decides the orders of locks
which can meet. `Wal` and `ShmLock` share those call sites: `Wal` has the data and takes locks without
sleeping (a caller that cannot have a lock is told `SQLITE_BUSY` either way), `ShmLock` has the sleeping.

Modules whose name ends in `_proofs` hold the proofs, `MCNewsFeed` and `MCWal` the symmetry.

## Runs

All passing runs check for deadlock, except `news_cache`, `news_live`, where a launch comes
to rest when its bounded causes are used up, and `circle`, where an uncaught exception
ends the app.

| Run | Question | Instance |
|---|---|---|
| `news_cache` | Is the saved table current, whole and bounded; is any load lost? | 2 pages, 2 save blocks at once, 2 causes a launch, 2 launches, 2 articles, everything may fail |
| `news_live` | Does every registered page load, every save end, every refresh end? | the same with 1 article, 1 launch, reads of the flags that succeed |
| `reach` | Does the listener end with the newest posted status? Does it learn one? Is the contract kept? | 3 statuses, 2 background blocks, 2 queued notifications |
| `page_library` | Whatever scrolls: no blank page, menu in step and not locked | 3 pages, neighbours preloaded, animated, selections and reloads at any time after the layout, evictions, 1 warning |
| `page_app` | Does the cache shrink and grow as the header says, in the app's own configuration, with suspension? What gives a page two children? | 2 pages, no preload, no animation, selections, 3 warnings |
| `nested` | Whose turn is it to scroll, and can the user always get both ends? | 2 pages, header of 3 steps, lists of 3, frames up to 4 |
| `circle` | Does every row have what the table view asks for, after any sequence of touches, and what can end the app? | 2 posts, the user and one friend, text heights 0, 104 and 125, 0, 1 or 9 pictures, at most 2 comments |
| `pool` | Does the lock exclude, do the counts agree, does every close return and every statement get its turn? | 2 users of which one also closes, one more keeper, a list of 1, at most 2 handles, 2 closes or blockades, 1 handle lost, one call nested in another |
| `wal` | Does the log implement `SnapshotStore`? Do its counters stay consistent? | 2 connections that do everything, 2 marks, 2 pages, 2 frames, 2 transactions |
| `wal_stop` | Does it through a crash or a power failure at any step? | a writer and a checkpointer, 1 mark, 2 pages, 2 frames, 2 transactions, 1 stop |
| `wal_reset` | Does `nBackfill` stay within the log if a restart overlaps a checkpoint? (No.) | as `wal_stop`, no stop, `Overlap` |
| `shm_lock` | Is any sleeper forgotten, does everyone wake, does the last close find the queue empty? | 2 users (one the main thread), 1 checkpointer, 1 mark, 1 timeout |

Why the bounds are enough. In `NewsFeed` the interesting interleavings need two
save blocks, of one page or of two, and an answer that arrives while one of them inserts: two
causes give that, two launches give the old table, one and two articles give WCDB's
two ways to insert. In `Reachability` an overtaking needs two background blocks and a
callback. In `PageController` three pages with one preloaded on each side have, at either end, a page that is
neither seen nor near; the third memory warning is the last that behaves
differently. In `NestedScroll` frames shorter and longer than a list and than
the header occur. In `CircleFeed` the heights lie on both sides of the folding
limit, the picture counts give no, one and several rows, and two posts are needed
for two open menus and for a comment to go astray. In `HandlePool` a list of
1 and two users make the list refuse a handle, three threads make a
writer wait behind another and a reader behind both, and two closes are two
writers. In `Wal` two frames and two transactions are a log that is folded, restarted and
overwritten, with a frame of the old log behind the new one; two pages let a transaction be half
written, and a page be spilled twice. Two marks let a checkpoint be held by an old reader while a new one
takes another mark. Two connections and their two roles give every pair of calls; three parties at once
(a reader under a writer and a checkpointer, one role each, `NReader` = 1) have 2.6 million states without an error,
which takes too long for a run. In `ShmLock` three connections put two entries
in the queue while a third holds the lock, with the main thread pushing to the front. Where a theorem is proved the bound does not matter.

The named bounds are `MaxItems`, `MaxCauses`, `MaxLaunches`, `Jobs` (`NewsFeed`),
`MaxQueued`, `Probes` (`Reachability`), `MaxWarnings` (`PageController`), `MaxStep`,
`Length` (`NestedScroll`), `MaxComments` (`CircleFeed`), `MaxCloses`, `MaxFailures`
(`HandlePool`), `MaxFrame`, `MaxTx`, `MaxStops` (`Wal`), `MaxTimeouts` (`ShmLock`). A frame
may be longer than the header (`MaxStep > Header` in `nested`). One that carries the outer view from `maxOffsetY` to 0 or
below takes a branch that ignores `canScroll` (`VideoDetailViewController.m:137`): the header is then all back
above a list that is still scrolled, until the next frame. So `HeaderMovesAlone` says
that a scrolled list goes with no header or all of it, and nothing in between.

### Fairness

The main queue, the run loop, the global and background queues run what was
given to them, a GET is answered or times out, and timers fire: weak fairness on
those steps. Nothing is assumed of the user, the network, the system's
notifications, a failing statement or the process's death: fairness is on
`SaveGoesOn`, not on `SaveStep`, so no save block counts on an error to end its
wait. A save block that waits for SQLite's
write lock waits for finitely many others, so weak fairness is enough for it. In
`NestedScroll` the two views get frames while a finger moves, the outer one frames shorter than the header, and the two
liveness properties suppose that the user goes on dragging one way on one page.
`news_live` supposes that the flags can be read (`ProbeCanFail` is false): a page whose
read fails does wait for the network to change, and `reach` keeps that case
(`StatusBecomesKnown` excuses it by `news = "unread"`).

In `HandlePool` each thread goes on with the call it is in: the system schedules threads,
statements and transactions end and give their handles back, and blockades end. Nothing is
assumed of new calls, of `Begin` and of spurious wakes. Closes are finitely many
(`MaxCloses`): `RWLock` prefers writers, so an endless row of closes would starve the
readers, which the code accepts. A thread that keeps a handle and calls the pool while a close waits for that handle
waits for ever, and so does the close; a thread that closes with a handle of its own in hand waits for itself. WCDB's comment on `close:`
warns of keeping objects, and the model has both: the two liveness properties except exactly a thread
that for ever waits with a handle (`KeepsAndWaits`).

In `ShmLock` a thread that is awake and holds locks gives some back, and the write lock and the checkpoint
lock in particular: transactions and checkpoints end. Nothing is assumed of new
requests, and nothing of the ten seconds: `SleepersWake` says that the signals alone wake a sleeper. Its exception is
a recovery in the queue: it asks for all locks at once, shared holders who take turns can
keep it from them for ever, and whoever stands behind it in the queue waits with it
(then the ten seconds do their work). `Wal` has no liveness property: its callers retry, and
nothing in the code bounds how often they lose.

### What the violated run shows

`wal_reset`: a passive checkpoint copies the header under the checkpoint lock and then reads `nBackfill`,
and neither keeps a writer from restarting a log that is already folded in between. The checkpoint then
takes the new log's `nBackfill` (0) for the old log's, copies frames that are being
overwritten and leaves `nBackfill` above `mxFrame`, against the comment on `WalIndexHdr`. Commits up to that
frame then count as folded. WCDB runs the checkpoint on a thread of its own beside the
writers, so both parties exist. (`KeepsSnapshots` fails too with `Overlap`.)

Five more places where the code does not do what its texts say follow from the modules as they
are; no run repeats them:

- `Reachability`: the comment above `AFPostReachabilityStatusChange` says queueing keeps the listener from being
  left in the wrong state. The background block of `startMonitoring` reads the flags before
  it queues, so an old status can be queued after a newer one (`news = "late"`). What does hold
  is `SettledStatusIsCurrent`.
- `PageController` with `HostReloads` and a warning: the cache is said to "grow back after a
  while"; `reloadData` cancels the timers and leaves the policy low (`GrowsBack` fails). The app does
  not call it.
- `HandlePool` with `CloseSeparately`: the comment on `close:` shows `blockade`, `close`, `unblockade` on one thread;
  `close:` takes the write side again, which is not reentrant, and waits for ever
  (`EveryCloseReturns` fails).
- `HandlePool`: the same comment says that the method waits until all handles return and closes them, so that the database is
  closed in `onClosed`. A handle that the list refused, and one that a drain takes while its last user is
  still in `Recyclable::release`, is open until that thread lets go of the pointer, after the lock: `onClosed` can run
  before. `ClosedForCallback` says what does hold: the list is empty and nobody can use a handle.
- Not modelled: a pool found by its tag is counted in a copy of the registry's entry
  (`for (auto iter : s_pools)` at `handle_pool.cpp:62`), so the first release erases it while another object uses it.

## Proofs

Checked by TLAPS for every value of the constants that the modules' assumptions
admit. The assumptions only say that bounds are natural numbers, that `NoPage` and `NoJob` are
not pages and jobs, that the background blocks are finitely many (their
cardinality is used), that the user is not
one of the friends, that the pool's threads and the save blocks are finitely many, and that `None` is neither a
connection, a header nor the contents of a database, and that a database's pages are finitely many.

- `NewsFeed_proofs`. `CacheCorrect`: `SettledCacheIsCurrent` only speaks of
  quiet states, so it is not inductive. The invariant says, at every moment,
  what the next delete will make true: a batch of an earlier state of `dataArray` exists
  only while a save block of its page has still to delete (`SavePending`) or the last
  delete failed; and a block that is inserting either took the whole array or is followed
  by one that deletes. `TypeCorrect` includes that a running block has a page and
  that no empty batch is written, which rests on `dataArray` never shrinking.
  `HeaderCorrect`: no stuck header. `NoticesAssumed`: every step of `NewsFeed` is a step of
  `StatusNotices` or leaves its variables alone. `CacheSizeCorrect` and `EmptyCacheExplained` follow a batch from
  the delete before it to its insert; `LoadsCorrect` is inductive as it stands: a page registers together with a read of the flags, a
  read that succeeds becomes a notice, and a notice finds the page that is registered then. A read that fails is
  noted in the history variable `unread`, which nothing but the property looks at.
- `Reachability_proofs`. `StatusCorrect` by an invariant on the newest
  notification: while no unreported change is pending, a last notification that was
  posted as current is the last of the queue, or, if the queue is empty, the
  status. `NoticesImplemented` counts the background blocks in flight
  (`FS_AddElement`, `FS_RemoveElement`).
- `NestedScroll_proofs`. `TurnsCorrect` and `HeaderCorrect` by the invariant `Turns`: a
  list off its top belongs to a child that may scroll, and such a child exists only
  while the outer view may not, and is at one of its ends.
- `CircleFeed_proofs`. The caches are functions of the post they belong to
  (`CachesFresh`), which each handler restores for the caches it disturbs; from it follow
  `RowsCorrect` and `LayoutCorrect`, the latter by the cases of text, pictures and
  folding for every height and every number of pictures. `CoverCorrect` needs in addition that the
  observers are registered exactly while the page is on screen and that a hidden or
  unspread cover goes with no keyboard. `CommentCorrect`: while a comment is written the post
  it goes to stays. `RaiseCorrect`: the cached row count
  is that of the post's likes and comments, so a row can only be missing where there are none.
- `HandlePool_proofs`. `LockInv`: the lock's counters are the cardinalities of sets of
  threads, a queued writer is one that waits, and readers and a writer are
  never in together; it gives `LockImplemented`. A thread in a nested call counts twice among the readers, once for
  the handle it keeps. `ClosedCorrect` adds that what a drain
  cleared stays cleared until its write side is given back, since every push
  is under the read side, and that whoever has a handle has the read side too, but for those on their way out. `CountCorrect` needs that only a thread about to subtract has cleared handles
  (`SubtractsSoon`), so that each handle of the sum is subtracted once.
- `PageController_proofs`. One inductive invariant in three parts. `MenuInv`: a drag or a deceleration has the menu
  off and, unless the host overruled it, sliding, an animation ends at its selected item, and a deceleration that has arrived
  has slid the menu there; before the first layout the selected index is the marked one. `ChildrenInv`: the pages on screen
  have their children (`ShownInv`), and nothing is kept before there is a view (`NewInv`); beside them each step but the return to the
  foreground leaves no page with a second child in the cache (`NoNewDouble`). All rest on lemmas
  about `Create`, `Restore`, `Remove`, `Layout` and `DidEnter`, among them that there always is a fresh child.
  `MenuAgrees` and `MenuComesBack` except what the host overruled, as the properties do: without the exception TLC finds
  a page at rest whose menu is off, or shows another page. `PagesAreShown` assumes that the host does not set `selectIndex`
  between `viewDidLoad` and the first layout: otherwise TLC finds a blank page. `ChildrenAreUnique` needs no assumption: it says which step
  may leave a page with two children.
- `Wal_proofs`. `Invariance`: the place of a connection determines the locks it holds (`LocksOK`), so a writer is
  alone, a checkpoint is alone and a restart excludes every mark; a reader's header is not ahead of the last
  commit's, a writer's is not behind it (`HeaderOK`, `WriterOK`); who ignores the log with the last commit's
  header finds it folded (`IgnoredOK`); a checkpoint between its start and its end has
  `backfill < hdr.mx <= h0.mx` (`FoldingOK`); the header copies differ only while a writer is between
  them (`CopiesOK`); a new log's salt is nobody else's (`SaltsOK`). The last two are what makes a comparison of
  headers, which is all a reader has, tell one log from the next. `IgnoredLogIsFolded` holds for either value of `Overlap`,
  `BackfillIsWithinLog` without it: with it, `FoldingOK` fails, which the run `wal_reset` shows.

  `SnapshotsAreKept`: while nothing crashes and no log starts again between a checkpoint's two reads, the log
  refines `SnapshotStore` (`KeepsSnapshots`). `Invariance` does not look at pages; `VInv` does. The wal-index has the
  frames of the last commit (`Recorded`), and what its first `backfill` frames hold, and no later one, is in the database
  (`Folded`, `FilesV`). The writer's own frames are in the index up to its header, and there is room for what it still has to
  put (`WriterV`). A reader's mark is in its snapshot, and its `minFrame` is at most `backfill + 1`, so it looks up what the database may not
  have (`ReaderV`). A checkpoint knows each page's last frame, and what it has copied is in the database (`CkptV`);
  it never copies past the snapshot of a reader whose mark it has looked at (`Bounded`), which is why a page it overwrites
  is read from the log by every open transaction (`SeenInLog`). The checkpoint of a handle that closes folds all of the log (`CloseV`).
  The lemmas say which frame a page is read from (`LatestIs`, `PageIs`, `ReadsCommit`), what the steps
  of `SnapshotStore` are under the mapping (`SnapBegin` to `SnapStutter`), and then, for each action, that it keeps `VInv` and is a step or a stutter
  (`PutFrameSnap`, `CommitSnap`, `CkptCopySnap`, ...). Most actions are calm (`CalmStutters`): nothing a view
  depends on changes.

  `TypeCorrect`, under the same two assumptions, adds to `VInv` the bounds of headers, marks, index and `disk`
  (`BoundsOK`). That every kept commit is whole (`KeptOK`) follows from the refinement: a step of `SnapshotStore` keeps what is
  kept, adds its new store or keeps only its store (`KeptFollows`), and the store is always whole (`StoreIs`).
- `ShmLock_proofs`. The three theorems are proved together, with one more fact: who holds a lock or sleeps is open
  (`HoldersAreOpen`). A forgotten sleeper is excluded because a thread is woken by the same step that takes its
  entry out (`SignalKeeps`). `QueueEmptyWhenFree` holds because an unlock that leaves the queue nonempty has
  found a holder in the way of its front (`TrySignalKeeps`): that is why
  `WCDBOsShmTrySignal` loops. If it stopped after one wake, a grantable front could stay with nobody
  left to unlock (the mutant `TrySignalFront`).

Proved and in no run, because the theorem says more than an instance: `NoStuckHeader` (`NewsFeed`), `HeaderFits`,
`MenuTellsTheTruth` and `CoverFollowsKeyboard` (`CircleFeed`), and `TypeOK` of `NestedScroll`, `Reachability` and
`CircleFeed`.

Only model-checked: the liveness properties (liveness under fairness is out of the prover's reach), and of `Wal`
what survives a crash or a power failure (`KeepsSnapshots` with `MaxStops > 0`, the run `wal_stop`): `VInv` says nothing of
`disk` and of checksums. Neither checked nor proved: `TypeOK` and `KeepsSnapshots` with `Overlap` (the second fails), and `TypeOK` with
stops.

## Not modelled

- Layout, colours, fonts, the menu's progress bar, cells and remembered scroll
  positions: drawing.
- Rotation and `setViewFrame:`, which lay out anew with other sizes.
- The player: the page hands ZFPlayer a URL; the rest is vendored.
- The contents of answers: a category's articles are counted.
- Static parts and vendored code as listed in the inventory.
- WCDB's tracing, configuration, encryption and statements; of its transactions only
  that one keeps a handle for its thread; its registry of pools (one mutex); the timed
  queue that decides when a checkpoint runs, since `Wal` lets one run at any time.
- Of the log: FULL, RESTART and TRUNCATE checkpoints (WCDB runs PASSIVE), savepoints, exclusive
  locking mode, `SQLITE_ENABLE_SNAPSHOT`, I/O errors, a database whose size changes, the pager's cache, and
  other processes (an app's database has one).
- Of the waiting: the queue for file locks (`WCDBOsWait`), which works like that of the wal-index, and
  the sleeps between retries.

Known behaviour that no text of the repository contradicts, so no property is
about it: refreshing appends every article again; the branch that reads the saved news is
dead; the index that lazy loading compares with can belong to a page made in
passing; `reloadData` keeps the background copies of children; `selectIndex` set between
`viewDidLoad` and the first layout shows a blank page; a drag that peeks at a neighbour
leaves `_selectIndex` at it; a memory warning turns a disabled cache on; a
background copy may come back beside a newer child after a memory warning (`OnlyReturnDoubles` says that nothing else does this);
`setSelectIndex` in the midst of a drag leaves the menu off or behind until the user drags the page (or, if it is on, presses an item); a pull let go
as the page leaves the window may be forgotten; two
threads that check the count together make one handle more than the limit;
`Transaction::runEmbeddedTransaction` holds a mutex that `begin` takes again; sending a
comment leaves a newline in the text view.

## Plan

1. Done: `NewsFeed`, `Reachability`, `StatusNotices` and their proofs;
   `NestedScroll` and its proofs; `CircleFeed` and its proofs;
   `HandlePool`, `ReadersWriter` and their proofs; `SnapshotStore`, `Wal`; `ShmLock` and its proofs.
2. Done: `PageController` and its proofs; `BackfillWithinLog` and `FoldedWhenIgnored` of `Wal`, `KeepsSnapshots` and `TypeOK`
   without stops; the counting properties.
3. `KeepsSnapshots` of `Wal` across a crash: the frames up to the last commit have a chain of checksums, and none after it
   closes one before the writer's last frame; then across a power failure, with `disk`.
4. `VideoPage`: `PageController` and `NestedScroll` composed, so that children come
   and go as the page controller says.
