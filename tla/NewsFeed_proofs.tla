--------------------------- MODULE NewsFeed_proofs ---------------------------
(***************************************************************************)
(* What holds of NewsFeed for every number of pages and save blocks and    *)
(* for every bound: the types, the shared cache's contents at rest, the    *)
(* header that cannot stick, and the newest page's first load.             *)
(***************************************************************************)
EXTENDS NewsFeed, FiniteSetTheorems, TLAPS

\* No reachability block is on its way before a page has registered.
NoticesFindOwner == probes + notices > 0 => owner \in Pages

\* A save block past its count check belongs to a page with articles, and one
\* that enumerates set out to insert some.
SaveHasArticles ==
  \A j \in Jobs :
    /\ pc[j] \in Writing => dataArray[of[j]] > 0
    /\ pc[j] = "inserting" => snap[j] > 0

TypeInv == TypeOK /\ NoticesFindOwner /\ SaveHasArticles

USE NewsAssumption

LEMMA CountUp ==
  ASSUME NEW S, NEW f \in [S -> Nat], NEW x \in S
  PROVE  [f EXCEPT ![x] = @ + 1] \in [S -> Nat]
  OBVIOUS

LEMMA CountDown ==
  ASSUME NEW S, NEW f \in [S -> Nat], NEW x \in S, f[x] > 0
  PROVE  [f EXCEPT ![x] = @ - 1] \in [S -> Nat]
  OBVIOUS

LEMMA AppendType ==
  ASSUME NEW S, NEW s \in Seq(S), NEW e \in S
  PROVE  Append(s, e) \in Seq(S)
  OBVIOUS

LEMMA FunctionIsSeq ==
  ASSUME NEW S, NEW n \in Nat, NEW f \in [1..n -> S]
  PROVE  f \in Seq(S) /\ Len(f) = n
  OBVIOUS

LEMMA AgedBatch ==
  ASSUME NEW b \in Batch
  PROVE  Aged(b) \in Batch /\ Aged(b).old
  BY DEF Batch, Aged

LEMMA InitType == Init => TypeInv
<1> SUFFICES ASSUME Init PROVE TypeInv
  OBVIOUS
<1>1. NoticesFindOwner
  BY DEF Init, NoticesFindOwner
<1>2. table \in Seq(Batch)
  BY DEF Init
<1>3. QED
  BY <1>1, <1>2 DEF TypeInv, TypeOK, PagesTypeOK, SavesTypeOK, SaveHasArticles, Init, Zero,
                    Writing

\* Most handlers leave the save blocks and the table alone.
LEMMA SavesUntouched ==
  ASSUME SavesTypeOK, UNCHANGED <<jobVars, storeVars, launches>>
  PROVE  SavesTypeOK'
  BY DEF SavesTypeOK, jobVars, storeVars

LEMMA SavesOfSameLists ==
  ASSUME SaveHasArticles, UNCHANGED <<jobVars, dataArray>>
  PROVE  SaveHasArticles'
  BY DEF SaveHasArticles, jobVars

LEMMA UserType ==
  ASSUME TypeInv, NEW p \in Pages, UserStep(p)
  PROVE  TypeInv'
<1>1. SavesTypeOK' /\ SaveHasArticles'
  BY SavesUntouched, SavesOfSameLists
  DEF TypeInv, TypeOK, UserStep, OpenPage, Pull, PullBack, LetGo, DrawHeader
<1>2. PagesTypeOK' /\ NoticesFindOwner'
  <2> USE DEF TypeInv, TypeOK, PagesTypeOK, NoticesFindOwner, netVars
  <2>1. CASE OpenPage(p)
    BY <2>1 DEF OpenPage, StartMonitoring
  <2>2. CASE Pull(p)
    BY <2>2 DEF Pull
  <2>3. CASE PullBack(p)
    BY <2>3 DEF PullBack
  <2>4. CASE LetGo(p)
    <3>1. calls' \in [Pages -> Nat]
      BY <2>4, CountUp DEF LetGo, Refreshes
    <3>2. QED
      BY <2>4, <3>1 DEF LetGo, Refreshes
  <2>5. CASE DrawHeader(p)
    <3>1. calls' \in [Pages -> Nat]
      BY <2>5, CountUp DEF DrawHeader, Refreshes
    <3>2. QED
      BY <2>5, <3>1 DEF DrawHeader, Refreshes
  <2>6. QED
    BY <2>1, <2>2, <2>3, <2>4, <2>5 DEF UserStep
<1>3. QED
  BY <1>1, <1>2 DEF TypeInv, TypeOK

LEMMA PageType ==
  ASSUME TypeInv, NEW p \in Pages, PageStep(p)
  PROVE  TypeInv'
<1>1. SavesTypeOK' /\ SaveHasArticles'
  BY SavesUntouched, SavesOfSameLists
  DEF TypeInv, TypeOK, PageStep, RefreshingBlock, EndRefreshing, Answer
<1>2. PagesTypeOK' /\ NoticesFindOwner'
  <2> USE DEF TypeInv, TypeOK, PagesTypeOK, NoticesFindOwner, netVars
  <2>1. CASE RefreshingBlock(p)
    <3>1. calls' \in [Pages -> Nat]
      BY <2>1, CountDown DEF RefreshingBlock
    <3>2. gets' \in [Pages -> Nat] /\ loads' \in [Pages -> Nat] /\ ends' \in [Pages -> Nat]
      BY <2>1, CountUp DEF RefreshingBlock, LoadData
    <3>3. QED
      BY <2>1, <3>1, <3>2 DEF RefreshingBlock
  <2>2. CASE EndRefreshing(p)
    <3>1. ends' \in [Pages -> Nat]
      BY <2>2, CountDown DEF EndRefreshing
    <3>2. QED
      BY <2>2, <3>1 DEF EndRefreshing
  <2>3. ASSUME NEW n \in 0..MaxItems, Answer(p, n)
        PROVE  PagesTypeOK' /\ NoticesFindOwner'
    <3>1. gets' \in [Pages -> Nat]
      BY <2>3, CountDown DEF Answer
    <3>2. QED
      BY <2>3, <3>1 DEF Answer
  <2>4. QED
    BY <2>1, <2>2, <2>3 DEF PageStep
<1>3. QED
  BY <1>1, <1>2 DEF TypeInv, TypeOK

LEMMA QueueType ==
  ASSUME TypeInv,
         ProbePosts \/ ProbeFails \/ NetworkChanges \/ StatusNotice \/ AppendArticle
  PROVE  TypeInv'
<1>1. SavesTypeOK'
  BY SavesUntouched
  DEF TypeInv, TypeOK, ProbePosts, ProbeFails, NetworkChanges, StatusNotice, AppendArticle
<1>2. CASE ProbePosts \/ ProbeFails \/ NetworkChanges
  <2>1. SaveHasArticles'
    BY <1>2, SavesOfSameLists DEF TypeInv, ProbePosts, ProbeFails, NetworkChanges
  <2>2. NoticesFindOwner' /\ PagesTypeOK'
    BY <1>2 DEF ProbePosts, ProbeFails, NetworkChanges, mainVars, TypeInv, TypeOK,
                PagesTypeOK, NoticesFindOwner
  <2>3. QED
    BY <1>1, <2>1, <2>2 DEF TypeInv, TypeOK
<1>3. CASE StatusNotice
  <2>1. SaveHasArticles'
    BY <1>3, SavesOfSameLists DEF TypeInv, StatusNotice
  <2>2. owner \in Pages
    BY <1>3 DEF StatusNotice, TypeInv, TypeOK, PagesTypeOK, NoticesFindOwner
  <2>3. gets' \in [Pages -> Nat] /\ loads' \in [Pages -> Nat] /\ ends' \in [Pages -> Nat]
    BY <1>3, <2>2, CountUp DEF StatusNotice, LoadData, TypeInv, TypeOK, PagesTypeOK
  <2>4. NoticesFindOwner' /\ PagesTypeOK'
    BY <1>3, <2>3 DEF StatusNotice, TypeInv, TypeOK, PagesTypeOK, NoticesFindOwner
  <2>5. QED
    BY <1>1, <2>1, <2>4 DEF TypeInv, TypeOK
<1>4. CASE AppendArticle
  <2>1. busy \in Pages /\ dataArray \in [Pages -> Nat]
    BY <1>4 DEF AppendArticle, TypeInv, TypeOK, PagesTypeOK
  <2>2. dataArray' \in [Pages -> Nat] /\ \A p \in Pages : dataArray'[p] >= dataArray[p]
    BY <1>4, <2>1, CountUp DEF AppendArticle
  <2>3. NoticesFindOwner' /\ PagesTypeOK'
    BY <1>4, <2>2 DEF AppendArticle, netVars, TypeInv, TypeOK, PagesTypeOK, NoticesFindOwner
  <2>4. \A j \in Jobs : pc[j] \in Writing => of[j] \in Pages
    BY DEF TypeInv, TypeOK, SavesTypeOK, Writing
  <2>5. SaveHasArticles'
    BY <1>4, <2>1, <2>2, <2>4 DEF AppendArticle, jobVars, TypeInv, SaveHasArticles
  <2>6. QED
    BY <1>1, <2>3, <2>5 DEF TypeInv, TypeOK
<1>5. QED
  BY <1>2, <1>3, <1>4

LEMMA SaveType ==
  ASSUME TypeInv, NEW j \in Jobs, DispatchSave(j) \/ SaveStep(j)
  PROVE  TypeInv'
<1> USE DEF TypeInv, TypeOK, PagesTypeOK, SavesTypeOK, NoticesFindOwner, SaveHasArticles,
            jobVars, storeVars, netVars, mainVars,
            Writing, JobStep, HasArticles, RowsAfterDelete, LockReleased
<1>1. CASE DispatchSave(j)
  BY <1>1 DEF DispatchSave
<1>2. CASE SaveSkips(j)
  BY <1>2 DEF SaveSkips
<1>3. CASE SaveDeletes(j)
  <2>1. table' \in Seq(Batch)
    BY <1>3 DEF SaveDeletes
  <2>2. QED
    BY <1>3, <2>1 DEF SaveDeletes
<1>4. CASE SaveDeleteFails(j)
  BY <1>4 DEF SaveDeleteFails
<1>5. CASE CountObjects(j)
  BY <1>5 DEF CountObjects
<1>6. CASE BeginInsert(j)
  BY <1>6 DEF BeginInsert
<1>7. CASE CommitInsert(j)
  <2>1. table' \in Seq(Batch)
    <3>1. snap[j] > 0
      BY <1>7 DEF CommitInsert
    <3>2. RowsOf(j, snap[j], TRUE) \in Batch
      BY <1>7, <3>1 DEF CommitInsert, RowsOf, Batch
    <3>3. QED
      BY <1>7, <3>2, AppendType DEF CommitInsert
  <2>2. QED
    BY <1>7, <2>1 DEF CommitInsert
<1>8. ASSUME NEW n \in 1..(MaxItems * MaxCauses), WriteRows(j, n)
      PROVE  TypeInv'
  <2>1. table' \in Seq(Batch)
    <3>1. RowsOf(j, n, FALSE) \in Batch
      BY <1>8 DEF WriteRows, RowsOf, Batch
    <3>2. QED
      BY <1>8, <3>1, AppendType DEF WriteRows
  <2>2. QED
    BY <1>8, <2>1 DEF WriteRows
<1>9. CASE InsertFails(j)
  BY <1>9 DEF InsertFails
<1>10. QED
  BY <1>1, <1>2, <1>3, <1>4, <1>5, <1>6, <1>7, <1>8, <1>9 DEF SaveStep, SaveGoesOn

LEMMA RelaunchType ==
  ASSUME TypeInv, Relaunch
  PROVE  TypeInv'
<1>1. table' \in Seq(Batch)
  <2>1. Len(table) \in Nat /\ \A i \in 1..Len(table) : table[i] \in Batch
    BY DEF TypeInv, TypeOK, PagesTypeOK, SavesTypeOK
  <2>2. table' \in [1..Len(table) -> Batch]
    BY <2>1, AgedBatch DEF Relaunch
  <2>3. QED
    BY <2>1, <2>2, FunctionIsSeq
<1>2. NoticesFindOwner'
  BY DEF Relaunch, NoticesFindOwner
<1>3. SaveHasArticles'
  BY DEF Relaunch, SaveHasArticles, Writing
<1>4. Zero \in [Pages -> Nat]
  BY DEF Zero
<1>5. /\ pc' = [j \in Jobs |-> "free"]
      /\ launches' \in Nat
  BY DEF Relaunch, TypeInv, TypeOK, PagesTypeOK, SavesTypeOK
<1>6. QED
  BY <1>1, <1>2, <1>3, <1>4, <1>5 DEF Relaunch, TypeInv, TypeOK, PagesTypeOK, SavesTypeOK

-----------------------------------------------------------------------------
(***************************************************************************)
(* The shared cache.  SettledCacheIsCurrent speaks of rest; what every     *)
(* step keeps is that a batch, or the snapshot an inserting block carries, *)
(* can only lag behind its page while a block of that page is still to     *)
(* delete it.  The write lock is what makes the snapshot of a running      *)
(* insert safe: no other block can finish its delete before it commits.    *)
(***************************************************************************)
Lagging(p, size, exact) ==
  /\ size <= dataArray[p]
  /\ exact => size = dataArray[p] \/ SavePending(p)

WriterInserts ==
  \A j \in Jobs : pc[j] = "inserting" <=> writer = j

InsertsKeepUp ==
  \A j \in Jobs : pc[j] = "inserting" => Lagging(of[j], snap[j], TRUE)

RowsKeepUp ==
  \A i \in 1..Len(table) :
    /\ ~table[i].old
    /\ Lagging(table[i].page, table[i].size, table[i].atomic)

CacheInv == WriterInserts /\ (clean => InsertsKeepUp /\ RowsKeepUp)

LEMMA InitCache == Init => CacheInv
  BY DEF Init, CacheInv, WriterInserts

cacheVars == <<dataArray, busy, pc, of, snap, writer, table, clean>>

\* Most handlers touch neither the lists nor the save blocks.
LEMMA SameCache ==
  ASSUME CacheInv, UNCHANGED cacheVars
  PROVE  CacheInv'
  BY DEF CacheInv, cacheVars, WriterInserts, InsertsKeepUp, RowsKeepUp, Lagging,
         SavePending

\* The same when the step only adds to what is pending and to no list.
LEMMA MorePending ==
  ASSUME TypeInv, CacheInv, UNCHANGED <<dataArray, writer, table, clean, snap>>,
         \A j \in Jobs : pc'[j] = "inserting" => pc[j] = "inserting" /\ of'[j] = of[j],
         \A j \in Jobs : pc[j] = "inserting" => pc'[j] = "inserting",
         \A p \in Pages : SavePending(p) => SavePending(p)'
  PROVE  CacheInv'
<1>1. WriterInserts'
  BY DEF CacheInv, WriterInserts
<1>2. ASSUME clean'
      PROVE  InsertsKeepUp'
  <2> SUFFICES ASSUME NEW j \in Jobs, pc'[j] = "inserting"
               PROVE  Lagging(of[j], snap[j], TRUE)'
    BY DEF InsertsKeepUp, Lagging, SavePending
  <2>1. of[j] \in Pages /\ Lagging(of[j], snap[j], TRUE)
    BY <1>2 DEF CacheInv, InsertsKeepUp, TypeInv, TypeOK, PagesTypeOK, SavesTypeOK
  <2>2. QED
    BY <2>1 DEF Lagging
<1>3. ASSUME clean'
      PROVE  RowsKeepUp'
  <2> SUFFICES ASSUME NEW i \in 1..Len(table)
               PROVE  /\ ~table[i].old
                      /\ Lagging(table[i].page, table[i].size, table[i].atomic)'
    BY DEF RowsKeepUp, Lagging, SavePending
  <2>1. table[i] \in Batch
    BY DEF TypeInv, TypeOK, PagesTypeOK, SavesTypeOK
  <2>2. table[i].page \in Pages
    BY <2>1 DEF Batch
  <2>3. ~table[i].old /\ Lagging(table[i].page, table[i].size, table[i].atomic)
    BY <1>3 DEF CacheInv, RowsKeepUp
  <2>4. QED
    BY <2>2, <2>3 DEF Lagging
<1>4. QED
  BY <1>1, <1>2, <1>3 DEF CacheInv

LEMMA UserCache ==
  ASSUME CacheInv, NEW p \in Pages, UserStep(p)
  PROVE  CacheInv'
<1>1. UNCHANGED cacheVars
  BY DEF UserStep, OpenPage, Pull, PullBack, LetGo, DrawHeader, cacheVars, jobVars, storeVars
<1>2. QED
  BY <1>1, SameCache

LEMMA PageCache ==
  ASSUME TypeInv, CacheInv, NEW p \in Pages, PageStep(p)
  PROVE  CacheInv'
<1>1. CASE RefreshingBlock(p) \/ EndRefreshing(p)
  <2>1. UNCHANGED cacheVars
    BY <1>1 DEF RefreshingBlock, EndRefreshing, cacheVars, jobVars, storeVars
  <2>2. QED
    BY <2>1, SameCache
<1>2. ASSUME NEW n \in 0..MaxItems, Answer(p, n)
      PROVE  CacheInv'
  <2>1. UNCHANGED <<dataArray, pc, of, snap, writer, table, clean>> /\ busy = NoPage
    BY <1>2 DEF Answer, MainIdle, jobVars, storeVars
  <2>2. \A q \in Pages : SavePending(q) => SavePending(q)'
    BY <2>1, NewsAssumption DEF SavePending
  <2>3. QED
    BY <2>1, <2>2, MorePending
<1>3. QED
  BY <1>1, <1>2 DEF PageStep

LEMMA QueueCache ==
  ASSUME TypeInv, CacheInv,
         ProbePosts \/ ProbeFails \/ NetworkChanges \/ StatusNotice \/ AppendArticle
  PROVE  CacheInv'
<1>1. CASE ProbePosts \/ ProbeFails \/ NetworkChanges \/ StatusNotice
  <2>1. UNCHANGED cacheVars
    BY <1>1 DEF ProbePosts, ProbeFails, NetworkChanges, StatusNotice, cacheVars,
                jobVars, storeVars, mainVars
  <2>2. QED
    BY <2>1, SameCache
<1>2. CASE AppendArticle
  <2>1. /\ UNCHANGED <<busy, pc, of, snap, writer, table, clean>>
        /\ busy \in Pages
        /\ dataArray \in [Pages -> Nat]
        /\ dataArray' = [dataArray EXCEPT ![busy] = @ + 1]
    BY <1>2 DEF AppendArticle, jobVars, storeVars, TypeInv, TypeOK, PagesTypeOK, SavesTypeOK
  <2>2. ASSUME NEW q \in Pages, NEW n \in Nat, NEW e \in BOOLEAN, Lagging(q, n, e)
        PROVE  /\ n <= dataArray'[q]
               /\ e => n = dataArray'[q] \/ SavePending(q)
    <3>1. CASE q = busy
      BY <2>1, <2>2, <3>1 DEF Lagging, SavePending
    <3>2. CASE q # busy
      BY <2>1, <2>2, <3>2 DEF Lagging, SavePending
    <3>3. QED
      BY <3>1, <3>2
  <2>3. WriterInserts'
    BY <2>1 DEF CacheInv, WriterInserts
  <2>4. ASSUME clean'
        PROVE  InsertsKeepUp'
    <3> SUFFICES ASSUME NEW j \in Jobs, pc'[j] = "inserting"
                 PROVE  Lagging(of[j], snap[j], TRUE)'
      BY DEF InsertsKeepUp, Lagging, SavePending
    <3>1. of[j] \in Pages /\ snap[j] \in Nat
      BY <2>1 DEF TypeInv, TypeOK, PagesTypeOK, SavesTypeOK
    <3>2. Lagging(of[j], snap[j], TRUE)
      BY <2>1, <2>4 DEF CacheInv, InsertsKeepUp
    <3>3. /\ snap[j] <= dataArray'[of[j]]
          /\ snap[j] = dataArray'[of[j]] \/ SavePending(of[j])
      BY <2>2, <3>1, <3>2
    <3>4. QED
      BY <2>1, <3>3 DEF Lagging, SavePending
  <2>5. ASSUME clean'
        PROVE  RowsKeepUp'
    <3> SUFFICES ASSUME NEW i \in 1..Len(table)
                 PROVE  /\ ~table[i].old
                        /\ Lagging(table[i].page, table[i].size, table[i].atomic)'
      BY <2>1 DEF RowsKeepUp, Lagging, SavePending
    <3>1. table[i] \in Batch
      BY DEF TypeInv, TypeOK, PagesTypeOK, SavesTypeOK
    <3>2. table[i].page \in Pages /\ table[i].size \in Nat /\ table[i].atomic \in BOOLEAN
      BY <3>1 DEF Batch
    <3>3. ~table[i].old /\ Lagging(table[i].page, table[i].size, table[i].atomic)
      BY <2>1, <2>5 DEF CacheInv, RowsKeepUp
    <3>4. /\ table[i].size <= dataArray'[table[i].page]
          /\ table[i].atomic => \/ table[i].size = dataArray'[table[i].page]
                               \/ SavePending(table[i].page)
      BY <2>2, <3>2, <3>3
    <3>5. QED
      BY <2>1, <3>3, <3>4 DEF Lagging, SavePending
  <2>6. QED
    BY <2>3, <2>4, <2>5 DEF CacheInv
<1>3. QED
  BY <1>1, <1>2

LEMMA RelaunchCache ==
  ASSUME Relaunch
  PROVE  CacheInv'
  BY DEF Relaunch, CacheInv, WriterInserts

LEMMA DispatchCache ==
  ASSUME TypeInv, CacheInv, NEW j \in Jobs, DispatchSave(j)
  PROVE  CacheInv'
<1>1. /\ UNCHANGED <<dataArray, snap, writer, table, clean>>
      /\ pc' = [pc EXCEPT ![j] = "queued"] /\ of' = [of EXCEPT ![j] = busy]
      /\ pc[j] = "free" /\ busy \in Pages
      /\ pc \in [Jobs -> {"free", "queued"} \cup Writing]
      /\ of \in [Jobs -> Pages \cup {NoPage}]
  BY DEF DispatchSave, storeVars, TypeInv, TypeOK, PagesTypeOK, SavesTypeOK
<1>2. \A k \in Jobs : pc'[k] = "inserting" => pc[k] = "inserting" /\ of'[k] = of[k]
  BY <1>1
<1>3. \A k \in Jobs : pc[k] = "inserting" => pc'[k] = "inserting"
  BY <1>1
<1>4. ASSUME NEW p \in Pages, SavePending(p)
      PROVE  SavePending(p)'
  <2>1. CASE busy = p
    <3>1. pc'[j] = "queued" /\ of'[j] = p
      BY <1>1, <2>1
    <3>2. QED
      BY <3>1 DEF SavePending
  <2>2. ASSUME NEW k \in Jobs, pc[k] = "queued", of[k] = p
        PROVE  SavePending(p)'
    <3>1. pc'[k] = "queued" /\ of'[k] = p
      BY <1>1, <2>2
    <3>2. QED
      BY <3>1 DEF SavePending
  <2>3. QED
    BY <1>4, <2>1, <2>2 DEF SavePending
<1>5. QED
  BY <1>1, <1>2, <1>3, <1>4, MorePending

\* A block with nothing to save gives up: it was no page's only hope, for a
\* page without articles has neither rows in the table nor a running insert.
LEMMA SkipCache ==
  ASSUME TypeInv, CacheInv, NEW j \in Jobs, SaveSkips(j)
  PROVE  CacheInv'
<1>1. /\ UNCHANGED <<dataArray, busy, of, snap, writer, table, clean>>
      /\ pc' = [pc EXCEPT ![j] = "free"] /\ pc[j] = "queued"
      /\ dataArray[of[j]] = 0 /\ of[j] \in Pages
      /\ pc \in [Jobs -> {"free", "queued"} \cup Writing]
  BY DEF SaveSkips, HasArticles, JobStep, mainVars, storeVars, TypeInv, TypeOK,
         PagesTypeOK, SavesTypeOK
<1>2. WriterInserts'
  BY <1>1 DEF CacheInv, WriterInserts
<1>3. ASSUME NEW p \in Pages, p # of[j], SavePending(p)
      PROVE  SavePending(p)'
  BY <1>1, <1>3 DEF SavePending
<1>4. ASSUME clean'
      PROVE  InsertsKeepUp'
  <2> SUFFICES ASSUME NEW k \in Jobs, pc'[k] = "inserting"
               PROVE  Lagging(of[k], snap[k], TRUE)'
    BY DEF InsertsKeepUp, Lagging, SavePending
  <2>1. of[k] \in Pages /\ dataArray[of[k]] > 0 /\ Lagging(of[k], snap[k], TRUE)
    BY <1>1, <1>4 DEF CacheInv, InsertsKeepUp, TypeInv, TypeOK, PagesTypeOK, SavesTypeOK,
                      SaveHasArticles, Writing
  <2>2. SavePending(of[k]) => SavePending(of[k])'
    BY <1>1, <1>3, <2>1
  <2>3. QED
    BY <1>1, <2>1, <2>2 DEF Lagging
<1>5. ASSUME clean'
      PROVE  RowsKeepUp'
  <2> SUFFICES ASSUME NEW i \in 1..Len(table)
               PROVE  /\ ~table[i].old
                      /\ Lagging(table[i].page, table[i].size, table[i].atomic)'
    BY <1>1 DEF RowsKeepUp, Lagging, SavePending
  <2>1. table[i] \in Batch
    BY DEF TypeInv, TypeOK, PagesTypeOK, SavesTypeOK
  <2>2. table[i].page \in Pages /\ table[i].size > 0
    BY <2>1 DEF Batch
  <2>3. ~table[i].old /\ Lagging(table[i].page, table[i].size, table[i].atomic)
    BY <1>1, <1>5 DEF CacheInv, RowsKeepUp
  <2>4. table[i].page # of[j]
    BY <1>1, <2>1, <2>2, <2>3 DEF Lagging, Batch
  <2>5. SavePending(table[i].page) => SavePending(table[i].page)'
    BY <1>1, <1>3, <2>2, <2>4
  <2>6. QED
    BY <1>1, <2>3, <2>5 DEF Lagging
<1>6. QED
  BY <1>2, <1>4, <1>5 DEF CacheInv

\* A delete that goes through leaves nothing to lag behind: no row, and no
\* running insert either, since it waited for the write lock.
LEMMA DeleteCache ==
  ASSUME TypeInv, CacheInv, NEW j \in Jobs, SaveDeletes(j) \/ SaveDeleteFails(j)
  PROVE  CacheInv'
<1>1. /\ UNCHANGED writer
      /\ pc' = [pc EXCEPT ![j] = "deleted"] /\ pc[j] = "queued"
      /\ pc \in [Jobs -> {"free", "queued"} \cup Writing]
  BY DEF SaveDeletes, SaveDeleteFails, JobStep, TypeInv, TypeOK, PagesTypeOK, SavesTypeOK
<1>2. WriterInserts'
  BY <1>1 DEF CacheInv, WriterInserts
<1>3. CASE SaveDeleteFails(j)
  BY <1>2, <1>3 DEF SaveDeleteFails, CacheInv
<1>4. CASE SaveDeletes(j)
  <2>1. table' = <<>> /\ writer' = NoJob
    BY <1>4 DEF SaveDeletes, WriteLockFree, RowsAfterDelete
  <2>2. InsertsKeepUp'
    BY <1>2, <2>1, NewsAssumption DEF WriterInserts, InsertsKeepUp
  <2>3. RowsKeepUp'
    BY <2>1 DEF RowsKeepUp
  <2>4. QED
    BY <1>2, <2>2, <2>3 DEF CacheInv
<1>5. QED
  BY <1>3, <1>4

LEMMA CountCache ==
  ASSUME TypeInv, CacheInv, NEW j \in Jobs, CountObjects(j)
  PROVE  CacheInv'
<1>1. /\ UNCHANGED <<dataArray, busy, of, snap, writer, table, clean>>
      /\ pc[j] = "deleted"
      /\ pc' = [pc EXCEPT ![j] = IF dataArray[of[j]] = 1 THEN "rows" ELSE "begin"]
      /\ pc \in [Jobs -> {"free", "queued"} \cup Writing]
  BY DEF CountObjects, JobStep, mainVars, storeVars, TypeInv, TypeOK, PagesTypeOK,
         SavesTypeOK
<1>2. \A k \in Jobs : /\ pc'[k] = "inserting" <=> pc[k] = "inserting"
                      /\ pc'[k] = "queued" <=> pc[k] = "queued"
  BY <1>1
<1>3. \A p \in Pages : SavePending(p) => SavePending(p)'
  BY <1>1, <1>2 DEF SavePending
<1>4. QED
  BY <1>1, <1>2, <1>3, MorePending

LEMMA BeginCache ==
  ASSUME TypeInv, CacheInv, NEW j \in Jobs, BeginInsert(j)
  PROVE  CacheInv'
<1>1. /\ UNCHANGED <<dataArray, busy, of, table, clean>>
      /\ pc[j] = "begin" /\ pc' = [pc EXCEPT ![j] = "inserting"]
      /\ writer = NoJob /\ writer' = j
      /\ snap' = [snap EXCEPT ![j] = dataArray[of[j]]]
      /\ of[j] \in Pages
      /\ pc \in [Jobs -> {"free", "queued"} \cup Writing]
      /\ snap \in [Jobs -> Nat] /\ dataArray \in [Pages -> Nat]
  BY DEF BeginInsert, WriteLockFree, JobStep, mainVars, TypeInv, TypeOK, PagesTypeOK,
         SavesTypeOK
<1>2. \A k \in Jobs : pc[k] # "inserting"
  BY <1>1, NewsAssumption DEF CacheInv, WriterInserts
<1>3. WriterInserts'
  BY <1>1, <1>2 DEF WriterInserts
<1>4. InsertsKeepUp'
  BY <1>1, <1>2 DEF InsertsKeepUp, Lagging
<1>5. \A p \in Pages : SavePending(p) => SavePending(p)'
  BY <1>1 DEF SavePending
<1>6. ASSUME clean'
      PROVE  RowsKeepUp'
  <2> SUFFICES ASSUME NEW i \in 1..Len(table)
               PROVE  /\ ~table[i].old
                      /\ Lagging(table[i].page, table[i].size, table[i].atomic)'
    BY <1>1 DEF RowsKeepUp, Lagging, SavePending
  <2>1. table[i].page \in Pages
    <3>1. table[i] \in Batch
      BY DEF TypeInv, TypeOK, PagesTypeOK, SavesTypeOK
    <3>2. QED
      BY <3>1 DEF Batch
  <2>2. ~table[i].old /\ Lagging(table[i].page, table[i].size, table[i].atomic)
    BY <1>1, <1>6 DEF CacheInv, RowsKeepUp
  <2>3. QED
    BY <1>1, <1>5, <2>1, <2>2 DEF Lagging
<1>7. QED
  BY <1>3, <1>4, <1>6 DEF CacheInv

\* The rows that a block leaves behind lag no more than its snapshot did.
LEMMA StoreCache ==
  ASSUME TypeInv, CacheInv, NEW j \in Jobs, NEW n \in Nat, NEW e \in BOOLEAN,
         UNCHANGED <<dataArray, busy, of, snap, clean>>,
         pc[j] # "queued", pc' = [pc EXCEPT ![j] = "free"],
         table' = Append(table, RowsOf(j, n, e)),
         WriterInserts',
         clean => Lagging(of[j], n, e)
  PROVE  CacheInv'
<1>1. /\ pc \in [Jobs -> {"free", "queued"} \cup Writing]
      /\ table \in Seq(Batch)
  BY DEF TypeInv, TypeOK, PagesTypeOK, SavesTypeOK
<1>2. \A p \in Pages : SavePending(p) => SavePending(p)'
  BY <1>1 DEF SavePending
<1>3. ASSUME NEW p \in Pages, NEW m, NEW x, Lagging(p, m, x)
      PROVE  /\ m <= dataArray[p]
             /\ x => m = dataArray[p] \/ SavePending(p)'
  BY <1>2, <1>3 DEF Lagging
<1>4. ASSUME clean'
      PROVE  InsertsKeepUp'
  <2> SUFFICES ASSUME NEW k \in Jobs, pc'[k] = "inserting"
               PROVE  Lagging(of[k], snap[k], TRUE)'
    BY DEF InsertsKeepUp, Lagging, SavePending
  <2>1. of[k] \in Pages /\ Lagging(of[k], snap[k], TRUE)
    BY <1>1, <1>4 DEF CacheInv, InsertsKeepUp, TypeInv, TypeOK, PagesTypeOK, SavesTypeOK
  <2>2. QED
    BY <1>2, <2>1 DEF Lagging
<1>5. ASSUME clean'
      PROVE  RowsKeepUp'
  <2> SUFFICES ASSUME NEW i \in 1..Len(table')
               PROVE  /\ ~table'[i].old
                      /\ Lagging(table[i].page, table[i].size, table[i].atomic)'
    BY DEF RowsKeepUp, Lagging, SavePending
  <2>1. CASE i \in 1..Len(table)
    <3>1. table'[i] = table[i] /\ table[i].page \in Pages
      <4>1. table'[i] = table[i] /\ table[i] \in Batch
        BY <1>1, <2>1
      <4>2. QED
        BY <4>1 DEF Batch
    <3>2. ~table[i].old /\ Lagging(table[i].page, table[i].size, table[i].atomic)
      BY <1>5, <2>1 DEF CacheInv, RowsKeepUp
    <3>3. QED
      BY <1>2, <3>1, <3>2 DEF Lagging
  <2>2. CASE i = Len(table) + 1
    <3>1. table'[i] = RowsOf(j, n, e)
      BY <1>1, <2>2
    <3>2. /\ table'[i].page = of[j] /\ table'[i].size = n /\ table'[i].atomic = e
          /\ ~table'[i].old
      BY <3>1 DEF RowsOf
    <3>3. Lagging(of[j], n, e)
      BY <1>5
    <3>4. SavePending(of[j]) => SavePending(of[j])'
      BY <1>1 DEF SavePending
    <3>5. QED
      BY <3>2, <3>3, <3>4 DEF Lagging
  <2>3. QED
    BY <1>1, <2>1, <2>2
<1>6. QED
  BY <1>4, <1>5 DEF CacheInv

LEMMA InsertCache ==
  ASSUME TypeInv, CacheInv, NEW j \in Jobs,
         \/ CommitInsert(j) \/ InsertFails(j)
         \/ \E n \in 1..(MaxItems * MaxCauses) : WriteRows(j, n)
  PROVE  CacheInv'
<1>1. /\ pc \in [Jobs -> {"free", "queued"} \cup Writing]
      /\ snap \in [Jobs -> Nat]
  BY DEF TypeInv, TypeOK, PagesTypeOK, SavesTypeOK
<1>2. CASE CommitInsert(j)
  <2>1. /\ UNCHANGED <<dataArray, busy, of, snap, clean>>
        /\ pc[j] = "inserting" /\ pc' = [pc EXCEPT ![j] = "free"]
        /\ table' = Append(table, RowsOf(j, snap[j], TRUE))
        /\ writer' = NoJob
    BY <1>2 DEF CommitInsert, JobStep, mainVars
  <2>2. WriterInserts'
    BY <1>1, <2>1, NewsAssumption DEF CacheInv, WriterInserts
  <2>3. clean => Lagging(of[j], snap[j], TRUE)
    BY <2>1 DEF CacheInv, InsertsKeepUp
  <2>4. QED
    BY <1>1, <2>1, <2>2, <2>3, StoreCache
<1>3. ASSUME NEW n \in 1..(MaxItems * MaxCauses), WriteRows(j, n)
      PROVE  CacheInv'
  <2>1. /\ UNCHANGED <<dataArray, busy, of, snap, clean, writer>>
        /\ pc[j] = "rows" /\ pc' = [pc EXCEPT ![j] = "free"]
        /\ table' = Append(table, RowsOf(j, n, FALSE))
        /\ n <= dataArray[of[j]]
    BY <1>3 DEF WriteRows, JobStep, mainVars
  <2>2. WriterInserts'
    BY <1>1, <2>1 DEF CacheInv, WriterInserts
  <2>3. Lagging(of[j], n, FALSE)
    BY <2>1 DEF Lagging
  <2>4. n \in Nat
    BY NewsAssumption
  <2>5. QED
    BY <2>1, <2>2, <2>3, <2>4, StoreCache
<1>4. CASE InsertFails(j)
  <2>1. /\ UNCHANGED <<dataArray, busy, of, snap, table, clean>>
        /\ pc[j] \in {"rows", "begin", "inserting"}
        /\ pc' = [pc EXCEPT ![j] = "free"]
        /\ writer' = IF writer = j THEN NoJob ELSE writer
    BY <1>4 DEF InsertFails, LockReleased, mainVars
  <2>2. WriterInserts'
    BY <1>1, <2>1, NewsAssumption DEF CacheInv, WriterInserts
  <2>3. \A p \in Pages : SavePending(p) => SavePending(p)'
    BY <1>1, <2>1 DEF SavePending
  <2>4. ASSUME clean'
        PROVE  InsertsKeepUp'
    <3> SUFFICES ASSUME NEW k \in Jobs, pc'[k] = "inserting"
                 PROVE  Lagging(of[k], snap[k], TRUE)'
      BY DEF InsertsKeepUp, Lagging, SavePending
    <3>1. of[k] \in Pages /\ Lagging(of[k], snap[k], TRUE)
      BY <1>1, <2>1, <2>4 DEF CacheInv, InsertsKeepUp, TypeInv, TypeOK, PagesTypeOK,
                              SavesTypeOK
    <3>2. QED
      BY <2>1, <2>3, <3>1 DEF Lagging
  <2>5. ASSUME clean'
        PROVE  RowsKeepUp'
    <3> SUFFICES ASSUME NEW i \in 1..Len(table)
                 PROVE  /\ ~table[i].old
                        /\ Lagging(table[i].page, table[i].size, table[i].atomic)'
      BY <2>1 DEF RowsKeepUp, Lagging, SavePending
    <3>1. table[i] \in Batch
      BY DEF TypeInv, TypeOK, PagesTypeOK, SavesTypeOK
    <3>2. table[i].page \in Pages
      BY <3>1 DEF Batch
    <3>3. ~table[i].old /\ Lagging(table[i].page, table[i].size, table[i].atomic)
      BY <2>1, <2>5 DEF CacheInv, RowsKeepUp
    <3>4. QED
      BY <2>1, <2>3, <3>2, <3>3 DEF Lagging
  <2>6. QED
    BY <2>2, <2>4, <2>5 DEF CacheInv
<1>5. QED
  BY <1>2, <1>3, <1>4

-----------------------------------------------------------------------------
LEMMA CacheStep == TypeInv /\ CacheInv /\ [Next]_vars => CacheInv'
<1> SUFFICES ASSUME TypeInv, CacheInv, [Next]_vars
             PROVE  CacheInv'
  OBVIOUS
<1>1. ASSUME NEW p \in Pages, UserStep(p) \/ PageStep(p)
      PROVE  CacheInv'
  BY <1>1, UserCache, PageCache
<1>2. CASE ProbePosts \/ ProbeFails \/ NetworkChanges \/ StatusNotice \/ AppendArticle
  BY <1>2, QueueCache
<1>3. ASSUME NEW j \in Jobs, DispatchSave(j) \/ SaveStep(j) \/ EnumerationFault(j)
      PROVE  CacheInv'
  BY <1>3, DispatchCache, SkipCache, DeleteCache, CountCache, BeginCache, InsertCache,
     RelaunchCache DEF SaveStep, SaveGoesOn, EnumerationFault
<1>4. CASE Relaunch
  BY <1>4, RelaunchCache
<1>5. CASE UNCHANGED vars
  <2>1. UNCHANGED cacheVars
    BY <1>5 DEF vars, cacheVars, mainVars, netVars, jobVars, storeVars
  <2>2. QED
    BY <2>1, SameCache
<1>6. QED
  BY <1>1, <1>2, <1>3, <1>4, <1>5 DEF Next

LEMMA TypeStep == TypeInv /\ [Next]_vars => TypeInv'
<1> SUFFICES ASSUME TypeInv, [Next]_vars
             PROVE  TypeInv'
  OBVIOUS
<1>1. CASE UNCHANGED vars
  BY <1>1 DEF vars, mainVars, netVars, jobVars, storeVars, TypeInv, TypeOK, PagesTypeOK,
              SavesTypeOK,
              NoticesFindOwner, SaveHasArticles
<1>2. CASE Next
  BY <1>2, UserType, PageType, QueueType, SaveType, RelaunchType
     DEF Next, EnumerationFault
<1>3. QED
  BY <1>1, <1>2

\* The state of the pages, of the save blocks and of the table keeps its types,
\* and a reachability block on its way always finds a page registered.
THEOREM TypeCorrect == Spec => []TypeInv
<1>1. TypeInv /\ [Next]_vars => TypeInv'
  BY TypeStep
<1>2. QED
  BY <1>1, InitType, PTL DEF Spec

\* The type invariant that the runs check, without what its proof adds.
THEOREM TypeOKHolds == Spec => []TypeOK
<1>1. TypeInv => TypeOK
  BY DEF TypeInv
<1>2. QED
  BY <1>1, TypeCorrect, PTL

\* However the save blocks of the pages interleave with each other, with the
\* success blocks that append to the arrays they enumerate, with failures of
\* single statements and with deaths of the process: at rest, after a delete
\* that went through, the cache holds the current list of each page in it.
THEOREM CacheCorrect == Spec => []SettledCacheIsCurrent
<1>1. TypeInv /\ CacheInv /\ [Next]_vars => CacheInv'
  BY CacheStep
<1>2. TypeInv /\ CacheInv => SettledCacheIsCurrent
  <2> SUFFICES ASSUME TypeInv, CacheInv, Quiet, clean, NEW i \in 1..Len(table)
               PROVE  /\ ~table[i].old
                      /\ table[i].atomic => table[i].size = dataArray[table[i].page]
    BY DEF SettledCacheIsCurrent
  <2>1. table[i] \in Batch
    BY DEF TypeInv, TypeOK, PagesTypeOK, SavesTypeOK
  <2>2. table[i].page \in Pages
    BY <2>1 DEF Batch
  <2>3. ~SavePending(table[i].page)
    BY <2>2, NewsAssumption DEF Quiet, SavePending
  <2>4. QED
    BY <2>3 DEF CacheInv, RowsKeepUp, Lagging
<1>3. QED
  BY <1>1, <1>2, InitCache, TypeCorrect, PTL DEF Spec

\* No order of pulls, status blocks, callbacks and queued endRefreshing blocks
\* leaves a header refreshing with nothing on the way that would end it.
THEOREM HeaderCorrect == Spec => []NoStuckHeader
<1>1. Init => NoStuckHeader
  BY DEF Init, NoStuckHeader
<1>2. TypeInv /\ NoStuckHeader /\ [Next]_vars => NoStuckHeader'
  <2> SUFFICES ASSUME TypeInv, NoStuckHeader, [Next]_vars, NEW q \in Pages,
                      header'[q] = "Refreshing"
               PROVE  calls'[q] > 0 \/ ends'[q] > 0
    BY DEF NoStuckHeader
  <2>1. /\ header \in [Pages -> {"Idle", "Pulling", "WillRefresh", "Refreshing"}]
        /\ calls \in [Pages -> Nat] /\ ends \in [Pages -> Nat]
        /\ header[q] = "Refreshing" => calls[q] > 0 \/ ends[q] > 0
    BY DEF TypeInv, TypeOK, PagesTypeOK, SavesTypeOK, NoStuckHeader
  <2>2. ASSUME NEW p \in Pages, UserStep(p)
        PROVE  calls'[q] > 0 \/ ends'[q] > 0
    BY <2>1, <2>2 DEF UserStep, OpenPage, Pull, PullBack, LetGo, DrawHeader, Refreshes
  <2>3. ASSUME NEW p \in Pages, PageStep(p)
        PROVE  calls'[q] > 0 \/ ends'[q] > 0
    BY <2>1, <2>3 DEF PageStep, RefreshingBlock, EndRefreshing, Answer, LoadData
  <2>4. CASE StatusNotice
    BY <2>1, <2>4 DEF StatusNotice, LoadData, TypeInv, NoticesFindOwner, TypeOK,
                      PagesTypeOK, SavesTypeOK
  <2>5. CASE ProbePosts \/ ProbeFails \/ NetworkChanges \/ AppendArticle
    BY <2>1, <2>5 DEF ProbePosts, ProbeFails, NetworkChanges, AppendArticle, mainVars
  <2>6. ASSUME NEW j \in Jobs, DispatchSave(j) \/ SaveStep(j)
        PROVE  calls'[q] > 0 \/ ends'[q] > 0
    BY <2>1, <2>6 DEF DispatchSave, SaveStep, SaveGoesOn, SaveSkips, SaveDeletes,
                      SaveDeleteFails,
       CountObjects, BeginInsert, CommitInsert, WriteRows, InsertFails, mainVars
  <2>7. CASE Relaunch
    BY <2>7 DEF Relaunch
  <2>8. CASE UNCHANGED vars
    BY <2>1, <2>8 DEF vars, mainVars
  <2>9. QED
    BY <2>2, <2>3, <2>4, <2>5, <2>6, <2>7, <2>8 DEF Next, EnumerationFault
<1>3. QED
  BY <1>1, <1>2, TypeCorrect, PTL DEF Spec
-----------------------------------------------------------------------------
(***************************************************************************)
(* The size of the cache.  Both facts are inductive with the types: a      *)
(* block that writes holds a place for the batch it will add, and gives it *)
(* up in the step that adds the batch or fails.                            *)
(***************************************************************************)
Writers == {j \in Jobs : pc[j] \in Writing}

LEMMA WritersFinite ==
  /\ IsFiniteSet(Writers) /\ Cardinality(Writers) \in Nat
  /\ Cardinality(Writers) <= Cardinality(Jobs)
  /\ Cardinality(Jobs) \in Nat
<1>1. Writers \in SUBSET Jobs
  BY DEF Writers
<1>2. QED
  BY <1>1, FS_Subset, FS_CardinalityType

\* A step that leaves the save blocks and the table alone.
LEMMA SameSize ==
  ASSUME CacheBounded, EmptyOnlyBetweenDeleteAndInsert,
         UNCHANGED <<pc, table, clean, dropped>>
  PROVE  CacheBounded' /\ EmptyOnlyBetweenDeleteAndInsert'
  BY DEF CacheBounded, EmptyOnlyBetweenDeleteAndInsert

\* A block that goes on between its delete and its insert.
LEMMA StillWriting ==
  ASSUME TypeInv, CacheBounded, EmptyOnlyBetweenDeleteAndInsert,
         NEW j \in Jobs, NEW to \in Writing, pc[j] \in Writing,
         pc' = [pc EXCEPT ![j] = to], UNCHANGED <<table, clean, dropped>>
  PROVE  CacheBounded' /\ EmptyOnlyBetweenDeleteAndInsert'
<1>1. \A k \in Jobs : pc'[k] \in Writing <=> pc[k] \in Writing
  BY DEF TypeInv, TypeOK, SavesTypeOK
<1>2. {k \in Jobs : pc'[k] \in Writing} = {k \in Jobs : pc[k] \in Writing}
  BY <1>1
<1>3. CacheBounded'
  BY <1>2 DEF CacheBounded
<1>4. EmptyOnlyBetweenDeleteAndInsert'
  BY <1>1 DEF EmptyOnlyBetweenDeleteAndInsert
<1>5. QED
  BY <1>3, <1>4

\* A block that has nothing to save leaves, or one is queued.
LEMMA NeverWrote ==
  ASSUME TypeInv, CacheBounded, EmptyOnlyBetweenDeleteAndInsert,
         NEW j \in Jobs, NEW to \in {"free", "queued"}, pc[j] \notin Writing,
         pc' = [pc EXCEPT ![j] = to], UNCHANGED <<table, clean, dropped>>
  PROVE  CacheBounded' /\ EmptyOnlyBetweenDeleteAndInsert'
<1>1. \A k \in Jobs : pc'[k] \in Writing <=> pc[k] \in Writing
  BY DEF TypeInv, TypeOK, SavesTypeOK, Writing
<1>2. {k \in Jobs : pc'[k] \in Writing} = {k \in Jobs : pc[k] \in Writing}
  BY <1>1
<1>3. CacheBounded'
  BY <1>2 DEF CacheBounded
<1>4. EmptyOnlyBetweenDeleteAndInsert'
  BY <1>1 DEF EmptyOnlyBetweenDeleteAndInsert
<1>5. QED
  BY <1>3, <1>4

\* A block that is done gives up its place.
LEMMA PlaceGivenUp ==
  ASSUME TypeInv, NEW j \in Jobs, pc[j] \in Writing,
         pc' = [pc EXCEPT ![j] = "free"]
  PROVE  Cardinality(Writers') = Cardinality(Writers) - 1
<1>1. Writers' = Writers \ {j}
  BY DEF Writers, Writing, TypeInv, TypeOK, SavesTypeOK
<1>2. j \in Writers
  BY DEF Writers
<1>3. QED
  BY <1>1, <1>2, WritersFinite, FS_RemoveElement

\* The batch of a block that is done takes the block's place.
LEMMA InsertSize ==
  ASSUME TypeInv, CacheBounded, NEW j \in Jobs, NEW batch \in Batch,
         pc[j] \in Writing, pc' = [pc EXCEPT ![j] = "free"],
         table' = Append(table, batch), clean' = clean
  PROVE  CacheBounded' /\ EmptyOnlyBetweenDeleteAndInsert'
<1>1. table \in Seq(Batch)
  BY DEF TypeInv, TypeOK, SavesTypeOK
<1>2. Len(table') = Len(table) + 1 /\ table' # <<>> /\ Len(table) \in Nat
  BY <1>1
<1>3. CacheBounded'
  <2>1. clean => Len(table) + Cardinality(Writers) <= Cardinality(Jobs)
    BY DEF CacheBounded, Writers
  <2>2. Cardinality(Writers') = Cardinality(Writers) - 1
    BY PlaceGivenUp
  <2>3. Cardinality(Writers) \in Nat /\ Cardinality(Jobs) \in Nat
    BY WritersFinite
  <2>4. ASSUME clean' PROVE Len(table') + Cardinality(Writers') <= Cardinality(Jobs)
    BY <1>2, <2>1, <2>2, <2>3, <2>4
  <2>5. QED
    BY <2>4 DEF CacheBounded, Writers
<1>4. QED
  BY <1>2, <1>3 DEF EmptyOnlyBetweenDeleteAndInsert

LEMMA SaveSize ==
  ASSUME TypeInv, CacheBounded, EmptyOnlyBetweenDeleteAndInsert,
         NEW j \in Jobs, SaveStep(j)
  PROVE  CacheBounded' /\ EmptyOnlyBetweenDeleteAndInsert'
<1>1. CASE SaveSkips(j)
  <2>1. /\ pc[j] \notin Writing /\ pc' = [pc EXCEPT ![j] = "free"]
        /\ UNCHANGED <<table, clean, dropped>>
    BY <1>1 DEF SaveSkips, JobStep, Writing, storeVars
  <2>2. QED
    BY <2>1, NeverWrote
<1>2. CASE SaveDeletes(j)
  <2>1. table' = <<>> /\ pc'[j] \in Writing
    BY <1>2 DEF SaveDeletes, RowsAfterDelete, JobStep, Writing, TypeInv, TypeOK, SavesTypeOK
  <2>2. Cardinality(Writers') <= Cardinality(Jobs) /\ Cardinality(Writers') \in Nat
    <3>1. Writers' \in SUBSET Jobs
      BY DEF Writers
    <3>2. QED
      BY <3>1, FS_Subset, FS_CardinalityType
  <2>3. Len(table') = 0
    BY <2>1
  <2>4. CacheBounded'
    BY <2>2, <2>3 DEF CacheBounded, Writers
  <2>5. QED
    BY <2>1, <2>4 DEF EmptyOnlyBetweenDeleteAndInsert
<1>3. CASE SaveDeleteFails(j)
  BY <1>3 DEF SaveDeleteFails, CacheBounded, EmptyOnlyBetweenDeleteAndInsert
<1>4. CASE CountObjects(j) \/ BeginInsert(j)
  <2>1. PICK to \in Writing : pc' = [pc EXCEPT ![j] = to]
    BY <1>4 DEF CountObjects, BeginInsert, JobStep, Writing
  <2>2. pc[j] \in Writing /\ UNCHANGED <<table, clean, dropped>>
    BY <1>4 DEF CountObjects, BeginInsert, JobStep, Writing, storeVars
  <2>3. QED
    BY <2>1, <2>2, StillWriting
<1>5. CASE CommitInsert(j)
  <2>1. /\ pc[j] \in Writing /\ pc' = [pc EXCEPT ![j] = "free"] /\ clean' = clean
        /\ table' = Append(table, RowsOf(j, snap[j], TRUE))
    BY <1>5 DEF CommitInsert, JobStep, Writing
  <2>2. /\ snap[j] > 0 /\ snap[j] \in Nat /\ of[j] \in Pages
    BY <1>5 DEF CommitInsert, JobStep, TypeInv, TypeOK, SavesTypeOK, SaveHasArticles
  <2>3. RowsOf(j, snap[j], TRUE) \in Batch
    BY <2>2 DEF RowsOf, Batch
  <2>4. QED
    BY <2>1, <2>3, InsertSize
<1>6. ASSUME NEW n \in 1..(MaxItems * MaxCauses), WriteRows(j, n)
      PROVE  CacheBounded' /\ EmptyOnlyBetweenDeleteAndInsert'
  <2>1. /\ pc[j] \in Writing /\ pc' = [pc EXCEPT ![j] = "free"] /\ clean' = clean
        /\ table' = Append(table, RowsOf(j, n, FALSE))
    BY <1>6 DEF WriteRows, JobStep, Writing
  <2>2. n \in Nat \ {0} /\ of[j] \in Pages
    BY <1>6 DEF WriteRows, JobStep, TypeInv, TypeOK, SavesTypeOK
  <2>3. RowsOf(j, n, FALSE) \in Batch
    BY <2>2 DEF RowsOf, Batch
  <2>4. QED
    BY <2>1, <2>3, InsertSize
<1>7. CASE InsertFails(j)
  <2>1. /\ pc[j] \in Writing /\ pc' = [pc EXCEPT ![j] = "free"]
        /\ UNCHANGED <<table, clean>> /\ dropped'
    BY <1>7 DEF InsertFails, Writing
  <2>2. Len(table) \in Nat
    BY DEF TypeInv, TypeOK, SavesTypeOK
  <2>3. CacheBounded'
    <3>1. clean => Len(table) + Cardinality(Writers) <= Cardinality(Jobs)
      BY DEF CacheBounded, Writers
    <3>2. Cardinality(Writers') = Cardinality(Writers) - 1
      BY <2>1, PlaceGivenUp
    <3>3. Cardinality(Writers) \in Nat /\ Cardinality(Jobs) \in Nat
      BY WritersFinite
    <3>4. ASSUME clean' PROVE Len(table') + Cardinality(Writers') <= Cardinality(Jobs)
      BY <2>1, <2>2, <3>1, <3>2, <3>3, <3>4
    <3>5. QED
      BY <3>4 DEF CacheBounded, Writers
  <2>4. QED
    BY <2>1, <2>3 DEF EmptyOnlyBetweenDeleteAndInsert
<1>8. QED
  BY <1>1, <1>2, <1>3, <1>4, <1>5, <1>6, <1>7 DEF SaveStep, SaveGoesOn

LEMMA SizeStep ==
  TypeInv /\ CacheBounded /\ EmptyOnlyBetweenDeleteAndInsert /\ [Next]_vars
    => CacheBounded' /\ EmptyOnlyBetweenDeleteAndInsert'
<1> SUFFICES ASSUME TypeInv, CacheBounded, EmptyOnlyBetweenDeleteAndInsert, [Next]_vars
             PROVE  CacheBounded' /\ EmptyOnlyBetweenDeleteAndInsert'
  OBVIOUS
<1>1. ASSUME NEW p \in Pages, UserStep(p) \/ PageStep(p)
      PROVE  UNCHANGED <<pc, table, clean, dropped>>
  BY <1>1 DEF UserStep, OpenPage, Pull, PullBack, LetGo, DrawHeader, PageStep,
              RefreshingBlock, EndRefreshing, Answer, jobVars, storeVars
<1>2. ASSUME \/ ProbePosts \/ ProbeFails \/ NetworkChanges \/ StatusNotice
             \/ AppendArticle \/ UNCHANGED vars
      PROVE  UNCHANGED <<pc, table, clean, dropped>>
  BY <1>2 DEF ProbePosts, ProbeFails, NetworkChanges, StatusNotice, AppendArticle, vars,
              jobVars, storeVars
<1>3. ASSUME NEW j \in Jobs, DispatchSave(j)
      PROVE  CacheBounded' /\ EmptyOnlyBetweenDeleteAndInsert'
  <2>1. /\ pc[j] \notin Writing /\ pc' = [pc EXCEPT ![j] = "queued"]
        /\ UNCHANGED <<table, clean, dropped>>
    BY <1>3 DEF DispatchSave, Writing, storeVars
  <2>2. QED
    BY <2>1, NeverWrote
<1>4. CASE Relaunch
  BY <1>4 DEF Relaunch, CacheBounded, EmptyOnlyBetweenDeleteAndInsert
<1>5. QED
  BY <1>1, <1>2, <1>3, <1>4, SameSize, SaveSize DEF Next, EnumerationFault

\* However many refreshes there are, the cache never holds more batches than
\* save blocks could run at once while the deletes go through, those that are
\* still to be inserted included.
THEOREM CacheSizeCorrect == Spec => []CacheBounded
<1>1. Init => CacheBounded /\ EmptyOnlyBetweenDeleteAndInsert
  BY DEF Init, CacheBounded, EmptyOnlyBetweenDeleteAndInsert
<1>2. QED
  BY <1>1, SizeStep, TypeCorrect, PTL DEF Spec

\* After a delete of this launch the table is empty only while a save block
\* stands between its delete and its insert, or after an insert failed.
THEOREM EmptyCacheExplained == Spec => []EmptyOnlyBetweenDeleteAndInsert
<1>1. Init => CacheBounded /\ EmptyOnlyBetweenDeleteAndInsert
  BY DEF Init, CacheBounded, EmptyOnlyBetweenDeleteAndInsert
<1>2. QED
  BY <1>1, SizeStep, TypeCorrect, PTL DEF Spec

-----------------------------------------------------------------------------
\* The page that is registered gets its first load: whichever of the pages'
\* reads of the flags posts first finds it registered, and only failed reads
\* leave it without one.
THEOREM LoadsCorrect == Spec => []NewestPageLoads
<1>1. Init => NewestPageLoads
  BY DEF Init, NewestPageLoads
<1>2. TypeInv /\ NewestPageLoads /\ [Next]_vars => NewestPageLoads'
  <2> SUFFICES ASSUME TypeInv, NewestPageLoads, [Next]_vars, NEW q \in Pages,
                      owner' = q, loads'[q] = 0
               PROVE  probes' + notices' > 0 \/ q \in unread'
    BY DEF NewestPageLoads
  <2> USE DEF mainVars, netVars
  <2>1. /\ probes \in Nat /\ notices \in Nat /\ loads \in [Pages -> Nat]
        /\ owner = q /\ loads[q] = 0 => probes + notices > 0 \/ q \in unread
    BY DEF TypeInv, TypeOK, PagesTypeOK, NewestPageLoads
  <2>2. ASSUME NEW p \in Pages, OpenPage(p)
        PROVE  probes' + notices' > 0
    BY <2>1, <2>2 DEF OpenPage, StartMonitoring
  <2>3. CASE ProbePosts \/ ProbeFails \/ NetworkChanges
    BY <2>1, <2>3 DEF ProbePosts, ProbeFails, NetworkChanges
  <2>4. CASE StatusNotice
    <3>1. owner = q /\ loads' = [loads EXCEPT ![q] = @ + 1]
      BY <2>4 DEF StatusNotice, LoadData
    <3>2. QED
      BY <2>1, <3>1
  <2>5. ASSUME NEW p \in Pages, RefreshingBlock(p)
        PROVE  probes' + notices' > 0 \/ q \in unread'
    <3>1. /\ loads' = [loads EXCEPT ![p] = @ + 1]
          /\ UNCHANGED <<owner, probes, notices, unread>>
      BY <2>5 DEF RefreshingBlock, LoadData
    <3>2. loads[q] = 0
      BY <2>1, <3>1
    <3>3. QED
      BY <2>1, <3>1, <3>2
  <2>6. CASE Relaunch
    BY <2>6 DEF Relaunch
  <2>7. ASSUME NEW p \in Pages,
               \/ Pull(p) \/ PullBack(p) \/ LetGo(p) \/ DrawHeader(p) \/ EndRefreshing(p)
               \/ \E n \in 0..MaxItems : Answer(p, n)
        PROVE  probes' + notices' > 0 \/ q \in unread'
    BY <2>1, <2>7 DEF Pull, PullBack, LetGo, DrawHeader, EndRefreshing, Answer
  <2>8. CASE AppendArticle \/ UNCHANGED vars
    BY <2>1, <2>8 DEF AppendArticle, vars
  <2>9. ASSUME NEW j \in Jobs, DispatchSave(j) \/ SaveStep(j)
        PROVE  probes' + notices' > 0 \/ q \in unread'
    BY <2>1, <2>9
       DEF DispatchSave, SaveStep, SaveGoesOn, SaveSkips, SaveDeletes, SaveDeleteFails,
           CountObjects, BeginInsert, CommitInsert, WriteRows, InsertFails
  <2>10. QED
    BY <2>2, <2>3, <2>4, <2>5, <2>6, <2>7, <2>8, <2>9
       DEF Next, UserStep, PageStep, EnumerationFault
<1>3. QED
  BY <1>1, <1>2, TypeCorrect, PTL DEF Spec

-----------------------------------------------------------------------------
\* Every step of the pages is a step of StatusNotices or changes nothing that
\* it speaks of.
LEMMA NoticesStep == [Next]_vars => [Notices!Next]_(Notices!vars)
  <1> SUFFICES ASSUME [Next]_vars
               PROVE  Notices!Next \/ UNCHANGED <<owner, probes, notices>>
    BY DEF Notices!vars
  <1> USE DEF mainVars, netVars, jobVars, storeVars
  <1>1. ASSUME NEW p \in Pages, OpenPage(p) PROVE Notices!Next
    <2>1. owner' # NoPage /\ probes' = probes + 1 /\ UNCHANGED notices
      BY <1>1, NewsAssumption DEF OpenPage, StartMonitoring
    <2> QED
      BY <2>1 DEF Notices!Next, Notices!Start
  <1>2. CASE ProbePosts \/ ProbeFails
    BY <1>2 DEF ProbePosts, ProbeFails, Notices!Next, Notices!Answer
  <1>3. CASE NetworkChanges
    BY <1>3 DEF NetworkChanges, Notices!Next, Notices!Change
  <1>4. CASE StatusNotice
    BY <1>4 DEF StatusNotice, Notices!Next, Notices!Hear
  <1>5. CASE Relaunch
    BY <1>5 DEF Relaunch, Notices!Next, Notices!Exit
  <1>6. ASSUME NEW p \in Pages, Pull(p) \/ PullBack(p) \/ LetGo(p) \/ DrawHeader(p) \/ PageStep(p)
        PROVE  UNCHANGED <<owner, probes, notices>>
    BY <1>6 DEF Pull, PullBack, LetGo, DrawHeader, PageStep, RefreshingBlock, EndRefreshing, Answer
  <1>7. CASE AppendArticle
    BY <1>7 DEF AppendArticle
  <1>8. ASSUME NEW j \in Jobs, DispatchSave(j) \/ SaveStep(j)
        PROVE  UNCHANGED <<owner, probes, notices>>
    BY <1>8 DEF DispatchSave, SaveStep, SaveGoesOn, SaveSkips, SaveDeletes, SaveDeleteFails,
                CountObjects, BeginInsert, CommitInsert, WriteRows, InsertFails
  <1>9. ASSUME NEW j \in Jobs, EnumerationFault(j) PROVE Relaunch
    BY <1>9 DEF EnumerationFault
  <1>10. CASE UNCHANGED vars
    BY <1>10 DEF vars
  <1> QED
    BY <1>1, <1>2, <1>3, <1>4, <1>5, <1>6, <1>7, <1>8, <1>9, <1>10
       DEF Next, UserStep

\* The pages assume no more of the reachability manager than StatusNotices
\* says, which Reachability_proofs shows of it.
THEOREM NoticesAssumed == Spec => UsesNoticesPromise
  <1>1. Init => Notices!Init
    BY DEF Init, Notices!Init
  <1> QED
    BY <1>1, NoticesStep, PTL DEF Spec, UsesNoticesPromise, Notices!Spec
=============================================================================
