-------------------------- MODULE CircleFeed_proofs --------------------------
(***************************************************************************)
(* What holds of CircleFeed for any posts, texts, pictures and comments.   *)
(***************************************************************************)
EXTENDS CircleFeed, TLAPS

USE CircleAssumption

\* What the view model caches is what it would compute now, and the table view
\* was told of it; only a long text is ever unfolded.
CachesFresh ==
  \A p \in Posts :
    /\ likerRowHeight[p] = LikerRowHeight(likes[p])
    /\ commentHeights[p] = comments[p]
    /\ cellCount[p] = AllCellCount(likes[p], comments[p])
    /\ told[p] = cellCount[p]
    /\ headerHeight[p] = HeaderHeight(content[p], pictures[p], p \in folding)
    /\ p \in folding => content[p] > FoldedHeight
    /\ content[p] > 0 \/ pictures[p] > 0

\* The keyboard is only up on the screen, where its observers are registered.
Observed ==
  /\ observing <=> onScreen
  /\ typing => onScreen
  /\ typing <=> Covered

LEMMA CellCountType ==
  ASSUME NEW users, NEW n \in Nat
  PROVE  AllCellCount(users, n) \in Nat
  BY DEF AllCellCount

LEMMA HeaderHeightType ==
  ASSUME NEW c \in Nat, NEW n \in Nat, NEW b \in BOOLEAN
  PROVE  HeaderHeight(c, n, b) \in Nat
<1>1. ImageViewHeight(n) \in Nat
  BY DEF ImageViewHeight
<1>2. QED
  BY <1>1 DEF HeaderHeight, FoldedHeight

\* The layout's arithmetic, with FoldedHeight's button and without.
LEMMA HeaderHolds ==
  ASSUME TypeOK, CachesFresh
  PROVE  HeaderFits
<1> SUFFICES ASSUME NEW p \in Posts
             PROVE  /\ MenuBottom(p) <= headerHeight[p]
                    /\ PicturesBottom(p) <= ImageViewHeight(pictures[p])
  BY DEF HeaderFits
<1> DEFINE i == ImageViewHeight(pictures[p])
<1>1. content[p] \in Nat /\ pictures[p] \in Nat
  BY DEF TypeOK, PostsTypeOK
<1>2. i \in Nat /\ (i = 0 <=> pictures[p] = 0)
  BY <1>1 DEF ImageViewHeight
<1>3. PicturesBottom(p) <= i
  BY <1>1 DEF PicturesBottom, ImageViewHeight
<1>4. /\ headerHeight[p] = HeaderHeight(content[p], pictures[p], p \in folding)
      /\ p \in folding => content[p] > FoldedHeight
      /\ content[p] > 0 \/ pictures[p] > 0
  BY DEF CachesFresh
<1>5. MenuBottom(p) = AbovePictures(p) + (IF pictures[p] = 0 THEN 33 ELSE i + 41)
  <2>1. AbovePictures(p) \in Nat
    BY <1>1 DEF AbovePictures, ContentBottom, FoldingButtonHidden, NameBottom, FoldedHeight
  <2>2. QED
    BY <1>2, <2>1 DEF MenuBottom, TimeTop
<1>6. MenuBottom(p) <= HeaderHeight(content[p], pictures[p], p \in folding)
  <2> HIDE DEF i
  <2>1. CASE p \in folding
    BY <1>1, <1>2, <1>4, <1>5, <2>1
    DEF AbovePictures, ContentBottom, FoldingButtonHidden, NameBottom, FoldedHeight, HeaderHeight, i
  <2>2. CASE p \notin folding /\ content[p] = 0
    BY <1>1, <1>2, <1>4, <1>5, <2>2
    DEF AbovePictures, ContentBottom, FoldingButtonHidden, NameBottom, FoldedHeight, HeaderHeight, i
  <2>3. CASE p \notin folding /\ content[p] > 0
    BY <1>1, <1>2, <1>4, <1>5, <2>3
    DEF AbovePictures, ContentBottom, FoldingButtonHidden, NameBottom, FoldedHeight, HeaderHeight, i
  <2>4. QED
    BY <1>1, <2>1, <2>2, <2>3
<1>7. QED
  BY <1>3, <1>4, <1>6

LEMMA InitFresh == Init => TypeOK /\ CachesFresh /\ Observed
<1> SUFFICES ASSUME Init PROVE TypeOK /\ CachesFresh /\ Observed
  OBVIOUS
<1>1. /\ content \in [Posts -> Nat] /\ pictures \in [Posts -> Nat]
      /\ comments \in [Posts -> Nat] /\ likes \in [Posts -> SUBSET People]
  <2>1. content \in [Posts -> ContentHeights] /\ pictures \in [Posts -> PictureCounts]
    BY DEF Init
  <2>2. comments \in [Posts -> 0..MaxComments] /\ likes \in [Posts -> SUBSET Friends]
    BY DEF Init
  <2>3. 0..MaxComments \subseteq Nat
    OBVIOUS
  <2>4. QED
    BY <2>1, <2>2, <2>3 DEF People
<1>2. ASSUME NEW p \in Posts
      PROVE  /\ HeaderHeight(content[p], pictures[p], FALSE) \in Nat
             /\ AllCellCount(likes[p], comments[p]) \in Nat
             /\ LikerRowHeight(likes[p]) \in Nat
  BY <1>1, HeaderHeightType, CellCountType DEF LikerRowHeight
<1>3. /\ likerRowHeight = [p \in Posts |-> LikerRowHeight(likes[p])]
      /\ commentHeights = comments
      /\ cellCount = [p \in Posts |-> AllCellCount(likes[p], comments[p])]
      /\ headerHeight = [p \in Posts |-> HeaderHeight(content[p], pictures[p], FALSE)]
      /\ told = cellCount
      /\ folding = {}
      /\ \A p \in Posts : content[p] > 0 \/ pictures[p] > 0
  BY DEF Init
<1>4. PostsTypeOK
  <2>1. /\ likerRowHeight \in [Posts -> Nat] /\ cellCount \in [Posts -> Nat]
        /\ headerHeight \in [Posts -> Nat]
    BY <1>2, <1>3
  <2>2. content \in [Posts -> ContentHeights] /\ pictures \in [Posts -> PictureCounts]
    BY DEF Init
  <2>3. QED
    BY <1>1, <1>3, <2>1, <2>2 DEF PostsTypeOK
<1>5. ScreenTypeOK
  BY DEF Init, ScreenTypeOK
<1>6. CachesFresh
  <2>1. \A p \in Posts : (p \in folding) = FALSE
    BY <1>3
  <2>2. QED
    BY <1>3, <2>1 DEF CachesFresh
<1>7. Observed
  BY DEF Init, Observed, Covered
<1>8. QED
  BY <1>4, <1>5, <1>6, <1>7 DEF TypeOK

\* Opening and shutting menus, the keyboard and the trips to other pages leave
\* the posts and everything computed from them alone.
Untouched == UNCHANGED <<postVars, cacheVars, told>>

LEMMA SameCaches ==
  ASSUME PostsTypeOK, CachesFresh, Untouched
  PROVE  PostsTypeOK' /\ CachesFresh'
  BY DEF PostsTypeOK, CachesFresh, Untouched, postVars, cacheVars

LEMMA QuietStep ==
  ASSUME TypeOK, CachesFresh, Observed,
         \/ \E p \in Posts : ShutMenu(p) \/ ClickCommentButton(p) \/ DidClickCommentButton(p)
         \/ Type \/ TouchCover \/ ReturnEmpty \/ ViewWillDisappear \/ ViewWillAppear
  PROVE  TypeOK' /\ CachesFresh' /\ Observed'
<1>1. Untouched
  BY DEF Untouched, ShutMenu, ClickCommentButton, DidClickCommentButton, Type, TouchCover,
         ReturnEmpty, ViewWillDisappear, ViewWillAppear
<1>2. PostsTypeOK' /\ CachesFresh'
  BY <1>1, SameCaches DEF TypeOK
<1>3. CASE \E p \in Posts : ShutMenu(p) \/ ClickCommentButton(p)
  <2>1. menu' \in [Posts -> {"shut", "like", "cancel"}]
    BY <1>3 DEF ShutMenu, ClickCommentButton, TypeOK, ScreenTypeOK
  <2>2. UNCHANGED <<section, typing, text, hidden, spread, observing, onScreen, raised>>
    BY <1>3 DEF ShutMenu, ClickCommentButton, inputVars
  <2>3. QED
    BY <1>2, <2>1, <2>2 DEF TypeOK, ScreenTypeOK, Observed, Covered
<1>4. ASSUME NEW p \in Posts, DidClickCommentButton(p)
      PROVE  TypeOK' /\ CachesFresh' /\ Observed'
  <2>1. menu' \in [Posts -> {"shut", "like", "cancel"}]
    BY <1>4 DEF DidClickCommentButton, TypeOK, ScreenTypeOK
  <2>2. /\ section' = p /\ hidden' = FALSE /\ typing' = TRUE
        /\ UNCHANGED <<text, observing, onScreen>>
    BY <1>4 DEF DidClickCommentButton
  <2>3. onScreen /\ observing
    BY <1>4 DEF DidClickCommentButton, Reachable, Observed
  <2>4. spread' = TRUE
    BY <1>4, <2>3 DEF DidClickCommentButton, KeyboardWillShow
  <2>5. raised' \in BOOLEAN
    BY <1>4 DEF DidClickCommentButton
  <2>6. ScreenTypeOK'
    BY <2>1, <2>2, <2>4, <2>5 DEF TypeOK, ScreenTypeOK
  <2>7. Observed'
    BY <2>2, <2>3, <2>4 DEF Observed, Covered
  <2>8. QED
    BY <1>2, <2>6, <2>7 DEF TypeOK
<1>5. CASE Type
  BY <1>2, <1>5 DEF Type, TypeOK, ScreenTypeOK, Observed, Covered
<1>6. CASE TouchCover \/ ReturnEmpty
  BY <1>2, <1>6 DEF TouchCover, ReturnEmpty, KeyboardWillHide, TypeOK, ScreenTypeOK,
                    Observed, Covered
<1>7. CASE ViewWillDisappear
  BY <1>2, <1>7 DEF ViewWillDisappear, Reachable, inputVars, TypeOK, ScreenTypeOK,
                    Observed, Covered
<1>8. CASE ViewWillAppear
  BY <1>2, <1>8 DEF ViewWillAppear, inputVars, TypeOK, ScreenTypeOK, Observed, Covered
<1>9. QED
  BY <1>3, <1>4, <1>5, <1>6, <1>7, <1>8

LEMMA LikeStep ==
  ASSUME TypeOK, CachesFresh, Observed, NEW p \in Posts, DidClickLikeButton(p)
  PROVE  TypeOK' /\ CachesFresh' /\ Observed'
<1>1. /\ UNCHANGED <<content, pictures, comments, folding, commentHeights, headerHeight,
                     inputVars, observing, onScreen, raised>>
      /\ menu' = [q \in Posts |-> "shut"] /\ told' = cellCount'
  BY DEF DidClickLikeButton, ReloadData
<1>2. likes' \in [Posts -> SUBSET People]
  BY DEF DidClickLikeButton, TypeOK, PostsTypeOK, People
<1>3. LikerRowHeight(likes'[p]) \in Nat /\ AllCellCount(likes'[p], comments[p]) \in Nat
  BY CellCountType DEF LikerRowHeight, TypeOK, PostsTypeOK
<1>4. likerRowHeight' \in [Posts -> Nat] /\ cellCount' \in [Posts -> Nat]
  BY <1>3 DEF DidClickLikeButton, TypeOK, PostsTypeOK
<1>5. PostsTypeOK'
  BY <1>1, <1>2, <1>4 DEF TypeOK, PostsTypeOK
<1>6. ScreenTypeOK' /\ Observed'
  BY <1>1 DEF TypeOK, ScreenTypeOK, Observed, Covered, inputVars
<1>7. CachesFresh'
  <2> SUFFICES ASSUME NEW q \in Posts
               PROVE  /\ likerRowHeight'[q] = LikerRowHeight(likes'[q])
                      /\ cellCount'[q] = AllCellCount(likes'[q], comments[q])
    BY <1>1 DEF CachesFresh
  <2>1. CASE q = p
    BY <2>1 DEF DidClickLikeButton, TypeOK, PostsTypeOK
  <2>2. CASE q # p
    BY <2>2 DEF DidClickLikeButton, TypeOK, PostsTypeOK, CachesFresh
  <2>3. QED
    BY <2>1, <2>2
<1>8. QED
  BY <1>5, <1>6, <1>7 DEF TypeOK

LEMMA FoldStep ==
  ASSUME TypeOK, CachesFresh, Observed, NEW p \in Posts, FoldingContent(p)
  PROVE  TypeOK' /\ CachesFresh' /\ Observed'
<1>1. /\ UNCHANGED <<content, pictures, likes, comments, likerRowHeight, commentHeights,
                     cellCount, inputVars, observing, onScreen, raised>>
      /\ menu' = [q \in Posts |-> "shut"] /\ told' = cellCount'
      /\ content[p] > FoldedHeight
  BY DEF FoldingContent, ReloadData
<1>2. /\ folding' \subseteq Posts
      /\ \A q \in Posts : q # p => (q \in folding' <=> q \in folding)
  BY DEF FoldingContent, TypeOK, PostsTypeOK
<1>3. headerHeight' = [headerHeight EXCEPT ![p] =
                         HeaderHeight(content[p], pictures[p], p \in folding')]
  BY DEF FoldingContent
<1>4. content[p] \in Nat /\ pictures[p] \in Nat
  BY DEF TypeOK, PostsTypeOK
<1>5. HeaderHeight(content[p], pictures[p], p \in folding') \in Nat
  <2>1. (p \in folding') \in BOOLEAN
    OBVIOUS
  <2>2. QED
    BY <1>4, <2>1, HeaderHeightType
<1>6. headerHeight' \in [Posts -> Nat]
  BY <1>3, <1>5 DEF TypeOK, PostsTypeOK
<1>7. PostsTypeOK'
  BY <1>1, <1>2, <1>6 DEF TypeOK, PostsTypeOK
<1>8. ScreenTypeOK' /\ Observed'
  BY <1>1 DEF TypeOK, ScreenTypeOK, Observed, Covered, inputVars
<1>9. CachesFresh'
  <2> SUFFICES ASSUME NEW q \in Posts
               PROVE  /\ headerHeight'[q] = HeaderHeight(content[q], pictures[q], q \in folding')
                      /\ q \in folding' => content[q] > FoldedHeight
    BY <1>1 DEF CachesFresh
  <2>1. CASE q = p
    BY <1>1, <1>3, <2>1 DEF TypeOK, PostsTypeOK
  <2>2. CASE q # p
    <3>1. headerHeight'[q] = headerHeight[q]
      BY <1>3, <2>2 DEF TypeOK, PostsTypeOK
    <3>2. headerHeight[q] = HeaderHeight(content[q], pictures[q], q \in folding)
      BY DEF CachesFresh
    <3>3. (q \in folding') = (q \in folding)
      BY <1>2, <2>2
    <3>4. q \in folding' => content[q] > FoldedHeight
      BY <1>2, <2>2 DEF CachesFresh
    <3>5. QED
      BY <3>1, <3>2, <3>3, <3>4
  <2>3. QED
    BY <2>1, <2>2
<1>10. QED
  BY <1>7, <1>8, <1>9 DEF TypeOK

LEMMA CommentStep ==
  ASSUME TypeOK, CachesFresh, Observed, ReturnText
  PROVE  TypeOK' /\ CachesFresh' /\ Observed'
<1>1. /\ UNCHANGED <<content, pictures, likes, folding, likerRowHeight, headerHeight,
                     section, spread, observing, onScreen, raised>>
      /\ menu' = [q \in Posts |-> "shut"] /\ told' = cellCount'
  BY DEF ReturnText, AddComment, ReloadData
<1>2. /\ comments' = [comments EXCEPT ![section] = comments[section] + 1]
      /\ commentHeights' = [commentHeights EXCEPT ![section] = comments'[section]]
      /\ cellCount' = [cellCount EXCEPT ![section] =
                         AllCellCount(likes[section], comments'[section])]
  BY DEF ReturnText, AddComment
<1>3. section \in Posts /\ comments \in [Posts -> Nat] /\ comments[section] + 1 \in Nat
  <2>1. section \in Posts /\ comments \in [Posts -> Nat]
    BY DEF TypeOK, PostsTypeOK, ScreenTypeOK
  <2>2. QED
    BY <2>1
<1>4. comments' \in [Posts -> Nat]
  BY <1>2, <1>3
<1>5. AllCellCount(likes[section], comments'[section]) \in Nat
  BY <1>3, <1>4, CellCountType
<1>6. commentHeights' \in [Posts -> Nat] /\ cellCount' \in [Posts -> Nat]
  BY <1>2, <1>3, <1>4, <1>5 DEF TypeOK, PostsTypeOK
<1>7. PostsTypeOK'
  BY <1>1, <1>4, <1>6 DEF TypeOK, PostsTypeOK
<1>8. typing /\ typing' = FALSE /\ text' = "newline"
  BY DEF ReturnText
<1>9. hidden' = TRUE
  BY <1>8 DEF ReturnText, KeyboardWillHide, Observed
<1>10. ScreenTypeOK' /\ Observed'
  BY <1>1, <1>8, <1>9 DEF TypeOK, ScreenTypeOK, Observed, Covered
<1>11. CachesFresh'
  <2> SUFFICES ASSUME NEW q \in Posts
               PROVE  /\ commentHeights'[q] = comments'[q]
                      /\ cellCount'[q] = AllCellCount(likes[q], comments'[q])
    BY <1>1 DEF CachesFresh
  <2>1. CASE q = section
    BY <1>2, <1>3, <2>1 DEF TypeOK, PostsTypeOK
  <2>2. CASE q # section
    BY <1>2, <2>2 DEF TypeOK, PostsTypeOK, CachesFresh
  <2>3. QED
    BY <2>1, <2>2
<1>12. QED
  BY <1>7, <1>10, <1>11 DEF TypeOK

LEMMA StepFresh ==
  ASSUME TypeOK, CachesFresh, Observed, [Next]_vars
  PROVE  TypeOK' /\ CachesFresh' /\ Observed'
<1>1. CASE Next
  BY <1>1, QuietStep, LikeStep, FoldStep, CommentStep DEF Next
<1>2. CASE UNCHANGED vars
  BY <1>2 DEF vars, postVars, cacheVars, inputVars, TypeOK, PostsTypeOK, ScreenTypeOK,
              CachesFresh, Observed, Covered
<1>3. QED
  BY <1>1, <1>2

\* The types of all state and the freshness of everything cached.
LEMMA Fresh == Spec => [](TypeOK /\ CachesFresh /\ Observed)
<1>1. Init => TypeOK /\ CachesFresh /\ Observed
  BY InitFresh
<1>2. (TypeOK /\ CachesFresh /\ Observed) /\ [Next]_vars
        => (TypeOK /\ CachesFresh /\ Observed)'
  BY StepFresh
<1>3. QED
  BY <1>1, <1>2, PTL DEF Spec

\* Every variable keeps its type, for any number of posts and any layout.
THEOREM CircleTypeCorrect == Spec => []TypeOK
  BY Fresh, PTL

\* After any history of likes, comments and foldings the table view, the view
\* model's cached values and the post agree on every row.
THEOREM RowsCorrect == Spec => []EveryRowAnswered
<1>1. TypeOK /\ CachesFresh => EveryRowAnswered
  <2> SUFFICES ASSUME TypeOK, CachesFresh, NEW p \in Posts
               PROVE  LET first == IF likes[p] = {} THEN 0 ELSE 1 IN
                      /\ likerRowHeight[p] > 14 <=> likes[p] # {}
                      /\ \A row \in 0..(told[p] - 1) :
                           row >= first =>
                             row - first < commentHeights[p] /\ row - first < comments[p]
                      /\ told[p] = comments[p] + first
    BY DEF EveryRowAnswered
  <2>1. /\ likerRowHeight[p] = LikerRowHeight(likes[p])
        /\ commentHeights[p] = comments[p]
        /\ told[p] = AllCellCount(likes[p], comments[p])
    BY DEF CachesFresh
  <2>2. comments[p] \in Nat
    BY DEF TypeOK, PostsTypeOK
  <2>3. CASE likes[p] = {}
    BY <2>1, <2>2, <2>3 DEF LikerRowHeight, AllCellCount
  <2>4. CASE likes[p] # {}
    BY <2>1, <2>2, <2>4 DEF LikerRowHeight, AllCellCount
  <2>5. QED
    BY <2>3, <2>4
<1>2. QED
  BY <1>1, Fresh, PTL

\* A header has room for what its constraints lay out, whatever the heights of
\* texts and the numbers of pictures.
THEOREM LayoutCorrect == Spec => []HeaderFits
<1>1. TypeOK /\ CachesFresh => HeaderFits
  BY HeaderHolds
<1>2. QED
  BY <1>1, Fresh, PTL

\* The covering view follows the keyboard through every trip to another page.
THEOREM CoverCorrect == Spec => []CoverFollowsKeyboard
<1>1. Observed => CoverFollowsKeyboard
  BY DEF Observed, CoverFollowsKeyboard
<1>2. QED
  BY <1>1, Fresh, PTL

\* So a comment that is being written cannot change its post.
THEOREM CommentCorrect == Spec => CommentStaysWithPost
<1>1. Observed /\ [Next]_vars => [typing /\ typing' => section' = section]_vars
  <2> SUFFICES ASSUME Observed, Next, typing, typing'
               PROVE  section' = section
    BY DEF vars
  <2>1. ~Reachable
    BY DEF Observed, Reachable
  <2>2. ~ \E p \in Posts : \/ ShutMenu(p) \/ ClickCommentButton(p) \/ DidClickLikeButton(p)
                           \/ FoldingContent(p) \/ DidClickCommentButton(p)
    BY <2>1 DEF ShutMenu, ClickCommentButton, DidClickLikeButton, FoldingContent,
                DidClickCommentButton
  <2>3. Type \/ TouchCover \/ ReturnEmpty \/ ReturnText \/ ViewWillDisappear \/ ViewWillAppear
    BY <2>2 DEF Next
  <2>4. QED
    BY <2>3 DEF Type, TouchCover, ReturnEmpty, ReturnText, ViewWillDisappear, ViewWillAppear,
                inputVars
<1>2. QED
  BY <1>1, Fresh, PTL DEF Spec, CommentStaysWithPost

\* An open menu says what its button does.
LEMMA MenuStep ==
  ASSUME TypeOK, MenuTellsTheTruth, [Next]_vars
  PROVE  MenuTellsTheTruth'
<1> USE DEF MenuTellsTheTruth
<1>1. CASE \E p \in Posts : ShutMenu(p) \/ DidClickCommentButton(p)
  <2>1. /\ UNCHANGED likes
        /\ \E p \in Posts : menu' = [menu EXCEPT ![p] = "shut"]
    BY <1>1 DEF ShutMenu, DidClickCommentButton, postVars
  <2>2. QED
    BY <2>1 DEF TypeOK, ScreenTypeOK
<1>2. ASSUME NEW p \in Posts, ClickCommentButton(p)
      PROVE  MenuTellsTheTruth'
  <2>1. UNCHANGED likes
    BY <1>2 DEF ClickCommentButton, postVars
  <2>2. \A q \in Posts : q # p => menu'[q] = menu[q]
    BY <1>2 DEF ClickCommentButton, TypeOK, ScreenTypeOK
  <2>3. menu'[p] = IF menu[p] # "shut" THEN "shut"
                   ELSE IF Me \in likes[p] THEN "cancel" ELSE "like"
    BY <1>2 DEF ClickCommentButton, TypeOK, ScreenTypeOK
  <2>4. QED
    BY <2>1, <2>2, <2>3
<1>3. CASE (\E p \in Posts : DidClickLikeButton(p) \/ FoldingContent(p)) \/ ReturnText
  <2>1. menu' = [q \in Posts |-> "shut"]
    BY <1>3 DEF DidClickLikeButton, FoldingContent, ReturnText, AddComment, ReloadData
  <2>2. QED
    BY <2>1
<1>4. CASE Type \/ TouchCover \/ ReturnEmpty \/ ViewWillDisappear \/ ViewWillAppear
  <2>1. UNCHANGED <<menu, likes>>
    BY <1>4 DEF Type, TouchCover, ReturnEmpty, ViewWillDisappear, ViewWillAppear, postVars
  <2>2. QED
    BY <2>1
<1>5. CASE UNCHANGED vars
  BY <1>5 DEF vars, postVars
<1>6. QED
  BY <1>1, <1>2, <1>3, <1>4, <1>5 DEF Next

\* The label of an open menu stays true until its like button is pressed.
THEOREM MenuCorrect == Spec => []MenuTellsTheTruth
<1>1. Init => MenuTellsTheTruth
  BY DEF Init, MenuTellsTheTruth
<1>2. TypeOK /\ MenuTellsTheTruth /\ [Next]_vars => MenuTellsTheTruth'
  BY MenuStep
<1>3. QED
  BY <1>1, <1>2, Fresh, PTL DEF Spec

\* A row that does not exist is scrolled to only when there is none at all.
LEMMA RaiseStep ==
  ASSUME TypeOK, CachesFresh, OnlyBarePostsRaise, [Next]_vars
  PROVE  OnlyBarePostsRaise'
<1> USE DEF OnlyBarePostsRaise
<1>1. ASSUME NEW p \in Posts, DidClickCommentButton(p), raised'
      PROVE  likes'[section'] = {} /\ comments'[section'] = 0
  <2>1. /\ section' = p /\ cellCount[p] - 1 \notin 0..(told[p] - 1)
        /\ UNCHANGED <<likes, comments>>
    BY <1>1 DEF DidClickCommentButton, postVars
  <2>2. /\ told[p] = cellCount[p] /\ cellCount[p] \in Nat /\ comments[p] \in Nat
        /\ cellCount[p] = AllCellCount(likes[p], comments[p])
    BY DEF CachesFresh, TypeOK, PostsTypeOK
  <2>3. cellCount[p] = 0
    BY <2>1, <2>2
  <2>4. QED
    BY <2>1, <2>2, <2>3 DEF AllCellCount
<1>2. ASSUME NEW p \in Posts,
             ShutMenu(p) \/ ClickCommentButton(p) \/ DidClickLikeButton(p) \/ FoldingContent(p)
      PROVE  ~raised'
  BY <1>2 DEF ShutMenu, ClickCommentButton, DidClickLikeButton, FoldingContent, Reachable
<1>3. CASE Type \/ TouchCover \/ ReturnEmpty \/ ReturnText \/ ViewWillDisappear
  BY <1>3 DEF Type, TouchCover, ReturnEmpty, ReturnText, ViewWillDisappear, Reachable
<1>4. CASE ViewWillAppear \/ UNCHANGED vars
  BY <1>4 DEF ViewWillAppear, vars, postVars, inputVars
<1>5. QED
  BY <1>1, <1>2, <1>3, <1>4 DEF Next

\* No history of likes, comments, foldings and trips to other pages ends the
\* app when a comment is begun, but a post with neither likes nor comments.
THEOREM RaiseCorrect == Spec => []OnlyBarePostsRaise
<1>1. Init => OnlyBarePostsRaise
  BY DEF Init, OnlyBarePostsRaise
<1>2. TypeOK /\ CachesFresh /\ OnlyBarePostsRaise /\ [Next]_vars => OnlyBarePostsRaise'
  BY RaiseStep
<1>3. QED
  BY <1>1, <1>2, Fresh, PTL DEF Spec
=============================================================================
