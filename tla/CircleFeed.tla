----------------------------- MODULE CircleFeed -----------------------------
(***************************************************************************)
(* The friend circle: posts (CircleModel) whose heights and row counts     *)
(* CircleModelViewModel computes once and each handler of                  *)
(* FriendCircleViewController recomputes in part, the section headers with *)
(* their like/comment menus (SectionHeadView), and the text view with the  *)
(* invisible view that covers the table while the keyboard is up.          *)
(*                                                                         *)
(* Everything runs on the main thread; the user has one finger.  Names and *)
(* texts are left out: a like is its author, comments are counted, heights *)
(* are points.                                                             *)
(***************************************************************************)
EXTENDS Integers, FiniteSets

CONSTANTS
  Posts,          \* the sections
  Me, Friends,    \* the user "Simple", with userId 0, and the others
  ContentHeights, \* heights a post's text can have; 0 is no text
  PictureCounts,  \* numbers of pictures a post can have
  MaxComments     \* bound: comments on one post

ASSUME CircleAssumption ==
  /\ Me \notin Friends
  /\ ContentHeights \subseteq Nat /\ PictureCounts \subseteq Nat
  /\ MaxComments \in Nat

VARIABLES
  content, pictures,   \* contentLabelHeight and small_pics.count
  likes, comments,     \* like_users and comments.count
  folding,             \* the posts whose whole text is shown
  likerRowHeight, commentHeights, cellCount, headerHeight, \* what is cached
  told,      \* rows of each section as the table view knows them
  menu,      \* each header's menu: shut, or open and labelled
  section,   \* commentsSection
  typing,    \* commentsTextV is first responder: the keyboard is up
  text,      \* what commentsTextV holds
  hidden,    \* closeKeyboardYbgView.hidden
  spread,    \* its frame covers the table
  observing, \* the keyboard observers are registered
  onScreen,
  raised     \* an uncaught NSRangeException has ended the app

postVars == <<content, pictures, likes, comments, folding>>
cacheVars == <<likerRowHeight, commentHeights, cellCount, headerHeight>>
inputVars == <<section, typing, text, hidden, spread>>
vars == <<postVars, cacheVars, told, menu, inputVars, observing, onScreen, raised>>

People == Friends \cup {Me}

PostsTypeOK ==
  /\ content \in [Posts -> ContentHeights] /\ pictures \in [Posts -> PictureCounts]
  /\ likes \in [Posts -> SUBSET People] /\ comments \in [Posts -> Nat]
  /\ folding \subseteq Posts
  /\ likerRowHeight \in [Posts -> Nat] /\ commentHeights \in [Posts -> Nat]
  /\ cellCount \in [Posts -> Nat] /\ headerHeight \in [Posts -> Nat]
  /\ told \in [Posts -> Nat]

ScreenTypeOK ==
  /\ menu \in [Posts -> {"shut", "like", "cancel"}]
  /\ section \in Posts
  /\ typing \in BOOLEAN /\ text \in {"", "newline", "words"}
  /\ hidden \in BOOLEAN /\ spread \in BOOLEAN
  /\ observing \in BOOLEAN /\ onScreen \in BOOLEAN /\ raised \in BOOLEAN

TypeOK == PostsTypeOK /\ ScreenTypeOK

-----------------------------------------------------------------------------
(* CircleModelViewModel.                                                   *)

FoldedHeight == 104

\* One picture is tall, more come in rows of three, of which three are shown.
ImageViewHeight(n) ==
  CASE n = 0 -> 0
    [] n = 1 -> 100
    [] n \in 2..3 -> 70
    [] n \in 4..6 -> 145
    [] OTHER -> 220

\* Text, folding button (65 with its share of the margins) and pictures.
HeaderHeight(c, n, unfolded) ==
  LET i == ImageViewHeight(n) IN
  CASE unfolded /\ i > 0 -> c + i + 113
    [] unfolded /\ i = 0 -> c + 105
    [] ~unfolded /\ c = 0 -> i + 72
    [] ~unfolded /\ c \in 1..FoldedHeight /\ i > 0 -> c + i + 80
    [] ~unfolded /\ c \in 1..FoldedHeight /\ i = 0 -> c + 72
    [] ~unfolded /\ c > FoldedHeight /\ i > 0 -> FoldedHeight + i + 113
    [] ~unfolded /\ c > FoldedHeight /\ i = 0 -> FoldedHeight + 105

\* The empty string is a line of the default font, 14 points; a name is higher.
LikerRowHeight(users) == IF users = {} THEN 14 ELSE 18

AllCellCount(users, n) == IF users = {} THEN n ELSE n + 1

Init ==
  /\ content \in [Posts -> ContentHeights] /\ pictures \in [Posts -> PictureCounts]
  /\ \A p \in Posts : content[p] > 0 \/ pictures[p] > 0
  /\ likes \in [Posts -> SUBSET Friends]
  /\ comments \in [Posts -> 0..MaxComments]
  /\ folding = {}
  /\ likerRowHeight = [p \in Posts |-> LikerRowHeight(likes[p])]
  /\ commentHeights = comments
  /\ cellCount = [p \in Posts |-> AllCellCount(likes[p], comments[p])]
  /\ headerHeight = [p \in Posts |-> HeaderHeight(content[p], pictures[p], FALSE)]
  /\ told = cellCount
  /\ menu = [p \in Posts |-> "shut"]
  /\ section \in Posts   \* nobody reads it before a click has set it
  /\ typing = FALSE /\ text = "" /\ hidden = FALSE /\ spread = FALSE
  /\ observing = TRUE /\ onScreen = TRUE /\ raised = FALSE

-----------------------------------------------------------------------------
(* The table view: reloadData asks for the rows again and makes new header *)
(* views, whose menus are shut.  (Mutant: the rows are not asked for.)     *)
ReloadHeaders == UNCHANGED told /\ menu' = [p \in Posts |-> "shut"]
ReloadData ==
  /\ told' = cellCount'
  /\ menu' = [p \in Posts |-> "shut"]

Covered == ~hidden /\ spread

\* The user can touch the table.
Reachable == onScreen /\ ~Covered /\ ~raised

\* A touch on the header beside its buttons, or a header that scrolls off the
\* screen, which a new one replaces later.
ShutMenu(p) ==
  /\ Reachable /\ menu[p] # "shut"
  /\ menu' = [menu EXCEPT ![p] = "shut"]
  /\ UNCHANGED <<postVars, cacheVars, told, inputVars, observing, onScreen, raised>>

\* Opens the header's menu, labelled by what the model says now, or shuts it.
ClickCommentButton(p) ==
  /\ Reachable
  /\ menu' = [menu EXCEPT ![p] =
                IF @ # "shut" THEN "shut" ELSE IF Me \in likes[p] THEN "cancel" ELSE "like"]
  /\ UNCHANGED <<postVars, cacheVars, told, inputVars, observing, onScreen, raised>>

DidClickLikeButton(p) ==
  /\ Reachable /\ menu[p] # "shut"
  /\ likes' = [likes EXCEPT ![p] = IF Me \in @ THEN @ \ {Me} ELSE @ \cup {Me}]
  /\ likerRowHeight' = [likerRowHeight EXCEPT ![p] = LikerRowHeight(likes'[p])]
  /\ cellCount' = [cellCount EXCEPT ![p] = AllCellCount(likes'[p], comments[p])]
  /\ ReloadData
  /\ UNCHANGED <<content, pictures, comments, folding, commentHeights, headerHeight,
                 inputVars, observing, onScreen, raised>>

\* Only a long text has a folding button.
FoldingContent(p) ==
  /\ Reachable /\ content[p] > FoldedHeight
  /\ folding' = IF p \in folding THEN folding \ {p} ELSE folding \cup {p}
  /\ headerHeight' = [headerHeight EXCEPT ![p] =
                        HeaderHeight(content[p], pictures[p], p \in folding')]
  /\ UNCHANGED <<content, pictures, likes, comments, likerRowHeight, commentHeights,
                 cellCount, inputVars, observing, onScreen, raised>>
  /\ ReloadData

-----------------------------------------------------------------------------
(* Writing a comment.                                                      *)

KeyboardWillShow == spread' = IF observing THEN TRUE ELSE spread
KeyboardWillHide == hidden' = IF observing THEN TRUE ELSE hidden

\* commentButtonClicked and didClickCommentButton: the menu shuts, the keyboard
\* rises, the table scrolls to the post's last row, which must exist.
DidClickCommentButton(p) ==
  /\ Reachable /\ menu[p] # "shut"
  /\ menu' = [menu EXCEPT ![p] = "shut"]
  /\ section' = p
  /\ hidden' = FALSE
  /\ typing' = TRUE
  /\ KeyboardWillShow
  /\ raised' = (cellCount[p] - 1 \notin 0..(told[p] - 1))
  /\ UNCHANGED <<postVars, cacheVars, told, text, observing, onScreen>>

Type ==
  /\ typing /\ ~raised
  /\ text' \in {"", "words"}
  /\ UNCHANGED <<postVars, cacheVars, told, menu, section, typing, hidden, spread,
                 observing, onScreen, raised>>

\* A touch on the covering view: the keyboard goes, the text stays.
TouchCover ==
  /\ typing /\ onScreen /\ Covered /\ ~raised
  /\ typing' = FALSE
  /\ KeyboardWillHide
  /\ UNCHANGED <<postVars, cacheVars, told, menu, section, text, spread,
                 observing, onScreen, raised>>

\* Return on an empty text.
ReturnEmpty ==
  /\ typing /\ text = "" /\ ~raised
  /\ typing' = FALSE
  /\ KeyboardWillHide
  /\ UNCHANGED <<postVars, cacheVars, told, menu, section, text, spread,
                 observing, onScreen, raised>>

\* (Mutant: commentHeightArr is not computed again.)
AddCommentUnmeasured ==
  /\ comments[section] < MaxComments
  /\ comments' = [comments EXCEPT ![section] = @ + 1]
  /\ cellCount' = [cellCount EXCEPT ![section] =
                     AllCellCount(likes[section], comments'[section])]
  /\ ReloadData
  /\ UNCHANGED commentHeights

\* addCommnets, to the post commentsSection names.
AddComment ==
  /\ comments[section] < MaxComments
  /\ comments' = [comments EXCEPT ![section] = @ + 1]
  /\ commentHeights' = [commentHeights EXCEPT ![section] = comments'[section]]
  /\ cellCount' = [cellCount EXCEPT ![section] =
                     AllCellCount(likes[section], comments'[section])]
  /\ ReloadData

\* Return on a text: the comment is added, the text cleared, the keyboard goes;
\* the delegate still answers YES, so UIKit puts the newline into the text view.
ReturnText ==
  /\ typing /\ text # "" /\ ~raised
  /\ AddComment
  /\ text' = "newline"
  /\ typing' = FALSE
  /\ KeyboardWillHide
  /\ UNCHANGED <<content, pictures, likes, folding, likerRowHeight, headerHeight,
                 section, spread, observing, onScreen, raised>>

-----------------------------------------------------------------------------
(* Coming and going: another tab, or a page pushed by a touch on a name.   *)
(* The keyboard hides the tab bar and the cover the names, so the user     *)
(* leaves only when the table can be touched.                              *)
ViewWillDisappear ==
  /\ Reachable /\ ~typing
  /\ onScreen' = FALSE /\ observing' = FALSE
  /\ UNCHANGED <<postVars, cacheVars, told, menu, inputVars, raised>>

ViewWillAppear ==
  /\ ~onScreen
  /\ onScreen' = TRUE /\ observing' = TRUE
  /\ UNCHANGED <<postVars, cacheVars, told, menu, inputVars, raised>>

Next ==
  \/ \E p \in Posts : \/ ShutMenu(p) \/ ClickCommentButton(p) \/ DidClickLikeButton(p)
                      \/ FoldingContent(p) \/ DidClickCommentButton(p)
  \/ Type \/ TouchCover \/ ReturnEmpty \/ ReturnText
  \/ ViewWillDisappear \/ ViewWillAppear

Spec == Init /\ [][Next]_vars
-----------------------------------------------------------------------------
(* Where SectionHeadView's constraints put things, from the header's top.  *)
NameBottom == 28

FoldingButtonHidden(p) == content[p] <= FoldedHeight

ContentBottom(p) ==
  NameBottom + 10 + (IF FoldingButtonHidden(p) \/ p \in folding THEN content[p] ELSE FoldedHeight)

AbovePictures(p) ==
  CASE ~FoldingButtonHidden(p) -> ContentBottom(p) + 8 + 25
    [] FoldingButtonHidden(p) /\ content[p] > 0 -> ContentBottom(p)
    [] content[p] = 0 -> NameBottom

TimeTop(p) ==
  8 + IF pictures[p] = 0 THEN AbovePictures(p)
      ELSE AbovePictures(p) + 8 + ImageViewHeight(pictures[p])

\* The menu's view starts 4 above the comment button, which starts 2 above the
\* time, and is 31 high.
MenuBottom(p) == TimeTop(p) - 6 + 31

\* addPicture: one picture of 100, or rows of three of 70, 5 apart.
PicturesBottom(p) ==
  CASE pictures[p] = 0 -> 0
    [] pictures[p] = 1 -> 100
    [] pictures[p] \in 2..3 -> 70
    [] pictures[p] \in 4..6 -> 75 + 70
    [] OTHER -> 150 + 70
-----------------------------------------------------------------------------
(* Properties.                                                             *)

\* Every row the table view believes in has a height and a cell when it asks
\* for them, the two answers agree on which row shows the likes, and no comment
\* is left without a row: after any sequence of likes, comments and foldings
\* the four cached values, the table view and the post say the same.
EveryRowAnswered ==
  \A p \in Posts :
    LET first == IF likes[p] = {} THEN 0 ELSE 1 IN
    /\ likerRowHeight[p] > 14 <=> likes[p] # {}
    /\ \A row \in 0..(told[p] - 1) :
         row >= first => row - first < commentHeights[p] /\ row - first < comments[p]
    /\ told[p] = comments[p] + first

\* The height a header is given holds what its constraints lay out, down to
\* the menu's buttons, which get no touches outside it, and the picture view
\* holds its pictures; folded and unfolded, with and without text or pictures.
HeaderFits ==
  \A p \in Posts :
    /\ MenuBottom(p) <= headerHeight[p]
    /\ PicturesBottom(p) <= ImageViewHeight(pictures[p])

\* An open menu offers what pressing its like button would do, though the
\* label was written when it opened and several menus can be open at once.
MenuTellsTheTruth ==
  \A p \in Posts : menu[p] # "shut" => (menu[p] = "cancel" <=> Me \in likes[p])

\* didClickCommentButton scrolls to a row that does not exist only when the post
\* has neither likes nor comments: no other history ends the app.
OnlyBarePostsRaise ==
  raised => likes[section] = {} /\ comments[section] = 0

\* The covering view is over the table exactly while the keyboard is up,
\* wherever the user has been meanwhile: the table is neither locked nor open to
\* touches that the keyboard handlers do not expect.
CoverFollowsKeyboard ==
  onScreen => (typing <=> Covered)

\* While a comment is written nothing changes the post it will go to.
CommentStaysWithPost ==
  [][typing /\ typing' => section' = section]_vars
=============================================================================
