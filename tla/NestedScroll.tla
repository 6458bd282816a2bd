---------------------------- MODULE NestedScroll ----------------------------
(***************************************************************************)
(* The video page: an outer scroll view that moves the player out of the   *)
(* way, and in it the lists of the page controller's children.  One finger *)
(* moves both (BackgroundScrollView lets both recognise it), so the two    *)
(* delegates undo what their view should not have moved, and tell each     *)
(* other by the notifications GoTop and LeaveTop whose turn it is.         *)
(*                                                                         *)
(* Everything runs on the main thread and notifications are delivered      *)
(* where they are posted, so a frame's handler, with all it posts, is one  *)
(* step; frames of the two views come in any order.  Offsets are counted   *)
(* in steps; a list dragged down past its top is at a negative one.        *)
(*                                                                         *)
(* When the children come and go is PageController's matter: here one is   *)
(* made when its page is first selected, and may go while another is.      *)
(***************************************************************************)
EXTENDS Integers

CONSTANTS
  Pages,    \* the page controller's pages
  First,    \* the page selected at first
  Header,   \* maxOffsetY
  MaxStep,  \* bound: how far one frame moves a view
  Length    \* bound: how far a list with rows can be scrolled

ASSUME NestedAssumption ==
  /\ First \in Pages
  /\ Header \in Nat \ {0} /\ MaxStep \in Nat /\ Length \in Nat

VARIABLES
  outer,      \* containerScrollView's contentOffset
  canScroll,  \* VideoDetailViewController's
  ready,      \* pages whose child has its own canScroll set
  list,       \* the children's tableView.contentOffset
  listening,  \* the page observes LeaveTop
  current,    \* the selected page
  alive,      \* pages whose child exists
  rows,       \* pages whose list has got its rows
  pan         \* which way a finger, or what is left of its speed, moves the views

views == <<outer, canScroll, ready, list>>
vars == <<views, listening, current, alive, rows, pan>>

TypeOK ==
  /\ outer \in 0..Header
  /\ canScroll \in BOOLEAN
  /\ ready \subseteq Pages
  /\ list \in [Pages -> 0..Length]
  /\ listening \in BOOLEAN
  /\ current \in alive /\ alive \subseteq Pages
  /\ rows \subseteq alive
  /\ pan \in {"none", "up", "down"}

\* viewDidLoad: the page controller's view is loaded, and its first child.
Init ==
  /\ outer = 0 /\ canScroll = TRUE
  /\ ready = {} /\ list = [p \in Pages |-> 0]
  /\ listening = FALSE
  /\ current = First /\ alive = {First} /\ rows = {}
  /\ pan = "none"

-----------------------------------------------------------------------------
(* The delegates and the notifications.                                    *)

\* LeaveTop: every list goes back to its top and stays there; the page, if it
\* listens, may scroll.  (Mutant: only the list that posts it goes back.)
LeaveTopAlone ==
  /\ list' = [list EXCEPT ![current] = 0]
  /\ ready' = {}
  /\ canScroll' = (canScroll \/ listening)
  /\ UNCHANGED outer

LeaveTop ==
  /\ list' = [p \in Pages |-> 0]
  /\ ready' = {}
  /\ canScroll' = (canScroll \/ listening)
  /\ UNCHANGED outer

\* The header is out of sight and GoTop posted: it is the lists' turn.
\* (Mutant: the page goes on scrolling.)
PinFreely == outer' = Header /\ ready' = alive /\ UNCHANGED <<canScroll, list>>
Pin == outer' = Header /\ ready' = alive /\ canScroll' = FALSE /\ UNCHANGED list

MoveOuter(x) == outer' = x /\ UNCHANGED <<canScroll, ready, list>>

\* The outer view's scrollViewDidScroll at x.  Putting it back to Header calls
\* it again, there.
\* (Mutants: it is not called again; GoTop is posted only the first time.)
OuterDidScrollOnce(x) ==
  \/ x >= Header /\ Pin
  \/ x <= 0 /\ MoveOuter(0)
  \/ x \in 1..(Header - 1) /\ MoveOuter(IF canScroll THEN x ELSE Header)

OuterDidScrollQuietly(x) ==
  \/ x >= Header /\ canScroll /\ Pin
  \/ x <= 0 /\ MoveOuter(0)
  \/ x > 0 /\ ~canScroll /\ MoveOuter(Header)
  \/ x \in 1..(Header - 1) /\ canScroll /\ MoveOuter(x)

OuterDidScroll(x) ==
  \/ x >= Header /\ Pin
  \/ x <= 0 /\ MoveOuter(0)
  \/ x \in 1..(Header - 1) /\ canScroll /\ MoveOuter(x)
  \/ x \in 1..(Header - 1) /\ ~canScroll /\ Pin

MoveList(x) == list' = [list EXCEPT ![current] = x] /\ UNCHANGED <<outer, canScroll, ready>>

\* The current list's scrollViewDidScroll at x.
ListDidScroll(x) ==
  \/ current \notin ready /\ MoveList(0)
  \/ current \in ready /\ x < 0 /\ LeaveTop
  \/ current \in ready /\ x >= 0 /\ MoveList(x)

-----------------------------------------------------------------------------
\* Frames of a drag or a deceleration.  A view that is at its end bounces, so
\* its delegate is called there too.
OuterFrame(d) ==
  /\ pan # "none"
  /\ OuterDidScroll(IF pan = "up" THEN outer + d ELSE outer - d)
  /\ UNCHANGED <<listening, current, alive, rows, pan>>

End == IF current \in rows THEN Length ELSE 0

ListFrame(d) ==
  /\ \/ pan = "down" /\ ListDidScroll(list[current] - d)
     \/ pan = "up" /\ ListDidScroll(IF list[current] + d <= End THEN list[current] + d ELSE End)
  /\ UNCHANGED <<listening, current, alive, rows, pan>>

\* A finger on the visible page, either way; or everything stops.
Pan(way) ==
  /\ way # pan
  /\ way = "none" \/ listening
  /\ pan' = way
  /\ UNCHANGED <<views, listening, current, alive, rows>>

\* Another page is selected; its child may have to be made (viewDidLoad).
SelectPage(p) ==
  /\ p # current
  /\ current' = p /\ alive' = alive \cup {p}
  /\ UNCHANGED <<views, listening, rows, pan>>

\* A child that is only cached goes: its table and its flag with it.
DropChild(p) ==
  /\ p \in alive /\ p # current
  /\ alive' = alive \ {p} /\ rows' = rows \ {p}
  /\ ready' = ready \ {p} /\ list' = [list EXCEPT ![p] = 0]
  /\ UNCHANGED <<outer, canScroll, listening, current, pan>>

\* The child's loadData gets its answer.
RowsArrive(p) ==
  /\ p \in alive \ rows
  /\ rows' = rows \cup {p}
  /\ UNCHANGED <<views, listening, current, alive, pan>>

\* The observers come and go; the views may still be moving.
ViewWillAppear ==
  /\ ~listening /\ listening' = TRUE
  /\ UNCHANGED <<views, current, alive, rows, pan>>

ViewWillDisappear ==
  /\ listening /\ listening' = FALSE
  /\ UNCHANGED <<views, current, alive, rows, pan>>

Step == 1..MaxStep

Next ==
  \/ \E d \in Step : OuterFrame(d) \/ ListFrame(d)
  \/ \E way \in {"none", "up", "down"} : Pan(way)
  \/ \E p \in Pages : SelectPage(p) \/ DropChild(p) \/ RowsArrive(p)
  \/ ViewWillAppear \/ ViewWillDisappear

\* While a finger moves, both views get frames; nobody has to get one that carries
\* the outer view over the whole header.
Fairness ==
  /\ WF_vars(\E d \in Step : d < Header /\ OuterFrame(d))
  /\ WF_vars(\E d \in Step : ListFrame(d))

Spec == Init /\ [][Next]_vars
FairSpec == Spec /\ Fairness
-----------------------------------------------------------------------------
(* Properties.                                                             *)

\* The page and a list are never both free to scroll, whichever notification
\* was posted last, missed while the page was away, or came before a child was
\* made.
OneScroller == \A p \in Pages : p \in ready => ~canScroll

\* The header never creeps over a list that is off its top, shown or not: such a
\* list sees it out of sight, or, after one frame that pulled it back over its
\* whole height (the branch for offsets <= 0, which does not look at _canScroll),
\* all of it; never a part.
HeaderMovesAlone == \A p \in Pages : list[p] > 0 => outer \in {0, Header}

\* A user who keeps dragging down on a page gets the player back, from any
\* position of the lists and after any lost notification.
HeaderReturns ==
  \A p \in Pages :
    <>[](pan = "down" /\ listening /\ current = p) => <>[](outer = 0)

\* A user who keeps dragging up on a page gets to the end of its list, a child
\* made after GoTop was posted included.
ListReachesEnd ==
  \A p \in Pages :
    <>[](pan = "up" /\ listening /\ current = p /\ p \in rows)
      => <>[](list[p] = Length)
=============================================================================
