--------------------------- MODULE PageController ---------------------------
(***************************************************************************)
(* WMPageController, the video page's container of child controllers side  *)
(* by side: a paging scroll view, a menu of titles above it, the children  *)
(* on display, a cache of the others that shrinks on a memory warning and  *)
(* grows back by timers, and a copy of the cache kept while the app is in  *)
(* the background.                                                         *)
(*                                                                         *)
(* Every handler runs on the main thread, so a step is a whole handler;    *)
(* what interleaves are the user's fingers, UIKit's scrolling, the menu,   *)
(* the host's calls, the timers and the system's notifications.            *)
(*                                                                         *)
(* Offsets are in half pages: even is a page, odd is between two.  A child *)
(* controller is a number, unique among those of its page that are alive;  *)
(* 0 is none.  The functions on record c below translate methods that the  *)
(* handlers call: they return what the method leaves.                      *)
(***************************************************************************)
EXTENDS Integers, FiniteSets, FiniteSetsExt

CONSTANTS
  Count,        \* childControllersCount
  Preload,      \* preloadPolicy: pages on either side
  Animated,     \* pageAnimatable
  StartPolicy,  \* cachePolicy the host sets
  HostSelects,  \* phases in which the host sets selectIndex
  HostReloads,  \* the host calls reloadData
  Suspends,     \* the app leaves the foreground
  Evicts,       \* NSCache drops objects on its own
  MaxWarnings   \* bound: memory warnings between reloads

Disabled == -1
NoLimit == 0
LowMemory == 1
Balanced == 3
High == 5
Policy == {Disabled, NoLimit, LowMemory, Balanced, High}
Phase == {"new", "loaded", "laidOut", "appeared"}

ASSUME PageAssumption ==
  /\ Count \in Nat \ {0} /\ Preload \in 0..2
  /\ Animated \in BOOLEAN /\ StartPolicy \in Policy
  /\ HostSelects \subseteq Phase
  /\ HostReloads \in BOOLEAN /\ Suspends \in BOOLEAN /\ Evicts \in BOOLEAN
  /\ MaxWarnings \in Nat

Page == 0..(Count - 1)
Offset == 0..(2 * (Count - 1))
Aligned == {2 * i : i \in Page}
Undefined == -1
Child == 1..4  \* at most: on display, cached, in the background copy, current

VARIABLES
  phase,      \* how far the view has come: see LaidOut
  c,          \* the children: see TypeOK
  background, \* backgroundCache
  marked,     \* _markedSelectIndex
  offset,     \* the scroll view's contentOffset
  motion,     \* what moves it
  target,     \* where a deceleration or an animation will end, otherwise 0
  dragging,   \* _startDragging, which stays set until a menu item is pressed
  selItem,    \* the menu's selected item
  menuOn,     \* the menu's userInteractionEnabled
  overruled,  \* history: setSelectIndex came while a finger or a deceleration moved
              \* the page, and the user has not dragged or pressed an item since
  policy, warnings,
  growing, toHigh, \* the two delayed performs are scheduled
  app         \* the app's state

scroll == <<offset, motion, target, dragging, selItem, menuOn, overruled>>
memory == <<policy, warnings, growing, toHigh>>
vars == <<phase, c, background, marked, scroll, memory, app>>

TypeOK ==
  /\ phase \in Phase
  /\ c \in [display : [Page -> Child \cup {0}],   \* displayVC
            cache : [Page -> Child \cup {0}],     \* memCache
            selectIndex : Page,
            current : [page : Page, child : Child \cup {0}]]
  /\ background \in [Page -> Child \cup {0}]
  /\ marked \in Page \cup {Undefined}
  /\ offset \in Offset /\ target \in Aligned
  /\ motion \in {"rest", "drag", "decelerate", "animate"}
  /\ dragging \in BOOLEAN /\ menuOn \in BOOLEAN /\ overruled \in BOOLEAN
  /\ selItem \in Page
  /\ policy \in Policy /\ warnings \in Nat
  /\ growing \in BOOLEAN /\ toHigh \in BOOLEAN
  /\ app \in {"active", "inactive", "background"}

\* _hasInited
LaidOut == phase \in {"laidOut", "appeared"}

NoChildren == [i \in Page |-> 0]

Init ==
  /\ phase = "new"
  /\ c = [display |-> NoChildren, cache |-> NoChildren,
          selectIndex |-> 0, current |-> [page |-> 0, child |-> 0]]
  /\ background = NoChildren
  /\ marked = Undefined
  /\ offset = 0 /\ motion = "rest" /\ target = 0
  /\ dragging = FALSE /\ selItem = 0 /\ menuOn = TRUE /\ overruled = FALSE
  /\ policy = StartPolicy /\ warnings = 0
  /\ growing = FALSE /\ toHigh = FALSE
  /\ app = "active"

-----------------------------------------------------------------------------
(* The children.                                                           *)

\* wm_isInScreen.  (Mutant: a page whose left edge is off screen is not.)
CoversLeftEdge(x, i) == 2 * i <= x /\ x < 2 * i + 2
OnScreen(x, i) == 2 * i < x + 2 /\ x < 2 * i + 2

Near(i) == {k \in Page : i - Preload <= k /\ k <= i + Preload}

\* A new child of page i.
Fresh(s, i) ==
  LET alive == {s.display[i], s.cache[i], background[i]}
                 \cup (IF s.current.page = i THEN {s.current.child} ELSE {})
  IN  Min(Child \ alive)

\* wm_addViewControllerAtIndex for the pages of S, in ascending order: each
\* "enters", which makes it the selected one.
Create(s, S) ==
  IF S = {} THEN s ELSE
  [s EXCEPT !.display = [i \in Page |-> IF i \in S THEN Fresh(s, i) ELSE @[i]],
            !.selectIndex = Max(S)]

\* wm_addCachedViewController for the pages of S, in ascending order.
Restore(s, S) ==
  IF S = {} THEN s ELSE
  [s EXCEPT !.display = [i \in Page |-> IF i \in S THEN s.cache[i] ELSE @[i]],
            !.selectIndex = Max(S)]

\* wm_removeViewController for the pages of S: into the cache, unless it is
\* disabled or has a child for that page.
Remove(s, S) ==
  [s EXCEPT !.display = [i \in Page |-> IF i \in S THEN 0 ELSE @[i]],
            !.cache = [i \in Page |-> IF i \in S /\ policy # Disabled /\ @[i] = 0
                                      THEN s.display[i] ELSE @[i]]]

\* wm_layoutChildViewControllers at offset x.  (Mutant: the cache is not asked.)
LayoutUncached(s, x) ==
  Remove(Create(s, {i \in Page : s.display[i] = 0 /\ OnScreen(x, i)}),
         {i \in Page : s.display[i] # 0 /\ ~OnScreen(x, i) /\ i \notin Near(x \div 2)})

Layout(s, x) ==
  LET shown   == {i \in Page : s.display[i] # 0}
      enter   == {i \in Page \ shown : OnScreen(x, i)}
      leave   == {i \in shown : ~OnScreen(x, i) /\ i \notin Near(x \div 2)}
      cached  == {i \in enter : s.cache[i] # 0}
      entered == Create(Restore(s, cached), enter \ cached)
  IN  Remove([entered EXCEPT !.selectIndex = IF enter = {} THEN @ ELSE Max(enter)],
             leave)

\* self.currentViewController = self.displayVC[@(self.selectIndex)]
SetCurrent(s) ==
  [s EXCEPT !.current = [page |-> s.selectIndex, child |-> s.display[s.selectIndex]]]

\* didEnterController for page i: the pages near it are preloaded.
DidEnter(s, i) ==
  LET missing == {k \in Near(i) : s.display[k] = 0 /\ s.cache[k] = 0}
  IN  IF Preload = 0 THEN s ELSE [Create(s, missing) EXCEPT !.selectIndex = i]

-----------------------------------------------------------------------------
(* The menu and the host.                                                  *)

\* menuView:didSelesctedIndex:currentIndex: for page i, without animation.
JumpTo(s, i, from) ==
  LET closed == IF s.display[from] # 0 THEN Remove(s, {from}) ELSE s
  IN  DidEnter(SetCurrent(Layout(closed, 2 * i)), i)

\* The same method, called by the menu with children s and the scroll view at x.
\* setContentOffset ends a deceleration or an animation, which reports no end, and
\* may or may not take the page from a finger.
DidSelect(s, x, i, from) ==
  LET selected == [s EXCEPT !.selectIndex = i] IN
  /\ dragging' = FALSE
  /\ IF Animated THEN c' = selected /\ offset' = x
                 ELSE c' = JumpTo(selected, i, from) /\ offset' = 2 * i
  /\ \/ motion = "drag" /\ UNCHANGED <<motion, target>>
     \/ IF Animated /\ ~(motion = "rest" /\ x = 2 * i)
        THEN motion' = "animate" /\ target' = 2 * i
        ELSE motion' = "rest" /\ target' = 0

\* WMMenuView's selectItemAtIndex.
SelectItem(s, x, i) ==
  IF i = selItem
  THEN c' = s /\ offset' = x /\ UNCHANGED <<motion, target, dragging, selItem>>
  ELSE selItem' = i /\ DidSelect(s, x, i, selItem)

\* setSelectIndex before the view is laid out: remembered.
MarkIndex(i) ==
  /\ phase \in HostSelects /\ ~LaidOut
  /\ c' = [c EXCEPT !.selectIndex = i]
  /\ marked' = i
  /\ UNCHANGED <<phase, background, scroll, memory, app>>

\* setSelectIndex later, whatever moves the page.
SelectIndex(i) ==
  /\ phase \in HostSelects /\ LaidOut
  /\ marked' = Undefined
  /\ SelectItem([c EXCEPT !.selectIndex = i], offset, i)
  /\ IF i # selItem /\ motion \in {"drag", "decelerate"} THEN overruled' = TRUE
                                                       ELSE UNCHANGED overruled
  /\ UNCHANGED <<phase, background, menuOn, memory, app>>

\* viewDidLoad.  The menu starts at its first item.
ViewDidLoad ==
  /\ phase = "new"
  /\ phase' = "loaded"
  /\ c' = SetCurrent(Create(c, {c.selectIndex}))
  /\ UNCHANGED <<background, marked, scroll, memory, app>>

\* viewDidLayoutSubviews, the first time: the scroll view gets its size and
\* its offset, then a remembered index is selected.
ViewDidLayoutSubviews ==
  /\ phase = "loaded"
  /\ phase' = "laidOut"
  /\ marked' = Undefined
  /\ IF marked = Undefined
     THEN /\ offset' = 2 * c.selectIndex
          /\ UNCHANGED <<c, motion, target, dragging, selItem>>
     ELSE SelectItem([c EXCEPT !.selectIndex = marked], 2 * c.selectIndex, marked)
  /\ UNCHANGED <<background, menuOn, overruled, memory, app>>

\* viewDidAppear, at first and when a pushed page is popped again.
ViewDidAppear ==
  /\ LaidOut /\ app = "active"
  /\ phase' = "appeared"
  /\ c' = DidEnter(c, c.selectIndex)
  /\ UNCHANGED <<background, marked, scroll, memory, app>>

\* didPressedMenuItem
PressItem(i) ==
  /\ phase = "appeared" /\ app = "active" /\ menuOn
  /\ i # selItem
  /\ selItem' = i
  /\ DidSelect(c, offset, i, selItem)
  /\ overruled' = FALSE
  /\ UNCHANGED <<phase, background, marked, menuOn, memory, app>>

\* reloadData: every child and the scroll view are made anew, the menu too.  What
\* moved the old scroll view reports nothing more.
Reload ==
  /\ HostReloads /\ LaidOut
  /\ LET cleared == [c EXCEPT !.display = NoChildren,
                              !.current = [page |-> 0, child |-> 0]]
         made    == SetCurrent(Create(cleared, {c.selectIndex}))
     IN  c' = [made EXCEPT !.cache = NoChildren]
  /\ offset' = 2 * c.selectIndex /\ motion' = "rest" /\ target' = 0
  /\ selItem' = c.selectIndex
  /\ menuOn' = TRUE /\ overruled' = FALSE
  /\ warnings' = 0 /\ growing' = FALSE /\ toHigh' = FALSE
  /\ UNCHANGED <<phase, background, marked, dragging, policy, app>>

-----------------------------------------------------------------------------
(* Scrolling.                                                              *)

\* scrollViewDidScroll to x: the children follow, and while _startDragging is
\* set the menu does (slideMenuAtProgress selects an item at a whole page).
DidScroll(x) ==
  /\ offset' = x
  /\ c' = Layout(c, x)
  /\ selItem' = IF dragging /\ x \in Aligned THEN x \div 2 ELSE selItem

\* scrollViewDidEndDecelerating, on the children.
EndedDecelerating(s) ==
  LET i == offset \div 2
  IN  DidEnter(SetCurrent([s EXCEPT !.selectIndex = i]), i)

\* scrollViewWillBeginDragging: at rest, or catching a moving page, of which
\* UIKit may report the end first.
BeginDrag(reported) ==
  /\ phase = "appeared" /\ app = "active" /\ motion # "drag"
  /\ reported => motion = "decelerate"
  /\ motion' = "drag" /\ target' = 0
  /\ c' = IF reported THEN EndedDecelerating(c) ELSE c
  /\ dragging' = TRUE
  /\ menuOn' = FALSE /\ overruled' = FALSE
  /\ UNCHANGED <<phase, background, marked, offset, selItem, memory, app>>

\* A finger moves the page; a frame may be late.
DragTo(x) ==
  /\ motion = "drag" /\ x # offset
  /\ DidScroll(x)
  /\ UNCHANGED <<phase, background, marked, motion, target, dragging, menuOn, overruled, memory, app>>

\* The finger is lifted and the paging scroll view chooses where to stop:
\* scrollViewWillEndDragging, scrollViewDidEndDragging:willDecelerate:YES.
\* (Mutant: it stops anywhere, as a scroll view without paging does.)
ReleaseUnpaged(x) ==
  /\ motion = "drag"
  /\ x # offset /\ x - offset \in -2..2
  /\ motion' = "decelerate" /\ target' = (x + offset) \div 2
  /\ UNCHANGED <<phase, c, background, marked, offset, dragging, selItem, menuOn, overruled, memory, app>>

Release(x) ==
  /\ motion = "drag"
  /\ x # offset /\ x - offset \in -2..2
  /\ motion' = "decelerate" /\ target' = x
  /\ UNCHANGED <<phase, c, background, marked, offset, dragging, selItem, menuOn, overruled, memory, app>>

\* willDecelerate:NO, for a page that already is where it will stop.
\* (Mutant: the menu does not slide to the target.)
ReleaseNoSlide ==
  /\ motion = "drag" /\ offset \in Aligned
  /\ motion' = "rest"
  /\ menuOn' = TRUE
  /\ UNCHANGED <<phase, c, background, marked, offset, target, dragging, selItem, overruled, memory, app>>

ReleaseAtRest ==
  /\ motion = "drag" /\ offset \in Aligned
  /\ motion' = "rest"
  /\ selItem' = offset \div 2
  /\ menuOn' = TRUE
  /\ UNCHANGED <<phase, c, background, marked, offset, target, dragging, overruled, memory, app>>

\* A frame of the deceleration, or of the animation of a menu selection.
Glide(x) ==
  /\ motion \in {"decelerate", "animate"} /\ offset # target
  /\ \/ offset < x /\ x <= target
     \/ target <= x /\ x < offset
  /\ DidScroll(x)
  /\ UNCHANGED <<phase, background, marked, motion, target, dragging, menuOn, overruled, memory, app>>

\* scrollViewDidEndDecelerating.  (Mutant: the menu stays off.)
EndDeceleratingLocked ==
  /\ motion = "decelerate" /\ offset = target
  /\ motion' = "rest" /\ target' = 0
  /\ c' = EndedDecelerating(c)
  /\ UNCHANGED <<phase, background, marked, offset, dragging, selItem, menuOn, overruled, memory, app>>

EndDecelerating ==
  /\ motion = "decelerate" /\ offset = target
  /\ motion' = "rest" /\ target' = 0
  /\ menuOn' = TRUE
  /\ c' = EndedDecelerating(c)
  /\ UNCHANGED <<phase, background, marked, offset, dragging, selItem, overruled, memory, app>>

\* scrollViewDidEndScrollingAnimation
EndAnimation ==
  /\ motion = "animate" /\ offset = target
  /\ motion' = "rest" /\ target' = 0
  /\ c' = DidEnter(SetCurrent(c), c.selectIndex)
  /\ UNCHANGED <<phase, background, marked, offset, dragging, selItem, menuOn,
                 overruled, memory, app>>

-----------------------------------------------------------------------------
(* Memory and the background.                                              *)

\* didReceiveMemoryWarning
\* (Mutant: the timers already set are not cancelled.)
WarnKeepingTimers ==
  /\ phase # "new" /\ warnings < MaxWarnings
  /\ warnings' = warnings + 1
  /\ policy' = LowMemory
  /\ c' = [c EXCEPT !.cache = NoChildren]
  /\ growing' = (growing \/ warnings + 1 < 3)
  /\ UNCHANGED <<phase, background, marked, scroll, toHigh, app>>

DidReceiveMemoryWarning ==
  /\ phase # "new" /\ warnings < MaxWarnings
  /\ warnings' = warnings + 1
  /\ policy' = LowMemory
  /\ c' = [c EXCEPT !.cache = NoChildren]
  /\ growing' = (warnings + 1 < 3)
  /\ toHigh' = FALSE
  /\ UNCHANGED <<phase, background, marked, scroll, app>>

\* wm_growCachePolicyAfterMemoryWarning, after three seconds.
\* (Mutant: it does not schedule the second step.)
GrowOnce ==
  /\ growing
  /\ growing' = FALSE
  /\ policy' = Balanced
  /\ UNCHANGED <<phase, c, background, marked, scroll, warnings, toHigh, app>>

GrowAfterMemoryWarning ==
  /\ growing
  /\ growing' = FALSE /\ toHigh' = TRUE
  /\ policy' = Balanced
  /\ UNCHANGED <<phase, c, background, marked, scroll, warnings, app>>

\* wm_growCachePolicyToHigh, after two more.
GrowToHigh ==
  /\ toHigh
  /\ toHigh' = FALSE
  /\ policy' = High
  /\ UNCHANGED <<phase, c, background, marked, scroll, warnings, growing, app>>

\* NSCache drops an object: over the countLimit or for its own reasons.
Evict(i) ==
  /\ Evicts /\ c.cache[i] # 0
  /\ c' = [c EXCEPT !.cache[i] = 0]
  /\ UNCHANGED <<phase, background, marked, scroll, memory, app>>

\* willResignActive: what is cached is copied; what was copied before stays.
WillResignActive ==
  /\ Suspends /\ app = "active"
  /\ app' = "inactive"
  /\ background' = [i \in Page |-> IF c.cache[i] # 0 THEN c.cache[i] ELSE background[i]]
  /\ UNCHANGED <<phase, c, marked, scroll, memory>>

DidEnterBackground ==
  /\ app = "inactive" /\ app' = "background"
  /\ UNCHANGED <<phase, c, background, marked, scroll, memory>>

\* willEnterForeground: the copies fill the gaps.
WillEnterForeground ==
  /\ app = "background" /\ app' = "inactive"
  /\ c' = [c EXCEPT !.cache = [i \in Page |-> IF @[i] = 0 THEN background[i] ELSE @[i]]]
  /\ background' = NoChildren
  /\ UNCHANGED <<phase, marked, scroll, memory>>

DidBecomeActive ==
  /\ app = "inactive" /\ app' = "active"
  /\ UNCHANGED <<phase, c, background, marked, scroll, memory>>

-----------------------------------------------------------------------------
HostStep ==
  \/ ViewDidLoad \/ ViewDidLayoutSubviews \/ ViewDidAppear \/ Reload
  \/ \E i \in Page : MarkIndex(i) \/ SelectIndex(i)

UserStep ==
  \/ \E i \in Page : PressItem(i)
  \/ \E reported \in BOOLEAN : BeginDrag(reported)
  \/ \E x \in Offset : DragTo(x)
  \/ \E x \in Aligned : Release(x)
  \/ ReleaseAtRest

ScrollStep == EndDecelerating \/ EndAnimation \/ \E x \in Offset : Glide(x)

SystemStep ==
  \/ DidReceiveMemoryWarning
  \/ \E i \in Page : Evict(i)
  \/ WillResignActive \/ DidEnterBackground \/ WillEnterForeground \/ DidBecomeActive

Next == HostStep \/ UserStep \/ ScrollStep \/ SystemStep
          \/ GrowAfterMemoryWarning \/ GrowToHigh

\* Timers fire; nothing else has to happen.
Fairness == WF_vars(GrowAfterMemoryWarning) /\ WF_vars(GrowToHigh)

Spec == Init /\ [][Next]_vars
FairSpec == Spec /\ Fairness
-----------------------------------------------------------------------------
(* Properties.                                                             *)

AtRest == LaidOut /\ motion = "rest"

\* A page that can be seen has its child on display, wherever fingers, menu
\* presses, late frames, reloads and warnings have left the scroll view.
NoBlankPage ==
  LaidOut =>
    \A i \in Page : offset - 2 < 2 * i /\ 2 * i < offset + 2 => c.display[i] # 0

\* When the scroll view has come to rest, it rests on a page and the menu shows
\* that page as selected, after any mix of presses, drags, reloads and host calls
\* but one: setSelectIndex while the page moves under a finger or decelerates
\* clears _startDragging, and the menu stays behind until it is used again.
MenuFollowsPage ==
  AtRest /\ ~overruled => offset = 2 * selItem

\* The menu, switched off by a drag, is on again whenever the page rests, with
\* the same exception: a deceleration that setSelectIndex ends never reports the
\* end that switches the menu on, and only a drag or a reload does so later.
MenuNotLocked == AtRest /\ ~overruled => menuOn

\* A page has one child on display and another one in the cache, which would come
\* back in its place with its own scroll position and data.
Doubled(i) == c.display[i] # 0 /\ c.cache[i] # 0 /\ c.display[i] # c.cache[i]

\* Only the return to the foreground makes a page double: its copy of the cache
\* may be older than the child on display, which a warning or NSCache took from
\* the cache meanwhile.  No scrolling, selection, preload or reload does.
OnlyReturnDoubles ==
  [][\A i \in Page : Doubled(i)' => Doubled(i) \/ WillEnterForeground]_vars

\* After the third memory warning the cache stays at LowMemory: no timer of an
\* earlier warning is left that would let it grow.
NoGrowthAfterTooMany ==
  warnings >= 3 => policy = LowMemory /\ ~growing /\ ~toHigh

\* After a memory warning the cache policy grows back to High, unless another
\* warning comes (the comment on WMPageControllerCachePolicy).
GrowsBack ==
  \A n \in 1..2 :
    warnings = n ~> (policy = High \/ warnings > n)
=============================================================================
