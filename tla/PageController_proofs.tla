----------------------- MODULE PageController_proofs -----------------------
(***************************************************************************)
(* What holds of PageController for any number of pages, any preloading    *)
(* and any policies: first what the methods on the children return, then   *)
(* one inductive invariant for the menu and the scroll view and one for    *)
(* the children.                                                           *)
(***************************************************************************)
EXTENDS PageController, WellFoundedInduction, NaturalsInduction, TLAPS

USE PageAssumption

-----------------------------------------------------------------------------
(* Minima and maxima.                                                      *)

LEMMA LeastNatural ==
  ASSUME NEW S \in SUBSET Nat, S # {}
  PROVE  \E m \in S : \A y \in S : m <= y
<1> DEFINE Less == {ss \in Nat \X Nat : ss[1] < ss[2]}
<1>1. IsWellFoundedOn(Less, Nat)
  BY NatLessThanWellFounded, Zenon DEF OpToRel
<1>2. PICK m \in S : \A y \in S : ~(<<y, m>> \in Less)
  <2> HIDE DEF Less
  <2> QED
    BY <1>1, WFMin
<1>3. \A y \in S : ~(y < m)
  BY <1>2
<1>4. QED
  BY <1>3

LEMMA MinIsIn ==
  ASSUME NEW S \in SUBSET Nat, S # {}
  PROVE  Min(S) \in S
<1>1. PICK m \in S : \A y \in S : m <= y
  BY LeastNatural
<1>2. QED
  BY <1>1 DEF Min

\* The last page of some.
LEMMA MaxIsIn ==
  ASSUME NEW S \in SUBSET Page, S # {}
  PROVE  Max(S) \in S
<1> DEFINE T == {Count - y : y \in S}
<1>1. T \in SUBSET Nat /\ T # {}
  <2>1. \A y \in S : Count - y \in Nat
    BY DEF Page
  <2>2. QED
    BY <2>1
<1>2. PICK m \in T : \A y \in T : m <= y
  <2> HIDE DEF T
  <2> QED
    BY <1>1, LeastNatural
<1>3. PICK x \in S : m = Count - x
  BY <1>2
<1>4. \A y \in S : x >= y
  <2> SUFFICES ASSUME NEW y \in S PROVE x >= y
    OBVIOUS
  <2>1. Count - y \in T /\ Count - x <= Count - y
    BY <1>2, <1>3
  <2>2. QED
    BY <2>1 DEF Page
<1>5. QED
  BY <1>4 DEF Max

\* The only page of one.
LEMMA MaxOfOne ==
  ASSUME NEW i \in Page
  PROVE  Max({i}) = i
<1>1. {i} \in SUBSET Page /\ {i} # {}
  OBVIOUS
<1>2. QED
  BY <1>1, MaxIsIn

-----------------------------------------------------------------------------
(* The methods on the children.                                            *)

Kids == [display : [Page -> Child \cup {0}],
         cache : [Page -> Child \cup {0}],
         selectIndex : Page,
         current : [page : Page, child : Child \cup {0}]]

\* For a page without a child on display there is always a new one: at most
\* three others are alive.
LEMMA FreshChild ==
  ASSUME NEW s \in Kids, NEW i \in Page, s.display[i] = 0,
         background \in [Page -> Child \cup {0}]
  PROVE  Fresh(s, i) \in Child
<1> DEFINE alive == {s.display[i], s.cache[i], background[i]}
                      \cup (IF s.current.page = i THEN {s.current.child} ELSE {})
           a == s.cache[i]
           b == background[i]
           d == s.current.child
<1>1. alive \subseteq {0, a, b, d}
  OBVIOUS
<1> HIDE DEF a, b, d
<1>2. Child \ alive # {}
  <2> HIDE DEF alive
  <2>1. \E k \in Child : k # a /\ k # b /\ k # d
    BY DEF Child
  <2>2. QED
    BY <1>1, <2>1 DEF Child
<1>3. Child \ alive \in SUBSET Nat
  BY DEF Child
<1>4. Min(Child \ alive) \in Child \ alive
  <2> HIDE DEF alive
  <2> QED
    BY <1>2, <1>3, MinIsIn
<1>5. QED
  BY <1>4 DEF Fresh

LEMMA CreateKids ==
  ASSUME NEW s \in Kids, NEW S \in SUBSET Page, \A i \in S : s.display[i] = 0,
         background \in [Page -> Child \cup {0}]
  PROVE  /\ Create(s, S) \in Kids
         /\ \A i \in S : Create(s, S).display[i] # 0
         /\ \A i \in Page \ S : Create(s, S).display[i] = s.display[i]
         /\ Create(s, S).cache = s.cache /\ Create(s, S).current = s.current
         /\ Create(s, S).selectIndex = IF S = {} THEN s.selectIndex ELSE Max(S)
<1>1. CASE S = {}
  BY <1>1 DEF Create
<1>2. CASE S # {}
  <2> DEFINE d == [i \in Page |-> IF i \in S THEN Fresh(s, i) ELSE s.display[i]]
  <2>1. Create(s, S) = [display |-> d, cache |-> s.cache, selectIndex |-> Max(S),
                        current |-> s.current]
    BY <1>2 DEF Create, Kids
  <2>2. \A i \in S : Fresh(s, i) \in Child
    BY FreshChild
  <2>3. d \in [Page -> Child \cup {0}]
    BY <2>2 DEF Kids
  <2>4. \A i \in S : d[i] # 0
    BY <2>2 DEF Child
  <2>5. \A i \in Page \ S : d[i] = s.display[i]
    OBVIOUS
  <2> HIDE DEF d
  <2>6. Max(S) \in Page
    BY <1>2, MaxIsIn
  <2>7. QED
    BY <1>2, <2>1, <2>3, <2>4, <2>5, <2>6 DEF Kids
<1>3. QED
  BY <1>1, <1>2

LEMMA RestoreKids ==
  ASSUME NEW s \in Kids, NEW S \in SUBSET Page
  PROVE  /\ Restore(s, S) \in Kids
         /\ \A i \in S : Restore(s, S).display[i] = s.cache[i]
         /\ \A i \in Page \ S : Restore(s, S).display[i] = s.display[i]
         /\ Restore(s, S).cache = s.cache /\ Restore(s, S).current = s.current
<1>1. CASE S = {}
  BY <1>1 DEF Restore
<1>2. CASE S # {}
  <2> DEFINE d == [i \in Page |-> IF i \in S THEN s.cache[i] ELSE s.display[i]]
  <2>1. Restore(s, S) = [display |-> d, cache |-> s.cache, selectIndex |-> Max(S),
                         current |-> s.current]
    BY <1>2 DEF Restore, Kids
  <2>2. d \in [Page -> Child \cup {0}]
    BY DEF Kids
  <2>3. /\ \A i \in S : d[i] = s.cache[i]
        /\ \A i \in Page \ S : d[i] = s.display[i]
    OBVIOUS
  <2> HIDE DEF d
  <2>4. Max(S) \in Page
    BY <1>2, MaxIsIn
  <2>5. QED
    BY <2>1, <2>2, <2>3, <2>4 DEF Kids
<1>3. QED
  BY <1>1, <1>2

LEMMA RemoveKids ==
  ASSUME NEW s \in Kids, NEW S \in SUBSET Page
  PROVE  /\ Remove(s, S) \in Kids
         /\ \A i \in S : Remove(s, S).display[i] = 0
         /\ \A i \in Page \ S : /\ Remove(s, S).display[i] = s.display[i]
                                /\ Remove(s, S).cache[i] = s.cache[i]
         /\ Remove(s, S).selectIndex = s.selectIndex
         /\ Remove(s, S).current = s.current
<1> DEFINE d == [i \in Page |-> IF i \in S THEN 0 ELSE s.display[i]]
           m == [i \in Page |-> IF i \in S /\ policy # Disabled /\ s.cache[i] = 0
                                THEN s.display[i] ELSE s.cache[i]]
<1>1. Remove(s, S) = [display |-> d, cache |-> m, selectIndex |-> s.selectIndex,
                      current |-> s.current]
  <2>1. Remove(s, S) = [s EXCEPT !.display = d, !.cache = m]
    BY Zenon DEF Remove
  <2> HIDE DEF d, m
  <2>2. QED
    BY <2>1 DEF Kids
<1>2. d \in [Page -> Child \cup {0}] /\ m \in [Page -> Child \cup {0}]
  BY DEF Kids
<1>3. /\ \A i \in S : d[i] = 0
      /\ \A i \in Page \ S : d[i] = s.display[i] /\ m[i] = s.cache[i]
  OBVIOUS
<1> HIDE DEF d, m
<1>4. QED
  BY <1>1, <1>2, <1>3 DEF Kids

\* What a handler may do to the children of pages that cannot be seen.
Seen(s, x) == \A i \in Page : OnScreen(x, i) => s.display[i] # 0

\* A page has one child on display and another one in the cache.
Double(s, i) == s.display[i] # 0 /\ s.cache[i] # 0 /\ s.display[i] # s.cache[i]

NoNewDouble(s, t) == \A i \in Page : Double(t, i) => Double(s, i)

LEMMA NoNewDoubleTwice ==
  ASSUME NEW s, NEW t, NEW u, NoNewDouble(s, t), NoNewDouble(t, u)
  PROVE  NoNewDouble(s, u)
  BY DEF NoNewDouble

LEMMA RemoveDoubles ==
  ASSUME NEW s \in Kids, NEW S \in SUBSET Page
  PROVE  NoNewDouble(s, Remove(s, S))
  BY RemoveKids DEF NoNewDouble, Double

\* wm_layoutChildViewControllers: every page on the screen gets its child, the
\* one in the cache if there is one.
LEMMA LayoutKids ==
  ASSUME NEW s \in Kids, NEW x \in Offset, background \in [Page -> Child \cup {0}]
  PROVE  /\ Layout(s, x) \in Kids /\ Seen(Layout(s, x), x)
         /\ NoNewDouble(s, Layout(s, x))
<1> DEFINE shown == {i \in Page : s.display[i] # 0}
           enter == {i \in Page \ shown : OnScreen(x, i)}
           leave == {i \in shown : ~OnScreen(x, i) /\ i \notin Near(x \div 2)}
           cached == {i \in enter : s.cache[i] # 0}
           restored == Restore(s, cached)
           entered == Create(restored, enter \ cached)
           last == IF enter = {} THEN entered.selectIndex ELSE Max(enter)
           placed == [entered EXCEPT !.selectIndex = last]
<1>1. Layout(s, x) = Remove(placed, leave)
  BY Zenon DEF Layout
<1>2. /\ shown \in SUBSET Page /\ enter \in SUBSET Page /\ leave \in SUBSET Page
      /\ cached \in SUBSET Page /\ enter \ cached \in SUBSET Page
  OBVIOUS
<1>3. /\ restored \in Kids /\ restored.cache = s.cache
      /\ \A i \in cached : restored.display[i] = s.cache[i]
      /\ \A i \in Page \ cached : restored.display[i] = s.display[i]
  <2> HIDE DEF cached
  <2>1. QED
    BY <1>2, RestoreKids
<1>4. /\ \A i \in enter : s.display[i] = 0
      /\ \A i \in cached : s.cache[i] # 0 /\ i \in enter
      /\ \A i \in enter \ cached : s.cache[i] = 0
      /\ \A i \in Page : OnScreen(x, i) => i \in enter \/ s.display[i] # 0
      /\ \A i \in leave : ~OnScreen(x, i)
  OBVIOUS
<1> HIDE DEF shown, enter, leave, cached, restored
<1>5. /\ entered \in Kids /\ entered.cache = s.cache
      /\ \A i \in enter \ cached : entered.display[i] # 0
      /\ \A i \in Page \ (enter \ cached) : entered.display[i] = restored.display[i]
  <2>1. \A i \in enter \ cached : restored.display[i] = 0
    BY <1>2, <1>3, <1>4
  <2>2. QED
    BY <1>2, <1>3, <2>1, CreateKids
<1> HIDE DEF entered
<1>6. /\ placed \in Kids /\ placed.display = entered.display /\ placed.cache = s.cache
  <2>1. last \in Page
    BY <1>2, <1>5, MaxIsIn DEF Kids
  <2> HIDE DEF last
  <2>2. QED
    BY <1>5, <2>1 DEF Kids
<1> HIDE DEF placed
<1>7. \A i \in Page : OnScreen(x, i) => placed.display[i] # 0
  BY <1>2, <1>3, <1>4, <1>5, <1>6
<1>8. NoNewDouble(s, placed)
  BY <1>2, <1>3, <1>4, <1>5, <1>6 DEF NoNewDouble, Double
<1>9. Remove(placed, leave) \in Kids /\ NoNewDouble(placed, Remove(placed, leave))
  BY <1>2, <1>6, RemoveKids, RemoveDoubles
<1>10. \A i \in Page : OnScreen(x, i) => Remove(placed, leave).display[i] # 0
  <2>1. \A i \in Page \ leave : Remove(placed, leave).display[i] = placed.display[i]
    BY <1>2, <1>6, RemoveKids
  <2>2. QED
    BY <1>4, <1>7, <2>1
<1>11. QED
  BY <1>1, <1>8, <1>9, <1>10, NoNewDoubleTwice DEF Seen

LEMMA SetCurrentKids ==
  ASSUME NEW s \in Kids
  PROVE  /\ SetCurrent(s) \in Kids
         /\ SetCurrent(s).display = s.display /\ SetCurrent(s).cache = s.cache
         /\ SetCurrent(s).selectIndex = s.selectIndex
<1> DEFINE now == [page |-> s.selectIndex, child |-> s.display[s.selectIndex]]
<1>1. now \in [page : Page, child : Child \cup {0}]
  BY DEF Kids
<1>2. SetCurrent(s) = [s EXCEPT !.current = now]
  BY Zenon DEF SetCurrent
<1> HIDE DEF now
<1>3. QED
  BY <1>1, <1>2 DEF Kids

\* setting _selectIndex alone
LEMMA SelectedKids ==
  ASSUME NEW s \in Kids, NEW i \in Page
  PROVE  /\ [s EXCEPT !.selectIndex = i] \in Kids
         /\ [s EXCEPT !.selectIndex = i].display = s.display
         /\ [s EXCEPT !.selectIndex = i].cache = s.cache
         /\ [s EXCEPT !.selectIndex = i].selectIndex = i
  BY DEF Kids

\* didEnterController: pages near it get a child, unless they have one.
LEMMA DidEnterKids ==
  ASSUME NEW s \in Kids, NEW i \in Page, background \in [Page -> Child \cup {0}]
  PROVE  /\ DidEnter(s, i) \in Kids
         /\ \A x \in Offset : Seen(s, x) => Seen(DidEnter(s, i), x)
         /\ NoNewDouble(s, DidEnter(s, i))
<1>1. CASE Preload = 0
  BY <1>1 DEF DidEnter, NoNewDouble
<1>2. CASE Preload # 0
  <2> DEFINE missing == {k \in Near(i) : s.display[k] = 0 /\ s.cache[k] = 0}
             made == Create(s, missing)
  <2>1. DidEnter(s, i) = [made EXCEPT !.selectIndex = i]
    BY <1>2, Zenon DEF DidEnter
  <2>2. missing \in SUBSET Page /\ \A k \in missing : s.display[k] = 0 /\ s.cache[k] = 0
    BY DEF Near
  <2> HIDE DEF missing
  <2>3. /\ made \in Kids /\ made.cache = s.cache
        /\ \A k \in Page \ missing : made.display[k] = s.display[k]
    BY <2>2, CreateKids
  <2> HIDE DEF made
  <2>4. /\ DidEnter(s, i) \in Kids /\ DidEnter(s, i).cache = s.cache
        /\ DidEnter(s, i).display = made.display
    BY <2>1, <2>3, SelectedKids
  <2>5. \A x \in Offset : Seen(s, x) => Seen(DidEnter(s, i), x)
    BY <2>2, <2>3, <2>4 DEF Seen
  <2>6. NoNewDouble(s, DidEnter(s, i))
    BY <2>2, <2>3, <2>4 DEF NoNewDouble, Double
  <2>7. QED
    BY <2>4, <2>5, <2>6
<1>3. QED
  BY <1>1, <1>2

\* What a method that ends at offset x makes sure of: the children of the pages
\* on the screen, and no second child for a page.
LEMMA CurrentKids ==
  ASSUME NEW s \in Kids
  PROVE  /\ \A x \in Offset : Seen(s, x) => Seen(SetCurrent(s), x)
         /\ NoNewDouble(s, SetCurrent(s))
  BY SetCurrentKids DEF Seen, NoNewDouble, Double

\* menuView:didSelesctedIndex:currentIndex: without animation.
LEMMA JumpToKids ==
  ASSUME NEW s \in Kids, NEW i \in Page, NEW from \in Page,
         background \in [Page -> Child \cup {0}]
  PROVE  /\ JumpTo(s, i, from) \in Kids /\ Seen(JumpTo(s, i, from), 2 * i)
         /\ NoNewDouble(s, JumpTo(s, i, from))
<1> DEFINE closed == IF s.display[from] # 0 THEN Remove(s, {from}) ELSE s
           laid == Layout(closed, 2 * i)
<1>1. JumpTo(s, i, from) = DidEnter(SetCurrent(laid), i)
  BY Zenon DEF JumpTo
<1>2. closed \in Kids /\ NoNewDouble(s, closed)
  BY RemoveKids, RemoveDoubles DEF NoNewDouble
<1>3. 2 * i \in Offset
  BY DEF Page, Offset
<1> HIDE DEF closed
<1>4. laid \in Kids /\ Seen(laid, 2 * i) /\ NoNewDouble(closed, laid)
  BY <1>2, <1>3, LayoutKids
<1> HIDE DEF laid
<1>5. /\ SetCurrent(laid) \in Kids /\ Seen(SetCurrent(laid), 2 * i)
      /\ NoNewDouble(laid, SetCurrent(laid))
  BY <1>3, <1>4, SetCurrentKids, CurrentKids
<1>6. QED
  BY <1>1, <1>2, <1>3, <1>4, <1>5, DidEnterKids, NoNewDoubleTwice

\* A child for the selected page, the only one: viewDidLoad, reloadData.
LEMMA FirstKid ==
  ASSUME NEW s \in Kids, s.display = NoChildren,
         background \in [Page -> Child \cup {0}]
  PROVE  LET made == SetCurrent(Create(s, {s.selectIndex})) IN
         /\ made \in Kids /\ made.selectIndex = s.selectIndex /\ made.cache = s.cache
         /\ made.display[s.selectIndex] # 0 /\ Seen(made, 2 * s.selectIndex)
<1> DEFINE i == s.selectIndex
           created == Create(s, {i})
<1>1. i \in Page /\ {i} \in SUBSET Page /\ s.display[i] = 0
  BY DEF Kids, NoChildren
<1> HIDE DEF i
<1>2. \A k \in {i} : s.display[k] = 0
  BY <1>1
<1>3. /\ created \in Kids /\ created.display[i] # 0 /\ created.cache = s.cache
      /\ created.selectIndex = i
  BY <1>1, <1>2, CreateKids, MaxOfOne
<1> HIDE DEF created
<1>4. /\ SetCurrent(created) \in Kids /\ SetCurrent(created).display[i] # 0
      /\ SetCurrent(created).cache = s.cache /\ SetCurrent(created).selectIndex = i
  BY <1>3, SetCurrentKids
<1>5. \A k \in Page : OnScreen(2 * i, k) => k = i
  BY <1>1 DEF OnScreen, Page
<1>6. QED
  BY <1>4, <1>5 DEF Seen, i, created

\* menuView:didSelesctedIndex:currentIndex: called by the menu.
LEMMA DidSelectKids ==
  ASSUME NEW s \in Kids, NEW x \in Offset, NEW i \in Page, NEW from \in Page,
         background \in [Page -> Child \cup {0}],
         DidSelect(s, x, i, from)
  PROVE  /\ c' \in Kids /\ offset' \in Offset
         /\ Seen(s, x) => Seen(c', offset')
         /\ NoNewDouble(s, c')
<1> DEFINE selected == [s EXCEPT !.selectIndex = i]
<1>1. /\ selected \in Kids /\ selected.display = s.display /\ selected.cache = s.cache
  BY SelectedKids
<1> HIDE DEF selected
<1>2. CASE Animated
  <2>1. c' = selected /\ offset' = x
    BY <1>2 DEF DidSelect, selected
  <2>2. QED
    BY <1>1, <2>1 DEF Seen, NoNewDouble, Double
<1>3. CASE ~Animated
  <2>1. c' = JumpTo(selected, i, from) /\ offset' = 2 * i
    BY <1>3 DEF DidSelect, selected
  <2>2. NoNewDouble(s, selected)
    BY <1>1 DEF NoNewDouble, Double
  <2>3. 2 * i \in Offset
    BY DEF Page, Offset
  <2>4. QED
    BY <1>1, <2>1, <2>2, <2>3, JumpToKids, NoNewDoubleTwice
<1>4. QED
  BY <1>2, <1>3

LEMMA SelectItemKids ==
  ASSUME NEW s \in Kids, NEW x \in Offset, NEW i \in Page, selItem \in Page,
         background \in [Page -> Child \cup {0}],
         SelectItem(s, x, i)
  PROVE  /\ c' \in Kids /\ offset' \in Offset
         /\ Seen(s, x) => Seen(c', offset')
         /\ NoNewDouble(s, c')
<1>1. CASE i = selItem
  <2>1. c' = s /\ offset' = x
    BY <1>1 DEF SelectItem
  <2>2. QED
    BY <2>1 DEF NoNewDouble
<1>2. CASE i # selItem
  <2>1. DidSelect(s, x, i, selItem)
    BY <1>2 DEF SelectItem
  <2>2. QED
    BY <2>1, DidSelectKids
<1>3. QED
  BY <1>1, <1>2

\* scrollViewDidEndDecelerating, on the children.
LEMMA ScrollEnds ==
  ASSUME NEW s \in Kids, offset \in Offset, background \in [Page -> Child \cup {0}]
  PROVE  /\ EndedDecelerating(s) \in Kids
         /\ \A x \in Offset : Seen(s, x) => Seen(EndedDecelerating(s), x)
         /\ NoNewDouble(s, EndedDecelerating(s))
<1> DEFINE i == offset \div 2
           selected == [s EXCEPT !.selectIndex = i]
<1>1. EndedDecelerating(s) = DidEnter(SetCurrent(selected), i)
  BY Zenon DEF EndedDecelerating
<1>2. i \in Page
  BY DEF Page, Offset
<1> HIDE DEF i
<1>3. /\ selected \in Kids /\ selected.display = s.display /\ selected.cache = s.cache
  BY <1>2, SelectedKids
<1> HIDE DEF selected
<1>4. /\ SetCurrent(selected) \in Kids
      /\ SetCurrent(selected).display = s.display /\ SetCurrent(selected).cache = s.cache
  BY <1>3, SetCurrentKids
<1> DEFINE t == SetCurrent(selected)
<1> HIDE DEF t
<1>5. /\ \A x \in Offset : Seen(s, x) => Seen(t, x)
      /\ NoNewDouble(s, t)
  BY <1>4 DEF Seen, NoNewDouble, Double, t
<1>6. /\ DidEnter(t, i) \in Kids
      /\ \A x \in Offset : Seen(t, x) => Seen(DidEnter(t, i), x)
      /\ NoNewDouble(t, DidEnter(t, i))
  BY <1>2, <1>4, DidEnterKids DEF t
<1>7. EndedDecelerating(s) = DidEnter(t, i)
  BY <1>1 DEF t
<1>8. QED
  BY <1>5, <1>6, <1>7, NoNewDoubleTwice

-----------------------------------------------------------------------------
(* The inductive invariant.                                                *)

RestOK == AtRest /\ ~overruled => offset = 2 * selItem /\ menuOn

AnimateOK ==
  motion = "animate" => /\ LaidOut /\ Animated /\ target = 2 * selItem
                        /\ ~dragging /\ (overruled \/ menuOn)

\* A finger switches the menu off and lets it slide, unless the host overrules it.
DragOK ==
  motion \in {"drag", "decelerate"} => LaidOut /\ (overruled \/ dragging) /\ ~menuOn

DecelerateOK ==
  motion = "decelerate" /\ offset = target /\ ~overruled => offset = 2 * selItem

\* Before the first layout nothing has moved, and the host's index is marked.
EarlyOK ==
  ~LaidOut => /\ motion = "rest" /\ selItem = 0 /\ menuOn
              /\ c.selectIndex = IF marked = Undefined THEN 0 ELSE marked

MenuInv == RestOK /\ AnimateOK /\ DragOK /\ DecelerateOK /\ EarlyOK

\* The child that viewDidLoad made is the selected page's until the layout.
ShownInv ==
  "loaded" \notin HostSelects =>
    /\ phase = "loaded" => c.display[c.selectIndex] # 0
    /\ LaidOut => Seen(c, offset)

\* Nothing is kept before there is a view.
NewInv ==
  phase = "new" => /\ c.display = NoChildren /\ c.cache = NoChildren
                   /\ background = NoChildren

ChildrenInv ==
  /\ c \in Kids /\ offset \in Offset
  /\ NewInv /\ ShownInv

IInv == TypeOK /\ ChildrenInv /\ MenuInv /\ NoGrowthAfterTooMany

-----------------------------------------------------------------------------
(* The steps, on the children.                                             *)

LEMMA ViewDidLoadChildren ==
  ASSUME TypeOK, ChildrenInv, EarlyOK, ViewDidLoad
  PROVE  ChildrenInv' /\ NoNewDouble(c, c')
<1> DEFINE made == SetCurrent(Create(c, {c.selectIndex}))
<1>1. /\ phase = "new" /\ phase' = "loaded" /\ c' = made
      /\ offset' = offset /\ background' = background /\ app' = app
  BY DEF ViewDidLoad, scroll
<1>2. /\ made \in Kids /\ made.selectIndex = c.selectIndex /\ made.cache = c.cache
      /\ made.display[c.selectIndex] # 0
  BY <1>1, FirstKid DEF ChildrenInv, NewInv, TypeOK
<1> HIDE DEF made
<1>3. ShownInv' /\ NewInv'
  BY <1>1, <1>2 DEF ShownInv, NewInv, LaidOut
<1>4. NoNewDouble(c, c')
  BY <1>1, <1>2 DEF ChildrenInv, NewInv, NoNewDouble, Double, NoChildren
<1>5. QED
  BY <1>1, <1>2, <1>3, <1>4 DEF ChildrenInv

\* A step once there is a view.
LEMMA LaterChildren ==
  ASSUME ChildrenInv, phase # "new", phase' \in {"laidOut", "appeared"},
         c' \in Kids, offset' \in Offset,
         "loaded" \notin HostSelects => Seen(c', offset'),
         NoNewDouble(c, c')
  PROVE  ChildrenInv' /\ NoNewDouble(c, c')
<1>1. ShownInv'
  BY DEF ShownInv, LaidOut, Seen
<1>2. NewInv'
  BY DEF NewInv
<1>3. QED
  BY <1>1, <1>2 DEF ChildrenInv

LEMMA ViewDidLayoutSubviewsChildren ==
  ASSUME TypeOK, ChildrenInv, EarlyOK, ViewDidLayoutSubviews
  PROVE  ChildrenInv' /\ NoNewDouble(c, c')
<1> DEFINE i == c.selectIndex
<1>1. /\ phase = "loaded" /\ phase' = "laidOut"
      /\ UNCHANGED <<background, app>>
  BY DEF ViewDidLayoutSubviews
<1>2. c \in Kids /\ i \in Page /\ 2 * i \in Offset
  BY DEF ChildrenInv, Kids, Page, Offset
<1>3. "loaded" \notin HostSelects => Seen(c, 2 * i)
  <2>1. "loaded" \notin HostSelects => c.display[i] # 0
    BY <1>1 DEF ChildrenInv, ShownInv
  <2>2. \A k \in Page : OnScreen(2 * i, k) => k = i
    BY <1>2 DEF OnScreen, Page
  <2> HIDE DEF i
  <2>3. QED
    BY <2>1, <2>2 DEF Seen
<1>4. CASE marked = Undefined
  <2>1. c' = c /\ offset' = 2 * i
    BY <1>4 DEF ViewDidLayoutSubviews
  <2> HIDE DEF i
  <2>2. NoNewDouble(c, c')
    BY <2>1 DEF NoNewDouble
  <2>3. QED
    BY <1>1, <1>2, <1>3, <2>1, <2>2, LaterChildren
<1>5. CASE marked # Undefined
  <2> DEFINE s == [c EXCEPT !.selectIndex = marked]
  <2>1. marked \in Page /\ selItem \in Page /\ background \in [Page -> Child \cup {0}]
    BY <1>5 DEF TypeOK
  <2>2. SelectItem(s, 2 * i, marked)
    BY <1>5 DEF ViewDidLayoutSubviews
  <2>3. s \in Kids /\ s.display = c.display /\ s.cache = c.cache
    BY <1>2, <2>1, SelectedKids
  <2> HIDE DEF s, i
  <2>4. /\ c' \in Kids /\ offset' \in Offset
        /\ Seen(s, 2 * i) => Seen(c', offset')
        /\ NoNewDouble(s, c')
    BY <1>2, <2>1, <2>2, <2>3, SelectItemKids
  <2>5. (Seen(c, 2 * i) => Seen(s, 2 * i)) /\ NoNewDouble(c, s)
    BY <2>3 DEF Seen, NoNewDouble, Double
  <2>6. QED
    BY <1>1, <1>3, <2>4, <2>5, NoNewDoubleTwice, LaterChildren
<1>6. QED
  BY <1>4, <1>5

\* What the handlers after the first layout start from.
LEMMA LaidOutFacts ==
  ASSUME TypeOK, ChildrenInv, LaidOut
  PROVE  /\ phase # "new" /\ phase \in {"laidOut", "appeared"}
         /\ c \in Kids /\ c.selectIndex \in Page
         /\ offset \in Offset /\ target \in Offset /\ selItem \in Page
         /\ background \in [Page -> Child \cup {0}]
         /\ "loaded" \notin HostSelects => Seen(c, offset)
<1>1. target \in Offset
  BY DEF TypeOK, Aligned, Offset, Page
<1>2. "loaded" \notin HostSelects => Seen(c, offset)
  BY DEF ChildrenInv, ShownInv
<1>3. QED
  BY <1>1, <1>2 DEF TypeOK, ChildrenInv, LaidOut, Kids

LEMMA SelectIndexChildren ==
  ASSUME TypeOK, ChildrenInv, NEW i \in Page, SelectIndex(i)
  PROVE  ChildrenInv' /\ NoNewDouble(c, c')
<1> DEFINE s == [c EXCEPT !.selectIndex = i]
<1>1. LaidOut /\ phase' = phase /\ UNCHANGED <<background, app>> /\ SelectItem(s, offset, i)
  BY DEF SelectIndex
<1>2. s \in Kids /\ s.display = c.display /\ s.cache = c.cache
  BY <1>1, LaidOutFacts, SelectedKids
<1> HIDE DEF s
<1>3. /\ c' \in Kids /\ offset' \in Offset
      /\ Seen(s, offset) => Seen(c', offset')
      /\ NoNewDouble(s, c')
  BY <1>1, <1>2, LaidOutFacts, SelectItemKids
<1>4. (Seen(c, offset) => Seen(s, offset)) /\ NoNewDouble(c, s)
  BY <1>2 DEF Seen, NoNewDouble, Double
<1>5. QED
  BY <1>1, <1>3, <1>4, NoNewDoubleTwice, LaidOutFacts, LaterChildren

LEMMA PressItemChildren ==
  ASSUME TypeOK, ChildrenInv, NEW i \in Page, PressItem(i)
  PROVE  ChildrenInv' /\ NoNewDouble(c, c')
<1>1. LaidOut /\ phase' = phase /\ UNCHANGED <<background, app>>
      /\ DidSelect(c, offset, i, selItem)
  BY DEF PressItem, LaidOut
<1>2. /\ c' \in Kids /\ offset' \in Offset
      /\ Seen(c, offset) => Seen(c', offset')
      /\ NoNewDouble(c, c')
  BY <1>1, LaidOutFacts, DidSelectKids
<1>3. QED
  BY <1>1, <1>2, LaidOutFacts, LaterChildren

LEMMA ReloadChildren ==
  ASSUME TypeOK, ChildrenInv, Reload
  PROVE  ChildrenInv' /\ NoNewDouble(c, c')
<1> DEFINE none == [page |-> 0, child |-> 0]
           cleared == [c EXCEPT !.display = NoChildren, !.current = none]
           i == c.selectIndex
           made == SetCurrent(Create(cleared, {i}))
<1>1. /\ LaidOut /\ phase' = phase /\ UNCHANGED <<background, app>>
      /\ c' = [made EXCEPT !.cache = NoChildren] /\ offset' = 2 * i
  BY Zenon DEF Reload
<1>2. c \in Kids /\ i \in Page /\ 2 * i \in Offset /\ background \in [Page -> Child \cup {0}]
  BY <1>1, LaidOutFacts DEF Page, Offset
<1>3. none \in [page : Page, child : Child \cup {0}] /\ NoChildren \in [Page -> Child \cup {0}]
  BY DEF Page, NoChildren
<1> HIDE DEF none
<1>4. cleared \in Kids /\ cleared.display = NoChildren /\ cleared.selectIndex = i
  BY <1>2, <1>3 DEF Kids
<1> HIDE DEF cleared
<1>5. made \in Kids /\ Seen(made, 2 * i)
  BY <1>2, <1>4, FirstKid
<1> HIDE DEF made, i
<1>6. c' \in Kids /\ c'.display = made.display /\ c'.cache = NoChildren
  BY <1>1, <1>3, <1>5 DEF Kids
<1>7. Seen(c', offset') /\ NoNewDouble(c, c')
  BY <1>1, <1>5, <1>6 DEF Seen, NoNewDouble, Double, NoChildren
<1>8. QED
  BY <1>1, <1>2, <1>6, <1>7, LaidOutFacts, LaterChildren

\* A frame of a drag, a deceleration or an animation.
LEMMA DidScrollChildren ==
  ASSUME TypeOK, ChildrenInv, LaidOut, NEW x \in Offset, DidScroll(x),
         UNCHANGED <<phase, background>>
  PROVE  ChildrenInv' /\ NoNewDouble(c, c')
<1>1. c' = Layout(c, x) /\ offset' = x
  BY DEF DidScroll
<1>2. c' \in Kids /\ Seen(c', x) /\ NoNewDouble(c, c')
  BY <1>1, LaidOutFacts, LayoutKids
<1>3. QED
  BY <1>1, <1>2, LaidOutFacts, LaterChildren

\* A handler that adds children at the offset where the page already is.
LEMMA AddedChildren ==
  ASSUME TypeOK, ChildrenInv, LaidOut, phase' \in {"laidOut", "appeared"},
         UNCHANGED <<background, offset>>,
         c' \in Kids,
         Seen(c, offset) => Seen(c', offset),
         NoNewDouble(c, c')
  PROVE  ChildrenInv' /\ NoNewDouble(c, c')
<1>1. "loaded" \notin HostSelects => Seen(c', offset')
  BY LaidOutFacts
<1>2. offset' \in Offset
  BY LaidOutFacts
<1>3. QED
  BY <1>1, <1>2, LaidOutFacts, LaterChildren

LEMMA ScrollEndsChildren ==
  ASSUME TypeOK, ChildrenInv, LaidOut, c' = EndedDecelerating(c),
         UNCHANGED <<phase, background, offset>>
  PROVE  ChildrenInv' /\ NoNewDouble(c, c')
<1>1. /\ c' \in Kids
      /\ Seen(c, offset) => Seen(c', offset)
      /\ NoNewDouble(c, c')
  BY LaidOutFacts, ScrollEnds
<1>2. QED
  BY <1>1, LaidOutFacts, AddedChildren

LEMMA ViewDidAppearChildren ==
  ASSUME TypeOK, ChildrenInv, ViewDidAppear
  PROVE  ChildrenInv' /\ NoNewDouble(c, c')
<1>1. /\ LaidOut /\ phase' = "appeared" /\ c' = DidEnter(c, c.selectIndex)
      /\ UNCHANGED <<background, offset>>
  BY DEF ViewDidAppear, scroll
<1>2. /\ c' \in Kids
      /\ Seen(c, offset) => Seen(c', offset)
      /\ NoNewDouble(c, c')
  BY <1>1, LaidOutFacts, DidEnterKids
<1>3. QED
  BY <1>1, <1>2, AddedChildren

LEMMA EndAnimationChildren ==
  ASSUME TypeOK, ChildrenInv, LaidOut, EndAnimation
  PROVE  ChildrenInv' /\ NoNewDouble(c, c')
<1> DEFINE s == SetCurrent(c)
<1>1. c' = DidEnter(s, c.selectIndex) /\ UNCHANGED <<phase, background, offset>>
  BY DEF EndAnimation
<1>2. /\ s \in Kids
      /\ Seen(c, offset) => Seen(s, offset)
      /\ NoNewDouble(c, s)
  BY LaidOutFacts, SetCurrentKids, CurrentKids
<1> HIDE DEF s
<1>3. /\ c' \in Kids
      /\ Seen(s, offset) => Seen(c', offset)
      /\ NoNewDouble(s, c')
  BY <1>1, <1>2, LaidOutFacts, DidEnterKids
<1>4. QED
  BY <1>1, <1>2, <1>3, NoNewDoubleTwice, LaidOutFacts, AddedChildren

\* The cache alone loses children: a memory warning, an eviction.
LEMMA CacheLosesChildren ==
  ASSUME ChildrenInv, UNCHANGED <<phase, background, offset>>,
         NEW m \in [Page -> Child \cup {0}], c' = [c EXCEPT !.cache = m],
         \A i \in Page : m[i] # 0 => m[i] = c.cache[i]
  PROVE  ChildrenInv' /\ NoNewDouble(c, c')
<1>1. /\ c' \in Kids /\ c'.display = c.display /\ c'.cache = m
      /\ c'.selectIndex = c.selectIndex
  BY DEF ChildrenInv, Kids
<1>2. ShownInv'
  BY <1>1 DEF ChildrenInv, ShownInv, LaidOut, Seen
<1>3. NoNewDouble(c, c')
  BY <1>1 DEF NoNewDouble, Double
<1>4. c.cache = NoChildren => m = NoChildren
  BY DEF NoChildren
<1>5. NewInv'
  BY <1>1, <1>4 DEF ChildrenInv, NewInv
<1>6. QED
  BY <1>1, <1>2, <1>3, <1>5 DEF ChildrenInv

LEMMA EvictChildren ==
  ASSUME ChildrenInv, NEW i \in Page, Evict(i)
  PROVE  ChildrenInv' /\ NoNewDouble(c, c')
<1> DEFINE m == [c.cache EXCEPT ![i] = 0]
<1>1. c' = [c EXCEPT !.cache = m] /\ UNCHANGED <<phase, background, offset>>
  <2>1. c' = [c EXCEPT !.cache[i] = 0] /\ UNCHANGED <<phase, background, offset>>
    BY DEF Evict, scroll
  <2>2. QED
    BY <2>1 DEF ChildrenInv, Kids
<1>2. m \in [Page -> Child \cup {0}] /\ \A k \in Page : m[k] # 0 => m[k] = c.cache[k]
  BY DEF ChildrenInv, Kids
<1> HIDE DEF m
<1>3. QED
  BY <1>1, <1>2, CacheLosesChildren

LEMMA WarningChildren ==
  ASSUME ChildrenInv, DidReceiveMemoryWarning
  PROVE  ChildrenInv' /\ NoNewDouble(c, c')
<1>1. c' = [c EXCEPT !.cache = NoChildren] /\ UNCHANGED <<phase, background, offset>>
  BY DEF DidReceiveMemoryWarning, scroll
<1>2. /\ NoChildren \in [Page -> Child \cup {0}]
      /\ \A k \in Page : NoChildren[k] # 0 => NoChildren[k] = c.cache[k]
  BY DEF NoChildren
<1>3. QED
  BY <1>1, <1>2, CacheLosesChildren

LEMMA MarkIndexChildren ==
  ASSUME ChildrenInv, NEW i \in Page, MarkIndex(i)
  PROVE  ChildrenInv' /\ NoNewDouble(c, c')
<1>1. /\ phase \in HostSelects /\ ~LaidOut /\ c' = [c EXCEPT !.selectIndex = i]
      /\ UNCHANGED <<phase, background, offset>>
  BY DEF MarkIndex, scroll
<1>2. c' \in Kids /\ c'.display = c.display /\ c'.cache = c.cache
  BY <1>1, SelectedKids DEF ChildrenInv
<1>3. ShownInv' /\ NewInv' /\ NoNewDouble(c, c')
  BY <1>1, <1>2 DEF ChildrenInv, ShownInv, NewInv, NoNewDouble, Double, LaidOut
<1>4. QED
  BY <1>1, <1>2, <1>3 DEF ChildrenInv

LEMMA WillResignActiveChildren ==
  ASSUME ChildrenInv, WillResignActive
  PROVE  ChildrenInv' /\ NoNewDouble(c, c')
<1>1. UNCHANGED <<phase, c, offset>>
  BY DEF WillResignActive, scroll
<1>2. c.cache = NoChildren /\ background = NoChildren => background' = NoChildren
  BY Zenon DEF WillResignActive, NoChildren
<1>3. ShownInv' /\ NewInv' /\ NoNewDouble(c, c')
  BY <1>1, <1>2 DEF ChildrenInv, ShownInv, NewInv, NoNewDouble, LaidOut, Seen
<1>4. QED
  BY <1>1, <1>3 DEF ChildrenInv

\* The one step that may leave a page with two children.
LEMMA WillEnterForegroundChildren ==
  ASSUME TypeOK, ChildrenInv, WillEnterForeground
  PROVE  ChildrenInv'
<1> DEFINE m == [i \in Page |-> IF c.cache[i] = 0 THEN background[i] ELSE c.cache[i]]
<1>1. /\ background' = NoChildren /\ c' = [c EXCEPT !.cache = m]
      /\ UNCHANGED <<phase, offset>>
  BY Zenon DEF WillEnterForeground, scroll
<1>2. m \in [Page -> Child \cup {0}]
  BY DEF TypeOK, ChildrenInv, Kids
<1>4. c.cache = NoChildren /\ background = NoChildren => m = NoChildren
  BY DEF NoChildren
<1> HIDE DEF m
<1>3. /\ c' \in Kids /\ c'.display = c.display /\ c'.selectIndex = c.selectIndex
      /\ c'.cache = m
  BY <1>1, <1>2 DEF ChildrenInv, Kids
<1>5. ShownInv' /\ NewInv'
  BY <1>1, <1>3, <1>4 DEF ChildrenInv, ShownInv, NewInv, LaidOut, Seen
<1>6. QED
  BY <1>1, <1>3, <1>5 DEF ChildrenInv

\* Everything that leaves the children and the offset alone.
LEMMA SameChildren ==
  ASSUME ChildrenInv, UNCHANGED <<phase, c, offset, background>>
  PROVE  ChildrenInv' /\ NoNewDouble(c, c')
  BY DEF ChildrenInv, ShownInv, NewInv, LaidOut, Seen, NoNewDouble

-----------------------------------------------------------------------------
(* The steps, on the menu and the scroll view.                             *)

ScrollTypes ==
  /\ target \in Aligned /\ selItem \in Page
  /\ motion \in {"rest", "drag", "decelerate", "animate"}
  /\ dragging \in BOOLEAN /\ menuOn \in BOOLEAN /\ overruled \in BOOLEAN

MenuOK == ScrollTypes /\ MenuInv

\* The page of an offset, and the other way round.
LEMMA HalfOfAligned ==
  /\ \A x \in Aligned : x \in Offset /\ x \div 2 \in Page /\ 2 * (x \div 2) = x
  /\ \A i \in Page : 2 * i \in Aligned
  /\ 0 \in Page /\ 0 \in Aligned
<1>1. \A i \in Page : 2 * i \in Aligned /\ (2 * i) \div 2 = i /\ 2 * i \in Offset
  BY DEF Aligned, Page, Offset
<1>2. 0 \in Page
  BY DEF Page
<1>3. QED
  BY <1>1, <1>2 DEF Aligned

LEMMA SameMenu ==
  ASSUME MenuOK, UNCHANGED <<scroll, marked>>, LaidOut' <=> LaidOut,
         ~LaidOut => c'.selectIndex = c.selectIndex
  PROVE  MenuOK'
<1>1. ScrollTypes'
  BY DEF MenuOK, ScrollTypes, scroll
<1>2. MenuInv'
  BY DEF MenuOK, MenuInv, RestOK, AtRest, AnimateOK, DragOK, DecelerateOK, EarlyOK, scroll
<1>3. QED
  BY <1>1, <1>2 DEF MenuOK

\* A selection by the menu: by a press when it is not switched off, or by the host,
\* which overrules a finger or a deceleration.
LEMMA DidSelectMenu ==
  ASSUME MenuOK, NEW s, NEW i \in Page, NEW x, DidSelect(s, x, i, selItem),
         selItem' = i, menuOn' = menuOn, LaidOut', overruled' \in BOOLEAN,
         overruled' \/ menuOn, motion = "drag" => overruled' /\ ~menuOn
  PROVE  MenuOK'
<1>1. dragging' = FALSE
  BY DEF DidSelect
<1>2. CASE motion = "drag" /\ UNCHANGED <<motion, target>>
  <2>1. ScrollTypes'
    BY <1>1, <1>2 DEF MenuOK, ScrollTypes
  <2>2. MenuInv'
    BY <1>1, <1>2 DEF MenuInv, RestOK, AtRest, AnimateOK, DragOK, DecelerateOK, EarlyOK
  <2>3. QED
    BY <2>1, <2>2 DEF MenuOK
<1>3. CASE Animated /\ motion' = "animate" /\ target' = 2 * i
  <2>1. ScrollTypes'
    BY <1>1, <1>3, HalfOfAligned DEF MenuOK, ScrollTypes
  <2>2. MenuInv'
    BY <1>1, <1>3 DEF MenuInv, RestOK, AtRest, AnimateOK, DragOK, DecelerateOK, EarlyOK
  <2>3. QED
    BY <2>1, <2>2 DEF MenuOK
<1>4. CASE offset' = 2 * i /\ motion' = "rest" /\ target' = 0
  <2>1. ScrollTypes'
    BY <1>1, <1>4, HalfOfAligned DEF MenuOK, ScrollTypes
  <2>2. MenuInv'
    BY <1>1, <1>4 DEF MenuInv, RestOK, AtRest, AnimateOK, DragOK, DecelerateOK, EarlyOK
  <2>3. QED
    BY <2>1, <2>2 DEF MenuOK
<1>5. QED
  BY <1>2, <1>3, <1>4, Zenon DEF DidSelect

\* The remembered index is selected at the first layout, where the page is
\* already at that index's offset.
LEMMA ViewDidLayoutSubviewsMenu ==
  ASSUME TypeOK, MenuOK, ViewDidLayoutSubviews
  PROVE  MenuOK'
<1>1. /\ ~LaidOut /\ LaidOut' /\ marked' = Undefined
      /\ UNCHANGED <<menuOn, overruled>>
  BY DEF ViewDidLayoutSubviews, LaidOut
<1>2. /\ motion = "rest" /\ selItem = 0 /\ menuOn
      /\ c.selectIndex = IF marked = Undefined THEN 0 ELSE marked
  BY <1>1 DEF MenuOK, MenuInv, EarlyOK
<1>3. /\ motion' = "rest" /\ target' \in {target, 0} /\ dragging' \in BOOLEAN
      /\ selItem' \in Page /\ offset' = 2 * selItem'
  <2>1. CASE marked = Undefined
    <3>1. offset' = 2 * c.selectIndex /\ UNCHANGED <<motion, target, dragging, selItem>>
      BY <2>1 DEF ViewDidLayoutSubviews
    <3>2. QED
      BY <1>2, <2>1, <3>1 DEF MenuOK, ScrollTypes
  <2>2. CASE marked # Undefined
    <3> DEFINE s == [c EXCEPT !.selectIndex = marked]
    <3>1. marked \in Page /\ SelectItem(s, 2 * marked, marked)
      BY <1>2, <2>2 DEF ViewDidLayoutSubviews, TypeOK
    <3> HIDE DEF s
    <3>2. CASE marked = selItem
      BY <1>2, <3>1, <3>2 DEF SelectItem, MenuOK, ScrollTypes
    <3>3. CASE marked # selItem
      <4>1. selItem' = marked /\ DidSelect(s, 2 * marked, marked, selItem)
        BY <3>1, <3>3 DEF SelectItem
      <4>2. /\ dragging' = FALSE /\ motion' = "rest" /\ target' = 0
            /\ offset' = 2 * marked
        BY <1>2, <4>1, Zenon DEF DidSelect
      <4>3. QED
        BY <1>2, <3>1, <4>1, <4>2
    <3>4. QED
      BY <3>2, <3>3
  <2>3. QED
    BY <2>1, <2>2
<1>4. ScrollTypes'
  BY <1>1, <1>3, HalfOfAligned DEF MenuOK, ScrollTypes
<1>5. MenuInv'
  BY <1>1, <1>2, <1>3 DEF MenuInv, RestOK, AtRest, AnimateOK, DragOK, DecelerateOK, EarlyOK
<1>6. QED
  BY <1>4, <1>5 DEF MenuOK

LEMMA SelectIndexMenu ==
  ASSUME TypeOK, MenuOK, NEW i \in Page, SelectIndex(i)
  PROVE  MenuOK'
<1> DEFINE s == [c EXCEPT !.selectIndex = i]
<1>1. LaidOut /\ LaidOut' /\ menuOn' = menuOn /\ SelectItem(s, offset, i)
  BY DEF SelectIndex, LaidOut
<1> HIDE DEF s
<1>2. CASE i = selItem
  <2>1. offset' = offset /\ UNCHANGED <<motion, target, dragging, selItem, overruled>>
    BY <1>1, <1>2 DEF SelectItem, SelectIndex
  <2>2. ScrollTypes'
    BY <1>1, <2>1 DEF MenuOK, ScrollTypes
  <2>3. MenuInv'
    BY <1>1, <2>1 DEF MenuOK, MenuInv, RestOK, AtRest, AnimateOK, DragOK, DecelerateOK, EarlyOK
  <2>4. QED
    BY <2>2, <2>3 DEF MenuOK
<1>3. CASE i # selItem
  <2>1. selItem' = i /\ DidSelect(s, offset, i, selItem)
    BY <1>1, <1>3 DEF SelectItem
  <2>2. /\ motion \in {"drag", "decelerate"} => overruled' = TRUE
        /\ motion \notin {"drag", "decelerate"} => overruled' = overruled
    BY <1>3, Zenon DEF SelectIndex
  <2>3. overruled' \in BOOLEAN
    BY <2>2, Zenon DEF MenuOK, ScrollTypes
  <2>4. motion \notin {"drag", "decelerate"} => overruled \/ menuOn
    BY <1>1 DEF MenuOK, ScrollTypes, MenuInv, RestOK, AtRest, AnimateOK
  <2>5. overruled' \/ menuOn
    <3>1. CASE motion \in {"drag", "decelerate"}
      BY <2>2, <3>1
    <3>2. CASE motion \notin {"drag", "decelerate"}
      <4>1. overruled' = overruled
        BY <2>2, <3>2
      <4>2. overruled \/ menuOn
        BY <2>4, <3>2
      <4>3. QED
        BY <4>1, <4>2, Zenon
    <3>3. QED
      BY <3>1, <3>2
  <2>6. motion = "drag" => overruled' /\ ~menuOn
    BY <2>2 DEF MenuOK, MenuInv, DragOK
  <2>7. QED
    BY <1>1, <2>1, <2>3, <2>5, <2>6, DidSelectMenu
<1>4. QED
  BY <1>2, <1>3

LEMMA PressItemMenu ==
  ASSUME TypeOK, MenuOK, NEW i \in Page, PressItem(i)
  PROVE  MenuOK'
<1>1. /\ LaidOut' /\ menuOn /\ menuOn' = menuOn /\ overruled' = FALSE
      /\ selItem' = i /\ DidSelect(c, offset, i, selItem)
  BY DEF PressItem, LaidOut
<1>2. motion # "drag"
  BY <1>1 DEF MenuOK, MenuInv, DragOK
<1>3. QED
  BY <1>1, <1>2, DidSelectMenu

LEMMA ReloadMenu ==
  ASSUME TypeOK, ChildrenInv, MenuOK, Reload
  PROVE  MenuOK'
<1>1. /\ LaidOut /\ LaidOut' /\ motion' = "rest" /\ target' = 0
      /\ offset' = 2 * c.selectIndex /\ selItem' = c.selectIndex
      /\ menuOn' = TRUE /\ overruled' = FALSE /\ dragging' = dragging
  BY DEF Reload, LaidOut
<1>2. c.selectIndex \in Page
  BY DEF ChildrenInv, Kids
<1>3. QED
  BY <1>1, <1>2, HalfOfAligned DEF MenuOK, ScrollTypes, MenuInv, RestOK, AtRest, AnimateOK,
                                   DragOK, DecelerateOK, EarlyOK

LEMMA BeginDragMenu ==
  ASSUME MenuOK, NEW reported, BeginDrag(reported)
  PROVE  MenuOK'
<1>1. /\ LaidOut' /\ motion' = "drag" /\ target' = 0 /\ dragging' = TRUE
      /\ menuOn' = FALSE /\ overruled' = FALSE /\ selItem' = selItem
  BY DEF BeginDrag, LaidOut
<1>2. QED
  BY <1>1, HalfOfAligned DEF MenuOK, ScrollTypes, MenuInv, RestOK, AtRest, AnimateOK,
                             DragOK, DecelerateOK, EarlyOK

LEMMA ReleaseMenu ==
  ASSUME MenuOK, NEW x \in Aligned, Release(x)
  PROVE  MenuOK'
<1>1. /\ motion = "drag" /\ x # offset /\ motion' = "decelerate" /\ target' = x
      /\ UNCHANGED <<phase, offset, dragging, selItem, menuOn, overruled>>
  BY DEF Release
<1>2. LaidOut /\ LaidOut'
  BY <1>1 DEF MenuOK, MenuInv, DragOK, LaidOut
<1>3. QED
  BY <1>1, <1>2 DEF MenuOK, ScrollTypes, MenuInv, RestOK, AtRest, AnimateOK,
                    DragOK, DecelerateOK, EarlyOK

LEMMA ReleaseAtRestMenu ==
  ASSUME MenuOK, ReleaseAtRest
  PROVE  MenuOK'
<1>1. /\ motion = "drag" /\ offset \in Aligned /\ motion' = "rest"
      /\ selItem' = offset \div 2 /\ menuOn' = TRUE
      /\ UNCHANGED <<phase, offset, dragging, target, overruled>>
  BY DEF ReleaseAtRest
<1>2. LaidOut /\ LaidOut'
  BY <1>1 DEF MenuOK, MenuInv, DragOK, LaidOut
<1>3. selItem' \in Page /\ offset' = 2 * selItem'
  BY <1>1, HalfOfAligned
<1>4. QED
  BY <1>1, <1>2, <1>3 DEF MenuOK, ScrollTypes, MenuInv, RestOK, AtRest, AnimateOK,
                          DragOK, DecelerateOK, EarlyOK

\* The menu follows a drag and a deceleration frame by frame; an animation was
\* started by the menu.
LEMMA DragToMenu ==
  ASSUME MenuOK, NEW x \in Offset, DragTo(x)
  PROVE  MenuOK'
<1>1. /\ motion = "drag" /\ offset' = x
      /\ selItem' = IF dragging /\ x \in Aligned THEN x \div 2 ELSE selItem
      /\ UNCHANGED <<phase, motion, target, dragging, menuOn, overruled>>
  BY DEF DragTo, DidScroll
<1>2. LaidOut /\ LaidOut'
  BY <1>1 DEF MenuOK, MenuInv, DragOK, LaidOut
<1>3. selItem' \in Page
  BY <1>1, HalfOfAligned DEF MenuOK, ScrollTypes
<1>4. QED
  BY <1>1, <1>2, <1>3 DEF MenuOK, ScrollTypes, MenuInv, RestOK, AtRest, AnimateOK,
                          DragOK, DecelerateOK, EarlyOK

LEMMA GlideMenu ==
  ASSUME MenuOK, NEW x \in Offset, Glide(x)
  PROVE  MenuOK'
<1>1. /\ motion \in {"decelerate", "animate"} /\ offset' = x
      /\ selItem' = IF dragging /\ x \in Aligned THEN x \div 2 ELSE selItem
      /\ UNCHANGED <<phase, motion, target, dragging, menuOn, overruled>>
  BY DEF Glide, DidScroll
<1>2. LaidOut /\ LaidOut'
  BY <1>1 DEF MenuOK, MenuInv, DragOK, AnimateOK, LaidOut
<1>3. selItem' \in Page
  BY <1>1, HalfOfAligned DEF MenuOK, ScrollTypes
<1>4. ScrollTypes'
  BY <1>1, <1>3 DEF MenuOK, ScrollTypes
<1>5. CASE motion = "decelerate"
  <2>1. overruled \/ dragging
    BY <1>5 DEF MenuOK, MenuInv, DragOK
  <2>2. offset' = target' /\ ~overruled => offset' = 2 * selItem'
    BY <1>1, <2>1, HalfOfAligned DEF MenuOK, ScrollTypes
  <2>3. QED
    BY <1>1, <1>2, <1>4, <1>5, <2>1, <2>2
    DEF MenuOK, MenuInv, RestOK, AtRest, AnimateOK, DragOK, DecelerateOK, EarlyOK
<1>6. CASE motion = "animate"
  <2>1. ~dragging /\ selItem' = selItem
    BY <1>1, <1>6 DEF MenuOK, MenuInv, AnimateOK
  <2>2. QED
    BY <1>1, <1>2, <1>4, <1>6, <2>1
    DEF MenuOK, MenuInv, RestOK, AtRest, AnimateOK, DragOK, DecelerateOK, EarlyOK
<1>7. QED
  BY <1>1, <1>5, <1>6

LEMMA EndDeceleratingMenu ==
  ASSUME MenuOK, EndDecelerating
  PROVE  MenuOK'
<1>1. /\ motion = "decelerate" /\ offset = target /\ motion' = "rest" /\ target' = 0
      /\ menuOn' = TRUE /\ UNCHANGED <<phase, offset, dragging, selItem, overruled>>
  BY DEF EndDecelerating
<1>2. LaidOut /\ LaidOut' /\ (overruled \/ offset = 2 * selItem)
  BY <1>1 DEF MenuOK, MenuInv, DragOK, DecelerateOK, LaidOut
<1>3. QED
  BY <1>1, <1>2, HalfOfAligned DEF MenuOK, ScrollTypes, MenuInv, RestOK, AtRest, AnimateOK,
                                   DragOK, DecelerateOK, EarlyOK

LEMMA EndAnimationMenu ==
  ASSUME MenuOK, EndAnimation
  PROVE  MenuOK'
<1>1. /\ motion = "animate" /\ offset = target /\ motion' = "rest" /\ target' = 0
      /\ UNCHANGED <<phase, offset, dragging, selItem, menuOn, overruled>>
  BY DEF EndAnimation
<1>2. LaidOut /\ LaidOut' /\ offset = 2 * selItem /\ (overruled \/ menuOn)
  BY <1>1 DEF MenuOK, MenuInv, AnimateOK, LaidOut
<1>3. QED
  BY <1>1, <1>2, HalfOfAligned DEF MenuOK, ScrollTypes, MenuInv, RestOK, AtRest, AnimateOK,
                                   DragOK, DecelerateOK, EarlyOK

\* The host's index before the first layout is the one that is marked.
LEMMA MarkIndexMenu ==
  ASSUME ChildrenInv, MenuOK, NEW i \in Page, MarkIndex(i)
  PROVE  MenuOK'
<1>1. /\ ~LaidOut /\ ~LaidOut' /\ c' = [c EXCEPT !.selectIndex = i] /\ marked' = i
      /\ UNCHANGED scroll
  BY DEF MarkIndex, LaidOut
<1>2. c'.selectIndex = i /\ i # Undefined
  BY <1>1 DEF ChildrenInv, Kids, Page, Undefined
<1>3. QED
  BY <1>1, <1>2 DEF MenuOK, ScrollTypes, MenuInv, RestOK, AtRest, AnimateOK,
                    DragOK, DecelerateOK, EarlyOK, scroll

LEMMA ViewDidLoadMenu ==
  ASSUME TypeOK, ChildrenInv, MenuOK, ViewDidLoad
  PROVE  MenuOK'
<1> DEFINE made == SetCurrent(Create(c, {c.selectIndex}))
<1>1. /\ phase = "new" /\ ~LaidOut /\ ~LaidOut' /\ c' = made /\ UNCHANGED <<scroll, marked>>
  BY DEF ViewDidLoad, LaidOut
<1>2. made.selectIndex = c.selectIndex
  BY <1>1, FirstKid DEF ChildrenInv, NewInv, TypeOK
<1> HIDE DEF made
<1>3. QED
  BY <1>1, <1>2, SameMenu

-----------------------------------------------------------------------------
(* The invariants.                                                         *)

\* The rest of the state: what the memory warnings and the app's state leave.
OtherTypes ==
  /\ phase \in Phase /\ background \in [Page -> Child \cup {0}]
  /\ marked \in Page \cup {Undefined}
  /\ policy \in Policy /\ warnings \in Nat
  /\ growing \in BOOLEAN /\ toHigh \in BOOLEAN
  /\ app \in {"active", "inactive", "background"}

LEMMA TypesOfParts ==
  TypeOK <=> c \in Kids /\ offset \in Offset /\ ScrollTypes /\ OtherTypes
  BY Zenon DEF TypeOK, Kids, ScrollTypes, OtherTypes

LEMMA InitInvariant ==
  ASSUME Init
  PROVE  IInv
<1> DEFINE none == [page |-> 0, child |-> 0]
<1>1. 0 \in Page /\ 0 \in Offset /\ none \in [page : Page, child : Child \cup {0}]
      /\ NoChildren \in [Page -> Child \cup {0}]
  BY DEF Page, Offset, NoChildren
<1>2. c = [display |-> NoChildren, cache |-> NoChildren, selectIndex |-> 0, current |-> none]
  BY DEF Init
<1> HIDE DEF none
<1>3. c \in Kids /\ c.display = NoChildren /\ c.cache = NoChildren /\ c.selectIndex = 0
  BY <1>1, <1>2 DEF Kids
<1>4. MenuOK
  BY <1>3, HalfOfAligned DEF Init, MenuOK, ScrollTypes, MenuInv, RestOK, AtRest, AnimateOK,
                             DragOK, DecelerateOK, EarlyOK, LaidOut
<1>5. ChildrenInv
  BY <1>1, <1>3 DEF Init, ChildrenInv, ShownInv, NewInv, LaidOut
<1>6. TypeOK
  <2>1. OtherTypes
    BY <1>1 DEF Init, Phase, OtherTypes
  <2>2. QED
    BY <1>4, <1>5, <2>1, TypesOfParts DEF MenuOK, ChildrenInv
<1>7. NoGrowthAfterTooMany
  BY DEF Init, NoGrowthAfterTooMany
<1>8. QED
  BY <1>4, <1>5, <1>6, <1>7 DEF IInv, MenuOK

\* The children's part of every step.
LEMMA NextChildren ==
  ASSUME TypeOK, ChildrenInv, MenuOK, [Next]_vars
  PROVE  ChildrenInv' /\ (NoNewDouble(c, c') \/ WillEnterForeground)
<1>1. EarlyOK
  BY DEF MenuOK, MenuInv
<1>2. CASE HostStep
  <2>1. CASE ViewDidLoad
    BY <1>1, <2>1, ViewDidLoadChildren
  <2>2. CASE ViewDidLayoutSubviews
    BY <1>1, <2>2, ViewDidLayoutSubviewsChildren
  <2>3. CASE ViewDidAppear
    BY <2>3, ViewDidAppearChildren
  <2>4. CASE Reload
    BY <2>4, ReloadChildren
  <2>5. CASE \E i \in Page : MarkIndex(i)
    BY <2>5, MarkIndexChildren
  <2>6. CASE \E i \in Page : SelectIndex(i)
    BY <2>6, SelectIndexChildren
  <2>7. QED
    BY <1>2, <2>1, <2>2, <2>3, <2>4, <2>5, <2>6 DEF HostStep
<1>3. CASE UserStep
  <2>1. CASE \E i \in Page : PressItem(i)
    BY <2>1, PressItemChildren
  <2>2. ASSUME NEW reported \in BOOLEAN, BeginDrag(reported)
        PROVE  ChildrenInv' /\ NoNewDouble(c, c')
    <3>1. LaidOut /\ UNCHANGED <<phase, background, offset>>
      BY <2>2 DEF BeginDrag, LaidOut
    <3>2. CASE reported
      <4>1. c' = EndedDecelerating(c)
        BY <2>2, <3>2 DEF BeginDrag
      <4>2. QED
        BY <3>1, <4>1, ScrollEndsChildren
    <3>3. CASE ~reported
      <4>1. c' = c
        BY <2>2, <3>3 DEF BeginDrag
      <4>2. QED
        BY <3>1, <4>1, SameChildren
    <3>4. QED
      BY <3>2, <3>3
  <2>3. ASSUME NEW x \in Offset, DragTo(x)
        PROVE  ChildrenInv' /\ NoNewDouble(c, c')
    <3>1. DidScroll(x) /\ motion = "drag" /\ UNCHANGED <<phase, background>>
      BY <2>3 DEF DragTo
    <3>2. QED
      BY <3>1, DidScrollChildren DEF MenuOK, MenuInv, DragOK
  <2>4. ASSUME NEW x \in Aligned, Release(x)
        PROVE  ChildrenInv' /\ NoNewDouble(c, c')
    <3>1. UNCHANGED <<phase, c, offset, background>>
      BY <2>4 DEF Release
    <3>2. QED
      BY <3>1, SameChildren
  <2>5. CASE ReleaseAtRest
    <3>1. UNCHANGED <<phase, c, offset, background>>
      BY <2>5 DEF ReleaseAtRest
    <3>2. QED
      BY <3>1, SameChildren
  <2>6. QED
    BY <1>3, <2>1, <2>2, <2>3, <2>4, <2>5 DEF UserStep
<1>4. CASE ScrollStep
  <2>1. CASE EndDecelerating
    <3>1. /\ motion = "decelerate" /\ c' = EndedDecelerating(c)
          /\ UNCHANGED <<phase, background, offset>>
      BY <2>1 DEF EndDecelerating
    <3>2. QED
      BY <3>1, ScrollEndsChildren DEF MenuOK, MenuInv, DragOK
  <2>2. CASE EndAnimation
    <3>1. motion = "animate"
      BY <2>2 DEF EndAnimation
    <3>2. QED
      BY <2>2, <3>1, EndAnimationChildren DEF MenuOK, MenuInv, AnimateOK
  <2>3. ASSUME NEW x \in Offset, Glide(x)
        PROVE  ChildrenInv' /\ NoNewDouble(c, c')
    <3>1. /\ DidScroll(x) /\ motion \in {"decelerate", "animate"}
          /\ UNCHANGED <<phase, background>>
      BY <2>3 DEF Glide
    <3>2. LaidOut
      BY <3>1 DEF MenuOK, MenuInv, DragOK, AnimateOK
    <3>3. QED
      BY <3>1, <3>2, DidScrollChildren
  <2>4. QED
    BY <1>4, <2>1, <2>2, <2>3 DEF ScrollStep
<1>5. CASE SystemStep
  <2>1. CASE DidReceiveMemoryWarning
    BY <2>1, WarningChildren
  <2>2. CASE \E i \in Page : Evict(i)
    BY <2>2, EvictChildren
  <2>3. CASE WillResignActive
    BY <2>3, WillResignActiveChildren
  <2>4. CASE DidEnterBackground \/ DidBecomeActive
    <3>1. UNCHANGED <<phase, c, offset, background>>
      BY <2>4 DEF DidEnterBackground, DidBecomeActive, scroll
    <3>2. QED
      BY <3>1, SameChildren
  <2>5. CASE WillEnterForeground
    BY <2>5, WillEnterForegroundChildren
  <2>6. QED
    BY <1>5, <2>1, <2>2, <2>3, <2>4, <2>5 DEF SystemStep
<1>6. CASE GrowAfterMemoryWarning \/ GrowToHigh \/ UNCHANGED vars
  <2>1. UNCHANGED <<phase, c, offset, background>>
    BY <1>6 DEF GrowAfterMemoryWarning, GrowToHigh, vars, scroll
  <2>2. QED
    BY <2>1, SameChildren
<1>7. QED
  BY <1>2, <1>3, <1>4, <1>5, <1>6 DEF Next

\* The menu's part of every step.
LEMMA NextMenu ==
  ASSUME TypeOK, ChildrenInv, MenuOK, [Next]_vars
  PROVE  MenuOK'
<1>1. CASE HostStep
  <2>1. CASE ViewDidLoad
    BY <2>1, ViewDidLoadMenu
  <2>2. CASE ViewDidLayoutSubviews
    BY <2>2, ViewDidLayoutSubviewsMenu
  <2>3. CASE ViewDidAppear
    <3>1. UNCHANGED <<scroll, marked>> /\ LaidOut /\ LaidOut'
      BY <2>3 DEF ViewDidAppear, LaidOut
    <3>2. QED
      BY <3>1, SameMenu
  <2>4. CASE Reload
    BY <2>4, ReloadMenu
  <2>5. CASE \E i \in Page : MarkIndex(i)
    BY <2>5, MarkIndexMenu
  <2>6. CASE \E i \in Page : SelectIndex(i)
    BY <2>6, SelectIndexMenu
  <2>7. QED
    BY <1>1, <2>1, <2>2, <2>3, <2>4, <2>5, <2>6 DEF HostStep
<1>2. CASE UserStep
  BY <1>2, PressItemMenu, BeginDragMenu, DragToMenu, ReleaseMenu, ReleaseAtRestMenu
  DEF UserStep
<1>3. CASE ScrollStep
  BY <1>3, EndDeceleratingMenu, EndAnimationMenu, GlideMenu DEF ScrollStep
<1>4. CASE SystemStep \/ GrowAfterMemoryWarning \/ GrowToHigh \/ UNCHANGED vars
  <2>1. /\ UNCHANGED <<scroll, marked, phase>> /\ c'.selectIndex = c.selectIndex
    <3>1. CASE DidReceiveMemoryWarning
      BY <3>1 DEF DidReceiveMemoryWarning, ChildrenInv, Kids
    <3>2. CASE \E i \in Page : Evict(i)
      BY <3>2 DEF Evict, ChildrenInv, Kids
    <3>3. CASE WillEnterForeground
      <4> DEFINE m == [i \in Page |-> IF c.cache[i] = 0 THEN background[i] ELSE c.cache[i]]
      <4>1. c' = [c EXCEPT !.cache = m] /\ UNCHANGED <<scroll, marked, phase>>
        BY <3>3, Zenon DEF WillEnterForeground
      <4> HIDE DEF m
      <4>2. QED
        BY <4>1 DEF ChildrenInv, Kids
    <3>4. CASE WillResignActive \/ DidEnterBackground \/ DidBecomeActive
      BY <3>4 DEF WillResignActive, DidEnterBackground, DidBecomeActive
    <3>5. CASE GrowAfterMemoryWarning \/ GrowToHigh \/ UNCHANGED vars
      BY <3>5 DEF GrowAfterMemoryWarning, GrowToHigh, vars
    <3>6. QED
      BY <1>4, <3>1, <3>2, <3>3, <3>4, <3>5 DEF SystemStep
  <2>2. QED
    BY <2>1, SameMenu DEF LaidOut
<1>5. QED
  BY <1>1, <1>2, <1>3, <1>4 DEF Next

\* The warnings, the policies and the app's state.
LEMMA NextOther ==
  ASSUME TypeOK, NoGrowthAfterTooMany, [Next]_vars
  PROVE  OtherTypes' /\ NoGrowthAfterTooMany'
<1>1. CASE HostStep
  <2>1. /\ background' = background /\ app' = app /\ policy' = policy
        /\ phase' \in Phase /\ marked' \in Page \cup {Undefined}
        /\ \/ UNCHANGED <<warnings, growing, toHigh>>
           \/ warnings' = 0 /\ growing' = FALSE /\ toHigh' = FALSE
    BY <1>1 DEF HostStep, ViewDidLoad, ViewDidLayoutSubviews, ViewDidAppear, Reload, MarkIndex,
                SelectIndex, memory, TypeOK, Phase
  <2>2. warnings' \in Nat /\ growing' \in BOOLEAN /\ toHigh' \in BOOLEAN
    <3>1. CASE UNCHANGED <<warnings, growing, toHigh>>
      BY <3>1, Zenon DEF TypeOK
    <3>2. CASE warnings' = 0 /\ growing' = FALSE /\ toHigh' = FALSE
      BY <3>2
    <3>3. QED
      BY <2>1, <3>1, <3>2
  <2>3. OtherTypes'
    <3>1. /\ background' \in [Page -> Child \cup {0}]
          /\ app' \in {"active", "inactive", "background"}
          /\ policy' \in Policy
      BY <2>1 DEF TypeOK
    <3>2. QED
      BY <2>1, <2>2, <3>1, Zenon DEF OtherTypes
  <2>4. NoGrowthAfterTooMany'
    BY <2>1 DEF TypeOK, NoGrowthAfterTooMany
  <2>5. QED
    BY <2>3, <2>4
<1>2. CASE UserStep \/ ScrollStep
  <2>1. UNCHANGED <<phase, background, marked, app, memory>>
    <3>1. CASE UserStep
      BY <3>1 DEF UserStep, PressItem, BeginDrag, DragTo, Release, ReleaseAtRest
    <3>2. CASE ScrollStep
      BY <3>2 DEF ScrollStep, EndDecelerating, EndAnimation, Glide
    <3>3. QED
      BY <1>2, <3>1, <3>2
  <2>2. QED
    BY <2>1 DEF OtherTypes, TypeOK, NoGrowthAfterTooMany, memory
<1>3. CASE SystemStep
  <2>1. CASE DidReceiveMemoryWarning
    <3>1. /\ UNCHANGED <<phase, background, marked, app>> /\ warnings' = warnings + 1
          /\ policy' = LowMemory /\ toHigh' = FALSE
      BY <2>1 DEF DidReceiveMemoryWarning
    <3>2. growing' = (warnings + 1 < 3)
      BY <2>1, Zenon DEF DidReceiveMemoryWarning
    <3>3. CASE warnings + 1 < 3
      <4>1. growing' = TRUE
        BY <3>2, <3>3, Zenon
      <4>2. ~(warnings' >= 3) /\ warnings' \in Nat
        BY <3>1, <3>3 DEF TypeOK
      <4>3. QED
        BY <3>1, <4>1, <4>2 DEF OtherTypes, TypeOK, NoGrowthAfterTooMany, Policy
    <3>4. CASE ~(warnings + 1 < 3)
      <4>1. (warnings + 1 < 3) = FALSE
        BY <3>4
      <4>2. growing' = FALSE
        BY <3>2, <4>1, Zenon
      <4>3. OtherTypes'
        <5>1. policy' \in Policy /\ warnings' \in Nat
          BY <3>1 DEF TypeOK, Policy
        <5>2. QED
          BY <3>1, <4>2, <5>1 DEF OtherTypes, TypeOK
      <4>4. NoGrowthAfterTooMany'
        BY <3>1, <4>2 DEF NoGrowthAfterTooMany
      <4>5. QED
        BY <4>3, <4>4
    <3>5. QED
      BY <3>3, <3>4
  <2>2. CASE \E i \in Page : Evict(i)
    BY <2>2 DEF Evict, OtherTypes, TypeOK, NoGrowthAfterTooMany, memory
  <2>3. CASE WillResignActive
    BY <2>3 DEF WillResignActive, OtherTypes, TypeOK, NoGrowthAfterTooMany, memory
  <2>4. CASE WillEnterForeground
    BY <2>4 DEF WillEnterForeground, OtherTypes, TypeOK, NoGrowthAfterTooMany, memory, NoChildren
  <2>5. CASE DidEnterBackground \/ DidBecomeActive
    BY <2>5 DEF DidEnterBackground, DidBecomeActive, OtherTypes, TypeOK, NoGrowthAfterTooMany,
                memory
  <2>6. QED
    BY <1>3, <2>1, <2>2, <2>3, <2>4, <2>5 DEF SystemStep
\* A timer is only left before the third warning.
<1>4. CASE GrowAfterMemoryWarning \/ GrowToHigh
  BY <1>4 DEF GrowAfterMemoryWarning, GrowToHigh, OtherTypes, TypeOK, NoGrowthAfterTooMany,
              Policy
<1>5. CASE UNCHANGED vars
  BY <1>5 DEF vars, OtherTypes, TypeOK, NoGrowthAfterTooMany, memory
<1>6. QED
  BY <1>1, <1>2, <1>3, <1>4, <1>5 DEF Next

LEMMA NextInvariant ==
  ASSUME IInv, [Next]_vars
  PROVE  IInv'
<1>1. MenuOK
  BY TypesOfParts DEF IInv, MenuOK
<1>2. ChildrenInv' /\ MenuOK'
  BY <1>1, NextChildren, NextMenu DEF IInv
<1>3. OtherTypes' /\ NoGrowthAfterTooMany'
  BY NextOther DEF IInv
<1>4. TypeOK'
  BY <1>2, <1>3, Zenon DEF TypeOK, Kids, ScrollTypes, OtherTypes, ChildrenInv, MenuOK
<1>5. QED
  BY <1>2, <1>3, <1>4 DEF IInv, MenuOK

\* The inductive invariant, whatever the number of pages, the preloading, the
\* policies, what the host does and what the system does.
THEOREM Invariance == Spec => []IInv
<1>1. Init => IInv
  BY InitInvariant
<1>2. IInv /\ [Next]_vars => IInv'
  BY NextInvariant
<1>3. QED
  BY <1>1, <1>2, PTL DEF Spec

\* Every handler leaves children, pages, offsets and policies of their types:
\* there always is a child to create, the selected page exists, a deceleration
\* ends on a page.
THEOREM TypeOKHolds == Spec => []TypeOK
<1>1. IInv => TypeOK
  BY DEF IInv
<1>2. QED
  BY <1>1, Invariance, PTL

\* When the page has come to rest, whatever mix of presses, drags, selections
\* by the host and reloads has brought it there, the menu shows its title: unless
\* setSelectIndex came while a finger or a deceleration moved the page, and the
\* user has not dragged or pressed an item since.
THEOREM MenuAgrees == Spec => []MenuFollowsPage
<1>1. IInv => MenuFollowsPage
  BY DEF IInv, MenuInv, RestOK, MenuFollowsPage
<1>2. QED
  BY <1>1, Invariance, PTL

\* A drag switches the menu off; a page at rest never leaves it so, with the same
\* exception, also when reloadData cuts the drag short.
THEOREM MenuComesBack == Spec => []MenuNotLocked
<1>1. IInv => MenuNotLocked
  BY DEF IInv, MenuInv, RestOK, MenuNotLocked
<1>2. QED
  BY <1>1, Invariance, PTL

\* After the third memory warning no timer raises the cache policy again.
THEOREM PolicyStaysLow == Spec => []NoGrowthAfterTooMany
<1>1. IInv => NoGrowthAfterTooMany
  BY DEF IInv
<1>2. QED
  BY <1>1, Invariance, PTL

\* A host that does not set selectIndex between viewDidLoad and the first
\* layout never shows a page without its child.
THEOREM PagesAreShown ==
  ASSUME "loaded" \notin HostSelects
  PROVE  Spec => []NoBlankPage
<1>1. IInv => NoBlankPage
  BY DEF IInv, TypeOK, ChildrenInv, ShownInv, Seen, OnScreen, NoBlankPage, Offset, Page
<1>2. QED
  BY <1>1, Invariance, PTL

\* No handler but the return to the foreground leaves a page with one child on
\* display and another in the cache, whatever the host, the user and the system do.
THEOREM ChildrenAreUnique == Spec => OnlyReturnDoubles
<1>1. ASSUME IInv, [Next]_vars, NEW i \in Page, Doubled(i)'
      PROVE  Doubled(i) \/ WillEnterForeground
  <2>1. TypeOK /\ ChildrenInv /\ MenuOK
    BY <1>1, TypesOfParts DEF IInv, MenuOK
  <2>2. NoNewDouble(c, c') \/ WillEnterForeground
    BY <1>1, <2>1, NextChildren
  <2>3. QED
    BY <1>1, <2>2 DEF NoNewDouble, Double, Doubled
<1>2. IInv /\ [Next]_vars
        => [\A i \in Page : Doubled(i)' => Doubled(i) \/ WillEnterForeground]_vars
  BY <1>1
<1>3. QED
  BY <1>2, Invariance, PTL DEF Spec, OnlyReturnDoubles

=============================================================================
