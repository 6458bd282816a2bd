------------------------ MODULE NestedScroll_proofs ------------------------
(***************************************************************************)
(* Whose turn it is to scroll, for any number of pages, any height of the  *)
(* header, any length of the lists and frames that move any distance.      *)
(*                                                                         *)
(* The two safety properties are not inductive.  What is: a list that is   *)
(* off its top belongs to a child that may scroll, and such a child exists *)
(* only while the outer view may not scroll and is at one of its two ends: *)
(* pinned at Header, or at 0 after a frame that carried it past 0, where   *)
(* the handler does not look at canScroll.                                 *)
(***************************************************************************)
EXTENDS NestedScroll, TLAPS

Turns ==
  \A p \in Pages :
    /\ list[p] > 0 => p \in ready
    /\ p \in ready => p \in alive /\ outer \in {0, Header} /\ ~canScroll

IInv == TypeOK /\ Turns

LEMMA InitInv == Init => IInv
<1>1. 0 \in 0..Header /\ 0 \in 0..Length /\ ~(0 > 0)
  BY NestedAssumption
<1> QED BY <1>1, NestedAssumption DEF Init, IInv, TypeOK, Turns

\* Pinning leaves a proper state in which it is the lists' turn.
LEMMA PinInv ==
  ASSUME IInv, Pin, UNCHANGED <<listening, current, alive, rows, pan>>
  PROVE  IInv'
<1>1. Header \in 0..Header
  BY NestedAssumption
<1> QED BY <1>1 DEF Pin, IInv, TypeOK, Turns

\* A frame of the outer view preserves the invariant: while some child may
\* scroll, it can only jump from one end to the other.
LEMMA OuterFrameInv ==
  ASSUME IInv, NEW d \in Step, OuterFrame(d)
  PROVE  IInv'
<1> DEFINE x == IF pan = "up" THEN outer + d ELSE outer - d
<1>2. OuterDidScroll(x) /\ UNCHANGED <<listening, current, alive, rows, pan>>
  BY DEF OuterFrame
<1> HIDE DEF x
<1>3. CASE Pin
  BY <1>2, <1>3, PinInv
<1>4. ASSUME NEW y \in 0..(Header - 1), MoveOuter(y), y = 0 \/ canScroll
      PROVE  IInv'
  <2>1. y = 0 \/ \A p \in Pages : p \notin ready
    BY <1>4 DEF IInv, Turns
  <2>2. outer' = y /\ outer' \in 0..Header /\ UNCHANGED <<canScroll, ready, list>>
    BY <1>4, NestedAssumption, SMT DEF MoveOuter
  <2>3. TypeOK'
    BY <1>2, <2>2 DEF IInv, TypeOK
  <2>4. Turns'
    BY <1>2, <2>1, <2>2 DEF IInv, Turns
  <2> QED BY <2>3, <2>4 DEF IInv
<1>5. CASE x <= 0 /\ MoveOuter(0)
  <2>1. 0 \in 0..(Header - 1)
    BY NestedAssumption, SMT
  <2> QED BY <1>4, <1>5, <2>1
<1>6. CASE x \in 1..(Header - 1) /\ canScroll /\ MoveOuter(x)
  <2>1. x \in 0..(Header - 1)
    BY <1>6, NestedAssumption, SMT
  <2> QED BY <1>4, <1>6, <2>1
<1> QED BY <1>2, <1>3, <1>5, <1>6 DEF OuterDidScroll

\* A frame of the current list preserves the invariant: it stays at its top
\* unless its child may scroll, and whoever leaves the top sends all back.
LEMMA ListDidScrollInv ==
  ASSUME IInv, NEW x \in Int, x <= Length, ListDidScroll(x),
         UNCHANGED <<listening, current, alive, rows, pan>>
  PROVE  IInv'
<1>1. current \in Pages
  BY DEF IInv, TypeOK
<1>2. CASE current \notin ready /\ MoveList(0)
  BY <1>1, <1>2, NestedAssumption, SMT DEF MoveList, IInv, TypeOK, Turns
<1>3. CASE LeaveTop
  <2>1. canScroll' \in BOOLEAN
    BY <1>3 DEF LeaveTop, IInv, TypeOK
  <2>2. /\ list' \in [Pages -> 0..Length] /\ \A p \in Pages : ~(list'[p] > 0)
        /\ ready' = {} /\ outer' = outer
    BY <1>3, NestedAssumption, SMT DEF LeaveTop
  <2> QED BY <2>1, <2>2 DEF IInv, TypeOK, Turns
<1>4. CASE current \in ready /\ x >= 0 /\ MoveList(x)
  BY <1>1, <1>4, NestedAssumption, SMT DEF MoveList, IInv, TypeOK, Turns
<1> QED BY <1>2, <1>3, <1>4 DEF ListDidScroll

LEMMA ListFrameInv ==
  ASSUME IInv, NEW d \in Step, ListFrame(d)
  PROVE  IInv'
<1> DEFINE up == IF list[current] + d <= End THEN list[current] + d ELSE End
<1>1. d \in Nat /\ End \in 0..Length /\ list[current] \in 0..Length
  BY NestedAssumption, SMT DEF IInv, TypeOK, Step, End
<1>2. /\ list[current] - d \in Int /\ list[current] - d <= Length
      /\ up \in Int /\ up <= Length
  BY <1>1, NestedAssumption, SMT
<1>3. /\ ListDidScroll(list[current] - d) \/ ListDidScroll(up)
      /\ UNCHANGED <<listening, current, alive, rows, pan>>
  BY DEF ListFrame
<1> HIDE DEF up
<1> QED BY <1>2, <1>3, ListDidScrollInv

\* The children come and go.
LEMMA DropChildInv ==
  ASSUME IInv, NEW q \in Pages, DropChild(q)
  PROVE  IInv'
  BY NestedAssumption, SMT DEF DropChild, IInv, TypeOK, Turns

LEMMA NextInv == IInv /\ [Next]_vars => IInv'
<1> SUFFICES ASSUME IInv, [Next]_vars PROVE IInv'
  OBVIOUS
<1>1. ASSUME NEW d \in Step, OuterFrame(d) PROVE IInv'
  BY <1>1, OuterFrameInv
<1>2. ASSUME NEW d \in Step, ListFrame(d) PROVE IInv'
  BY <1>2, ListFrameInv
<1>3. ASSUME NEW way \in {"none", "up", "down"}, Pan(way) PROVE IInv'
  BY <1>3 DEF Pan, views, IInv, TypeOK, Turns
<1>4. ASSUME NEW q \in Pages, SelectPage(q) PROVE IInv'
  BY <1>4 DEF SelectPage, views, IInv, TypeOK, Turns
<1>5. ASSUME NEW q \in Pages, DropChild(q) PROVE IInv'
  BY <1>5, DropChildInv
<1>6. ASSUME NEW q \in Pages, RowsArrive(q) PROVE IInv'
  BY <1>6 DEF RowsArrive, views, IInv, TypeOK, Turns
<1>7. ASSUME ViewWillAppear PROVE IInv'
  BY <1>7 DEF ViewWillAppear, views, IInv, TypeOK, Turns
<1>8. ASSUME ViewWillDisappear PROVE IInv'
  BY <1>8 DEF ViewWillDisappear, views, IInv, TypeOK, Turns
<1>9. ASSUME UNCHANGED vars PROVE IInv'
  BY <1>9 DEF vars, views, IInv, TypeOK, Turns
<1> QED BY <1>1, <1>2, <1>3, <1>4, <1>5, <1>6, <1>7, <1>8, <1>9 DEF Next

THEOREM Invariance == Spec => []IInv
  BY InitInv, NextInv, PTL DEF Spec

\* Every variable has its type: no handler leaves a view off its range, although
\* UIKit moves it there (the two scrollViewDidScroll).
THEOREM TypeCorrect == Spec => []TypeOK
<1>1. IInv => TypeOK BY DEF IInv
<1> QED BY <1>1, Invariance, PTL

\* The page and a list are never both free to scroll (the two acceptMsg:).
THEOREM TurnsCorrect == Spec => []OneScroller
<1>1. IInv => OneScroller BY DEF IInv, Turns, OneScroller
<1> QED BY <1>1, Invariance, PTL

\* A list off its top never sees a part of the header (the outer
\* scrollViewDidScroll and LeaveTop), however far one frame moves a view.
THEOREM HeaderCorrect == Spec => []HeaderMovesAlone
<1>1. IInv => HeaderMovesAlone BY DEF IInv, Turns, HeaderMovesAlone
<1> QED BY <1>1, Invariance, PTL
=============================================================================
