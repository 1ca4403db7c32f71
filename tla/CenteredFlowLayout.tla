--------------------------- MODULE CenteredFlowLayout ---------------------------
(***************************************************************************)
(* CenteredCollectionViewFlowLayout, the layout of the deal carousel: the  *)
(* insets that centre the first and the last cell, the offset on which a   *)
(* swipe comes to rest, scrollToPage and currentCenteredPage.              *)
(*                                                                         *)
(* The two directions of scrolling are the axes "x" (horizontal) and "y"   *)
(* (vertical).  Lengths are whole points; items and views have even        *)
(* lengths, so halves are exact.  UIKit is external: it lays out one item  *)
(* per line, keeps the content offset between the insets when nobody drags *)
(* and calls invalidateLayout(with:) when a size or a property changes.    *)
(***************************************************************************)
EXTENDS Integers, FiniteSets, FiniteSetsExt

CONSTANTS
    Lengths,         \* lengths of the collection view along either axis
    ItemLengths,     \* lengths of an item along either axis
    Spacing,         \* minimumLineSpacing
    MaxItems,        \* bound: items in the collection view
    Overscroll,      \* bound: how far a drag goes beyond the ends
    NoItem           \* currentCenteredPage = nil

Axes == {"x", "y"}

Even(n) == n % 2 = 0

ASSUME CenteredFlowLayoutAssumption ==
    /\ \A n \in Lengths \cup ItemLengths : n \in Nat \ {0} /\ Even(n)
    /\ \A n \in Lengths, m \in ItemLengths : m <= n /\ Spacing < n
    /\ Spacing \in Nat
    /\ MaxItems \in Nat
    /\ Overscroll \in Nat
    /\ NoItem \notin Int

VARIABLES
    scrollDirection,
    lastScrollDirection,
    size,                    \* collectionView.bounds.size
    lastCollectionViewSize,
    itemSize,
    contentInset,            \* at the start of each axis; the end has the same
    contentOffset,
    items,                   \* items of the data source
    dragging

layoutVars == <<scrollDirection, lastScrollDirection, size, lastCollectionViewSize,
                itemSize, contentInset, contentOffset, items, dragging>>

Zero == [a \in Axes |-> 0]

Sizes == [Axes -> Lengths]

\* Types of the variables; insets are never negative.
LayoutTypeOK ==
    /\ scrollDirection \in Axes
    /\ lastScrollDirection \in Axes
    /\ size \in Sizes \cup {Zero}
    /\ lastCollectionViewSize \in Sizes \cup {Zero}
    /\ itemSize \in [Axes -> ItemLengths]
    /\ contentInset \in [Axes -> Nat]
    /\ contentOffset \in [Axes -> Int]
    /\ items \in 0..MaxItems
    /\ dragging \in BOOLEAN

\* init(): horizontal; the view has no size before the first layout pass.
LayoutInit ==
    /\ scrollDirection = "x"
    /\ lastScrollDirection = "x"
    /\ size = Zero
    /\ lastCollectionViewSize = Zero
    /\ itemSize \in [Axes -> ItemLengths]
    /\ contentInset = Zero
    /\ contentOffset = Zero
    /\ items = 0
    /\ dragging = FALSE

-----------------------------------------------------------------------------
(* Geometry along the scrolling axis. *)

AlongAxis(d, n) == [a \in Axes |-> IF a = d THEN n ELSE 0]

Length == size[scrollDirection]

ItemLength == itemSize[scrollDirection]

Offset == contentOffset[scrollDirection]

Inset == contentInset[scrollDirection]

pageWidth == ItemLength + Spacing

Center(row) == row * pageWidth + ItemLength \div 2

\* The offset that puts row in the middle of the view.
Centering(row) == Center(row) - Length \div 2

\* UICollectionViewFlowLayout: the item whose frame holds a point of the axis.
IndexPathForItem(point) ==
    LET hit == {row \in 0..(items - 1) :
                   row * pageWidth <= point /\ point < row * pageWidth + ItemLength}
    IN  IF hit = {} THEN NoItem ELSE CHOOSE row \in hit : TRUE

\* currentCenteredPage.
CurrentCenteredPage == IndexPathForItem(Offset + Length \div 2)

\* UIScrollView: the offsets that the content and its insets allow.
ContentLength(count) == IF count = 0 THEN 0 ELSE count * pageWidth - Spacing

FirstOffset == -Inset

LastOffset(count) == Max({-Inset, ContentLength(count) + Inset - Length})

Within(n, count) == Max({FirstOffset, Min({n, LastOffset(count)})})

InRange == FirstOffset <= Offset /\ Offset <= LastOffset(items)

-----------------------------------------------------------------------------
(* Where a swipe comes to rest. *)

\* layoutAttributesForElements(in: proposedRect).
ItemsIn(proposed) ==
    {row \in 0..(items - 1) : /\ row * pageWidth < proposed + Length
                              /\ proposed < row * pageWidth + ItemLength}

\* attributesForRect: the item nearest to the proposed centre, the first of two.
Candidate(proposed) ==
    LET distance(row) == LET n == Center(row) - (proposed + Length \div 2)
                         IN  IF n < 0 THEN -n ELSE n
    IN  CHOOSE row \in ItemsIn(proposed) : \A other \in ItemsIn(proposed) :
            \/ distance(row) < distance(other)
            \/ distance(row) = distance(other) /\ row <= other

\* targetContentOffset(forProposedContentOffset:withScrollingVelocity:).
TargetContentOffset(proposed, velocity) ==
    IF ItemsIn(proposed) = {} THEN proposed
    ELSE LET newOffset == Centering(Candidate(proposed)) IN
         IF \/ velocity < 0 /\ newOffset > Offset
            \/ velocity > 0 /\ newOffset < Offset
         THEN IF velocity > 0 THEN newOffset + pageWidth ELSE newOffset - pageWidth
         ELSE newOffset

\* UIScrollView proposes an offset in the direction of the velocity.
Proposed(velocity) ==
    {n \in FirstOffset..LastOffset(items) : \/ velocity > 0 /\ n >= Offset
                                            \/ velocity < 0 /\ n <= Offset
                                            \/ n = Within(Offset, items)}

-----------------------------------------------------------------------------
(* Operations. *)

\* Mutant: a new direction of the same size keeps the old insets.
InvalidateLayoutSizeOnly ==
    IF size' # lastCollectionViewSize
    THEN LET inset == (size'[scrollDirection'] - itemSize'[scrollDirection']) \div 2
         IN  /\ contentInset' = AlongAxis(scrollDirection', inset)
             /\ contentOffset' = AlongAxis(scrollDirection', -inset)
             /\ lastCollectionViewSize' = size'
             /\ lastScrollDirection' = scrollDirection'
    ELSE UNCHANGED <<contentInset, contentOffset, lastCollectionViewSize, lastScrollDirection>>

\* invalidateLayout(with:): a new size or direction centres the first item.
InvalidateLayout ==
    IF size' # lastCollectionViewSize \/ lastScrollDirection # scrollDirection'
    THEN LET inset == (size'[scrollDirection'] - itemSize'[scrollDirection']) \div 2
         IN  /\ contentInset' = AlongAxis(scrollDirection', inset)
             /\ contentOffset' = AlongAxis(scrollDirection', -inset)
             /\ lastCollectionViewSize' = size'
             /\ lastScrollDirection' = scrollDirection'
    ELSE UNCHANGED <<contentInset, contentOffset, lastCollectionViewSize, lastScrollDirection>>

\* A layout pass of the superview, or a rotation of the device.
Resize(s) ==
    /\ size' = s
    /\ UNCHANGED <<scrollDirection, itemSize>>
    /\ InvalidateLayout
    /\ UNCHANGED <<items, dragging>>

SetScrollDirection(d) ==
    /\ size # Zero
    /\ scrollDirection' = d
    /\ UNCHANGED <<size, itemSize>>
    /\ InvalidateLayout
    /\ UNCHANGED <<items, dragging>>

\* MainViewController sets itemSize in viewDidLoad, before the first layout pass and
\* never again: set later, it would leave the old insets.
SetItemSize(s) ==
    /\ size = Zero
    /\ itemSize' = s
    /\ UNCHANGED <<size, scrollDirection>>
    /\ InvalidateLayout
    /\ UNCHANGED <<items, dragging>>

\* The finger moves the content, beyond the ends too.
Drag ==
    /\ size # Zero
    /\ dragging' = TRUE
    /\ \E n \in (FirstOffset - Overscroll)..(LastOffset(items) + Overscroll) :
          contentOffset' = [contentOffset EXCEPT ![scrollDirection] = n]
    /\ UNCHANGED <<scrollDirection, lastScrollDirection, size, lastCollectionViewSize,
                   itemSize, contentInset, items>>

\* The finger lets go; a target beyond the ends bounces back.
EndDragging(velocity) ==
    /\ dragging
    /\ dragging' = FALSE
    /\ \E n \in Proposed(velocity) :
          contentOffset' = [contentOffset EXCEPT
              ![scrollDirection] = Within(TargetContentOffset(n, velocity), items)]
    /\ UNCHANGED <<scrollDirection, lastScrollDirection, size, lastCollectionViewSize,
                   itemSize, contentInset, items>>

\* scrollToPage(index:animated:), to the end of its animation.
ScrollToPage(row) ==
    /\ size # Zero /\ ~dragging
    /\ row \in 0..(items - 1)
    /\ contentOffset' = AlongAxis(scrollDirection, row * pageWidth - Inset)
    /\ UNCHANGED <<scrollDirection, lastScrollDirection, size, lastCollectionViewSize,
                   itemSize, contentInset, items, dragging>>

\* reloadData with n items: the offset stays unless the content got too short
\* and no finger holds it.
ReloadItems(n) ==
    /\ items' = n
    /\ UNCHANGED <<scrollDirection, lastScrollDirection, size, lastCollectionViewSize,
                   itemSize, contentInset, dragging>>
    /\ contentOffset' = IF size = Zero \/ dragging THEN contentOffset
                        ELSE [contentOffset EXCEPT ![scrollDirection] = Within(Offset, n)]

LayoutNext ==
    \/ \E s \in Sizes : Resize(s)
    \/ \E d \in Axes : SetScrollDirection(d)
    \/ \E s \in [Axes -> ItemLengths] : SetItemSize(s)
    \/ Drag
    \/ \E velocity \in {-1, 0, 1} : EndDragging(velocity)
    \/ \E row \in 0..(MaxItems - 1) : ScrollToPage(row)
    \/ \E n \in 0..MaxItems : ReloadItems(n)

LayoutSpec == LayoutInit /\ [][LayoutNext]_layoutVars

-----------------------------------------------------------------------------
(* Properties. *)

\* A carousel that nobody drags has an item exactly in its middle and
\* currentCenteredPage names it, whatever rotations, changes of direction,
\* swipes, programmed scrolls and reloads came before.
CellsAreCentered ==
    size # Zero /\ ~dragging /\ items > 0 =>
        \E row \in 0..(items - 1) : Offset = Centering(row) /\ CurrentCenteredPage = row

\* Wherever the finger lets go between the first and the last page, and whatever
\* offset UIKit proposes, the target centres an existing item and never lies
\* against the direction of the swipe.
SwipeStaysOnCourse ==
    dragging /\ InRange /\ items > 0 =>
        \A velocity \in {-1, 0, 1} : \A n \in Proposed(velocity) :
            LET target == TargetContentOffset(n, velocity)
            IN  /\ \E row \in 0..(items - 1) : target = Centering(row)
                /\ velocity > 0 => target >= Offset
                /\ velocity < 0 => target <= Offset

\* The carousel rests on an item, and a swipe takes it to another one.
CarouselIsCentered == CellsAreCentered /\ SwipeStaysOnCourse
=============================================================================
