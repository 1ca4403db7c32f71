----------------------------- MODULE CarouselProofs -----------------------------
(***************************************************************************)
(* The safety properties of what the user sees of the deals, for every     *)
(* list, every set of restaurants and every bound: the panel and the       *)
(* camera (MapPanel), the layout of the carousel (CenteredFlowLayout) and  *)
(* the recycled cells and pin views (ReusableViews).                       *)
(***************************************************************************)
EXTENDS MapPanel, ReusableViews, CenteredFlowLayout, FiniteSetTheorems, WellFoundedInduction, TLAPS

-----------------------------------------------------------------------------
(* Types, and the rows of the carousel, which need each other: a lookup is   *)
(* made for a restaurant only because the centred page is a row of the list. *)

RowsAreCounted == rows = Len(restaurants)

RowsInv == PanelTypeOK /\ RowsAreCounted

\* A reload after the list changed counts the new list.
LEMMA Reloaded ==
    ASSUME restaurants' \in Seq(Restaurant), ReloadData
    PROVE  rows' = Len(restaurants') /\ rows' \in Nat /\ page' \in Pages(rows')
BY DEF ReloadData, Pages

\* updateRestaurantLocation asks for a restaurant of the list, or for nothing.
LEMMA LookupAsked ==
    ASSUME RowsInv, NEW p \in Pages(rows), UpdateRestaurantLocation(p)
    PROVE  /\ lookups' \in Seq(Ids)
           /\ missed' \in BOOLEAN
           /\ lookups' # <<>> \/ missed'
<1>1. /\ restaurants \in Seq(Restaurant) /\ lookups \in Seq(Ids)
      /\ rows = Len(restaurants) /\ missed \in BOOLEAN
  BY DEF RowsInv, PanelTypeOK, RowsAreCounted
<1>2. CASE p = NoPage
  BY <1>1, <1>2 DEF UpdateRestaurantLocation
<1>3. CASE p # NoPage
  <2>1. p + 1 \in 1..Len(restaurants)
    BY <1>1, <1>3 DEF Pages
  <2>2. restaurants[p + 1] \in Restaurant
    BY <1>1, <2>1
  <2>3. restaurants[p + 1].id \in Ids
    BY <2>2 DEF Restaurant
  <2>4. lookups' = Append(lookups, restaurants[p + 1].id) /\ missed' = missed
    BY <1>3 DEF UpdateRestaurantLocation
  <2> QED
    BY <1>1, <2>3, <2>4
<1> QED
  BY <1>2, <1>3

\* An answered lookup leaves a sequence of lookups.
LEMMA LookupTaken ==
    ASSUME lookups \in Seq(Ids), NEW i \in DOMAIN lookups
    PROVE  RemoveAt(lookups, i) \in Seq(Ids) /\ lookups[i] \in Ids
<1>1. i \in 1..Len(lookups) /\ Len(lookups) \in Nat
  OBVIOUS
<1>2. SubSeq(lookups, 1, i - 1) \in Seq(Ids) /\ SubSeq(lookups, i + 1, Len(lookups)) \in Seq(Ids)
  BY <1>1
<1> QED
  BY <1>1, <1>2 DEF RemoveAt

\* No step of the panel disturbs the types or the count of the rows.
LEMMA RowsStep == RowsInv /\ [PanelNext]_panelVars => RowsInv'
<1> SUFFICES ASSUME RowsInv, [PanelNext]_panelVars PROVE RowsInv'
  OBVIOUS
<1> USE DEF RowsInv
<1>t. /\ PanelTypeOK /\ rows = Len(restaurants) /\ page \in Pages(rows)
      /\ camera \in [target : Ids \cup {User}, shifted : BOOLEAN]
  BY DEF PanelTypeOK, RowsAreCounted
<1>1. CASE ListChanges
  <2>1. PICK n \in 0..MaxRows : restaurants' \in [1..n -> Restaurant]
    BY <1>1 DEF ListChanges
  <2>2. n \in Nat
    BY <2>1, MapPanelAssumption
  <2>3. restaurants' \in Seq(Restaurant)
    BY <2>1, <2>2
  <2>4. rows' = Len(restaurants') /\ rows' \in Nat /\ page' \in Pages(rows')
    BY <1>1, <2>3, Reloaded DEF ListChanges
  <2> QED
    BY <1>1, <1>t, <2>3, <2>4 DEF ListChanges, mapVars, cameraVars, PanelTypeOK, RowsAreCounted
<1>2. CASE Swipe \/ ScrollMoves
  BY <1>2, <1>t DEF Swipe, ScrollMoves, cameraVars, PanelTypeOK, RowsAreCounted
<1>3. ASSUME NEW row, DidSelectItem(row)
      PROVE  RowsInv'
  BY <1>3, <1>t DEF DidSelectItem, cameraVars, PanelTypeOK, RowsAreCounted
<1>4. CASE ScrollEnds
  <2>1. page' \in Pages(rows) /\ UpdateRestaurantLocation(page')
    BY <1>4 DEF ScrollEnds
  <2>2. lookups' \in Seq(Ids) /\ missed' \in BOOLEAN
    BY <2>1, LookupAsked
  <2> QED
    BY <1>4, <1>t, <2>1, <2>2 DEF ScrollEnds, cameraVars, PanelTypeOK, RowsAreCounted
<1>5. CASE ChevronButtonPressed
  BY <1>5, <1>t DEF ChevronButtonPressed, PanelTypeOK, RowsAreCounted
<1>6. CASE AnimationEnds
  <2>1. lookups' \in Seq(Ids) /\ missed' \in BOOLEAN
    BY <1>6, <1>t, LookupAsked DEF AnimationEnds
  <2> QED
    BY <1>6, <1>t, <2>1 DEF AnimationEnds, cameraVars, PanelTypeOK, RowsAreCounted
<1>7. CASE LocationButtonPressed
  BY <1>7, <1>t DEF LocationButtonPressed, PanelTypeOK, RowsAreCounted
<1>8. ASSUME NEW i, LookupFound(i)
      PROVE  RowsInv'
  <2>1. lookups' \in Seq(Ids) /\ lookups[i] \in Ids
    BY <1>8, <1>t, LookupTaken DEF LookupFound, PanelTypeOK
  <2>2. /\ camera' \in [target : Ids \cup {User}, shifted : BOOLEAN]
        /\ missed' = FALSE /\ strayed' = FALSE /\ tracking' \in BOOLEAN
    BY <1>8, <1>t, <2>1 DEF LookupFound, UpdateLocation, PanelTypeOK
  <2> QED
    BY <1>8, <1>t, <2>1, <2>2 DEF LookupFound, PanelTypeOK, RowsAreCounted
<1>9. ASSUME NEW i, LookupFailed(i)
      PROVE  RowsInv'
  <2>1. lookups' \in Seq(Ids)
    BY <1>9, <1>t, LookupTaken DEF LookupFailed, PanelTypeOK
  <2> QED
    BY <1>9, <1>t, <2>1 DEF LookupFailed, cameraVars, PanelTypeOK, RowsAreCounted
<1>10. CASE DidUpdateLocations
  <2>1. /\ camera' \in [target : Ids \cup {User}, shifted : BOOLEAN]
        /\ missed' = FALSE /\ strayed' = FALSE /\ tracking' \in BOOLEAN
    BY <1>10, <1>t DEF DidUpdateLocations, UpdateLocation, PanelTypeOK
  <2> QED
    BY <1>10, <1>t, <2>1 DEF DidUpdateLocations, PanelTypeOK, RowsAreCounted
<1>11. CASE MapFollowsUser
  BY <1>11, <1>t DEF MapFollowsUser, PanelTypeOK, RowsAreCounted
<1>12. CASE UNCHANGED panelVars
  BY <1>12, <1>t DEF panelVars, cameraVars, PanelTypeOK, RowsAreCounted
<1> QED
  BY <1>1, <1>2, <1>3, <1>4, <1>5, <1>6, <1>7, <1>8, <1>9, <1>10, <1>11, <1>12 DEF PanelNext, PanelStep

\* The empty carousel has no rows.
LEMMA RowsStart == PanelInit => RowsInv
<1> SUFFICES ASSUME PanelInit PROVE RowsInv
  OBVIOUS
<1>1. /\ restaurants \in Seq(Restaurant) /\ lookups \in Seq(Ids)
      /\ rows \in Nat /\ rows = Len(restaurants) /\ page \in Pages(rows)
  BY DEF PanelInit, Pages
<1>2. camera \in [target : Ids \cup {User}, shifted : BOOLEAN]
  BY DEF PanelInit
<1> QED
  BY <1>1, <1>2 DEF PanelInit, RowsInv, PanelTypeOK, RowsAreCounted

\* The variables of the panel keep their types.
THEOREM PanelTypeCorrect == PanelSafety => []PanelTypeOK
<1>1. RowsInv => PanelTypeOK
  BY DEF RowsInv
<1> QED
  BY <1>1, RowsStart, RowsStep, PTL DEF PanelSafety

\* In every behaviour the centred page is the index of a listed restaurant, so
\* the subscript restaurants[page] of updateRestaurantLocation never traps.
THEOREM PageCorrect == PanelSafety => []PageNamesRestaurant
<1>1. RowsInv => PageNamesRestaurant
  BY DEF RowsInv, RowsAreCounted, PanelTypeOK, Pages, PageNamesRestaurant
<1> QED
  BY <1>1, RowsStart, RowsStep, PTL DEF PanelSafety

-----------------------------------------------------------------------------
(* The camera.  While the button is enabled, the camera fits the panel or    *)
(* something is under way or failed that explains why it does not, or the    *)
(* map view has gone to the user; and the camera is moved up only for a      *)
(* restaurant.                                                               *)

ButtonRests == animating = ~chevronEnabled

CameraFits == Settled /\ ~strayed => camera.shifted = isExpanded

ShiftedForRestaurant == camera.shifted => camera.target \in Ids

CameraInv == RowsInv /\ ButtonRests /\ CameraFits /\ ShiftedForRestaurant

\* No step of the panel disturbs the invariant.
LEMMA CameraStep == CameraInv /\ [PanelNext]_panelVars => CameraInv'
<1> SUFFICES ASSUME CameraInv, [PanelNext]_panelVars PROVE CameraInv'
  OBVIOUS
<1>t. RowsInv' /\ RowsInv
  BY RowsStep DEF CameraInv
<1>i. ButtonRests /\ CameraFits /\ ShiftedForRestaurant
  BY DEF CameraInv
<1>b. /\ chevronEnabled \in BOOLEAN /\ animating \in BOOLEAN /\ isExpanded \in BOOLEAN
      /\ missed \in BOOLEAN /\ page \in Pages(rows) /\ lookups \in Seq(Ids)
  BY <1>t DEF RowsInv, PanelTypeOK
<1>q. SUFFICES ButtonRests' /\ CameraFits' /\ ShiftedForRestaurant'
  BY <1>t DEF CameraInv
<1>1. CASE \/ ListChanges \/ Swipe \/ ScrollMoves \/ (\E row \in 0..(rows - 1) : DidSelectItem(row))
           \/ LocationButtonPressed \/ UNCHANGED panelVars
  <2>1. UNCHANGED <<chevronEnabled, animating, isExpanded, lookups, camera, missed, strayed>>
    BY <1>1 DEF ListChanges, mapVars, cameraVars, Swipe, ScrollMoves, DidSelectItem, LocationButtonPressed, panelVars
  <2> QED
    BY <1>i, <2>1 DEF ButtonRests, CameraFits, Settled, ShiftedForRestaurant
<1>2. CASE ScrollEnds
  <2>1. /\ lookups' # <<>> \/ missed'
        /\ UNCHANGED <<chevronEnabled, animating, isExpanded, camera>>
    BY <1>2, <1>t, LookupAsked DEF ScrollEnds, cameraVars
  <2> QED
    BY <1>i, <2>1 DEF ButtonRests, CameraFits, Settled, ShiftedForRestaurant
<1>3. CASE ChevronButtonPressed
  BY <1>3, <1>i DEF ChevronButtonPressed, ButtonRests, CameraFits, Settled, ShiftedForRestaurant
<1>4. CASE AnimationEnds
  <2>1. /\ lookups' # <<>> \/ missed'
        /\ chevronEnabled' = TRUE /\ animating' = FALSE /\ camera' = camera
    BY <1>4, <1>t, <1>b, LookupAsked DEF AnimationEnds, cameraVars
  <2> QED
    BY <1>i, <2>1 DEF ButtonRests, CameraFits, Settled, ShiftedForRestaurant
<1>5. ASSUME NEW i, LookupFound(i)
      PROVE  ButtonRests' /\ CameraFits' /\ ShiftedForRestaurant'
  <2>1. lookups[i] \in Ids
    BY <1>5, <1>b, LookupTaken DEF LookupFound
  <2>2. /\ camera' = [target |-> lookups[i], shifted |-> isExpanded]
        /\ UNCHANGED <<chevronEnabled, animating, isExpanded>>
    BY <1>5 DEF LookupFound, UpdateLocation
  <2> QED
    BY <1>i, <2>1, <2>2 DEF ButtonRests, CameraFits, Settled, ShiftedForRestaurant
<1>6. ASSUME NEW i, LookupFailed(i)
      PROVE  ButtonRests' /\ CameraFits' /\ ShiftedForRestaurant'
  BY <1>6, <1>i DEF LookupFailed, cameraVars, ButtonRests, CameraFits, Settled, ShiftedForRestaurant
<1>7. CASE DidUpdateLocations
  <2>1. /\ camera' = [target |-> User, shifted |-> isExpanded] /\ ~isExpanded
        /\ UNCHANGED <<chevronEnabled, animating, isExpanded>>
    BY <1>7 DEF DidUpdateLocations, UpdateLocation
  <2> QED
    BY <1>i, <2>1 DEF ButtonRests, CameraFits, Settled, ShiftedForRestaurant
<1>8. CASE MapFollowsUser
  BY <1>8, <1>i, <1>b DEF MapFollowsUser, ButtonRests, CameraFits, Settled, ShiftedForRestaurant
<1> QED
  BY <1>1, <1>2, <1>3, <1>4, <1>5, <1>6, <1>7, <1>8 DEF PanelNext, PanelStep

\* The handlers of the database events end with a reload: whatever the new list,
\* its rows are counted and the camera is not touched.
LEMMA PanelReloaded ==
    ASSUME CameraInv, restaurants' \in Seq(Restaurant), chevronHidden' \in BOOLEAN, ReloadData, UNCHANGED mapVars
    PROVE  CameraInv'
<1>1. rows' = Len(restaurants') /\ rows' \in Nat /\ page' \in Pages(rows')
  BY Reloaded
<1>2. RowsInv'
  BY <1>1 DEF CameraInv, RowsInv, mapVars, cameraVars, PanelTypeOK, RowsAreCounted
<1> QED
  BY <1>2 DEF CameraInv, mapVars, cameraVars, ButtonRests, CameraFits, Settled, ShiftedForRestaurant

\* The panel is down and the map on the user.
LEMMA CameraStart == PanelInit => CameraInv
<1> SUFFICES ASSUME PanelInit PROVE CameraInv
  OBVIOUS
<1>1. camera.shifted = FALSE /\ isExpanded = FALSE /\ chevronEnabled /\ ~animating
  BY DEF PanelInit
<1> QED
  BY <1>1, RowsStart DEF PanelInit, CameraInv, ButtonRests, CameraFits, ShiftedForRestaurant

\* What the two invariants say of the panel.
LEMMA CameraFacts == CameraInv => PanelTypeOK /\ PageNamesRestaurant /\ SettledCameraFitsPanel
BY DEF CameraInv, RowsInv, RowsAreCounted, PanelTypeOK, Pages, PageNamesRestaurant,
       CameraFits, ShiftedForRestaurant, SettledCameraFitsPanel

\* In every behaviour, once the button is enabled and all lookups are answered,
\* the map is aimed the way the panel's position asks for, unless the last
\* attempt failed or the map view, in .follow, went to the user behind the open
\* panel: no late callback and no location update leaves it there.
THEOREM CameraCorrect == PanelSafety => []SettledCameraFitsPanel
BY CameraStart, CameraFacts, CameraStep, PTL DEF PanelSafety

-----------------------------------------------------------------------------
(* The layout: along the axis of scrolling everything is a multiple of the  *)
(* page width away from the first page.                                      *)

\* The greater and the lesser of two.
LEMMA OfTwo ==
    ASSUME NEW a \in Int, NEW b \in Int
    PROVE  /\ Max({a, b}) = IF a >= b THEN a ELSE b
           /\ Min({a, b}) = IF a <= b THEN a ELSE b
<1>1. Max({a, b}) \in {a, b} /\ Max({a, b}) >= a /\ Max({a, b}) >= b
    BY DEF Max
<1>2. Min({a, b}) \in {a, b} /\ Min({a, b}) <= a /\ Min({a, b}) <= b
    BY DEF Min
<1> QED BY <1>1, <1>2

\* RestRows lie a page width apart.
LEMMA PagesApart ==
    ASSUME NEW p \in Nat, NEW a \in Int, NEW b \in Int, a < b
    PROVE  a * p + p <= b * p
<1>1. (b - a - 1) \in Nat /\ b = a + 1 + (b - a - 1)
    OBVIOUS
<1>2. ASSUME NEW d \in Nat PROVE (a + 1 + d) * p = a * p + p + d * p /\ d * p \in Nat /\ a * p \in Int
    BY Z3
<1> QED BY <1>1, <1>2

\* Division with a remainder.
LEMMA Quotient ==
    ASSUME NEW x \in Nat, NEW p \in Nat \ {0}
    PROVE  x \div p \in Nat /\ x % p \in 0 .. p - 1 /\ x = (x \div p) * p + (x % p)
<1>1. x = p * (x \div p) + (x % p) /\ x % p \in 0 .. p - 1 /\ x \div p \in Nat
    BY Z3
<1> DEFINE q == x \div p
           r == x % p
<1>2. x = p * q + r /\ r \in 0 .. p - 1 /\ q \in Nat
    BY <1>1
<1> HIDE DEF q, r
<1>3. p * q = q * p
    BY <1>2, Z3
<1>4. x = q * p + r
    BY <1>2, <1>3
<1> QED BY <1>2, <1>4 DEF q, r

\* Half lengths: h of an item and H of the view.
Laid(h, H) ==
    /\ h \in Nat \ {0} /\ H \in Nat /\ h <= H /\ Spacing \in Nat /\ Spacing < 2 * H
    /\ ItemLength = 2 * h /\ Length = 2 * H /\ Inset = H - h
    /\ pageWidth = 2 * h + Spacing /\ pageWidth \in Nat
    /\ ItemLength \div 2 = h /\ Length \div 2 = H
    /\ Offset \in Int /\ items \in Nat

\* The view has a size, and its insets are those of that size and direction.
LaidOut ==
    /\ LayoutTypeOK
    /\ lastScrollDirection = scrollDirection /\ lastCollectionViewSize = size
    /\ size = Zero => ~dragging
    /\ size # Zero => size \in Sizes /\ Inset = (Length - ItemLength) \div 2
RestRows == 0 .. (IF items = 0 THEN 0 ELSE items - 1)
Rests == \E row \in RestRows : Offset = Centering(row)
LayoutInv == LaidOut /\ (size # Zero /\ ~dragging => Rests)

\* All lengths are even.
LEMMA HalvesExact ==
    ASSUME LaidOut, size # Zero
    PROVE  \E h, H : Laid(h, H)
<1> DEFINE il == ItemLength
           l == Length
           h == il \div 2
           H == l \div 2
<1>1. /\ il \in Nat \ {0} /\ l \in Nat \ {0} /\ il % 2 = 0 /\ l % 2 = 0 /\ il <= l /\ Spacing < l /\ Spacing \in Nat
      /\ Offset \in Int /\ items \in Nat
  <2>1. il \in ItemLengths /\ l \in Lengths /\ Offset \in Int /\ items \in 0 .. MaxItems /\ MaxItems \in Nat
      BY CenteredFlowLayoutAssumption DEF LaidOut, LayoutTypeOK, Sizes, ItemLength, Length, Offset
  <2> HIDE DEF il, l
  <2>2. items \in Nat
      BY <2>1
  <2> QED BY <2>1, <2>2, CenteredFlowLayoutAssumption DEF Even
<1>2. Inset = (l - il) \div 2 /\ pageWidth = il + Spacing
    BY DEF LaidOut, pageWidth
<1> HIDE DEF il, l
<1>3. il = 2 * h /\ l = 2 * H /\ h \in Nat /\ H \in Nat
    BY <1>1, Z3
<1> HIDE DEF h, H
<1>4. h # 0 /\ h <= H /\ Spacing < 2 * H /\ l - il = 2 * (H - h) /\ (2 * (H - h)) \div 2 = H - h
    BY <1>1, <1>3
<1>5. /\ il = 2 * h /\ l = 2 * H /\ Inset = H - h /\ pageWidth = 2 * h + Spacing /\ pageWidth \in Nat
    BY <1>1, <1>2, <1>3, <1>4
<1>6. Laid(h, H)
  <2>1. il \div 2 = h /\ l \div 2 = H
      BY DEF h, H
  <2> QED BY <1>1, <1>3, <1>4, <1>5, <2>1 DEF Laid, il, l
<1> QED BY <1>6

\* The ends of the content are its first and its last page.
LEMMA Ends ==
    ASSUME NEW h, NEW H, Laid(h, H)
    PROVE  /\ \A row \in Int : Centering(row) = row * pageWidth + h - H /\ Centering(row) \in Int
           /\ FirstOffset = Centering(0) /\ FirstOffset = h - H
           /\ \A n \in Nat \ {0} : LastOffset(n) = Centering(n - 1)
           /\ LastOffset(0) = FirstOffset
<1>1. \A row \in Int : row * pageWidth \in Int
    BY DEF Laid
<1>2. \A row \in Int : Centering(row) = row * pageWidth + h - H /\ Centering(row) \in Int
    BY <1>1 DEF Laid, Centering, Center
<1>3. FirstOffset = h - H /\ 0 * pageWidth = 0
    BY DEF Laid, FirstOffset
<1>4. ASSUME NEW n \in Nat \ {0} PROVE LastOffset(n) = Centering(n - 1)
  <2> DEFINE p == pageWidth
             x == n * p
             y == (n - 1) * p
  <2>1. p = 2 * h + Spacing /\ h \in Nat \ {0} /\ H \in Nat /\ h <= H /\ Spacing \in Nat /\ Inset = H - h /\ Length = 2 * H
        /\ p \in Nat
      BY DEF Laid
  <2>2. Centering(n - 1) = y + h - H /\ ContentLength(n) = x - Spacing
      BY <1>2 DEF ContentLength
  <2>3. LastOffset(n) = Max({-Inset, ContentLength(n) + Inset - Length})
      BY DEF LastOffset
  <2> HIDE DEF p
  <2>4. x = y + p /\ y \in Nat /\ x \in Nat
      BY <2>1, Z3
  <2> HIDE DEF x, y
  <2>5. -Inset = h - H /\ ContentLength(n) + Inset - Length = y + h - H /\ h - H <= y + h - H
      BY <2>1, <2>2, <2>4
  <2>6. h - H \in Int /\ y + h - H \in Int
      BY <2>1, <2>4
  <2>7. Max({h - H, y + h - H}) = y + h - H
      BY <2>5, <2>6, OfTwo
  <2> QED BY <2>2, <2>3, <2>5, <2>7
<1>5. LastOffset(0) = h - H
  <2>1. LastOffset(0) = Max({-Inset, Inset - Length})
    <3>1. ContentLength(0) + Inset - Length = Inset - Length
        BY DEF ContentLength, Laid
    <3> QED BY <3>1 DEF LastOffset
  <2>2. -Inset = h - H /\ Inset - Length = -h - H /\ -h - H <= h - H /\ h - H \in Int /\ -h - H \in Int
      BY DEF Laid
  <2> QED BY <2>1, <2>2, OfTwo
<1> QED BY <1>2, <1>3, <1>4, <1>5 DEF Laid

\* RestRows are in the order of their rows.
LEMMA CenteringGrows ==
    ASSUME NEW h, NEW H, Laid(h, H), NEW a \in Int, NEW b \in Int, a < b
    PROVE  Centering(a) + pageWidth <= Centering(b) /\ pageWidth \in Nat \ {0}
<1> DEFINE p == pageWidth
           x == a * p
           y == b * p
<1>1. p \in Nat \ {0} /\ h \in Int /\ H \in Int
    BY DEF Laid
<1>2. Centering(a) = x + h - H /\ Centering(b) = y + h - H
    BY Ends
<1> HIDE DEF p
<1>3. x + p <= y /\ x \in Int /\ y \in Int
    BY <1>1, PagesApart
<1> HIDE DEF x, y
<1>4. Centering(a) + p <= Centering(b)
    BY <1>1, <1>2, <1>3
<1> QED BY <1>1, <1>4 DEF p

\* The offsets that the content allows keep a page a page.
LEMMA WithinKeepsPages ==
    ASSUME NEW h, NEW H, Laid(h, H), NEW row \in Int, NEW n \in Nat
    PROVE  \E r \in 0 .. (IF n = 0 THEN 0 ELSE n - 1) : Within(Centering(row), n) = Centering(r)
<1> DEFINE last == IF n = 0 THEN 0 ELSE n - 1
<1>1. last \in Nat /\ FirstOffset = Centering(0) /\ LastOffset(n) = Centering(last)
    BY Ends
<1> HIDE DEF last
<1>2. \A a \in Int : Centering(a) \in Int
    BY Ends
<1>3. \A a, b \in Int : a < b => Centering(a) < Centering(b)
  <2> SUFFICES ASSUME NEW a \in Int, NEW b \in Int, a < b PROVE Centering(a) < Centering(b)
      OBVIOUS
  <2>1. Centering(a) + pageWidth <= Centering(b) /\ pageWidth \in Nat \ {0}
      BY CenteringGrows
  <2> QED BY <1>2, <2>1
<1> DEFINE f == Centering(0)
           l == Centering(last)
           x == Centering(row)
<1>4. /\ f <= l /\ f \in Int /\ l \in Int /\ x \in Int
      /\ Within(x, n) = IF x < f THEN f ELSE IF x > l THEN l ELSE x
  <2>1. last = 0 \/ f < l
      BY <1>1, <1>3
  <2>2. f \in Int /\ l \in Int /\ x \in Int
      BY <1>1, <1>2
  <2>3. Within(x, n) = Max({f, Min({x, l})})
      BY <1>1 DEF Within
  <2> HIDE DEF f, l, x
  <2>4. Min({x, l}) = IF x <= l THEN x ELSE l
      BY <2>2, OfTwo
  <2>5. f <= l
      BY <2>1, <2>2 DEF f, l
  <2> DEFINE m == Min({x, l})
  <2>6. m \in Int
      BY <2>2, <2>4
  <2> HIDE DEF m
  <2>7. Max({f, m}) = IF f >= m THEN f ELSE m
      BY <2>2, <2>6, OfTwo
  <2> QED BY <2>2, <2>3, <2>4, <2>5, <2>7 DEF m
<1>5. CASE row < 0
  <2>1. Centering(row) < Centering(0) /\ Centering(row) < Centering(last)
      BY <1>1, <1>3, <1>5
  <2>2. Within(Centering(row), n) = Centering(0)
      BY <1>4, <2>1
  <2> QED BY <1>1, <2>2 DEF last
<1>6. CASE row > last
  <2>1. Centering(last) < Centering(row) /\ (last = 0 \/ Centering(0) < Centering(last))
      BY <1>1, <1>3, <1>6
  <2>2. Within(Centering(row), n) = Centering(last)
      BY <1>4, <2>1
  <2> QED BY <1>1, <2>2 DEF last
<1>7. CASE row \in 0 .. last
  <2>1. (row = last \/ Centering(row) < Centering(last)) /\ (row = 0 \/ Centering(0) < Centering(row))
      BY <1>1, <1>3, <1>7
  <2>2. Within(Centering(row), n) = Centering(row)
      BY <1>4, <2>1
  <2> QED BY <1>7, <2>2 DEF last
<1> QED BY <1>1, <1>5, <1>6, <1>7

\* A set of natural numbers has a least one.
LEMMA LeastNatural == ASSUME NEW T \in SUBSET Nat, T # {} PROVE \E m \in T : \A k \in T : m <= k
<1> PICK n \in T : TRUE
    OBVIOUS
<1> DEFINE U == {0 .. k : k \in {x \in T : x <= n}}
<1>1. U \subseteq FiniteSubsetsOf(0 .. n)
  <2>1. \A k \in T : k <= n => 0 .. k \subseteq 0 .. n /\ IsFiniteSet(0 .. k)
      BY FS_Interval
  <2> QED BY <2>1 DEF FiniteSubsetsOf
<1>2. 0 .. n \in U
    OBVIOUS
<1>3. IsWellFoundedOn(StrictSubsetOrdering(0 .. n), FiniteSubsetsOf(0 .. n))
    BY FS_StrictSubsetOrderingWellFounded
<1>4. PICK S \in U : \A V \in U : ~ (<<V, S>> \in StrictSubsetOrdering(0 .. n))
    BY <1>1, <1>2, <1>3, WFMin
<1>5. PICK m \in T : m <= n /\ S = 0 .. m
    BY <1>4
<1>6. \A k \in T : m <= k
  <2> SUFFICES ASSUME NEW k \in T, k < m PROVE FALSE
      OBVIOUS
  <2>1. 0 .. k \in U /\ 0 .. k \subseteq 0 .. m /\ 0 .. k # 0 .. m /\ 0 .. k \subseteq 0 .. n /\ 0 .. m \subseteq 0 .. n
    <3>1. m \in 0 .. m /\ m \notin 0 .. k
        OBVIOUS
    <3> QED BY <1>5, <3>1
  <2> QED BY <1>4, <1>5, <2>1 DEF StrictSubsetOrdering
<1> QED BY <1>6

-----------------------------------------------------------------------------
\* A row is in the proposed rectangle when its page is less than half of both lengths away.
LEMMA InRectangle ==
    ASSUME NEW h, NEW H, Laid(h, H), NEW n \in Int, NEW row \in 0 .. items - 1
    PROVE  row \in ItemsIn(n) <=> Centering(row) < n + h + H /\ n < Centering(row) + h + H
<1> DEFINE x == row * pageWidth
<1>1. row \in Int /\ x \in Int
    BY DEF Laid
<1>2. Centering(row) = x + h - H
    BY <1>1, Ends
<1>3. row \in ItemsIn(n) <=> x < n + Length /\ n < x + ItemLength
    BY DEF ItemsIn
<1> HIDE DEF x
<1> QED BY <1>1, <1>2, <1>3 DEF Laid

\* layoutAttributesForElements: every rectangle within the content shows an item.
LEMMA SomeItem ==
    ASSUME NEW h, NEW H, Laid(h, H), items # 0, NEW n \in Int, FirstOffset <= n, n <= LastOffset(items)
    PROVE  ItemsIn(n) # {}
<1> DEFINE p == pageWidth
           x == n + H - h
           q == x \div p
           r == x % p
           last == items - 1
           end == last * p
<1>1. /\ h \in Nat \ {0} /\ H \in Nat /\ h <= H /\ Spacing \in Nat /\ Spacing < 2 * H /\ p = 2 * h + Spacing
      /\ p \in Nat \ {0} /\ last \in Nat /\ items \in Nat
    BY DEF Laid
<1>2. \A row \in Int : Centering(row) = row * p + h - H /\ row * p \in Int
  <2>1. \A row \in Int : row * p \in Int
      BY <1>1
  <2> QED BY <2>1, Ends
<1>3. FirstOffset = h - H /\ LastOffset(items) = Centering(last)
    BY <1>1, Ends
<1> HIDE DEF p
<1>4. Centering(last) = end + h - H /\ end \in Int
    BY <1>1, <1>2
<1> HIDE DEF end, last
<1>5. x \in Nat /\ x <= end
    BY <1>1, <1>3, <1>4
<1> HIDE DEF x
<1>6. q \in Nat /\ r \in 0 .. p - 1 /\ x = q * p + r
    BY <1>1, <1>5, Quotient
<1> HIDE DEF q, r
<1> DEFINE y == q * p
           z == (q + 1) * p
<1>7. y \in Int /\ z \in Int /\ z = y + p
    BY <1>1, <1>6, Z3
<1>8. q <= last
  <2> SUFFICES ASSUME last < q PROVE FALSE
      BY <1>1, <1>6 DEF last
  <2>1. end + p <= y
      BY <1>1, <1>6, PagesApart DEF end
  <2> HIDE DEF y
  <2> QED BY <1>1, <1>4, <1>5, <1>6, <1>7, <2>1 DEF y
<1>9. r # 0 => q + 1 <= last
  <2> SUFFICES ASSUME r # 0, q = last PROVE FALSE
      BY <1>1, <1>6, <1>8
  <2>1. end = y
      BY DEF end
  <2> QED BY <1>1, <1>4, <1>5, <1>6, <1>7, <2>1
<1> HIDE DEF y, z
<1>10. CASE r < h + H
  <2>1. Centering(q) = y + h - H
      BY <1>2, <1>6 DEF y
  <2>2. x = y + r
      BY <1>6 DEF y
  <2>3. Centering(q) < n + h + H /\ n < Centering(q) + h + H
      BY <1>1, <1>6, <1>7, <1>10, <2>1, <2>2 DEF x
  <2>4. q \in 0 .. items - 1
      BY <1>1, <1>6, <1>8 DEF last
  <2> QED BY <2>3, <2>4, InRectangle
<1>11. CASE ~(r < h + H)
  <2>1. Centering(q + 1) = z + h - H
      BY <1>2, <1>6 DEF z
  <2>2. x = y + r
      BY <1>6 DEF y
  <2>3. r # 0 /\ r < p
      BY <1>1, <1>6, <1>11
  <2>4. Centering(q + 1) < n + h + H /\ n < Centering(q + 1) + h + H
      BY <1>1, <1>6, <1>7, <1>11, <2>1, <2>2, <2>3 DEF x
  <2>5. q + 1 \in 0 .. items - 1
      BY <1>1, <1>6, <1>9, <2>3 DEF last
  <2> QED BY <2>4, <2>5, InRectangle
<1> QED BY <1>10, <1>11

Gap(a, b) == IF a - b < 0 THEN -(a - b) ELSE a - b

\* attributesForRect: no other item of the rectangle has its page nearer.
LEMMA NearestPage ==
    ASSUME NEW h, NEW H, Laid(h, H), NEW n \in Int, ItemsIn(n) # {}
    PROVE  /\ Candidate(n) \in ItemsIn(n) /\ Candidate(n) \in 0 .. items - 1
           /\ \A other \in ItemsIn(n) : Gap(Centering(Candidate(n)), n) <= Gap(Centering(other), n)
<1> DEFINE S == ItemsIn(n)
           distance(row) == LET m == Center(row) - (n + Length \div 2) IN IF m < 0 THEN -m ELSE m
           gap(row) == Gap(Centering(row), n)
           Best(row) == \A other \in S : gap(row) < gap(other) \/ (gap(row) = gap(other) /\ row <= other)
<1>1. S \subseteq 0 .. items - 1 /\ items \in Nat /\ S # {}
    BY DEF ItemsIn, Laid
<1>2. \A row \in Int : Centering(row) \in Int /\ gap(row) \in Nat
    BY Ends DEF Gap
<1>3. \A row \in S : distance(row) = gap(row)
  <2> SUFFICES ASSUME NEW row \in S PROVE distance(row) = gap(row)
      OBVIOUS
  <2>1. row \in Int /\ Centering(row) \in Int /\ Centering(row) = Center(row) - H /\ Length \div 2 = H /\ H \in Nat
      BY <1>1, <1>2 DEF Centering, Laid
  <2>2. Center(row) \in Int
      BY <2>1 DEF Center, Laid
  <2> HIDE DEF S
  <2>3. Center(row) - (n + H) = Centering(row) - n
      BY <2>1, <2>2
  <2> QED BY <2>1, <2>3 DEF Gap
<1>4. Candidate(n) = CHOOSE row \in S : \A other \in S :
                        distance(row) < distance(other) \/ (distance(row) = distance(other) /\ row <= other)
    BY DEF Candidate
<1> HIDE DEF S, distance, gap
<1> DEFINE D == {gap(row) : row \in S}
<1>5. PICK d \in D : \A e \in D : d <= e
  <2>1. S \subseteq Int
      BY <1>1
  <2>2. D \subseteq Nat /\ D # {}
      BY <1>1, <1>2, <2>1
  <2> HIDE DEF D
  <2> QED BY <2>2, LeastNatural
<1>6. PICK c \in {row \in S : gap(row) = d} : \A e \in {row \in S : gap(row) = d} : c <= e
  <2>1. {row \in S : gap(row) = d} \subseteq Nat /\ {row \in S : gap(row) = d} # {}
      BY <1>1, <1>5
  <2> QED BY <2>1, LeastNatural
<1>7. Best(c)
  <2> SUFFICES ASSUME NEW other \in S PROVE gap(c) < gap(other) \/ (gap(c) = gap(other) /\ c <= other)
      OBVIOUS
  <2>1. gap(c) = d /\ d <= gap(other) /\ gap(other) \in Nat /\ d \in Nat
      BY <1>1, <1>2, <1>5, <1>6
  <2>2. gap(other) = d => c <= other
      BY <1>6
  <2> QED BY <2>1, <2>2
<1>8. Candidate(n) \in S /\ Best(Candidate(n))
  <2>1. \E row \in S : \A other \in S :
            distance(row) < distance(other) \/ (distance(row) = distance(other) /\ row <= other)
      BY <1>3, <1>6, <1>7
  <2>2. /\ Candidate(n) \in S
        /\ \A other \in S : \/ distance(Candidate(n)) < distance(other)
                            \/ distance(Candidate(n)) = distance(other) /\ Candidate(n) <= other
      BY <1>4, <2>1
  <2> QED BY <1>3, <2>2
<1>9. \A other \in S : gap(Candidate(n)) <= gap(other)
  <2> SUFFICES ASSUME NEW other \in S PROVE gap(Candidate(n)) <= gap(other)
      OBVIOUS
  <2>1. gap(Candidate(n)) \in Nat /\ gap(other) \in Nat
      BY <1>1, <1>2, <1>8
  <2> QED BY <1>8, <2>1
<1> QED BY <1>1, <1>8, <1>9 DEF S, gap

-----------------------------------------------------------------------------
\* currentCenteredPage: the frame that holds the middle is that of the page.
LEMMA PageIsCentered ==
    ASSUME NEW h, NEW H, Laid(h, H), NEW row \in 0 .. items - 1, Offset = Centering(row)
    PROVE  CurrentCenteredPage = row
<1> DEFINE p == pageWidth
           point == Offset + Length \div 2
           hit == {r \in 0 .. items - 1 : r * p <= point /\ point < r * p + ItemLength}
           x == row * p
<1>1. /\ h \in Nat \ {0} /\ H \in Nat /\ Spacing \in Nat /\ p = 2 * h + Spacing /\ p \in Nat /\ row \in Int
      /\ ItemLength = 2 * h /\ items \in Nat /\ x \in Int
    BY DEF Laid
<1>2. point = x + h
  <2>1. Centering(row) = x + h - H /\ Length \div 2 = H
      BY <1>1, Ends DEF Laid
  <2> HIDE DEF x
  <2> QED BY <1>1, <2>1
<1> HIDE DEF p, point
<1>3. row \in hit
    BY <1>1, <1>2
<1>4. ASSUME NEW r \in hit PROVE r = row
  <2> DEFINE y == r * p
  <2>1. r \in Int /\ y \in Int /\ y <= point /\ point < y + ItemLength
      BY <1>1
  <2>2. ~(row < r)
    <3> SUFFICES ASSUME row < r PROVE FALSE
        OBVIOUS
    <3>1. x + p <= y
        BY <1>1, <2>1, PagesApart
    <3> HIDE DEF x, y
    <3> QED BY <1>1, <1>2, <2>1, <3>1
  <2>3. ~(r < row)
    <3> SUFFICES ASSUME r < row PROVE FALSE
        OBVIOUS
    <3>1. y + p <= x
        BY <1>1, <2>1, PagesApart
    <3> HIDE DEF x, y
    <3> QED BY <1>1, <1>2, <2>1, <3>1
  <2> QED BY <1>1, <2>1, <2>2, <2>3
<1>5. hit = {row}
    BY <1>3, <1>4
<1>6. CurrentCenteredPage = IF hit = {} THEN NoItem ELSE CHOOSE r \in hit : TRUE
    BY DEF CurrentCenteredPage, IndexPathForItem, point, p
<1> HIDE DEF hit
<1> QED BY <1>5, <1>6

\* targetContentOffset: the page of an item, the one after it or the one before it.
LEMMA TargetIsPage ==
    ASSUME NEW h, NEW H, Laid(h, H), items # 0, NEW n \in Int, FirstOffset <= n, n <= LastOffset(items),
           NEW velocity \in {-1, 0, 1}
    PROVE  \E row \in Int : TargetContentOffset(n, velocity) = Centering(row)
<1> DEFINE c == Candidate(n)
<1>1. ItemsIn(n) # {} /\ c \in Int
  <2>1. ItemsIn(n) # {}
      BY SomeItem
  <2> QED BY <2>1, NearestPage DEF Laid
<1>2. Centering(c) + pageWidth = Centering(c + 1) /\ Centering(c) - pageWidth = Centering(c - 1)
  <2> DEFINE p == pageWidth
             x == c * p
  <2>1. /\ Centering(c) = c * p + h - H /\ Centering(c + 1) = (c + 1) * p + h - H
        /\ Centering(c - 1) = (c - 1) * p + h - H
      BY <1>1, Ends
  <2>2. p \in Int /\ h \in Int /\ H \in Int
      BY DEF Laid
  <2> HIDE DEF p, c
  <2>3. (c + 1) * p = x + p /\ (c - 1) * p = x - p /\ x \in Int
      BY <1>1, <2>2, Z3
  <2> HIDE DEF x
  <2>4. Centering(c) = x + h - H /\ Centering(c + 1) = x + p + h - H /\ Centering(c - 1) = x - p + h - H
      BY <2>1, <2>3 DEF x
  <2>5. Centering(c) + p = Centering(c + 1) /\ Centering(c) - p = Centering(c - 1)
      BY <2>2, <2>3, <2>4
  <2> QED BY <2>5 DEF p
<1>3. TargetContentOffset(n, velocity) \in {Centering(c), Centering(c) + pageWidth, Centering(c) - pageWidth}
    BY <1>1 DEF TargetContentOffset
<1> HIDE DEF c
<1>4. c + 1 \in Int /\ c - 1 \in Int
    BY <1>1
<1> QED BY <1>1, <1>2, <1>3, <1>4

\* The same from an offset within the content: an item that exists, in the direction of the swipe.
LEMMA TargetStaysOnCourse ==
    ASSUME NEW h, NEW H, Laid(h, H), items # 0, InRange, NEW velocity \in {-1, 0, 1}, NEW n \in Proposed(velocity)
    PROVE  LET target == TargetContentOffset(n, velocity)
           IN  /\ \E row \in 0 .. items - 1 : target = Centering(row)
               /\ velocity > 0 => target >= Offset
               /\ velocity < 0 => target <= Offset
<1> DEFINE c == Candidate(n)
           x == Centering(c)
           last == items - 1
<1>1. /\ items \in Nat \ {0} /\ last \in Nat /\ Offset \in Int /\ FirstOffset = Centering(0) /\ LastOffset(items) = Centering(last)
      /\ \A row \in Int : Centering(row) \in Int
  <2>1. items \in Nat \ {0} /\ Offset \in Int
      BY DEF Laid
  <2> QED BY <2>1, Ends
<1>2. /\ n \in Int /\ FirstOffset <= n /\ n <= LastOffset(items)
      /\ velocity > 0 => n >= Offset
      /\ velocity < 0 => n <= Offset
  <2>1. Within(Offset, items) = Offset
    <3>1. FirstOffset \in Int /\ LastOffset(items) \in Int /\ FirstOffset <= Offset /\ Offset <= LastOffset(items)
        BY <1>1 DEF InRange
    <3>2. Min({Offset, LastOffset(items)}) = Offset
        BY <1>1, <3>1, OfTwo
    <3>3. Max({FirstOffset, Offset}) = Offset
        BY <1>1, <3>1, OfTwo
    <3> QED BY <3>2, <3>3 DEF Within
  <2>2. FirstOffset \in Int /\ LastOffset(items) \in Int
      BY <1>1
  <2>3. \/ velocity > 0 /\ n >= Offset
        \/ velocity < 0 /\ n <= Offset
        \/ n = Offset
      BY <2>1 DEF Proposed
  <2>4. n \in FirstOffset .. LastOffset(items)
      BY DEF Proposed
  <2> HIDE DEF x, c, last
  <2> QED BY <1>1, <2>2, <2>3, <2>4
<1>3. /\ ItemsIn(n) # {} /\ c \in ItemsIn(n) /\ c \in 0 .. last
      /\ \A other \in ItemsIn(n) : Gap(Centering(c), n) <= Gap(Centering(other), n)
  <2>1. ItemsIn(n) # {}
      BY <1>1, <1>2, SomeItem
  <2> QED BY <1>2, <2>1, NearestPage
<1>4. TargetContentOffset(n, velocity) =
          IF (velocity < 0 /\ x > Offset) \/ (velocity > 0 /\ x < Offset)
          THEN IF velocity > 0 THEN x + pageWidth ELSE x - pageWidth
          ELSE x
    BY <1>3 DEF TargetContentOffset
<1> HIDE DEF c
<1>5. x \in Int /\ c \in Int /\ pageWidth \in Nat /\ last \in Int /\ h \in Nat \ {0} /\ H \in Nat
    BY <1>1, <1>3 DEF Laid
<1>6. \A a, b \in Int : a < b => Centering(a) + pageWidth <= Centering(b)
    BY CenteringGrows
<1>7. Centering(c + 1) = x + pageWidth /\ Centering(c - 1) = x - pageWidth
  <2> DEFINE p == pageWidth
             y == c * p
  <2>1. /\ Centering(c) = c * p + h - H /\ Centering(c + 1) = (c + 1) * p + h - H
        /\ Centering(c - 1) = (c - 1) * p + h - H
    <3>1. \A row \in Int : Centering(row) = row * p + h - H
        BY Ends
    <3>2. c + 1 \in Int /\ c - 1 \in Int
        BY <1>5
    <3> HIDE DEF p
    <3> QED BY <1>5, <3>1, <3>2
  <2> HIDE DEF p
  <2>2. (c + 1) * p = y + p /\ (c - 1) * p = y - p /\ y \in Int
      BY <1>5, Z3 DEF p
  <2> HIDE DEF y
  <2>3. Centering(c) = y + h - H /\ Centering(c + 1) = y + p + h - H /\ Centering(c - 1) = y - p + h - H
      BY <2>1, <2>2 DEF y
  <2>4. x + p = Centering(c + 1) /\ x - p = Centering(c - 1) /\ p \in Int
      BY <1>5, <2>2, <2>3 DEF p
  <2> QED BY <2>4 DEF p
<1>8. x < n + h + H /\ n < x + h + H
    BY <1>1, <1>2, <1>3, InRectangle
<1>9. CASE velocity > 0 /\ x < Offset
  <2>1. Centering(last) >= Offset /\ n >= Offset
      BY <1>1, <1>2, <1>9 DEF InRange
  <2>2. c # last
      BY <1>1, <1>5, <1>9, <2>1
  <2>3. c + 1 \in 0 .. items - 1
      BY <1>1, <1>3, <2>2
  <2>4. x + pageWidth >= Offset
    <3> SUFFICES ASSUME x + pageWidth < Offset PROVE FALSE
        BY <1>1, <1>5
    <3> DEFINE z == Centering(c + 1)
    <3>1. z = x + pageWidth /\ z \in Int /\ z < n /\ x < z
      <4>1. z = x + pageWidth /\ c + 1 \in Int
          BY <1>5, <1>7
      <4>2. z \in Int
          BY <1>1, <4>1
      <4>3. pageWidth # 0
          BY DEF Laid
      <4> HIDE DEF z, x
      <4> QED BY <1>1, <1>2, <1>5, <2>1, <4>1, <4>2, <4>3
    <3>2. z < n + h + H /\ n < z + h + H
      <4> HIDE DEF z, x
      <4> QED BY <1>2, <1>5, <1>8, <3>1
    <3>3. c + 1 \in ItemsIn(n)
        BY <1>2, <2>3, <3>2, InRectangle
    <3>4. Gap(x, n) <= Gap(z, n)
        BY <1>3, <3>3
    <3> HIDE DEF z, x
    <3> QED BY <1>2, <1>5, <3>1, <3>4 DEF Gap
  <2>5. TargetContentOffset(n, velocity) = x + pageWidth
      BY <1>4, <1>9
  <2> QED BY <1>7, <1>9, <2>3, <2>4, <2>5
<1>10. CASE velocity < 0 /\ x > Offset
  <2>1. Centering(0) <= Offset /\ n <= Offset
      BY <1>1, <1>2, <1>10 DEF InRange
  <2>2. c # 0
      BY <1>1, <1>5, <1>10, <2>1
  <2>3. c - 1 \in 0 .. items - 1
      BY <1>1, <1>3, <2>2
  <2>4. x - pageWidth <= Offset
    <3> SUFFICES ASSUME x - pageWidth > Offset PROVE FALSE
        BY <1>1, <1>5
    <3> DEFINE z == Centering(c - 1)
    <3>1. z = x - pageWidth /\ z \in Int /\ z > n /\ x > z
      <4>1. z = x - pageWidth /\ c - 1 \in Int
          BY <1>5, <1>7
      <4>2. z \in Int
          BY <1>1, <4>1
      <4>3. pageWidth # 0
          BY DEF Laid
      <4> HIDE DEF z, x
      <4> QED BY <1>1, <1>2, <1>5, <2>1, <4>1, <4>2, <4>3
    <3>2. z < n + h + H /\ n < z + h + H
      <4> HIDE DEF z, x
      <4> QED BY <1>2, <1>5, <1>8, <3>1
    <3>3. c - 1 \in ItemsIn(n)
        BY <1>2, <2>3, <3>2, InRectangle
    <3>4. Gap(x, n) <= Gap(z, n)
        BY <1>3, <3>3
    <3> HIDE DEF z, x
    <3> QED BY <1>2, <1>5, <3>1, <3>4 DEF Gap
  <2>5. TargetContentOffset(n, velocity) = x - pageWidth
      BY <1>4, <1>10
  <2> QED BY <1>7, <1>10, <2>3, <2>4, <2>5
<1>11. CASE ~(velocity > 0 /\ x < Offset) /\ ~(velocity < 0 /\ x > Offset)
  <2>1. TargetContentOffset(n, velocity) = x
      BY <1>4, <1>11
  <2> QED BY <1>1, <1>3, <1>5, <1>11, <2>1
<1> QED BY <1>9, <1>10, <1>11

\* The half of a difference.
LEMMA HalfOfDifference ==
    ASSUME NEW a \in Nat, NEW b \in Nat, a % 2 = 0, b % 2 = 0, a <= b
    PROVE  -((b - a) \div 2) = a \div 2 - b \div 2 /\ a \div 2 \in Nat /\ b \div 2 \in Nat
<1> DEFINE h == a \div 2
           H == b \div 2
<1>1. a = 2 * h /\ b = 2 * H /\ h \in Nat /\ H \in Nat
    BY Z3
<1> HIDE DEF h, H
<1>2. b - a = 2 * (H - h) /\ (2 * (H - h)) \div 2 = H - h
    BY <1>1
<1>3. -((b - a) \div 2) = h - H
    BY <1>1, <1>2
<1> QED BY <1>1, <1>3 DEF h, H

\* What the invariant says depends on the variables of the layout alone.
LEMMA SameLayout == ASSUME LayoutInv, UNCHANGED layoutVars PROVE LayoutInv'
<1>1. /\ ItemLength' = ItemLength /\ Length' = Length /\ Inset' = Inset /\ Offset' = Offset /\ pageWidth' = pageWidth
      /\ RestRows' = RestRows
    BY DEF layoutVars, ItemLength, Length, Inset, Offset, pageWidth, RestRows
<1>2. \A row : Centering(row)' = Centering(row)
    BY <1>1 DEF Centering, Center
<1>3. LaidOut'
    BY <1>1 DEF LayoutInv, LaidOut, LayoutTypeOK, layoutVars
<1> QED BY <1>1, <1>2, <1>3 DEF LayoutInv, Rests, layoutVars

-----------------------------------------------------------------------------
\* invalidateLayout: the insets are those of the new size and direction, and the first page
\* is centred, unless neither has changed.
LEMMA InvalidateKeeps ==
    ASSUME LayoutInv, InvalidateLayout, UNCHANGED <<items, dragging>>,
           scrollDirection' \in Axes, size' \in Sizes, itemSize' \in [Axes -> ItemLengths],
           size # Zero => itemSize' = itemSize
    PROVE  LayoutInv'
<1>0. \A s \in Sizes : s # Zero
    BY CenteredFlowLayoutAssumption DEF Sizes, Zero, Axes
<1>1. items \in Nat /\ items' = items
    BY CenteredFlowLayoutAssumption DEF LayoutInv, LaidOut, LayoutTypeOK
<1>2. CASE size' # lastCollectionViewSize \/ lastScrollDirection # scrollDirection'
  <2> DEFINE il == itemSize'[scrollDirection']
             l == size'[scrollDirection']
             inset == (l - il) \div 2
  <2>1. /\ contentInset' = AlongAxis(scrollDirection', inset)
        /\ contentOffset' = AlongAxis(scrollDirection', -inset)
        /\ lastCollectionViewSize' = size' /\ lastScrollDirection' = scrollDirection'
      BY <1>2 DEF InvalidateLayout
  <2>2. inset \in Nat
    <3>1. il \in ItemLengths /\ l \in Lengths
        BY DEF Sizes
    <3> HIDE DEF il, l
    <3>2. il \in Nat /\ l \in Nat /\ il <= l
        BY <3>1, CenteredFlowLayoutAssumption
    <3>3. l - il \in Nat
        BY <3>2
    <3> DEFINE g == l - il
    <3> HIDE DEF g
    <3>4. g \div 2 \in Nat
        BY <3>3, Z3 DEF g
    <3> QED BY <3>4 DEF g
  <2>3. /\ contentInset' \in [Axes -> Nat] /\ contentOffset' \in [Axes -> Int]
        /\ contentInset'[scrollDirection'] = inset /\ contentOffset'[scrollDirection'] = -inset
    <3> HIDE DEF inset
    <3> QED BY <2>1, <2>2 DEF AlongAxis
  <2>4. LayoutTypeOK'
      BY <2>1, <2>3 DEF LayoutInv, LaidOut, LayoutTypeOK
  <2>5. ItemLength' = il /\ Length' = l /\ Inset' = inset /\ Offset' = -inset
      BY <2>3 DEF ItemLength, Length, Inset, Offset
  <2>6. LaidOut'
      BY <1>0, <2>1, <2>4, <2>5 DEF LaidOut
  <2>7. size' # Zero
      BY <1>0
  <2>8. Rests'
    <3>1. il \in ItemLengths /\ l \in Lengths
        BY DEF Sizes
    <3>2. 0 * pageWidth' = 0
        BY <2>5, <3>1, CenteredFlowLayoutAssumption DEF pageWidth
    <3>3. Centering(0)' = (0 * pageWidth' + il \div 2) - l \div 2
      <4>1. Centering(0)' = (0 * pageWidth' + ItemLength' \div 2) - Length' \div 2
          BY DEF Centering, Center
      <4> HIDE DEF il, l
      <4> QED BY <2>5, <4>1
    <3> HIDE DEF il, l
    <3>4. il \in Nat /\ l \in Nat /\ il % 2 = 0 /\ l % 2 = 0 /\ il <= l
        BY <3>1, CenteredFlowLayoutAssumption DEF Even
    <3>5. -inset = il \div 2 - l \div 2 /\ il \div 2 \in Nat
        BY <3>4, HalfOfDifference
    <3>6. Centering(0)' = -inset
        BY <3>2, <3>3, <3>4, <3>5
    <3>7. 0 \in RestRows'
        BY <1>1 DEF RestRows
    <3> QED BY <2>5, <3>6, <3>7 DEF Rests
  <2> QED BY <2>6, <2>8 DEF LayoutInv
<1>3. CASE ~(size' # lastCollectionViewSize \/ lastScrollDirection # scrollDirection')
  <2>1. /\ size' = size /\ scrollDirection' = scrollDirection /\ itemSize' = itemSize
        /\ UNCHANGED <<contentInset, contentOffset, lastCollectionViewSize, lastScrollDirection, items, dragging>>
      BY <1>0, <1>3 DEF LayoutInv, LaidOut, InvalidateLayout
  <2> QED BY <2>1, SameLayout DEF layoutVars
<1> QED BY <1>2, <1>3

\* A step that moves the content alone, along the axis of scrolling.
LEMMA MoveKeeps ==
    ASSUME LayoutInv, size # Zero, contentOffset' \in [Axes -> Int], items' \in 0 .. MaxItems, dragging' \in BOOLEAN,
           UNCHANGED <<scrollDirection, lastScrollDirection, size, lastCollectionViewSize, itemSize, contentInset>>,
           ~dragging' => \E row \in 0 .. (IF items' = 0 THEN 0 ELSE items' - 1) : Offset' = Centering(row)
    PROVE  LayoutInv'
<1>1. /\ ItemLength' = ItemLength /\ Length' = Length /\ Inset' = Inset /\ pageWidth' = pageWidth
    BY DEF ItemLength, Length, Inset, pageWidth
<1>2. \A row : Centering(row)' = Centering(row)
    BY <1>1 DEF Centering, Center
<1>3. LaidOut'
    BY <1>1 DEF LayoutInv, LaidOut, LayoutTypeOK
<1>4. ~dragging' => Rests'
    BY <1>2 DEF Rests, RestRows
<1> QED BY <1>3, <1>4 DEF LayoutInv

\* Before the first layout pass nothing rests on a page.
LEMMA EarlyKeeps ==
    ASSUME LayoutInv, size = Zero, items' \in 0 .. MaxItems, itemSize' \in [Axes -> ItemLengths],
           UNCHANGED <<scrollDirection, lastScrollDirection, size, lastCollectionViewSize, contentInset, contentOffset, dragging>>
    PROVE  LayoutInv'
BY DEF LayoutInv, LaidOut, LayoutTypeOK

\* The finger lets go: the content comes to rest on a page.
LEMMA EndDraggingKeeps ==
    ASSUME LayoutInv, NEW velocity \in {-1, 0, 1}, EndDragging(velocity) PROVE LayoutInv'
<1>1. dragging /\ size # Zero /\ ~dragging'
    BY DEF LayoutInv, LaidOut, LayoutTypeOK, EndDragging
<1>2. PICK h, H : Laid(h, H)
    BY <1>1, HalvesExact DEF LayoutInv
<1>3. PICK n \in Proposed(velocity) :
          contentOffset' = [contentOffset EXCEPT ![scrollDirection] = Within(TargetContentOffset(n, velocity), items)]
    BY DEF EndDragging
<1> DEFINE target == TargetContentOffset(n, velocity)
<1>4. items \in Nat /\ items' = items /\ scrollDirection' = scrollDirection
    BY <1>2 DEF Laid, EndDragging
<1>5. \E row \in Int : target = Centering(row)
  <2>1. n \in FirstOffset .. LastOffset(items)
      BY DEF Proposed
  <2>2. \A row \in Int : Centering(row) \in Int
      BY <1>2, Ends
  <2>3. FirstOffset = Centering(0) /\ LastOffset(0) = Centering(0)
        /\ (items # 0 => LastOffset(items) = Centering(items - 1))
      BY <1>2, <1>4, Ends
  <2>4. n \in Int /\ FirstOffset <= n /\ n <= LastOffset(items)
    <3>1. FirstOffset \in Int /\ LastOffset(items) \in Int
        BY <1>4, <2>2, <2>3
    <3> QED BY <2>1, <3>1
  <2>5. CASE items = 0
    <3>1. ItemsIn(n) = {}
        BY <2>5 DEF ItemsIn
    <3>2. target = n
        BY <3>1 DEF TargetContentOffset
    <3>3. Centering(0) \in Int
        BY <2>2
    <3>4. n = Centering(0)
        BY <2>3, <2>4, <2>5, <3>3
    <3> QED BY <3>2, <3>4
  <2>6. CASE items # 0
      BY <1>2, <2>4, <2>6, TargetIsPage
  <2> QED BY <2>5, <2>6
<1> HIDE DEF target
<1>6. \E row \in 0 .. (IF items = 0 THEN 0 ELSE items - 1) : Within(target, items) = Centering(row)
    BY <1>2, <1>4, <1>5, WithinKeepsPages
<1>7. Within(target, items) \in Int
  <2>1. \A row \in 0 .. (IF items = 0 THEN 0 ELSE items - 1) : Centering(row) \in Int
      BY <1>2, <1>4, Ends
  <2> QED BY <1>6, <2>1
<1>8. contentOffset' \in [Axes -> Int] /\ Offset' = Within(target, items)
  <2>1. contentOffset \in [Axes -> Int] /\ scrollDirection \in Axes
      BY DEF LayoutInv, LaidOut, LayoutTypeOK
  <2> QED BY <1>3, <1>4, <1>7, <2>1 DEF Offset, target
<1>9. items' \in 0 .. MaxItems /\ dragging' \in BOOLEAN
    BY DEF LayoutInv, LaidOut, LayoutTypeOK, EndDragging
<1> QED BY <1>1, <1>4, <1>6, <1>8, <1>9, MoveKeeps DEF EndDragging

\* scrollToPage: the offset that centres the page.
LEMMA ScrollToPageKeeps ==
    ASSUME LayoutInv, NEW row \in Int, ScrollToPage(row) PROVE LayoutInv'
<1> DEFINE x == row * pageWidth
<1>1. PICK h, H : Laid(h, H)
    BY HalvesExact DEF LayoutInv, ScrollToPage
<1>2. Centering(row) = x + h - H /\ x \in Int /\ h \in Int /\ H \in Int /\ Inset = H - h
    BY <1>1, Ends DEF Laid
<1> HIDE DEF x
<1>3. x - Inset = Centering(row) /\ x - Inset \in Int
    BY <1>2
<1>4. contentOffset' = AlongAxis(scrollDirection, x - Inset) /\ scrollDirection \in Axes /\ scrollDirection' = scrollDirection
    BY DEF ScrollToPage, x, LayoutInv, LaidOut, LayoutTypeOK
<1>5. contentOffset' \in [Axes -> Int] /\ Offset' = Centering(row)
    BY <1>3, <1>4 DEF Offset, AlongAxis
<1>6. row \in 0 .. (IF items' = 0 THEN 0 ELSE items' - 1)
    BY <1>1 DEF Laid, ScrollToPage
<1>7. items' \in 0 .. MaxItems /\ dragging' \in BOOLEAN
    BY DEF LayoutInv, LaidOut, LayoutTypeOK, ScrollToPage
<1> QED BY <1>5, <1>6, <1>7, MoveKeeps DEF ScrollToPage

\* reloadData: a page that is no longer there gives way to the last one.
LEMMA ReloadKeeps ==
    ASSUME LayoutInv, NEW n \in 0 .. MaxItems, ReloadItems(n) PROVE LayoutInv'
<1>1. CASE size = Zero
    BY <1>1, EarlyKeeps DEF ReloadItems, LayoutInv, LaidOut, LayoutTypeOK
<1>2. CASE size # Zero /\ dragging
    BY <1>2, MoveKeeps DEF ReloadItems, LayoutInv, LaidOut, LayoutTypeOK
<1>3. CASE size # Zero /\ ~dragging
  <2>1. PICK h, H : Laid(h, H)
      BY <1>3, HalvesExact DEF LayoutInv
  <2>2. n \in Nat /\ items \in Nat
      BY <2>1, CenteredFlowLayoutAssumption DEF Laid
  <2>3. PICK row \in RestRows : Offset = Centering(row)
      BY <1>3 DEF LayoutInv, Rests
  <2>4. row \in Int
      BY <2>2 DEF RestRows
  <2>5. PICK r \in 0 .. (IF n = 0 THEN 0 ELSE n - 1) : Within(Offset, n) = Centering(r)
      BY <2>1, <2>2, <2>3, <2>4, WithinKeepsPages
  <2>6. Within(Offset, n) \in Int
      BY <2>1, <2>2, <2>5, Ends
  <2>7. contentOffset' = [contentOffset EXCEPT ![scrollDirection] = Within(Offset, n)]
        /\ scrollDirection' = scrollDirection /\ items' = n
      BY <1>3 DEF ReloadItems
  <2>8. contentOffset' \in [Axes -> Int] /\ Offset' = Centering(r)
    <3>1. contentOffset \in [Axes -> Int] /\ scrollDirection \in Axes
        BY DEF LayoutInv, LaidOut, LayoutTypeOK
    <3> QED BY <2>5, <2>6, <2>7, <3>1 DEF Offset
  <2>9. dragging' \in BOOLEAN
      BY DEF LayoutInv, LaidOut, LayoutTypeOK, ReloadItems
  <2> QED BY <1>3, <2>5, <2>7, <2>8, <2>9, MoveKeeps DEF ReloadItems
<1> QED BY <1>1, <1>2, <1>3

\* Every step keeps the carousel laid out and, unless dragged, at rest on a page.
LEMMA LayoutStep == ASSUME LayoutInv, [LayoutNext]_layoutVars PROVE LayoutInv'
<1>0. LayoutTypeOK
    BY DEF LayoutInv, LaidOut
<1>1. ASSUME NEW s \in Sizes, Resize(s) PROVE LayoutInv'
    BY <1>0, <1>1, InvalidateKeeps DEF Resize, LayoutTypeOK
<1>2. ASSUME NEW d \in Axes, SetScrollDirection(d) PROVE LayoutInv'
  <2>1. size \in Sizes
      BY <1>2 DEF LayoutInv, LaidOut, SetScrollDirection
  <2> QED BY <1>0, <1>2, <2>1, InvalidateKeeps DEF SetScrollDirection, LayoutTypeOK
<1>3. ASSUME NEW s \in [Axes -> ItemLengths], SetItemSize(s) PROVE LayoutInv'
  <2>1. UNCHANGED <<contentInset, contentOffset, lastCollectionViewSize, lastScrollDirection>>
      BY <1>3 DEF SetItemSize, InvalidateLayout, LayoutInv, LaidOut
  <2> QED BY <1>0, <1>3, <2>1, EarlyKeeps DEF SetItemSize, LayoutTypeOK
<1>4. CASE Drag
  <2>1. PICK h, H : Laid(h, H)
      BY <1>4, HalvesExact DEF LayoutInv, Drag
  <2>2. FirstOffset \in Int /\ LastOffset(items) \in Int /\ Overscroll \in Int
    <3>1. items \in Nat /\ FirstOffset = Centering(0) /\ Centering(0) \in Int /\ LastOffset(0) = FirstOffset
        BY <2>1, Ends DEF Laid
    <3>2. items # 0 => LastOffset(items) = Centering(items - 1) /\ Centering(items - 1) \in Int
        BY <2>1, <3>1, Ends
    <3> QED BY <3>1, <3>2, CenteredFlowLayoutAssumption
  <2>3. PICK n \in (FirstOffset - Overscroll) .. (LastOffset(items) + Overscroll) :
            contentOffset' = [contentOffset EXCEPT ![scrollDirection] = n]
      BY <1>4 DEF Drag
  <2>4. n \in Int
      BY <2>2
  <2>5. contentOffset' \in [Axes -> Int]
      BY <1>0, <2>3, <2>4 DEF LayoutTypeOK
  <2> QED BY <1>0, <1>4, <2>5, MoveKeeps DEF Drag, LayoutTypeOK
<1>5. ASSUME NEW velocity \in {-1, 0, 1}, EndDragging(velocity) PROVE LayoutInv'
    BY <1>5, EndDraggingKeeps
<1>6. ASSUME NEW row \in 0 .. (MaxItems - 1), ScrollToPage(row) PROVE LayoutInv'
  <2>1. row \in Int
      BY CenteredFlowLayoutAssumption
  <2> QED BY <1>6, <2>1, ScrollToPageKeeps
<1>7. ASSUME NEW n \in 0 .. MaxItems, ReloadItems(n) PROVE LayoutInv'
    BY <1>7, ReloadKeeps
<1>8. CASE UNCHANGED layoutVars
    BY <1>8, SameLayout
<1> QED BY <1>1, <1>2, <1>3, <1>4, <1>5, <1>6, <1>7, <1>8 DEF LayoutNext

\* A view without a size has nothing to rest on.
LEMMA LayoutStart == ASSUME LayoutInit PROVE LayoutInv
<1>1. 0 \in 0 .. MaxItems
    BY CenteredFlowLayoutAssumption
<1>2. Zero \in [Axes -> Nat] /\ Zero \in [Axes -> Int]
    BY DEF Zero
<1>3. LayoutTypeOK
    BY <1>1, <1>2 DEF LayoutInit, LayoutTypeOK, Axes
<1> QED BY <1>3 DEF LayoutInit, LayoutInv, LaidOut

\* The invariant says what the carousel promises.
LEMMA RestsCentered == ASSUME LayoutInv PROVE CarouselIsCentered
<1>1. CellsAreCentered
  <2> SUFFICES ASSUME size # Zero, ~dragging, items > 0
               PROVE  \E row \in 0 .. (items - 1) : Offset = Centering(row) /\ CurrentCenteredPage = row
      BY DEF CellsAreCentered
  <2>1. PICK h, H : Laid(h, H)
      BY HalvesExact DEF LayoutInv
  <2>2. PICK row \in 0 .. (items - 1) : Offset = Centering(row)
      BY DEF LayoutInv, Rests, RestRows
  <2> QED BY <2>1, <2>2, PageIsCentered
<1>2. SwipeStaysOnCourse
  <2>1. CASE dragging /\ InRange /\ items > 0
    <3>1. PICK h, H : Laid(h, H)
        BY <2>1, HalvesExact DEF LayoutInv, LaidOut
    <3>2. items # 0
        BY <2>1
    <3> QED BY <2>1, <3>1, <3>2, TargetStaysOnCourse DEF SwipeStaysOnCourse
  <2> QED BY <2>1 DEF SwipeStaysOnCourse
<1> QED BY <1>1, <1>2 DEF CarouselIsCentered

\* The carousel rests on an item whatever came before, and a swipe goes its way.
THEOREM LayoutCorrect == LayoutSpec => [](LayoutTypeOK /\ CarouselIsCentered)
<1>1. LayoutInv => LayoutTypeOK /\ CarouselIsCentered
    BY RestsCentered DEF LayoutInv, LaidOut
<1> QED BY <1>1, LayoutStart, LayoutStep, PTL DEF LayoutSpec

-----------------------------------------------------------------------------
(* The recycled views: what a view shows is what it was last filled with.    *)

\* What the views hold besides their types: a view that was never used is empty.
ViewsInv ==
    /\ ViewsTypeOK /\ Len(listing) <= MaxCellRows
    /\ \A v \in PinViews : pinViews[v].use \notin Pins \cup {Pooled} => pinViews[v].label = Nothing
    /\ \A v \in PinViews : pinViews[v].use \in Pins => pinTitle[pinViews[v].use] # Nothing
    /\ ViewsAreCurrent

\* CollectionViewCell: a cell that is filled shows its restaurant.
LEMMA FilledCell ==
    ASSUME ViewsInv, NEW c \in Cells, NEW row \in 1 .. MaxCellRows, row \in DOMAIN listing
    PROVE  CellRendered([DequeuedCell(c) EXCEPT !.use = row, !.restaurant = listing[row]]) =
               [use |-> row, restaurant |-> listing[row],
                labels |-> [who |-> listing[row].id, deal |-> Text(listing[row].title)]]
<1>1. listing[row] \in Restaurant /\ listing[row] # Nothing
    BY ReusableViewsAssumption DEF ViewsInv, ViewsTypeOK
<1>2. \E restaurant, labels : cells[c] = [use |-> cells[c].use, restaurant |-> restaurant, labels |-> labels]
    BY DEF ViewsInv, ViewsTypeOK
<1>3. \E use, restaurant, labels : DequeuedCell(c) = [use |-> use, restaurant |-> restaurant, labels |-> labels]
    BY <1>2 DEF DequeuedCell, CellPrepared
<1> QED BY <1>1, <1>3 DEF CellRendered

\* DealAnnotationView: a view that is filled shows its pin, also one without a deal.
LEMMA FilledPinView ==
    ASSUME ViewsInv, NEW v \in PinViews, NEW p \in Pins, pinViews[v].use \in {Pooled, NotCreated}
    PROVE  PinViewRendered([DequeuedPinView(v) EXCEPT !.use = p, !.dealTitle = Text(pinTitle[p])]) =
               [use |-> p, dealTitle |-> Text(pinTitle[p]), label |-> Text(pinTitle[p])]
<1>1. pinViews[v] = [use |-> pinViews[v].use, dealTitle |-> pinViews[v].dealTitle, label |-> pinViews[v].label]
    BY DEF ViewsInv, ViewsTypeOK
<1>2. \E use, title : DequeuedPinView(v) = [use |-> use, dealTitle |-> title, label |-> Nothing]
  <2>1. CASE pinViews[v].use = Pooled
      BY <1>1, <2>1 DEF DequeuedPinView, PinViewPrepared
  <2>2. CASE pinViews[v].use # Pooled
    <3>1. pinViews[v].label = Nothing
        BY <2>2, ReusableViewsAssumption DEF ViewsInv
    <3> QED BY <1>1, <2>2, <3>1 DEF DequeuedPinView
  <2> QED BY <2>1, <2>2
<1> DEFINE d == DequeuedPinView(v)
           t == Text(pinTitle[p])
<1>3. PICK use, title : d = [use |-> use, dealTitle |-> title, label |-> Nothing]
    BY <1>2
<1> HIDE DEF d, t
<1>4. [d EXCEPT !.use = p, !.dealTitle = t] = [use |-> p, dealTitle |-> t, label |-> Nothing]
  <2>1. [d EXCEPT !.use = p, !.dealTitle = t] \in [use : {p}, dealTitle : {t}, label : {Nothing}]
      BY <1>3
  <2>2. \A x : x \in [use : {p}, dealTitle : {t}, label : {Nothing}] => x = [use |-> p, dealTitle |-> t, label |-> Nothing]
      OBVIOUS
  <2> QED BY <2>1, <2>2, Zenon
<1>5. PinViewRendered([use |-> p, dealTitle |-> t, label |-> Nothing]) = [use |-> p, dealTitle |-> t, label |-> t]
  <2> DEFINE x == [use |-> p, dealTitle |-> t, label |-> Nothing]
  <2>1. x.dealTitle = t /\ [x EXCEPT !.label = t] = [use |-> p, dealTitle |-> t, label |-> t]
      OBVIOUS
  <2>2. t = Nothing => x = [use |-> p, dealTitle |-> t, label |-> t]
      OBVIOUS
  <2> HIDE DEF x
  <2>3. PinViewRendered(x) = [use |-> p, dealTitle |-> t, label |-> t]
      BY <2>1, <2>2 DEF PinViewRendered
  <2> QED BY <2>3 DEF x
<1> QED BY <1>4, <1>5 DEF d, t

\* No step disturbs the views: what is filled is filled anew, what is changed is not shown.
LEMMA ViewsStep == ASSUME ViewsInv, [ViewsNext]_viewVars PROVE ViewsInv'
<1> USE ReusableViewsAssumption
<1>0. /\ \A t \in Titles \cup {Nothing} : Text(t) \in Titles \cup {Nothing}
      /\ \A r \in Restaurant : r.id \in Ids /\ r.title \in Titles
    BY DEF Text, Restaurant
<1>1. ASSUME NEW c \in Cells, NEW row \in 1 .. MaxCellRows, CellForItemAt(c, row) PROVE ViewsInv'
  <2> DEFINE new == [use |-> row, restaurant |-> listing[row],
                     labels |-> [who |-> listing[row].id, deal |-> Text(listing[row].title)]]
  <2>1. cells' = [cells EXCEPT ![c] = new] /\ UNCHANGED <<listing, pinTitle, pinViews>> /\ row \in DOMAIN listing
      BY <1>1, FilledCell DEF CellForItemAt
  <2>2. listing[row] \in Restaurant
      BY <2>1 DEF ViewsInv, ViewsTypeOK
  <2>3. ViewsTypeOK'
    <3>1. listing[row].id \in Ids /\ Text(listing[row].title) \in Titles \cup {Nothing}
        BY <1>0, <2>2
    <3>2. new \in [use : {NotCreated, Pooled} \cup (1 .. MaxCellRows),
                  restaurant : Restaurant \cup {Nothing}, labels : Labels]
        BY <2>2, <3>1 DEF Labels
    <3> HIDE DEF new
    <3> QED BY <2>1, <3>2 DEF ViewsInv, ViewsTypeOK
  <2>4. CellsShowTheirRows'
      BY <2>1 DEF ViewsInv, ViewsTypeOK, ViewsAreCurrent, CellsShowTheirRows
  <2> QED BY <2>1, <2>3, <2>4 DEF ViewsInv, ViewsAreCurrent, PinViewsShowTheirPins
<1>2. ASSUME NEW c \in Cells, CellLeaves(c) PROVE ViewsInv'
  <2>1. UNCHANGED <<listing, pinTitle, pinViews>>
      BY <1>2 DEF CellLeaves
  <2>2. ViewsTypeOK'
      BY <1>2 DEF CellLeaves, ViewsInv, ViewsTypeOK
  <2>3. CellsShowTheirRows'
      BY <1>2 DEF CellLeaves, ViewsInv, ViewsTypeOK, ViewsAreCurrent, CellsShowTheirRows
  <2> QED BY <2>1, <2>2, <2>3 DEF ViewsInv, ViewsAreCurrent, PinViewsShowTheirPins
<1>3. CASE ListReloaded
  <2>1. UNCHANGED <<pinTitle, pinViews>>
      BY <1>3 DEF ListReloaded
  <2>2. listing' \in Seq(Restaurant) /\ Len(listing') <= MaxCellRows
    <3>1. PICK n \in 0 .. MaxCellRows : listing' \in [1 .. n -> Restaurant]
        BY <1>3 DEF ListReloaded
    <3> QED BY <3>1
  <2>3. ViewsTypeOK'
      BY <1>3, <2>1, <2>2 DEF ListReloaded, ViewsInv, ViewsTypeOK
  <2>4. \A c \in Cells : cells'[c].use \in {NotCreated, Pooled}
      BY <1>3 DEF ListReloaded, ViewsInv, ViewsTypeOK
  <2> QED BY <2>1, <2>2, <2>3, <2>4 DEF ViewsInv, ViewsAreCurrent, CellsShowTheirRows, PinViewsShowTheirPins
<1>4. ASSUME NEW v \in PinViews, NEW p \in Pins, ViewFor(v, p) PROVE ViewsInv'
  <2>1. /\ pinViews' = [pinViews EXCEPT ![v] = [use |-> p, dealTitle |-> Text(pinTitle[p]), label |-> Text(pinTitle[p])]]
        /\ UNCHANGED <<listing, cells, pinTitle>>
      BY <1>4, FilledPinView DEF ViewFor
  <2>2. Text(pinTitle[p]) \in Titles \cup {Nothing}
      BY <1>0 DEF ViewsInv, ViewsTypeOK
  <2>3. ViewsTypeOK'
      BY <2>1, <2>2 DEF ViewsInv, ViewsTypeOK
  <2>4. PinViewsShowTheirPins'
      BY <2>1 DEF ViewsInv, ViewsTypeOK, ViewsAreCurrent, PinViewsShowTheirPins
  <2>5. \A w \in PinViews : pinViews'[w].use \notin Pins \cup {Pooled} => pinViews'[w].label = Nothing
      BY <2>1 DEF ViewsInv, ViewsTypeOK
  <2>6. \A w \in PinViews : pinViews'[w].use \in Pins => pinTitle'[pinViews'[w].use] # Nothing
      BY <1>4, <2>1 DEF ViewsInv, ViewsTypeOK, ViewFor
  <2> QED BY <2>1, <2>3, <2>4, <2>5, <2>6 DEF ViewsInv, ViewsAreCurrent, CellsShowTheirRows
<1>5. ASSUME NEW v \in PinViews, PinLeaves(v) PROVE ViewsInv'
  <2>1. UNCHANGED <<listing, cells, pinTitle>>
      BY <1>5 DEF PinLeaves
  <2>2. ViewsTypeOK'
    <3>1. [pinViews[v] EXCEPT !.use = Pooled] \in [use : {NotCreated, Pooled} \cup Pins, dealTitle : Titles \cup {Nothing},
                                                 label : Titles \cup {Nothing}]
        BY DEF ViewsInv, ViewsTypeOK
    <3> QED BY <1>5, <2>1, <3>1 DEF PinLeaves, ViewsInv, ViewsTypeOK
  <2>3. PinViewsShowTheirPins'
      BY <1>5 DEF PinLeaves, ViewsInv, ViewsTypeOK, ViewsAreCurrent, PinViewsShowTheirPins
  <2>4. \A w \in PinViews : pinViews'[w].use \notin Pins \cup {Pooled} => pinViews'[w].label = Nothing
      BY <1>5 DEF PinLeaves, ViewsInv, ViewsTypeOK
  <2>5. \A w \in PinViews : pinViews'[w].use \in Pins => pinTitle'[pinViews'[w].use] # Nothing
      BY <1>5 DEF ViewsInv, ViewsTypeOK, PinLeaves
  <2> QED BY <2>1, <2>2, <2>3, <2>4, <2>5 DEF ViewsInv, ViewsAreCurrent, CellsShowTheirRows
<1>6. ASSUME NEW p \in Pins, AnnotationAdded(p) PROVE ViewsInv'
  <2>1. PICK t \in Titles : pinTitle' = [pinTitle EXCEPT ![p] = t]
      BY <1>6 DEF AnnotationAdded
  <2>2. UNCHANGED <<listing, cells, pinViews>> /\ pinTitle[p] = Nothing
      BY <1>6 DEF AnnotationAdded
  <2>3. ViewsTypeOK'
      BY <2>1, <2>2 DEF ViewsInv, ViewsTypeOK
  <2>4. PinViewsShowTheirPins'
      BY <2>1, <2>2 DEF ViewsInv, ViewsTypeOK, ViewsAreCurrent, PinViewsShowTheirPins
  <2>5. \A w \in PinViews : pinViews'[w].use \in Pins => pinTitle'[pinViews'[w].use] # Nothing
      BY <2>1, <2>2 DEF ViewsInv, ViewsTypeOK
  <2> QED BY <2>2, <2>3, <2>4, <2>5 DEF ViewsInv, ViewsAreCurrent, CellsShowTheirRows
<1>7. ASSUME NEW p \in Pins, AnnotationRemoved(p) PROVE ViewsInv'
  <2>1. /\ UNCHANGED <<listing, cells>> /\ pinTitle' = [pinTitle EXCEPT ![p] = Nothing]
        /\ pinViews' = [v \in PinViews |-> IF pinViews[v].use = p THEN [pinViews[v] EXCEPT !.use = Pooled] ELSE pinViews[v]]
      BY <1>7 DEF AnnotationRemoved
  <2>2. ViewsTypeOK'
      BY <2>1 DEF ViewsInv, ViewsTypeOK
  <2>3. PinViewsShowTheirPins'
      BY <2>1 DEF ViewsInv, ViewsTypeOK, ViewsAreCurrent, PinViewsShowTheirPins
  <2>4. \A w \in PinViews : pinViews'[w].use \notin Pins \cup {Pooled} => pinViews'[w].label = Nothing
      BY <2>1 DEF ViewsInv, ViewsTypeOK
  <2>5. \A w \in PinViews : pinViews'[w].use \in Pins => pinTitle'[pinViews'[w].use] # Nothing
      BY <2>1 DEF ViewsInv, ViewsTypeOK
  <2> QED BY <2>1, <2>2, <2>3, <2>4, <2>5 DEF ViewsInv, ViewsAreCurrent, CellsShowTheirRows
<1>8. CASE UNCHANGED viewVars
    BY <1>8 DEF viewVars, ViewsInv, ViewsTypeOK, ViewsAreCurrent, CellsShowTheirRows, PinViewsShowTheirPins
<1> QED BY <1>1, <1>2, <1>3, <1>4, <1>5, <1>6, <1>7, <1>8 DEF ViewsNext

\* At the start no view exists.
LEMMA ViewsStart == ASSUME ViewsInit PROVE ViewsInv
<1> USE ReusableViewsAssumption
<1>1. <<>> \in Seq(Restaurant) /\ Len(<<>>) = 0 /\ DOMAIN <<>> = {}
    OBVIOUS
<1>2. ViewsTypeOK
    BY <1>1 DEF ViewsInit, ViewsTypeOK, NewCell, NewPinView, Blank, Labels
<1>3. ViewsAreCurrent
    BY DEF ViewsInit, NewCell, NewPinView, ViewsAreCurrent, CellsShowTheirRows, PinViewsShowTheirPins
<1> QED BY <1>1, <1>2, <1>3 DEF ViewsInit, ViewsInv, NewPinView

\* In every behaviour a cell or pin view in use shows the restaurant or the pin it stands
\* for, whatever it showed in its earlier lives.
THEOREM ViewsCorrect == ViewsSpec => [](ViewsTypeOK /\ ViewsAreCurrent)
<1>1. ViewsInv => ViewsTypeOK /\ ViewsAreCurrent
    BY DEF ViewsInv
<1> QED BY <1>1, ViewsStart, ViewsStep, PTL DEF ViewsSpec
=============================================================================
