------------------------------- MODULE MapPanel --------------------------------
(***************************************************************************)
(* The map's camera, the panel with the carousel of deals, and the two     *)
(* buttons: chevronButtonPressed, locationButtonPressed, updateLocation,   *)
(* updateRestaurantLocation, the CLLocationManagerDelegate and the         *)
(* UICollectionViewDelegate of MainViewController.                         *)
(*                                                                         *)
(* Callbacks reach the controller in any order on the main queue: the end  *)
(* of the panel's animation, the end of a scroll, answers of the geocoder, *)
(* location updates and reloads of the carousel by the database handlers.  *)
(***************************************************************************)
EXTENDS Restaurants, Integers, Sequences, SequencesExt

CONSTANTS
    NoPage,     \* currentCenteredPage = nil
    User,       \* the camera's target when it shows the user, or no one yet
    MaxRows,    \* bound: restaurants in the list when the panel is alone
    MaxLookups  \* bound: lookups under way or about to be asked for

ASSUME MapPanelAssumption ==
    /\ NoPage \notin Int
    /\ User \notin Ids
    /\ MaxRows \in Nat
    /\ MaxLookups \in Nat

VARIABLES
    restaurants,     \* the list the carousel shows
    rows,            \* how many items collectionView has laid out
    page,            \* currentCenteredPage: the row under the centre, or nil
    scrolling,       \* what moves the carousel: nothing, the user, scrollToPage
    chevronHidden,   \* chevronButton.isHidden
    chevronEnabled,  \* chevronButton.isEnabled
    animating,       \* the panel slides up or down
    isExpanded,
    followLocation,
    lookups,         \* ids whose address updateRestaurantLocation asked for
    camera,          \* the region of mapView: whom it shows, moved up or not
    tracking,        \* mapView.userTrackingMode = .follow
    missed,          \* history: since the chevron was last pressed, the latest
                     \* attempt to aim the camera came to nothing
    strayed          \* history: since the chevron was last pressed and the region
                     \* last set, mapView went to the user behind the open panel

cameraVars == <<camera, tracking, strayed>>

panelVars == <<restaurants, rows, page, scrolling, chevronHidden, chevronEnabled,
               animating, isExpanded, followLocation, lookups, missed, cameraVars>>

\* Everything but the list, the carousel and the chevron's visibility, which
\* the handlers of the database events also write.
mapVars == <<scrolling, chevronEnabled, animating, isExpanded, followLocation,
             lookups, missed, cameraVars>>

Pages(n) == {NoPage} \cup 0..(n - 1)

\* Types of the variables; a page is the row of an item that is laid out.
PanelTypeOK ==
    /\ restaurants \in Seq(Restaurant)
    /\ rows \in Nat
    /\ page \in Pages(rows)
    /\ scrolling \in {"no", "decelerating", "animated"}
    /\ chevronHidden \in BOOLEAN
    /\ chevronEnabled \in BOOLEAN
    /\ animating \in BOOLEAN
    /\ isExpanded \in BOOLEAN
    /\ followLocation \in BOOLEAN
    /\ lookups \in Seq(Ids)
    /\ camera \in [target : Ids \cup {User}, shifted : BOOLEAN]
    /\ tracking \in BOOLEAN
    /\ missed \in BOOLEAN
    /\ strayed \in BOOLEAN

\* The view has loaded: nothing listed, the panel down, the map on the user.
\* followLocation starts as true, but nothing has set mapView.userTrackingMode yet.
PanelInit ==
    /\ restaurants = <<>>
    /\ rows = 0
    /\ page = NoPage
    /\ scrolling = "no"
    /\ chevronHidden = FALSE
    /\ chevronEnabled = TRUE
    /\ animating = FALSE
    /\ isExpanded = FALSE
    /\ followLocation = TRUE
    /\ lookups = <<>>
    /\ camera = [target |-> User, shifted |-> FALSE]
    /\ tracking = FALSE
    /\ missed = FALSE
    /\ strayed = FALSE

-----------------------------------------------------------------------------
(* The carousel. *)

\* Mutant: the carousel is reloaded before the list changes.
ReloadDataFirst ==
    /\ rows' = Len(restaurants)
    /\ page' \in IF page \in 0..(Len(restaurants) - 1)
                 THEN {page} ELSE Pages(Len(restaurants))

\* collectionView.reloadData(): items are counted again.  The content offset
\* stays, so the centred row stays if it still exists; otherwise the scroll view
\* may come to rest anywhere.
ReloadData ==
    /\ rows' = Len(restaurants')
    /\ page' \in IF page \in 0..(Len(restaurants') - 1)
                 THEN {page} ELSE Pages(Len(restaurants'))

\* updateRestaurantLocation(), with the given centred page.
UpdateRestaurantLocation(p) ==
    \/ /\ p = NoPage
       /\ missed' = TRUE
       /\ UNCHANGED lookups
    \/ /\ p # NoPage
       /\ lookups' = Append(lookups, restaurants[p + 1].id)
       /\ UNCHANGED missed

\* The bound leaves room for what is about to end in a lookup.
RoomForLookup ==
    Len(lookups) + (IF animating THEN 1 ELSE 0)
                 + (IF scrolling = "no" THEN 0 ELSE 1) < MaxLookups

\* The user swipes the carousel.  A finger that lifts while the content is at
\* rest starts no deceleration, and then no callback tells of the new page.
Swipe ==
    /\ rows > 0
    /\ RoomForLookup
    /\ scrolling' \in {"no", "decelerating"}
    /\ page' \in Pages(rows)
    /\ UNCHANGED <<restaurants, rows, chevronHidden, chevronEnabled, animating,
                   isExpanded, followLocation, lookups, missed, cameraVars>>

\* collectionView(_:didSelectItemAt:): only a tap beside the centred page scrolls.
DidSelectItem(row) ==
    /\ row \in 0..(rows - 1)
    /\ page # NoPage
    /\ page # row
    /\ RoomForLookup
    /\ scrolling' = "animated"
    /\ UNCHANGED <<restaurants, rows, page, chevronHidden, chevronEnabled, animating,
                   isExpanded, followLocation, lookups, missed, cameraVars>>

\* Other pages pass under the centre before the scroll ends.
ScrollMoves ==
    /\ scrolling # "no"
    /\ page' \in Pages(rows)
    /\ UNCHANGED <<restaurants, rows, scrolling, chevronHidden, chevronEnabled, animating,
                   isExpanded, followLocation, lookups, missed, cameraVars>>

\* scrollViewDidEndDecelerating and scrollViewDidEndScrollingAnimation.
ScrollEnds ==
    /\ scrolling # "no"
    /\ scrolling' = "no"
    /\ page' \in Pages(rows)
    /\ UpdateRestaurantLocation(page')
    /\ UNCHANGED <<restaurants, rows, chevronHidden, chevronEnabled, animating,
                   isExpanded, followLocation, cameraVars>>

-----------------------------------------------------------------------------
(* The panel and the buttons. *)

\* chevronButtonPressed(): a hidden or disabled button gets no touches.
ChevronButtonPressed ==
    /\ chevronEnabled
    /\ ~chevronHidden
    /\ RoomForLookup
    /\ chevronEnabled' = FALSE
    /\ isExpanded' = ~isExpanded
    /\ animating' = TRUE
    /\ missed' = FALSE
    /\ strayed' = FALSE
    /\ UNCHANGED <<restaurants, rows, page, scrolling, chevronHidden, followLocation,
                   lookups, camera, tracking>>

\* Mutant: the completion does not give the button back.
AnimationEndsDisabled ==
    /\ animating
    /\ animating' = FALSE
    /\ UpdateRestaurantLocation(page)
    /\ UNCHANGED <<restaurants, rows, page, scrolling, chevronHidden, chevronEnabled,
                   isExpanded, followLocation, cameraVars>>

\* Mutant: the completion does not aim the camera again.
AnimationEndsWithoutLookup ==
    /\ animating
    /\ animating' = FALSE
    /\ chevronEnabled' = TRUE
    /\ UNCHANGED <<restaurants, rows, page, scrolling, chevronHidden, isExpanded,
                   followLocation, lookups, missed, cameraVars>>

\* The completion of UIView.animate in chevronButtonPressed.
AnimationEnds ==
    /\ animating
    /\ animating' = FALSE
    /\ chevronEnabled' = TRUE
    /\ UpdateRestaurantLocation(page)
    /\ UNCHANGED <<restaurants, rows, page, scrolling, chevronHidden, isExpanded,
                   followLocation, cameraVars>>

\* locationButtonPressed(): the tracking mode and the image go with the flag,
\* whether the panel is open or not.
LocationButtonPressed ==
    /\ followLocation' = ~followLocation
    /\ tracking' = ~followLocation
    /\ UNCHANGED <<restaurants, rows, page, scrolling, chevronHidden, chevronEnabled,
                   animating, isExpanded, lookups, camera, missed, strayed>>

-----------------------------------------------------------------------------
(* The camera. *)

\* updateLocation(coordinate:): the region is moved up when the panel is up.
\* mapView.setRegion may or may not take the map view out of .follow.
UpdateLocation(target) ==
    /\ camera' = [target |-> target, shifted |-> isExpanded]
    /\ tracking' \in {tracking, FALSE}
    /\ missed' = FALSE
    /\ strayed' = FALSE

\* In .follow the map view centres the map on the user: when the mode is set or his
\* location becomes known, and whenever he moves.  It knows nothing of the panel.
MapFollowsUser ==
    /\ tracking
    /\ camera' = [target |-> User, shifted |-> FALSE]
    /\ strayed' = isExpanded
    /\ UNCHANGED <<restaurants, rows, page, scrolling, chevronHidden, chevronEnabled,
                   animating, isExpanded, followLocation, lookups, tracking, missed>>

\* The geocoder answers any of the lookups under way with a coordinate.
LookupFound(i) ==
    /\ i \in DOMAIN lookups
    /\ lookups' = RemoveAt(lookups, i)
    /\ UpdateLocation(lookups[i])
    /\ UNCHANGED <<restaurants, rows, page, scrolling, chevronHidden, chevronEnabled,
                   animating, isExpanded, followLocation>>

\* ... or with an error, which is only printed.
LookupFailed(i) ==
    /\ i \in DOMAIN lookups
    /\ lookups' = RemoveAt(lookups, i)
    /\ missed' = TRUE
    /\ UNCHANGED <<restaurants, rows, page, scrolling, chevronHidden, chevronEnabled,
                   animating, isExpanded, followLocation, cameraVars>>

\* locationManager(_:didUpdateLocations:), with a location.
DidUpdateLocations ==
    /\ ~isExpanded
    /\ followLocation
    /\ UpdateLocation(User)
    /\ UNCHANGED <<restaurants, rows, page, scrolling, chevronHidden, chevronEnabled,
                   animating, isExpanded, followLocation, lookups>>

PanelStep ==
    \/ Swipe
    \/ \E row \in 0..(rows - 1) : DidSelectItem(row)
    \/ ScrollMoves
    \/ ScrollEnds
    \/ ChevronButtonPressed
    \/ AnimationEnds
    \/ LocationButtonPressed
    \/ \E i \in 1..MaxLookups : LookupFound(i) \/ LookupFailed(i)
    \/ DidUpdateLocations
    \/ MapFollowsUser

-----------------------------------------------------------------------------
(* The component on its own: the handlers of the database events replace the *)
(* list by any other one, hide or show the chevron, and reload.              *)

ListChanges ==
    /\ \E n \in 0..MaxRows : restaurants' \in [1..n -> Restaurant]
    /\ chevronHidden' \in BOOLEAN
    /\ ReloadData
    /\ UNCHANGED mapVars

PanelNext == ListChanges \/ PanelStep

\* Animations end, scrolling comes to rest and the geocoder answers.
PanelFairness ==
    /\ WF_panelVars(AnimationEnds)
    /\ WF_panelVars(ScrollEnds)
    /\ WF_panelVars(\E i \in 1..MaxLookups : LookupFound(i) \/ LookupFailed(i))

PanelSafety == PanelInit /\ [][PanelNext]_panelVars

PanelSpec == PanelSafety /\ PanelFairness

-----------------------------------------------------------------------------
(* Properties. *)

\* The centred page is always the index of a restaurant, so the subscript in
\* updateRestaurantLocation never traps, whichever callback runs it and however
\* the list shrank since the carousel was laid out.
PageNamesRestaurant == page # NoPage => page \in 0..(Len(restaurants) - 1)

Settled == chevronEnabled /\ lookups = <<>> /\ ~missed

\* Once the panel is at rest and every lookup is answered, the camera is moved
\* up exactly when the panel is up, and an open panel shows a restaurant, never
\* the user: late answers and location updates that race with the animation do
\* not leave the map aimed behind the panel.  Only the map view itself does, in
\* .follow: the guard of didUpdateLocations keeps the controller from showing the
\* user behind an open panel, and locationButtonPressed has no such guard.
SettledCameraFitsPanel ==
    Settled /\ ~strayed => /\ camera.shifted = isExpanded
                           /\ isExpanded => camera.target \in Ids

\* The chevron is given back after every press.
ChevronComesBack == []<>chevronEnabled

\* An open panel gets a restaurant into view, unless it is closed again or the
\* attempt comes to nothing (no page centred, address not found) or the map view
\* has gone to the user instead.
OpenPanelIsAimed == isExpanded ~> (camera.shifted \/ ~isExpanded \/ missed \/ strayed)

\* After a press of the chevron everything comes to rest: the button works again, and
\* an open panel gets its restaurant into view.
PanelSettles == ChevronComesBack /\ OpenPanelIsAimed
=============================================================================
