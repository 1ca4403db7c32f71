----------------------------- MODULE ReusableViews ------------------------------
(***************************************************************************)
(* The views that UIKit and MapKit recycle: the cells of the carousel      *)
(* (CollectionViewCell) and the views of the pins (DealAnnotationView),    *)
(* with the two callbacks of MainViewController that fill them.            *)
(*                                                                         *)
(* A view is in use or in the reuse pool.  Dequeueing sends a pooled view  *)
(* prepareForReuse, or creates a view when the pool is empty; that and the *)
(* moment at which a view is put back are UIKit's.  The label texts of a   *)
(* view are what the user sees, so a text that survives from the view's    *)
(* previous use shows one restaurant's deal as another's.                  *)
(***************************************************************************)
EXTENDS Restaurants, Naturals, Sequences

CONSTANTS
    Cells,      \* cells that may exist
    PinViews,   \* pin views that may exist
    Pins,       \* annotations that may exist
    NotCreated, \* a view that does not exist yet
    Pooled,     \* a view that waits in the reuse pool
    Nothing,    \* nil
    MaxCellRows     \* bound: restaurants in the list

ASSUME ReusableViewsAssumption ==
    /\ MaxCellRows \in Nat
    /\ {NotCreated, Pooled} \cap (Nat \cup Pins) = {}
    /\ Nothing \notin Restaurant

VARIABLES
    listing,  \* the list
    cells,        \* per cell: the row it is used for, its restaurant, its labels
    pinTitle,     \* the annotations on the map with their titles
    pinViews      \* per pin view: the pin it is used for, dealTitle and its label

viewVars == <<listing, cells, pinTitle, pinViews>>

\* The labels name and address always have a text together, title and details
\* follow the deal.
Labels == [who : Ids \cup {Nothing}, deal : Titles \cup {Nothing}]

Blank == [who |-> Nothing, deal |-> Nothing]

\* nil as the text of a label.
Text(title) == IF title = NoTitle THEN Nothing ELSE title

\* Types of the variables.
ViewsTypeOK ==
    /\ listing \in Seq(Restaurant)
    /\ cells \in [Cells -> [use : {NotCreated, Pooled} \cup (1..MaxCellRows),
                            restaurant : Restaurant \cup {Nothing}, labels : Labels]]
    /\ pinTitle \in [Pins -> Titles \cup {Nothing}]
    /\ pinViews \in [PinViews -> [use : {NotCreated, Pooled} \cup Pins,
                                  dealTitle : Titles \cup {Nothing},
                                  label : Titles \cup {Nothing}]]

\* CollectionViewCell.init(frame:): a cell without a restaurant and texts.
NewCell == [use |-> NotCreated, restaurant |-> Nothing, labels |-> Blank]

\* DealAnnotationView.init(annotation:reuseIdentifier:): an empty label.
NewPinView == [use |-> NotCreated, dealTitle |-> Nothing, label |-> Nothing]

ViewsInit ==
    /\ listing = <<>>
    /\ cells = [c \in Cells |-> NewCell]
    /\ pinTitle = [p \in Pins |-> Nothing]
    /\ pinViews = [v \in PinViews |-> NewPinView]

-----------------------------------------------------------------------------
(* CollectionViewCell. *)

\* prepareForReuse().
CellPrepared(cell) == [cell EXCEPT !.restaurant = Nothing, !.labels = Blank]

\* render().
CellRendered(cell) ==
    IF cell.restaurant = Nothing THEN cell
    ELSE [cell EXCEPT !.labels = [who |-> cell.restaurant.id,
                                  deal |-> Text(cell.restaurant.title)]]

\* dequeueReusableCell(withReuseIdentifier:for:).
DequeuedCell(c) == IF cells[c].use = Pooled THEN CellPrepared(cells[c]) ELSE cells[c]

\* collectionView(_:cellForItemAt:).
CellForItemAt(c, row) ==
    /\ cells[c].use \in {Pooled, NotCreated}
    /\ row \in DOMAIN listing
    /\ \A other \in Cells : cells[other].use # row
    /\ cells' = [cells EXCEPT ![c] = CellRendered(
                    [DequeuedCell(c) EXCEPT !.use = row, !.restaurant = listing[row]])]
    /\ UNCHANGED <<listing, pinTitle, pinViews>>

\* A cell scrolls out of sight.
CellLeaves(c) ==
    /\ cells[c].use \in 1..MaxCellRows
    /\ cells' = [cells EXCEPT ![c].use = Pooled]
    /\ UNCHANGED <<listing, pinTitle, pinViews>>

\* A database event changes the list and reloads: every cell in use is put back.
ListReloaded ==
    /\ \E n \in 0..MaxCellRows : listing' \in [1..n -> Restaurant]
    /\ cells' = [c \in Cells |-> IF cells[c].use = NotCreated THEN cells[c]
                                 ELSE [cells[c] EXCEPT !.use = Pooled]]
    /\ UNCHANGED <<pinTitle, pinViews>>

-----------------------------------------------------------------------------
(* DealAnnotationView. *)

\* Mutant: the label keeps its text.
PinViewPreparedKeepLabel(v) == [v EXCEPT !.dealTitle = Nothing]

\* prepareForReuse().
PinViewPrepared(v) == [v EXCEPT !.dealTitle = Nothing, !.label = Nothing]

\* render(): without a title the label is left as it is.
PinViewRendered(v) == IF v.dealTitle = Nothing THEN v ELSE [v EXCEPT !.label = v.dealTitle]

\* dequeueReusableAnnotationView(withIdentifier:), or a new view.
DequeuedPinView(v) == IF pinViews[v].use = Pooled THEN PinViewPrepared(pinViews[v]) ELSE pinViews[v]

\* mapView(_:viewFor:): pooled views come first.
ViewFor(v, p) ==
    /\ pinTitle[p] # Nothing
    /\ \A other \in PinViews : pinViews[other].use # p
    /\ \/ pinViews[v].use = Pooled
       \/ pinViews[v].use = NotCreated /\ \A other \in PinViews : pinViews[other].use # Pooled
    /\ pinViews' = [pinViews EXCEPT ![v] = PinViewRendered(
                       [DequeuedPinView(v) EXCEPT !.use = p, !.dealTitle = Text(pinTitle[p])])]
    /\ UNCHANGED <<listing, cells, pinTitle>>

\* mapView.addAnnotation: the title of an annotation is set once.
AnnotationAdded(p) ==
    /\ pinTitle[p] = Nothing
    /\ \E t \in Titles : pinTitle' = [pinTitle EXCEPT ![p] = t]
    /\ UNCHANGED <<listing, cells, pinViews>>

\* The map moves a pin out of sight; its view is put back.
PinLeaves(v) ==
    /\ pinViews[v].use \in Pins
    /\ pinViews' = [pinViews EXCEPT ![v].use = Pooled]
    /\ UNCHANGED <<listing, cells, pinTitle>>

\* mapView.removeAnnotation.
AnnotationRemoved(p) ==
    /\ pinTitle[p] # Nothing
    /\ pinTitle' = [pinTitle EXCEPT ![p] = Nothing]
    /\ pinViews' = [v \in PinViews |-> IF pinViews[v].use = p
                                       THEN [pinViews[v] EXCEPT !.use = Pooled]
                                       ELSE pinViews[v]]
    /\ UNCHANGED <<listing, cells>>

ViewsNext ==
    \/ \E c \in Cells : \/ \E row \in 1..MaxCellRows : CellForItemAt(c, row)
                        \/ CellLeaves(c)
    \/ ListReloaded
    \/ \E v \in PinViews : (\E p \in Pins : ViewFor(v, p)) \/ PinLeaves(v)
    \/ \E p \in Pins : AnnotationAdded(p) \/ AnnotationRemoved(p)

ViewsSpec == ViewsInit /\ [][ViewsNext]_viewVars

-----------------------------------------------------------------------------
(* Properties. *)

\* A cell in use shows the restaurant that is listed in its row now: who it is,
\* and its deal or no deal, never a text of the cell's previous use.
CellsShowTheirRows ==
    \A c \in Cells : cells[c].use \in 1..MaxCellRows =>
        /\ cells[c].use \in DOMAIN listing
        /\ cells[c].labels = [who |-> listing[cells[c].use].id,
                              deal |-> Text(listing[cells[c].use].title)]

\* A pin view in use shows its pin's deal; the pin of a restaurant without a
\* deal shows nothing, though render() does not touch its label.
PinViewsShowTheirPins ==
    \A v \in PinViews : pinViews[v].use \in Pins =>
        pinViews[v].label = Text(pinTitle[pinViews[v].use])

\* No recycled view shows anything of its previous use.
ViewsAreCurrent == CellsShowTheirRows /\ PinViewsShowTheirPins
=============================================================================
