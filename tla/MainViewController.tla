--------------------------- MODULE MainViewController ---------------------------
(***************************************************************************)
(* The controller as a whole: the three observers that viewDidLoad sets on *)
(* the "restaurants" node of the Firebase database, and what they do to    *)
(* the list, the carousel, the pins and the notifications.                 *)
(*                                                                         *)
(* The database is external.  Clients elsewhere write its children; the    *)
(* query sees the first Limit of them in key order; the SDK compares what  *)
(* it has reported (`view`) with the window of the query and calls the     *)
(* observer of the difference, one child at a time, on the main queue.     *)
(* Differences are reported in any order and changes that follow each      *)
(* other quickly may be reported as one.                                   *)
(*                                                                         *)
(* A child's key serves as its field "id".                                 *)
(***************************************************************************)
EXTENDS DealAnnotations, DealNotifications, MapPanel

CONSTANTS
    Absent,    \* no such child
    Partial,   \* a child with an id that is not a complete dictionary of strings
    NoId,      \* a child without a string under "id"
    Limit,     \* queryLimited(toFirst:), 250 in getQuery()
    MaxWrites  \* bound: writes to the database

ASSUME MainViewControllerAssumption ==
    /\ Ids \subseteq Int
    /\ {Absent, Partial, NoId} \cap Titles = {} /\ Absent \notin {Partial, NoId}
    /\ Limit \in Nat
    /\ MaxWrites \in Nat

VARIABLES
    db,         \* the children of "restaurants" on the server
    view,       \* the children the observers have been told of
    writes,     \* how many writes the database has seen
    removed     \* history: a child was removed while its restaurant was listed

feedVars == <<db, view, writes, removed>>

vars == <<feedVars, pinVars, noteVars, panelVars>>

Children == Titles \cup {Partial, NoId, Absent}

\* Types of the variables that only this module has, and of its parts.
TypeOK ==
    /\ PinsTypeOK
    /\ NotesTypeOK
    /\ PanelTypeOK
    /\ db \in [Ids -> Children]
    /\ view \in [Ids -> Children]
    /\ writes \in Nat
    /\ removed \in BOOLEAN

\* application(_:didFinishLaunchingWithOptions:) has run and viewDidLoad with it.
Init ==
    /\ PinsInit
    /\ NotesInit
    /\ PanelInit
    /\ db = [k \in Ids |-> Absent]
    /\ view = [k \in Ids |-> Absent]
    /\ writes = 0
    /\ removed = FALSE

-----------------------------------------------------------------------------
(* The database. *)

\* getQuery(): the first Limit children in key order.
Window ==
    [k \in Ids |->
        IF Cardinality({j \in Ids : j < k /\ db[j] # Absent}) < Limit
        THEN db[k] ELSE Absent]

\* Someone adds, changes or removes a child.
Write(k) ==
    /\ writes < MaxWrites
    /\ writes' = writes + 1
    /\ \E child \in Children \ {db[k]} : db' = [db EXCEPT ![k] = child]
    /\ UNCHANGED <<view, removed, pinVars, noteVars, panelVars>>

\* The SDK is about to report what the window now holds under k.
Report(k) ==
    /\ view' = [view EXCEPT ![k] = Window[k]]
    /\ UNCHANGED <<db, writes>>

-----------------------------------------------------------------------------
(* The observers. *)

\* filter: the entries of the list at these positions, in their order.  (SelectSeq
\* says the same; the proofs need the positions.)
Kept(list, positions) ==
    LET Position(n) == CHOOSE i \in positions : Cardinality({j \in positions : j <= i}) = n
    IN  [n \in 1..Cardinality(positions) |-> list[Position(n)]]

Without(list, id) == Kept(list, {i \in DOMAIN list : list[i].id # id})

Only(list, id) == Kept(list, {i \in DOMAIN list : list[i].id = id})

Listed(id) == \E i \in DOMAIN restaurants : restaurants[i].id = id

\* observe(.childAdded), well-formed child.
ChildAdded(k) ==
    /\ view[k] = Absent
    /\ Window[k] \in Titles
    /\ Report(k)
    /\ restaurants' = Append(restaurants, [id |-> k, title |-> Window[k]])
    /\ AddPin(k, Window[k])
    /\ ReloadData
    /\ chevronHidden' = FALSE
    /\ UNCHANGED <<removed, noteVars, mapVars>>

\* Mutant: the changed restaurant is added again without being removed first.
ChildChangedAppendOnly(k) ==
    /\ view[k] # Absent
    /\ Window[k] \in Titles \ {view[k]}
    /\ Report(k)
    /\ restaurants' = Append(restaurants, [id |-> k, title |-> Window[k]])
    /\ ReplacePin(k, Window[k])
    /\ NotifyFor(k, Window[k])
    /\ ReloadData
    /\ UNCHANGED <<removed, chevronHidden, mapVars>>

\* Mutant: the changed restaurant gets no new pin.
ChildChangedNoPin(k) ==
    /\ view[k] # Absent
    /\ Window[k] \in Titles \ {view[k]}
    /\ Report(k)
    /\ restaurants' = Append(Without(restaurants, k), [id |-> k, title |-> Window[k]])
    /\ NotifyFor(k, Window[k])
    /\ ReloadData
    /\ UNCHANGED <<removed, chevronHidden, mapVars, pinVars>>

\* observe(.childChanged), well-formed child.
ChildChanged(k) ==
    /\ view[k] # Absent
    /\ Window[k] \in Titles \ {view[k]}
    /\ Report(k)
    /\ restaurants' = Append(Without(restaurants, k), [id |-> k, title |-> Window[k]])
    /\ ReplacePin(k, Window[k])
    /\ NotifyFor(k, Window[k])
    /\ ReloadData
    /\ UNCHANGED <<removed, chevronHidden, mapVars>>

\* observe(.childAdded) and observe(.childChanged), malformed child: the guards
\* return early.
ChildMalformed(k) ==
    /\ Window[k] \in {Partial, NoId} \ {view[k]}
    /\ Report(k)
    /\ UNCHANGED <<removed, pinVars, noteVars, panelVars>>

\* observe(.childRemoved), restaurant found through the child's "id".  The filter
\* keeps the entries whose id equals the removed one.
ChildRemoved(k) ==
    /\ view[k] \notin {Absent, NoId}
    /\ Window[k] = Absent
    /\ Listed(k)
    /\ Report(k)
    /\ DropPin(k)
    /\ restaurants' = Only(restaurants, k)
    /\ ReloadData
    /\ chevronHidden' = IF restaurants' = <<>> THEN TRUE ELSE chevronHidden
    /\ removed' = TRUE
    /\ UNCHANGED <<noteVars, mapVars>>

\* observe(.childRemoved), no "id" or no restaurant with it in the list.
ChildRemovedUnlisted(k) ==
    /\ view[k] # Absent
    /\ Window[k] = Absent
    /\ view[k] = NoId \/ ~Listed(k)
    /\ Report(k)
    /\ UNCHANGED restaurants
    /\ ReloadData
    /\ chevronHidden' = IF restaurants = <<>> THEN TRUE ELSE chevronHidden
    /\ removed' = (removed \/ Listed(k))
    /\ UNCHANGED <<pinVars, noteVars, mapVars>>

Observe(k) ==
    \/ ChildAdded(k)
    \/ ChildChanged(k)
    \/ ChildMalformed(k)
    \/ ChildRemoved(k)
    \/ ChildRemovedUnlisted(k)

-----------------------------------------------------------------------------
(* The controller without the buttons, the scrolling and the camera ... *)

FeedNext ==
    \/ \E k \in Ids : Write(k) \/ Observe(k)
    \/ PinsStep /\ UNCHANGED <<feedVars, noteVars, panelVars>>
    \/ NotesStep /\ UNCHANGED <<feedVars, pinVars, panelVars>>

\* The SDK reports differences, due blocks run, the geocoder answers, triggers fire.
FeedFairness ==
    /\ \A k \in Ids : WF_vars(Observe(k))
    /\ WF_vars(Tick /\ UNCHANGED <<feedVars, noteVars, panelVars>>)
    /\ \A j \in 1..MaxRequests :
          /\ WF_vars(Geocode(j) /\ UNCHANGED <<feedVars, noteVars, panelVars>>)
          /\ WF_vars((Found(j) \/ NotFound(j)) /\ UNCHANGED <<feedVars, noteVars, panelVars>>)

FeedSpec == Init /\ [][FeedNext]_vars

FairFeedSpec == FeedSpec /\ FeedFairness

(* ... and with them. *)

Next == FeedNext \/ (PanelStep /\ UNCHANGED <<feedVars, pinVars, noteVars>>)

Spec == Init /\ [][Next]_vars

-----------------------------------------------------------------------------
(* Properties. *)

\* Until a listed restaurant is removed, the list holds every complete child
\* that was reported, once, with its latest deal, and nothing the query does
\* not hold, in whatever order additions, changes, malformed versions and
\* window shifts were reported.
ListingMatchesReports ==
    ~removed =>
        /\ \A k \in Ids : view[k] \in Titles =>
              [id |-> k, title |-> view[k]] \in ToSet(restaurants)
        /\ \A i \in DOMAIN restaurants : view[restaurants[i].id] # Absent
        /\ \A i, j \in DOMAIN restaurants : restaurants[i].id = restaurants[j].id => i = j

\* Until a listed restaurant is removed, the newest notification accepted for a
\* restaurant announces the deal that the list shows for it.
NotesMatchListing ==
    ~removed => \A id \in Ids : lastNote[id] # NoNote =>
        \E r \in ToSet(restaurants) : r.id = id /\ lastNote[id].body = Body(r.title)

\* j is the latest request made for its restaurant.
IsLatest(j) == \A k \in 1..Len(requests) : k > j => requests[k].id # requests[j].id

\* Until a listed restaurant is removed, the latest request of every listed
\* restaurant carries the listed deal, and once it succeeded its pin is on the
\* map and registered, unless events overtook one of its requests.
ListedDealIsPinned ==
    ~removed => \A r \in ToSet(restaurants) : \E j \in 1..Len(requests) :
        /\ requests[j].id = r.id
        /\ requests[j].title = r.title
        /\ IsLatest(j)
        /\ r.id \notin raced /\ requests[j].stage = "found" =>
              j \in pins /\ annotations[r.id] = j

\* What the list shows is what was announced and what is on the map, though the three
\* are updated by different callbacks.
ListedDealsAreOut == NotesMatchListing /\ ListedDealIsPinned

\* A deal that stays in the query reaches the map: in the end its pin is there,
\* or its address was not found, or its requests were overtaken.
DealReachesMap ==
    \A k \in Ids : \A t \in Titles :
        (db[k] = t /\ Window[k] = t) ~>
            \/ Window[k] # t
            \/ \E j \in 1..Len(requests) : /\ requests[j].id = k
                                           /\ requests[j].title = t
                                           /\ requests[j].stage = "failed" \/ j \in pins
            \/ k \in raced

\* After the last event every deal has had its pin or its failure, and the delays
\* are back to one interval.
FeedSettles == DealReachesMap /\ BacklogDrains

\* What the README says of the data, "synced on all clients": when everything has
\* been reported, no restaurant is listed that the query no longer holds.
RemovedRestaurantIsUnlisted ==
    view = Window => \A r \in ToSet(restaurants) : Window[r.id] # Absent

\* The same of the map: when everything has been reported and answered, the pins
\* of a restaurant in the query show the deal it has now.
PinsShowCurrentDeal ==
    view = Window /\ Outstanding = {} =>
        \A j \in pins : Window[requests[j].id] \in Titles =>
                           requests[j].title = Window[requests[j].id]
=============================================================================
