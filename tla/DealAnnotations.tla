---------------------------- MODULE DealAnnotations ----------------------------
(***************************************************************************)
(* The pins of the deal map: MainViewController.addAnnotationFor, the      *)
(* dictionary `annotations`, the annotations that MKMapView holds and the  *)
(* counter `geocoderCounter` that spaces out the geocoding requests.       *)
(*                                                                         *)
(* A call of addAnnotationFor starts a delayed block on the main queue;    *)
(* the block asks the one CLGeocoder of the controller for the             *)
(* coordinates of the address; the answer, which may be an error, runs the *)
(* completion handler.  Everything runs on the main queue, so each of      *)
(* these three pieces is one atomic step, but anything may happen between  *)
(* them: more calls, removals of the restaurant, other answers.            *)
(*                                                                         *)
(* A request is named by its position in `requests`.  Since a request      *)
(* creates at most one MKPointAnnotation, that number also names the       *)
(* annotation object.                                                      *)
(***************************************************************************)
EXTENDS Restaurants, Integers, Sequences, FiniteSets

CONSTANTS
    Interval,     \* the 500 milliseconds that geocoderCounter multiplies
    MaxRequests,  \* bound: calls of addAnnotationFor
    MaxTime       \* bound: the last instant of the clock

ASSUME DealAnnotationsAssumption ==
    /\ Interval \in Nat \ {0}
    /\ MaxRequests \in Nat
    /\ MaxTime \in Nat

VARIABLES
    now,              \* the clock that DispatchTime.now() reads
    geocoderCounter,  \* multiplies the delay of the next request
    requests,         \* every call of addAnnotationFor, in call order
    annotations,      \* the dictionary from id to the pin that stands for it
    pins,             \* the annotations on mapView
    answered,         \* history: how many requests the geocoder has answered
    raced             \* history: ids touched while one of their pins was under way

pinVars == <<now, geocoderCounter, requests, annotations, pins, answered, raced>>

NoAnnotation == 0

Request == [id : Ids, title : Titles, due : Nat, answeredBefore : Nat,
            stage : {"delayed", "sent", "found", "failed"}]

\* Types of the variables; the counters stay natural numbers.
PinsTypeOK ==
    /\ now \in Nat
    /\ geocoderCounter \in Nat
    /\ requests \in Seq(Request)
    /\ annotations \in [Ids -> 0..Len(requests)]
    /\ pins \subseteq 1..Len(requests)
    /\ answered \in Nat
    /\ raced \subseteq Ids

PinsInit ==
    /\ now = 0
    /\ geocoderCounter = 1
    /\ requests = <<>>
    /\ annotations = [i \in Ids |-> NoAnnotation]
    /\ pins = {}
    /\ answered = 0
    /\ raced = {}

-----------------------------------------------------------------------------
(* What the handlers of the database events call. *)

Outstanding == {j \in 1..Len(requests) : requests[j].stage \in {"delayed", "sent"}}

InProgress(id) == \E j \in Outstanding : requests[j].id = id

\* The bounds leave room for one more request, due before the clock stops.
RoomForRequest ==
    /\ Len(requests) < MaxRequests
    /\ now + Interval * geocoderCounter <= MaxTime

\* Mutant: the delay ignores the counter.
AddAnnotationForFlatDelay(id, title) ==
    /\ RoomForRequest
    /\ requests' = Append(requests, [id |-> id, title |-> title,
                                     due |-> now + Interval,
                                     answeredBefore |-> answered,
                                     stage |-> "delayed"])
    /\ geocoderCounter' = geocoderCounter + 1

\* addAnnotationFor(restaurant:): asyncAfter(now + 500 * geocoderCounter ms),
\* then geocoderCounter += 1.
AddAnnotationFor(id, title) ==
    /\ RoomForRequest
    /\ requests' = Append(requests, [id |-> id, title |-> title,
                                     due |-> now + Interval * geocoderCounter,
                                     answeredBefore |-> answered,
                                     stage |-> "delayed"])
    /\ geocoderCounter' = geocoderCounter + 1

\* Mutant: the pin leaves the map and stays in the dictionary.
RemoveAnnotationKeepEntry(id) ==
    /\ pins' = pins \ {annotations[id]}
    /\ UNCHANGED annotations

\* The three lines "if let annotation ... removeAnnotation; removeValue" that
\* the childChanged and childRemoved handlers share.
RemoveAnnotation(id) ==
    /\ pins' = pins \ {annotations[id]}
    /\ annotations' = [annotations EXCEPT ![id] = NoAnnotation]

\* Marks id when its pin is being replaced or dropped while a request for it is
\* still under way, or when a second pin is asked for beside a registered one.
MarkRaced(id, condition) == raced' = IF condition THEN raced \cup {id} ELSE raced

\* childAdded: no pin is removed first.
AddPin(id, title) ==
    /\ AddAnnotationFor(id, title)
    /\ MarkRaced(id, InProgress(id) \/ annotations[id] # NoAnnotation)
    /\ UNCHANGED <<now, annotations, pins, answered>>

\* Mutant: the pin of the previous deal stays on the map.
ReplacePinWithoutRemoval(id, title) ==
    /\ AddAnnotationFor(id, title)
    /\ MarkRaced(id, InProgress(id))
    /\ UNCHANGED <<now, annotations, pins, answered>>

\* childChanged: "remove", then "add again".
ReplacePin(id, title) ==
    /\ RemoveAnnotation(id)
    /\ AddAnnotationFor(id, title)
    /\ MarkRaced(id, InProgress(id))
    /\ UNCHANGED <<now, answered>>

\* childRemoved, for a restaurant found in the list.
DropPin(id) ==
    /\ RemoveAnnotation(id)
    /\ MarkRaced(id, InProgress(id))
    /\ UNCHANGED <<now, geocoderCounter, requests, answered>>

-----------------------------------------------------------------------------
(* The main queue and the geocoder. *)

\* The delayed block: geocoder.geocodeAddressString(...).  A block never runs
\* before its deadline and may run late.
Geocode(j) ==
    /\ j \in DOMAIN requests
    /\ requests[j].stage = "delayed"
    /\ now >= requests[j].due
    /\ requests' = [requests EXCEPT ![j].stage = "sent"]
    /\ UNCHANGED <<now, geocoderCounter, annotations, pins, answered, raced>>

\* The part of the completion handler that both outcomes share.
Answered(j, outcome) ==
    /\ j \in DOMAIN requests
    /\ requests[j].stage = "sent"
    /\ requests' = [requests EXCEPT ![j].stage = outcome]
    /\ geocoderCounter' = geocoderCounter - 1
    /\ answered' = answered + 1
    /\ UNCHANGED <<now, raced>>

\* The completion handler, with a coordinate: a new annotation goes on the map
\* and into the dictionary, over whatever entry is there.
Found(j) ==
    /\ Answered(j, "found")
    /\ pins' = pins \cup {j}
    /\ annotations' = [annotations EXCEPT ![requests[j].id] = j]

\* Mutant: the counter goes down only when an address was found.
NotFoundKeepCounter(j) ==
    /\ j \in DOMAIN requests
    /\ requests[j].stage = "sent"
    /\ requests' = [requests EXCEPT ![j].stage = "failed"]
    /\ answered' = answered + 1
    /\ UNCHANGED <<now, geocoderCounter, annotations, pins, raced>>

\* The completion handler, with an error or no placemark.
NotFound(j) ==
    /\ Answered(j, "failed")
    /\ UNCHANGED <<annotations, pins>>

\* Time matters only while a block waits for its deadline.
Tick ==
    /\ now < MaxTime
    /\ \E j \in Outstanding : requests[j].due > now
    /\ now' = now + 1
    /\ UNCHANGED <<geocoderCounter, requests, annotations, pins, answered, raced>>

\* What happens by itself, without an event from the database.
PinsStep ==
    \/ \E j \in 1..MaxRequests : Geocode(j) \/ Found(j) \/ NotFound(j)
    \/ Tick

-----------------------------------------------------------------------------
(* The component on its own: any handler may run at any time. *)

PinsNext ==
    \/ \E id \in Ids, title \in Titles : AddPin(id, title) \/ ReplacePin(id, title)
    \/ \E id \in Ids : DropPin(id)
    \/ PinsStep

\* The main queue runs its due blocks, the geocoder answers every request and
\* time goes on.  Nothing obliges the database to send events.
PinsFairness ==
    /\ WF_pinVars(Tick)
    /\ \A j \in 1..MaxRequests : WF_pinVars(Geocode(j))
    /\ \A j \in 1..MaxRequests : WF_pinVars(Found(j) \/ NotFound(j))

PinsSafety == PinsInit /\ [][PinsNext]_pinVars

PinsSpec == PinsSafety /\ PinsFairness

-----------------------------------------------------------------------------
(* Properties. *)

\* geocoderCounter is one more than the number of requests whose answer is
\* missing, whatever the order of calls, sends, answers and failures: the delay
\* of a request is never zero or negative and falls back to one interval.
CounterCountsOutstanding == geocoderCounter = 1 + Cardinality(Outstanding)

\* The dictionary never names a pin that is not on the map or that belongs to
\* another restaurant, so the handlers' "remove" always removes the right pin.
RegisteredPinsAreOnMap ==
    \A id \in Ids : annotations[id] # NoAnnotation =>
        /\ annotations[id] \in pins
        /\ requests[annotations[id]].id = id

\* As long as no event touched a restaurant while one of its requests was under
\* way, a pin of that restaurant on the map is the registered one and comes from
\* the restaurant's latest request: nothing is orphaned or outdated.
UnracedPinIsLatest ==
    \A j \in pins : requests[j].id \notin raced =>
        /\ annotations[requests[j].id] = j
        /\ \A k \in 1..Len(requests) : k > j => requests[k].id # requests[j].id

\* The deadlines are spaced by one interval per call, less one interval per
\* answer that came between the two calls.
DeadlinesAreSpaced ==
    \A j, k \in 1..Len(requests) : j < k =>
        requests[k].due >= requests[j].due + Interval *
            ((k - j) - (requests[k].answeredBefore - requests[j].answeredBefore))

\* The delays of addAnnotationFor do their work: none is zero or negative, and no two
\* requests come closer than an interval but for the answers between them.
RequestsAreSpaced == CounterCountsOutstanding /\ DeadlinesAreSpaced

\* Every request is answered in the end, so the backlog drains.
BacklogDrains == []<>(geocoderCounter = 1)
=============================================================================
