------------------------ MODULE MainViewControllerProofs ------------------------
(***************************************************************************)
(* The pins and the notifications for every set of restaurants and deals,  *)
(* every interval and every bound.  What is proved of the parts holds of   *)
(* the controller that composes them: each of its steps is, for the pins   *)
(* and for the notifications, one of their own steps or none at all.  And  *)
(* what holds of the parts together: the list, the notifications and the   *)
(* pins agree.                                                             *)
(***************************************************************************)
EXTENDS MCMealDeals, CarouselProofs, FiniteSetTheorems

-----------------------------------------------------------------------------
(* The two ways in which requests changes. *)

\* addAnnotationFor appends a delayed request and touches no earlier one.
LEMMA RequestAppended ==
    ASSUME requests \in Seq(Request),
           NEW id \in Ids, NEW title \in Titles, NEW due \in Nat, NEW before \in Nat,
           requests' = Append(requests, [id |-> id, title |-> title, due |-> due,
                                         answeredBefore |-> before, stage |-> "delayed"])
    PROVE  /\ requests' \in Seq(Request)
           /\ Len(requests') = Len(requests) + 1
           /\ \A k \in 1..Len(requests) : requests'[k] = requests[k]
           /\ requests'[Len(requests) + 1] =
                 [id |-> id, title |-> title, due |-> due,
                  answeredBefore |-> before, stage |-> "delayed"]
BY DEF Request

\* The main queue and the geocoder change the stage of one request, nothing else.
LEMMA StageChanged ==
    ASSUME requests \in Seq(Request),
           NEW j \in DOMAIN requests,
           NEW stage \in {"delayed", "sent", "found", "failed"},
           requests' = [requests EXCEPT ![j].stage = stage]
    PROVE  /\ requests' \in Seq(Request)
           /\ Len(requests') = Len(requests)
           /\ j \in 1..Len(requests)
           /\ requests'[j].stage = stage
           /\ \A k \in 1..Len(requests) :
                 /\ requests'[k].id = requests[k].id
                 /\ requests'[k].title = requests[k].title
                 /\ requests'[k].due = requests[k].due
                 /\ requests'[k].answeredBefore = requests[k].answeredBefore
                 /\ k # j => requests'[k].stage = requests[k].stage
<1>1. j \in 1..Len(requests) /\ requests[j] \in Request
  OBVIOUS
<1>2. [requests[j] EXCEPT !.stage = stage] \in Request
  BY <1>1 DEF Request
<1>3. /\ requests' \in Seq(Request)
      /\ Len(requests') = Len(requests)
      /\ requests'[j] = [requests[j] EXCEPT !.stage = stage]
      /\ \A k \in 1..Len(requests) : k # j => requests'[k] = requests[k]
  BY <1>1, <1>2
<1>4. requests[j].stage \in {"delayed", "sent", "found", "failed"}
  BY <1>1 DEF Request
<1> QED
  BY <1>1, <1>3 DEF Request

\* An index of the longer sequence is one of the shorter sequence or the last.
LEMMA EarlierOrLast ==
    ASSUME NEW n \in Nat, NEW k \in 1..(n + 1)
    PROVE  k \in 1..n \/ k = n + 1
OBVIOUS

-----------------------------------------------------------------------------
(* Types and the counter, which need each other: a deadline is a natural     *)
(* number because the counter that multiplies the delay is never negative.   *)

CountInv == PinsTypeOK /\ CounterCountsOutstanding

\* The requests without an answer are finitely many.
LEMMA OutstandingFinite ==
    ASSUME requests \in Seq(Request)
    PROVE  IsFiniteSet(Outstanding) /\ Cardinality(Outstanding) \in Nat
<1>1. Len(requests) \in Nat
  OBVIOUS
<1>2. IsFiniteSet(1..Len(requests))
  BY <1>1, FS_Interval
<1> QED
  BY <1>2, FS_Subset, FS_CardinalityType DEF Outstanding

\* A call of addAnnotationFor within the bounds keeps the requests well typed,
\* makes one more request outstanding and counts it.
LEMMA CountAdd ==
    ASSUME CountInv, NEW id \in Ids, NEW title \in Titles, AddAnnotationFor(id, title),
           now' = now, answered' = answered, raced' \subseteq Ids,
           annotations' \in [Ids -> 0..Len(requests)], pins' \subseteq pins
    PROVE  CountInv'
<1> USE DealAnnotationsAssumption
<1> DEFINE new == Len(requests) + 1
<1>1. /\ requests \in Seq(Request) /\ Len(requests) \in Nat
      /\ now \in Nat /\ geocoderCounter \in Nat /\ answered \in Nat
      /\ pins \subseteq 1..Len(requests)
  BY DEF CountInv, PinsTypeOK
<1>2. now + Interval * geocoderCounter \in Nat
  BY <1>1
<1>3. /\ requests' \in Seq(Request)
      /\ Len(requests') = new
      /\ \A k \in 1..Len(requests) : requests'[k] = requests[k]
      /\ requests'[new].stage = "delayed"
  BY <1>1, <1>2, RequestAppended DEF AddAnnotationFor
<1>4. geocoderCounter' = geocoderCounter + 1
  BY DEF AddAnnotationFor
<1>5. Outstanding' = Outstanding \cup {new}
  BY <1>1, <1>3 DEF Outstanding
<1>6. new \notin Outstanding
  BY <1>1 DEF Outstanding
<1>7. Cardinality(Outstanding') = Cardinality(Outstanding) + 1
  BY <1>1, <1>5, <1>6, OutstandingFinite, FS_AddElement
<1>8. CounterCountsOutstanding'
  BY <1>1, <1>4, <1>7, OutstandingFinite DEF CountInv, CounterCountsOutstanding
<1>9. annotations' \in [Ids -> 0..Len(requests')] /\ pins' \subseteq 1..Len(requests')
  BY <1>1, <1>3
<1>10. PinsTypeOK'
  BY <1>1, <1>3, <1>4, <1>9 DEF PinsTypeOK
<1> QED
  BY <1>8, <1>10 DEF CountInv

\* An answer, found or failed, makes one request less outstanding and counts it.
LEMMA CountAnswered ==
    ASSUME CountInv, NEW j, NEW outcome \in {"found", "failed"}, Answered(j, outcome),
           annotations' \in [Ids -> 0..Len(requests)], pins' \subseteq 1..Len(requests)
    PROVE  CountInv'
<1>1. /\ requests \in Seq(Request) /\ now \in Nat /\ geocoderCounter \in Nat
      /\ answered \in Nat /\ raced \subseteq Ids /\ j \in DOMAIN requests
      /\ requests[j].stage = "sent"
  BY DEF CountInv, PinsTypeOK, Answered
<1>2. /\ requests' = [requests EXCEPT ![j].stage = outcome]
      /\ geocoderCounter' = geocoderCounter - 1
      /\ answered' = answered + 1
      /\ now' = now /\ raced' = raced
  BY DEF Answered
<1>3. /\ requests' \in Seq(Request)
      /\ Len(requests') = Len(requests)
      /\ j \in 1..Len(requests)
      /\ requests'[j].stage = outcome
      /\ \A k \in 1..Len(requests) : k # j => requests'[k].stage = requests[k].stage
  BY <1>1, <1>2, StageChanged
<1>4. Outstanding' = Outstanding \ {j}
  BY <1>3 DEF Outstanding
<1>5. j \in Outstanding
  BY <1>1, <1>3 DEF Outstanding
<1>6. Cardinality(Outstanding') = Cardinality(Outstanding) - 1
  BY <1>1, <1>4, <1>5, OutstandingFinite, FS_RemoveElement
<1>7. Cardinality(Outstanding') \in Nat
  BY <1>1, <1>4, OutstandingFinite, FS_RemoveElement, FS_CardinalityType
<1>8. CounterCountsOutstanding' /\ geocoderCounter' \in Nat
  BY <1>1, <1>2, <1>6, <1>7, OutstandingFinite DEF CountInv, CounterCountsOutstanding
<1>9. PinsTypeOK'
  BY <1>1, <1>2, <1>3, <1>8 DEF PinsTypeOK
<1> QED
  BY <1>8, <1>9 DEF CountInv

\* No step of the pins disturbs the types or the counter.
LEMMA CountStep == CountInv /\ [PinsNext]_pinVars => CountInv'
<1> SUFFICES ASSUME CountInv, [PinsNext]_pinVars PROVE CountInv'
  OBVIOUS
<1>t. PinsTypeOK
  BY DEF CountInv
<1>1. ASSUME NEW id \in Ids, NEW title \in Titles, AddPin(id, title)
      PROVE  CountInv'
  BY <1>1, <1>t, CountAdd DEF AddPin, MarkRaced, PinsTypeOK
<1>2. ASSUME NEW id \in Ids, NEW title \in Titles, ReplacePin(id, title)
      PROVE  CountInv'
  <2>1. annotations' \in [Ids -> 0..Len(requests)] /\ pins' \subseteq pins
    BY <1>2, <1>t DEF ReplacePin, RemoveAnnotation, PinsTypeOK, NoAnnotation
  <2> QED
    BY <1>2, <1>t, <2>1, CountAdd DEF ReplacePin, MarkRaced, PinsTypeOK
<1>3. ASSUME NEW id \in Ids, DropPin(id)
      PROVE  CountInv'
  <2>1. annotations' \in [Ids -> 0..Len(requests)] /\ pins' \subseteq pins
    BY <1>3, <1>t DEF DropPin, RemoveAnnotation, PinsTypeOK, NoAnnotation
  <2>2. PinsTypeOK'
    BY <1>3, <1>t, <2>1 DEF DropPin, MarkRaced, PinsTypeOK
  <2>3. CounterCountsOutstanding'
    BY <1>3 DEF DropPin, CountInv, CounterCountsOutstanding, Outstanding
  <2> QED
    BY <2>2, <2>3 DEF CountInv
<1>4. ASSUME NEW j, Geocode(j)
      PROVE  CountInv'
  <2>1. /\ requests' \in Seq(Request)
        /\ Len(requests') = Len(requests)
        /\ j \in 1..Len(requests)
        /\ requests'[j].stage = "sent"
        /\ \A k \in 1..Len(requests) : k # j => requests'[k].stage = requests[k].stage
    BY <1>4, <1>t, StageChanged DEF Geocode, PinsTypeOK
  <2>2. Outstanding' = Outstanding
    BY <1>4, <2>1 DEF Outstanding, Geocode
  <2>3. annotations' \in [Ids -> 0..Len(requests)] /\ UNCHANGED <<now, geocoderCounter, pins, answered, raced>>
    BY <1>4, <1>t DEF Geocode, PinsTypeOK
  <2>4. PinsTypeOK'
    BY <1>t, <2>1, <2>3 DEF PinsTypeOK
  <2>5. CounterCountsOutstanding'
    BY <1>t, <2>2, <2>3 DEF CountInv, CounterCountsOutstanding
  <2> QED
    BY <2>4, <2>5 DEF CountInv
<1>5. ASSUME NEW j, Found(j)
      PROVE  CountInv'
  <2>0. requests \in Seq(Request) /\ j \in DOMAIN requests
    BY <1>5, <1>t DEF Found, Answered, PinsTypeOK
  <2>1. j \in 1..Len(requests) /\ requests[j] \in Request
    BY <2>0
  <2>r. requests[j].id \in Ids /\ j \in 0..Len(requests)
    BY <2>1 DEF Request
  <2>2. annotations' \in [Ids -> 0..Len(requests)] /\ pins' \subseteq 1..Len(requests)
    BY <1>5, <1>t, <2>1, <2>r DEF Found, PinsTypeOK
  <2> QED
    BY <1>5, <2>2, CountAnswered DEF Found
<1>6. ASSUME NEW j, NotFound(j)
      PROVE  CountInv'
  BY <1>6, <1>t, CountAnswered DEF NotFound, PinsTypeOK
<1>7. CASE Tick
  BY <1>7, <1>t DEF Tick, CountInv, PinsTypeOK, CounterCountsOutstanding, Outstanding
<1>8. CASE UNCHANGED pinVars
  BY <1>8, <1>t DEF pinVars, CountInv, PinsTypeOK, CounterCountsOutstanding, Outstanding
<1> QED
  BY <1>1, <1>2, <1>3, <1>4, <1>5, <1>6, <1>7, <1>8 DEF PinsNext, PinsStep

\* At the start there is nothing to count.
LEMMA CountStart == PinsInit => CountInv
<1> SUFFICES ASSUME PinsInit PROVE CountInv
  OBVIOUS
<1>1. PinsTypeOK
  BY DEF PinsInit, PinsTypeOK, NoAnnotation
<1>2. Outstanding = {}
  BY DEF PinsInit, Outstanding
<1> QED
  BY <1>1, <1>2, FS_EmptySet DEF PinsInit, CountInv, CounterCountsOutstanding

\* The variables of the pin component keep their types in every behaviour.
THEOREM PinsTypeCorrect == PinsSafety => []PinsTypeOK
<1>1. CountInv => PinsTypeOK
  BY DEF CountInv
<1> QED
  BY <1>1, CountStart, CountStep, PTL DEF PinsSafety

\* geocoderCounter is one more than the number of unanswered requests in every
\* behaviour of addAnnotationFor and its callbacks.
THEOREM CounterCorrect == PinsSafety => []CounterCountsOutstanding
<1>1. CountInv => CounterCountsOutstanding
  BY DEF CountInv
<1> QED
  BY <1>1, CountStart, CountStep, PTL DEF PinsSafety

-----------------------------------------------------------------------------
(* The pins.  A pin comes from a request that was found.  For a restaurant   *)
(* that no event touched while a request of it was under way, the pin is the *)
(* registered one, and a request under way is the latest one with no pin     *)
(* registered: that is what makes the answer put up the only pin.            *)

Latest(j) == \A k \in 1..Len(requests) : k > j => requests[k].id # requests[j].id

PinsAreFound == \A j \in pins : requests[j].stage = "found"

UnracedRequestIsLatest ==
    \A j \in Outstanding : requests[j].id \notin raced =>
        annotations[requests[j].id] = NoAnnotation /\ Latest(j)

PinsInv ==
    PinsTypeOK /\ PinsAreFound /\ RegisteredPinsAreOnMap /\ UnracedPinIsLatest
               /\ UnracedRequestIsLatest

\* Facts about requests that the type invariant gives.
LEMMA RequestTypes ==
    ASSUME PinsTypeOK
    PROVE  /\ requests \in Seq(Request)
           /\ Len(requests) \in Nat
           /\ \A j \in 1..Len(requests) : requests[j].id \in Ids
           /\ \A j \in pins : j \in 1..Len(requests)
           /\ \A id \in Ids : annotations[id] \in 0..Len(requests)
<1>1. requests \in Seq(Request) /\ Len(requests) \in Nat
  BY DEF PinsTypeOK
<1>2. \A j \in 1..Len(requests) : requests[j] \in Request
  BY <1>1
<1>3. \A j \in 1..Len(requests) : requests[j].id \in Ids
  BY <1>2 DEF Request
<1> QED
  BY <1>1, <1>3 DEF PinsTypeOK

\* Taking down the registered pin of one restaurant leaves the others' pins
\* registered, and without a race no pin of that restaurant remains.
LEMMA PinRemoved ==
    ASSUME PinsInv, NEW id \in Ids, RemoveAnnotation(id)
    PROVE  /\ annotations'[id] = NoAnnotation
           /\ \A other \in Ids \ {id} : annotations'[other] = annotations[other]
           /\ pins' \subseteq pins
           /\ \A other \in Ids \ {id} : annotations[other] # NoAnnotation => annotations[other] \in pins'
           /\ id \notin raced => \A j \in pins' : requests[j].id # id
<1> USE DEF PinsInv, NoAnnotation
<1>1. /\ pins' = pins \ {annotations[id]}
      /\ annotations' = [annotations EXCEPT ![id] = 0]
      /\ annotations \in [Ids -> 0..Len(requests)]
  BY DEF RemoveAnnotation, PinsTypeOK
<1>2. /\ annotations'[id] = 0
      /\ \A other \in Ids \ {id} : annotations'[other] = annotations[other]
      /\ pins' \subseteq pins
  BY <1>1
<1>3. ASSUME NEW other \in Ids \ {id}, annotations[other] # 0
      PROVE  annotations[other] \in pins'
  <2>1. annotations[other] \in pins /\ requests[annotations[other]].id = other
    BY <1>3 DEF RegisteredPinsAreOnMap
  <2>2. CASE annotations[id] = 0
    BY <1>1, <1>3, <2>1, <2>2
  <2>3. CASE annotations[id] # 0
    <3>1. requests[annotations[id]].id = id
      BY <2>3 DEF RegisteredPinsAreOnMap
    <3> QED
      BY <1>1, <2>1, <3>1
  <2> QED
    BY <2>2, <2>3
<1>4. ASSUME id \notin raced, NEW j \in pins'
      PROVE  requests[j].id # id
  <2>1. j \in pins /\ j # annotations[id]
    BY <1>1, <1>4
  <2> QED
    BY <1>4, <2>1 DEF UnracedPinIsLatest
<1> QED
  BY <1>2, <1>3, <1>4

\* A new request keeps the invariant if its restaurant is marked as raced or has
\* neither a pin nor a request under way, and no other restaurant loses a pin.
LEMMA PinsInvAdd ==
    ASSUME PinsInv, PinsTypeOK', NEW id \in Ids, NEW title \in Titles,
           Len(requests') = Len(requests) + 1,
           \A k \in 1..Len(requests) : requests'[k] = requests[k],
           requests'[Len(requests) + 1].id = id,
           requests'[Len(requests) + 1].stage = "delayed",
           pins' \subseteq pins,
           \A other \in Ids \ {id} : annotations'[other] = annotations[other],
           \A other \in Ids : annotations'[other] # NoAnnotation =>
               annotations'[other] = annotations[other] /\ annotations[other] \in pins',
           raced' = raced \/ raced' = raced \cup {id},
           id \notin raced' => /\ annotations'[id] = NoAnnotation
                               /\ ~InProgress(id)
                               /\ \A j \in pins' : requests[j].id # id
    PROVE  PinsInv'
<1> USE DEF PinsInv, NoAnnotation
<1> DEFINE new == Len(requests) + 1
<1>1. PinsTypeOK
  OBVIOUS
<1>2. /\ Len(requests) \in Nat
      /\ \A j \in 1..Len(requests) : requests[j].id \in Ids
      /\ \A j \in pins : j \in 1..Len(requests)
      /\ \A other \in Ids : annotations[other] \in 0..Len(requests)
  BY <1>1, RequestTypes
<1>3. Outstanding' = Outstanding \cup {new}
  BY <1>2 DEF Outstanding
<1>4. \A j \in pins' : j \in 1..Len(requests) /\ requests'[j] = requests[j]
  BY <1>2
<1>5. PinsAreFound'
  BY <1>4 DEF PinsAreFound
<1>6. RegisteredPinsAreOnMap'
  <2> SUFFICES ASSUME NEW other \in Ids, annotations'[other] # 0
               PROVE  annotations'[other] \in pins' /\ requests'[annotations'[other]].id = other
    BY DEF RegisteredPinsAreOnMap
  <2>1. annotations'[other] = annotations[other] /\ annotations[other] \in pins'
    OBVIOUS
  <2>2. requests[annotations[other]].id = other
    BY <2>1 DEF RegisteredPinsAreOnMap
  <2> QED
    BY <1>4, <2>1, <2>2
<1>7. ASSUME NEW j \in 1..Len(requests), requests[j].id \notin raced', Latest(j),
             requests[j].id # id
      PROVE  Latest(j)'
  <2> SUFFICES ASSUME NEW k \in 1..new, k > j
               PROVE  requests'[k].id # requests'[j].id
    BY DEF Latest
  <2>1. requests'[j].id = requests[j].id
    BY <1>7
  <2>2. CASE k = new
    BY <1>7, <2>1, <2>2
  <2>3. CASE k \in 1..Len(requests)
    <3>1. requests'[k].id = requests[k].id
      BY <2>3
    <3>2. requests[k].id # requests[j].id
      BY <1>7, <2>3 DEF Latest
    <3> QED
      BY <2>1, <3>1, <3>2
  <2>4. Len(requests) \in Nat
    BY <1>2
  <2>5. k \in 1..Len(requests) \/ k = new
    BY <2>4, EarlierOrLast
  <2> QED
    BY <2>2, <2>3, <2>5
<1>8. UnracedPinIsLatest'
  <2> SUFFICES ASSUME NEW j \in pins', requests'[j].id \notin raced'
               PROVE  annotations'[requests'[j].id] = j /\ Latest(j)'
    BY DEF UnracedPinIsLatest, Latest
  <2>1. /\ j \in 1..Len(requests) /\ requests'[j] = requests[j]
        /\ requests[j].id \in Ids /\ requests[j].id \notin raced
    BY <1>2, <1>4
  <2>2. requests[j].id # id
    BY <2>1
  <2>3. annotations[requests[j].id] = j /\ Latest(j)
    BY <2>1 DEF UnracedPinIsLatest, Latest
  <2> QED
    BY <1>7, <2>1, <2>2, <2>3
<1>9. UnracedRequestIsLatest'
  <2> SUFFICES ASSUME NEW j \in Outstanding', requests'[j].id \notin raced'
               PROVE  annotations'[requests'[j].id] = 0 /\ Latest(j)'
    BY DEF UnracedRequestIsLatest
  <2>1. CASE j = new
    BY <1>2, <2>1 DEF Latest
  <2>2. CASE j \in Outstanding
    <3>1. /\ j \in 1..Len(requests) /\ requests'[j] = requests[j]
          /\ requests[j].id \in Ids /\ requests[j].id \notin raced
      BY <1>2, <2>2 DEF Outstanding
    <3>2. requests[j].id # id
      BY <2>2, <3>1 DEF InProgress
    <3>3. annotations[requests[j].id] = 0 /\ Latest(j)
      BY <2>2, <3>1 DEF UnracedRequestIsLatest
    <3> QED
      BY <1>7, <3>1, <3>2, <3>3
  <2> QED
    BY <1>3, <2>1, <2>2
<1> QED
  BY <1>5, <1>6, <1>8, <1>9

\* An event that adds, replaces or drops a pin keeps the invariant.
LEMMA PinsInvEvent ==
    ASSUME PinsInv, PinsTypeOK', NEW id \in Ids,
           \/ \E title \in Titles : AddPin(id, title) \/ ReplacePin(id, title)
           \/ DropPin(id)
    PROVE  PinsInv'
<1> USE DEF PinsInv
<1>t. PinsTypeOK
  OBVIOUS
<1>a. ASSUME NEW title \in Titles, AddAnnotationFor(id, title)
      PROVE  /\ Len(requests') = Len(requests) + 1
             /\ \A k \in 1..Len(requests) : requests'[k] = requests[k]
             /\ requests'[Len(requests) + 1].id = id
             /\ requests'[Len(requests) + 1].stage = "delayed"
  BY <1>a, <1>t DEF AddAnnotationFor, PinsTypeOK
<1>r. ASSUME NEW c \in BOOLEAN, MarkRaced(id, c)
      PROVE  /\ raced' = raced \/ raced' = raced \cup {id}
             /\ id \notin raced' => ~c /\ id \notin raced
  BY <1>r DEF MarkRaced
<1>p. InProgress(id) \in BOOLEAN
  BY DEF InProgress
<1>1. ASSUME NEW title \in Titles, AddPin(id, title)
      PROVE  PinsInv'
  <2>1. /\ AddAnnotationFor(id, title)
        /\ annotations' = annotations /\ pins' = pins
    BY <1>1 DEF AddPin
  <2>2. /\ raced' = raced \/ raced' = raced \cup {id}
        /\ id \notin raced' => /\ ~InProgress(id)
                               /\ annotations[id] = NoAnnotation /\ id \notin raced
    BY <1>1 DEF AddPin, MarkRaced
  <2>3. id \notin raced' => \A j \in pins : requests[j].id # id
    <3> SUFFICES ASSUME id \notin raced', NEW j \in pins, requests[j].id = id
                 PROVE  FALSE
      OBVIOUS
    <3>1. annotations[id] = j
      BY <2>2 DEF UnracedPinIsLatest
    <3>2. j \in 1..Len(requests) /\ Len(requests) \in Nat
      BY <1>t, RequestTypes
    <3> QED
      BY <2>2, <3>1, <3>2 DEF NoAnnotation
  <2>4. \A other \in Ids : annotations[other] # NoAnnotation => annotations[other] \in pins
    BY DEF RegisteredPinsAreOnMap
  <2> QED
    BY <1>a, <2>1, <2>2, <2>3, <2>4, PinsInvAdd
<1>2. ASSUME NEW title \in Titles, ReplacePin(id, title)
      PROVE  PinsInv'
  <2>1. AddAnnotationFor(id, title) /\ RemoveAnnotation(id)
    BY <1>2 DEF ReplacePin
  <2>2. /\ raced' = raced \/ raced' = raced \cup {id}
        /\ id \notin raced' => ~InProgress(id) /\ id \notin raced
    BY <1>2, <1>p, <1>r DEF ReplacePin
  <2> HIDE DEF PinsInv
  <2>3. PinsInv
    OBVIOUS
  <2>4. /\ annotations'[id] = NoAnnotation
        /\ \A other \in Ids \ {id} : annotations'[other] = annotations[other]
        /\ pins' \subseteq pins
        /\ \A other \in Ids \ {id} : annotations[other] # NoAnnotation => annotations[other] \in pins'
        /\ id \notin raced => \A j \in pins' : requests[j].id # id
    BY <2>1, <2>3, PinRemoved
  <2>5. \A other \in Ids : annotations'[other] # NoAnnotation =>
            annotations'[other] = annotations[other] /\ annotations[other] \in pins'
    BY <2>4
  <2> QED
    BY <1>a, <2>1, <2>2, <2>3, <2>4, <2>5, PinsInvAdd
<1>3. ASSUME DropPin(id)
      PROVE  PinsInv'
  <2>1. RemoveAnnotation(id) /\ requests' = requests
    BY <1>3 DEF DropPin
  <2>2. /\ raced' = raced \/ raced' = raced \cup {id}
        /\ id \notin raced' => ~InProgress(id) /\ id \notin raced
    BY <1>3, <1>p, <1>r DEF DropPin
  <2>3. /\ annotations'[id] = NoAnnotation
        /\ \A other \in Ids \ {id} : annotations'[other] = annotations[other]
        /\ pins' \subseteq pins
        /\ \A other \in Ids \ {id} : annotations[other] # NoAnnotation => annotations[other] \in pins'
        /\ id \notin raced => \A j \in pins' : requests[j].id # id
    BY <2>1, PinRemoved
  <2>4. Outstanding' = Outstanding
    BY <2>1 DEF Outstanding
  <2>5. PinsAreFound'
    BY <2>1, <2>3 DEF PinsAreFound
  <2>6. RegisteredPinsAreOnMap'
    BY <2>1, <2>3 DEF RegisteredPinsAreOnMap
  <2>7. ASSUME NEW j \in pins', requests[j].id \notin raced'
        PROVE  annotations'[requests[j].id] = j /\ Latest(j)
    <3>1. j \in pins /\ j \in 1..Len(requests) /\ requests[j].id \in Ids
      BY <2>3, <1>t, RequestTypes
    <3>2. requests[j].id # id /\ requests[j].id \notin raced
      BY <2>2, <2>3, <2>7
    <3> QED
      BY <2>3, <3>1, <3>2 DEF UnracedPinIsLatest, Latest
  <2>8. UnracedPinIsLatest'
    BY <2>1, <2>7 DEF UnracedPinIsLatest, Latest
  <2>9. ASSUME NEW j \in Outstanding, requests[j].id \notin raced'
        PROVE  annotations'[requests[j].id] = NoAnnotation /\ Latest(j)
    <3>1. requests[j].id \in Ids
      BY <1>t, RequestTypes DEF Outstanding
    <3>2. requests[j].id \notin raced
      BY <2>2, <2>9
    <3> QED
      BY <2>3, <3>1, <3>2 DEF UnracedRequestIsLatest
  <2>10. UnracedRequestIsLatest'
    BY <2>1, <2>4, <2>9 DEF UnracedRequestIsLatest, Latest
  <2> QED
    BY <2>5, <2>6, <2>8, <2>10
<1> QED
  BY <1>1, <1>2, <1>3

\* Running a due block and the geocoder's answers keep the invariant.
LEMMA PinsInvAnswer ==
    ASSUME PinsInv, PinsTypeOK', NEW j, Geocode(j) \/ Found(j) \/ NotFound(j)
    PROVE  PinsInv'
<1> USE DEF PinsInv, NoAnnotation
<1>t. PinsTypeOK
  OBVIOUS
<1>1. /\ requests \in Seq(Request) /\ Len(requests) \in Nat
      /\ \A k \in 1..Len(requests) : requests[k].id \in Ids
      /\ \A k \in pins : k \in 1..Len(requests)
      /\ \A id \in Ids : annotations[id] \in 0..Len(requests)
  BY <1>t, RequestTypes
<1>2. /\ j \in DOMAIN requests
      /\ requests[j].stage \in {"delayed", "sent"}
      /\ raced' = raced
  BY DEF Geocode, Found, NotFound, Answered
<1>3. PICK stage \in {"sent", "found", "failed"} :
          /\ requests' = [requests EXCEPT ![j].stage = stage]
          /\ \/ stage # "found" /\ annotations' = annotations /\ pins' = pins
             \/ /\ stage = "found" /\ pins' = pins \cup {j}
                /\ annotations' = [annotations EXCEPT ![requests[j].id] = j]
  BY DEF Geocode, Found, NotFound, Answered
<1>4. /\ Len(requests') = Len(requests)
      /\ j \in 1..Len(requests)
      /\ requests'[j].stage = stage
      /\ \A k \in 1..Len(requests) : /\ requests'[k].id = requests[k].id
                                     /\ k # j => requests'[k].stage = requests[k].stage
  BY <1>1, <1>2, <1>3, StageChanged
<1>5. j \in Outstanding /\ j \notin pins
  BY <1>2, <1>4 DEF Outstanding, PinsAreFound
<1>6. Outstanding' \subseteq Outstanding /\ (stage # "sent" => j \notin Outstanding')
  BY <1>2, <1>4 DEF Outstanding
<1>7. \A k \in 1..Len(requests) : Latest(k)' <=> Latest(k)
  BY <1>1, <1>4 DEF Latest
<1>8. CASE stage # "found"
  <2>1. annotations' = annotations /\ pins' = pins
    BY <1>3, <1>8
  <2>2. PinsAreFound'
    BY <1>1, <1>4, <1>5, <2>1 DEF PinsAreFound
  <2>3. RegisteredPinsAreOnMap'
    BY <1>1, <1>4, <2>1 DEF RegisteredPinsAreOnMap
  <2>4. UnracedPinIsLatest'
    BY <1>1, <1>2, <1>4, <1>7, <2>1 DEF UnracedPinIsLatest, Latest
  <2>5. UnracedRequestIsLatest'
    BY <1>2, <1>4, <1>6, <1>7, <2>1 DEF UnracedRequestIsLatest, Outstanding
  <2> QED
    BY <2>2, <2>3, <2>4, <2>5
<1>9. CASE stage = "found"
  <2> DEFINE id == requests[j].id
  <2>1. /\ pins' = pins \cup {j}
        /\ annotations \in [Ids -> 0..Len(requests)]
        /\ annotations' = [annotations EXCEPT ![id] = j]
    BY <1>3, <1>9 DEF PinsTypeOK
  <2>2. /\ id \in Ids
        /\ annotations'[id] = j
        /\ \A other \in Ids \ {id} : annotations'[other] = annotations[other]
    BY <1>1, <1>4, <2>1
  <2>3. PinsAreFound'
    BY <1>1, <1>4, <1>5, <1>9, <2>1 DEF PinsAreFound
  <2>4. RegisteredPinsAreOnMap'
    BY <1>1, <1>4, <2>1, <2>2 DEF RegisteredPinsAreOnMap
  <2>5. ASSUME NEW k \in pins', requests'[k].id \notin raced'
        PROVE  annotations'[requests'[k].id] = k /\ Latest(k)
    <3>1. k \in 1..Len(requests) /\ requests'[k].id = requests[k].id /\ requests[k].id \in Ids
      BY <1>1, <1>4, <2>1
    <3>2. CASE k = j
      BY <1>2, <1>5, <2>2, <2>5, <3>1, <3>2 DEF UnracedRequestIsLatest
    <3>3. CASE k # j
      <4>1. k \in pins /\ annotations[requests[k].id] = k /\ Latest(k)
        BY <1>2, <2>1, <2>5, <3>1, <3>3 DEF UnracedPinIsLatest, Latest
      <4>2. requests[k].id # id
        BY <1>1, <1>2, <1>5, <2>5, <3>1, <4>1 DEF UnracedRequestIsLatest
      <4> QED
        BY <2>2, <3>1, <4>1, <4>2
    <3> QED
      BY <3>2, <3>3
  <2>6. UnracedPinIsLatest'
    BY <1>1, <1>4, <1>7, <2>1, <2>5 DEF UnracedPinIsLatest, Latest
  <2>7. ASSUME NEW k \in Outstanding', requests'[k].id \notin raced'
        PROVE  annotations'[requests'[k].id] = 0 /\ Latest(k)
    <3>1. /\ k \in Outstanding /\ k # j /\ k \in 1..Len(requests)
          /\ requests'[k].id = requests[k].id /\ requests[k].id \in Ids
      BY <1>1, <1>4, <1>6, <1>9 DEF Outstanding
    <3>2. annotations[requests[k].id] = 0 /\ Latest(k)
      BY <1>2, <2>7, <3>1 DEF UnracedRequestIsLatest
    <3>3. requests[k].id # id
      <4> SUFFICES ASSUME requests[k].id = id PROVE FALSE
        OBVIOUS
      <4>1. Latest(j)
        BY <1>2, <1>5, <2>7, <3>1 DEF UnracedRequestIsLatest
      <4> QED
        BY <1>1, <1>4, <3>1, <3>2, <4>1 DEF Latest
    <3> QED
      BY <2>2, <3>1, <3>2, <3>3
  <2>8. UnracedRequestIsLatest'
    BY <1>4, <1>6, <1>7, <2>7 DEF UnracedRequestIsLatest, Outstanding
  <2> QED
    BY <2>3, <2>4, <2>6, <2>8
<1> QED
  BY <1>8, <1>9

\* No step of the pins disturbs the invariant.
LEMMA PinsInvStep == PinsInv /\ PinsTypeOK' /\ [PinsNext]_pinVars => PinsInv'
<1> SUFFICES ASSUME PinsInv, PinsTypeOK', [PinsNext]_pinVars PROVE PinsInv'
  OBVIOUS
<1>1. CASE Tick \/ UNCHANGED pinVars
  BY <1>1 DEF Tick, pinVars, PinsInv, PinsAreFound, RegisteredPinsAreOnMap,
              UnracedPinIsLatest, UnracedRequestIsLatest, Outstanding, Latest
<1>2. ASSUME NEW id \in Ids, NEW title \in Titles, AddPin(id, title) \/ ReplacePin(id, title)
      PROVE  PinsInv'
  BY <1>2, PinsInvEvent
<1>3. ASSUME NEW id \in Ids, DropPin(id)
      PROVE  PinsInv'
  BY <1>3, PinsInvEvent
<1>4. ASSUME NEW j \in 1..MaxRequests, Geocode(j) \/ Found(j) \/ NotFound(j)
      PROVE  PinsInv'
  BY <1>4, PinsInvAnswer
<1> QED
  BY <1>1, <1>2, <1>3, <1>4 DEF PinsNext, PinsStep

\* A map without pins satisfies the invariant.
LEMMA PinsInvStart == PinsInit => PinsInv
<1> SUFFICES ASSUME PinsInit PROVE PinsInv
  OBVIOUS
<1>1. PinsTypeOK
  BY CountStart DEF CountInv
<1> QED
  BY <1>1 DEF PinsInit, PinsInv, PinsAreFound, RegisteredPinsAreOnMap, UnracedPinIsLatest,
              UnracedRequestIsLatest, Outstanding, NoAnnotation

\* In every behaviour the dictionary `annotations` names, for each restaurant, a
\* pin of that restaurant that is on the map, or none.
THEOREM RegisteredCorrect == PinsSafety => []RegisteredPinsAreOnMap
<1>1. PinsInv => RegisteredPinsAreOnMap
  BY DEF PinsInv
<1> QED
  BY <1>1, PinsInvStart, PinsInvStep, PinsTypeCorrect, PTL DEF PinsSafety

\* In every behaviour a restaurant that no database event touched while one of
\* its requests was under way has at most its latest pin on the map, registered.
THEOREM UnracedCorrect == PinsSafety => []UnracedPinIsLatest
<1>1. PinsInv => UnracedPinIsLatest
  BY DEF PinsInv
<1> QED
  BY <1>1, PinsInvStart, PinsInvStep, PinsTypeCorrect, PTL DEF PinsSafety

-----------------------------------------------------------------------------
(* The deadlines.  The counter is one more than the calls less the answers;  *)
(* so the deadline of request j is the instant of its call, which is past,   *)
(* plus j - answeredBefore intervals.                                        *)

CounterIsBalance == geocoderCounter = 1 + Len(requests) - answered

DeadlineBound ==
    \A j \in 1..Len(requests) :
        requests[j].due <= now + Interval * (j - requests[j].answeredBefore)

DeadlineInv == PinsTypeOK /\ CounterIsBalance /\ DeadlineBound /\ DeadlinesAreSpaced

\* Multiplication by the interval distributes over a sum.
LEMMA Spread ==
    ASSUME NEW a \in Int, NEW b \in Int, NEW c \in Int
    PROVE  a * (b + c) = a * b + a * c
OBVIOUS

\* The intervals counted at call n split into those counted at call j and those
\* that came between.
LEMMA Split ==
    ASSUME NEW n \in Int, NEW a \in Int, NEW j \in Int, NEW b \in Int
    PROVE  n - a = (j - b) + ((n - j) - (a - b))
OBVIOUS

\* Requests have deadlines and answer counts that are natural numbers.
LEMMA DeadlineTypes ==
    ASSUME PinsTypeOK
    PROVE  \A j \in 1..Len(requests) :
               requests[j].due \in Nat /\ requests[j].answeredBefore \in Nat
<1>1. requests \in Seq(Request)
  BY DEF PinsTypeOK
<1>2. \A j \in 1..Len(requests) : requests[j] \in Request
  BY <1>1
<1> QED
  BY <1>2 DEF Request

\* A new call comes after the others and counts those without an answer, so its
\* deadline keeps its distance from theirs.
LEMMA DeadlineAdd ==
    ASSUME DeadlineInv, PinsTypeOK', NEW id \in Ids, NEW title \in Titles,
           AddAnnotationFor(id, title), now' = now, answered' = answered
    PROVE  DeadlineInv'
<1> USE DealAnnotationsAssumption
<1> DEFINE new == Len(requests) + 1
<1>1. /\ requests \in Seq(Request) /\ Len(requests) \in Nat
      /\ now \in Nat /\ geocoderCounter \in Nat /\ answered \in Nat
  BY DEF DeadlineInv, PinsTypeOK
<1>2. /\ \A j \in 1..Len(requests) :
            requests[j].due \in Nat /\ requests[j].answeredBefore \in Nat
  BY DeadlineTypes DEF DeadlineInv
<1>3. /\ Len(requests') = new
      /\ \A k \in 1..Len(requests) : requests'[k] = requests[k]
      /\ requests'[new].due = now + Interval * geocoderCounter
      /\ requests'[new].answeredBefore = answered
      /\ geocoderCounter' = geocoderCounter + 1
  BY <1>1 DEF AddAnnotationFor
<1>4. CounterIsBalance'
  BY <1>1, <1>3 DEF DeadlineInv, CounterIsBalance
<1>5. geocoderCounter = new - answered
  BY <1>1 DEF DeadlineInv, CounterIsBalance
<1>6. DeadlineBound'
  <2> SUFFICES ASSUME NEW j \in 1..new
               PROVE  requests'[j].due <= now + Interval * (j - requests'[j].answeredBefore)
    BY <1>3 DEF DeadlineBound
  <2>1. CASE j = new
    <3>1. requests'[j].due = now + Interval * geocoderCounter
      BY <1>3, <2>1
    <3>2. j - requests'[j].answeredBefore = geocoderCounter
      BY <1>3, <1>5, <2>1
    <3>3. now + Interval * geocoderCounter \in Nat
      BY <1>1
    <3> QED
      BY <3>1, <3>2, <3>3
  <2>2. CASE j \in 1..Len(requests)
    BY <1>3, <2>2 DEF DeadlineInv, DeadlineBound
  <2> QED
    BY <1>1, <2>1, <2>2
<1>7. DeadlinesAreSpaced'
  <2> SUFFICES ASSUME NEW j \in 1..new, NEW k \in 1..new, j < k
               PROVE  requests'[k].due >= requests'[j].due + Interval *
                          ((k - j) - (requests'[k].answeredBefore - requests'[j].answeredBefore))
    BY <1>3 DEF DeadlinesAreSpaced
  <2>1. j \in 1..Len(requests)
    BY <1>1
  <2>2. CASE k \in 1..Len(requests)
    BY <1>3, <2>1, <2>2 DEF DeadlineInv, DeadlinesAreSpaced
  <2>3. CASE k = new
    <3> DEFINE called == j - requests[j].answeredBefore
               between == (new - j) - (answered - requests[j].answeredBefore)
    <3>0. /\ new \in Int /\ answered \in Int /\ j \in Int /\ Interval \in Int
          /\ requests[j].answeredBefore \in Int
      BY <1>1, <1>2, <2>1
    <3>1. /\ called \in Int /\ between \in Int /\ Interval \in Int
          /\ geocoderCounter = called + between
      <4> HIDE DEF new
      <4> QED
        BY <1>5, <3>0, Split
    <3>2. requests[j].due <= now + Interval * called
      BY <2>1 DEF DeadlineInv, DeadlineBound
    <3>3. Interval * geocoderCounter = Interval * called + Interval * between
      BY <3>1, Spread
    <3>4. Interval * called \in Int /\ Interval * between \in Int
      BY <3>1
    <3>5. requests[j].due + Interval * between <= now + Interval * geocoderCounter
      <4> HIDE DEF called, between
      <4> QED
        BY <1>1, <1>2, <2>1, <3>2, <3>3, <3>4
    <3> QED
      BY <1>3, <2>1, <2>3, <3>5
  <2> QED
    BY <1>1, <2>2, <2>3
<1> QED
  BY <1>4, <1>6, <1>7 DEF DeadlineInv

\* No step of the pins disturbs the invariant.
LEMMA DeadlineStep == DeadlineInv /\ PinsTypeOK' /\ [PinsNext]_pinVars => DeadlineInv'
<1> SUFFICES ASSUME DeadlineInv, PinsTypeOK', [PinsNext]_pinVars PROVE DeadlineInv'
  OBVIOUS
<1>t. /\ requests \in Seq(Request) /\ Len(requests) \in Nat /\ now \in Nat
      /\ geocoderCounter \in Nat /\ answered \in Nat
  BY DEF DeadlineInv, PinsTypeOK
<1>1. ASSUME NEW id \in Ids, NEW title \in Titles, AddPin(id, title) \/ ReplacePin(id, title)
      PROVE  DeadlineInv'
  BY <1>1, DeadlineAdd DEF AddPin, ReplacePin
<1>2. ASSUME NEW id \in Ids, DropPin(id)
      PROVE  DeadlineInv'
  BY <1>2 DEF DropPin, DeadlineInv, CounterIsBalance, DeadlineBound, DeadlinesAreSpaced
<1>3. ASSUME NEW j, Geocode(j) \/ Found(j) \/ NotFound(j)
      PROVE  DeadlineInv'
  <2>1. PICK stage \in {"sent", "found", "failed"} :
            requests' = [requests EXCEPT ![j].stage = stage]
    BY <1>3 DEF Geocode, Found, NotFound, Answered
  <2>2. j \in DOMAIN requests /\ now' = now
    BY <1>3 DEF Geocode, Found, NotFound, Answered
  <2>3. /\ Len(requests') = Len(requests)
        /\ \A k \in 1..Len(requests) :
              /\ requests'[k].due = requests[k].due
              /\ requests'[k].answeredBefore = requests[k].answeredBefore
    BY <1>t, <2>1, <2>2, StageChanged
  <2>4. CounterIsBalance'
    <3>1. \/ geocoderCounter' = geocoderCounter /\ answered' = answered
          \/ geocoderCounter' = geocoderCounter - 1 /\ answered' = answered + 1
      BY <1>3 DEF Geocode, Found, NotFound, Answered
    <3> QED
      BY <1>t, <2>3, <3>1 DEF DeadlineInv, CounterIsBalance
  <2>5. DeadlineBound'
    BY <2>2, <2>3 DEF DeadlineInv, DeadlineBound
  <2>6. DeadlinesAreSpaced'
    BY <2>3 DEF DeadlineInv, DeadlinesAreSpaced
  <2> QED
    BY <2>4, <2>5, <2>6 DEF DeadlineInv
<1>4. CASE Tick
  <2>1. requests' = requests /\ now' = now + 1
        /\ geocoderCounter' = geocoderCounter /\ answered' = answered
    BY <1>4 DEF Tick
  <2>2. ASSUME NEW j \in 1..Len(requests)
        PROVE  requests[j].due <= now' + Interval * (j - requests[j].answeredBefore)
    <3>1. requests[j].due \in Nat /\ requests[j].answeredBefore \in Nat
      BY DeadlineTypes DEF DeadlineInv
    <3>2. Interval * (j - requests[j].answeredBefore) \in Int
      BY <1>t, <3>1, DealAnnotationsAssumption
    <3>3. requests[j].due <= now + Interval * (j - requests[j].answeredBefore)
      BY DEF DeadlineInv, DeadlineBound
    <3> QED
      BY <1>t, <2>1, <3>1, <3>2, <3>3
  <2>3. DeadlineBound'
    BY <2>1, <2>2 DEF DeadlineBound
  <2> QED
    BY <2>1, <2>3 DEF DeadlineInv, CounterIsBalance, DeadlinesAreSpaced
<1>5. CASE UNCHANGED pinVars
  BY <1>5 DEF pinVars, DeadlineInv, CounterIsBalance, DeadlineBound, DeadlinesAreSpaced
<1> QED
  BY <1>1, <1>2, <1>3, <1>4, <1>5 DEF PinsNext, PinsStep

\* In every behaviour the deadlines of two requests are as far apart as the
\* number of unanswered requests between their calls demands.
THEOREM DeadlinesCorrect == PinsSafety => []DeadlinesAreSpaced
<1>1. PinsInit => DeadlineInv
  <2> SUFFICES ASSUME PinsInit PROVE DeadlineInv
    OBVIOUS
  <2>1. PinsTypeOK
    BY CountStart DEF CountInv
  <2> QED
    BY <2>1 DEF PinsInit, DeadlineInv, CounterIsBalance, DeadlineBound, DeadlinesAreSpaced
<1>2. DeadlineInv => DeadlinesAreSpaced
  BY DEF DeadlineInv
<1> QED
  BY <1>1, <1>2, DeadlineStep, PinsTypeCorrect, PTL DEF PinsSafety

\* The delays of addAnnotationFor do their work for any number of calls, answers
\* and failures: none is below one interval, and no two requests come too close.
THEOREM SpacingCorrect == PinsSafety => []RequestsAreSpaced
<1>1. CounterCountsOutstanding /\ DeadlinesAreSpaced => RequestsAreSpaced
  BY DEF RequestsAreSpaced
<1> QED
  BY <1>1, CounterCorrect, DeadlinesCorrect, PTL

-----------------------------------------------------------------------------
(* Notifications. *)

\* The invariant of DealNotifications: what is pending or shown is well typed, and the
\* newest note among it.
NotesInv == NotesTypeOK /\ NewestIsPendingOrShown

\* The serial number of a note, or of none, is a natural number; the next note is
\* well typed and newer.
LEMMA NextNoteIsNewer ==
    ASSUME NotesTypeOK, NEW id \in Ids, NEW title \in Titles
    PROVE  /\ NextNote(id, title) \in Note
           /\ Serial(NextNote(id, title)) = Serial(lastNote[id]) + 1
           /\ Serial(lastNote[id]) \in Nat
           /\ NextNote(id, title) # NoNote
<1>1. lastNote[id] \in Note \cup {NoNote}
  BY DEF NotesTypeOK
<1>2. Serial(lastNote[id]) \in Nat
  BY <1>1 DEF Serial, Note
<1>3. Body(title) \in Bodies
  BY DEF Body, Bodies
<1>4. NextNote(id, title) \in Note
  BY <1>2, <1>3 DEF NextNote, Note
<1>5. NextNote(id, title) # NoNote
  BY <1>4, NoNoteAssumption
<1>6. NextNote(id, title).serial = Serial(lastNote[id]) + 1
  BY DEF NextNote
<1> QED
  BY <1>2, <1>4, <1>5, <1>6 DEF Serial

\* notifyFor keeps the newest accepted change of each restaurant pending.
LEMMA NotesInvNotify ==
    ASSUME NotesInv, NEW id \in Ids, NEW title \in Titles, NotifyFor(id, title)
    PROVE  NotesInv'
<1> USE DEF NotesInv
<1>1. CASE authorization # "granted"
  BY <1>1 DEF NotifyFor, noteVars, NotesTypeOK, NewestIsPendingOrShown
<1>2. CASE authorization = "granted"
  <2> DEFINE note == NextNote(id, title)
  <2>1. /\ lastNote' = [lastNote EXCEPT ![id] = note]
        /\ pendingNote' = [pendingNote EXCEPT ![id] = note]
        /\ authorization' = authorization /\ shownNote' = shownNote
    BY <1>2 DEF NotifyFor
  <2>2. /\ note \in Note /\ note # NoNote
        /\ Serial(note) = Serial(lastNote[id]) + 1 /\ Serial(lastNote[id]) \in Nat
    BY NextNoteIsNewer
  <2>3. NotesTypeOK'
    BY <2>1, <2>2 DEF NotesTypeOK
  <2>4. Serial(shownNote[id]) <= Serial(lastNote[id])
    BY <2>2 DEF NewestIsPendingOrShown, NotesTypeOK, Serial, Note
  <2>5. Serial(shownNote[id]) < Serial(note)
    <3>1. shownNote[id] \in Note \cup {NoNote}
      BY DEF NotesTypeOK
    <3>2. Serial(shownNote[id]) \in Nat
      BY <3>1 DEF Serial, Note
    <3> QED
      BY <2>2, <2>4, <3>2
  <2> HIDE DEF note
  <2>6. NewestIsPendingOrShown'
    <3> SUFFICES ASSUME NEW other \in Ids
                 PROVE  /\ pendingNote'[other] # NoNote =>
                               /\ pendingNote'[other] = lastNote'[other]
                               /\ Serial(shownNote'[other]) < Serial(lastNote'[other])
                        /\ pendingNote'[other] = NoNote => shownNote'[other] = lastNote'[other]
      BY DEF NewestIsPendingOrShown, Serial
    <3>1. CASE other = id
      BY <2>1, <2>2, <2>5, <3>1 DEF NotesTypeOK
    <3>2. CASE other # id
      BY <2>1, <3>2 DEF NotesTypeOK, NewestIsPendingOrShown
    <3> QED
      BY <3>1, <3>2
  <2> QED
    BY <2>3, <2>6
<1> QED
  BY <1>1, <1>2

\* No step of the notifications disturbs the invariant.
LEMMA NotesInvStep == NotesInv /\ [NotesNext]_noteVars => NotesInv'
<1> SUFFICES ASSUME NotesInv, [NotesNext]_noteVars PROVE NotesInv'
  OBVIOUS
<1>1. ASSUME NEW id \in Ids, NEW title \in Titles, NotifyFor(id, title)
      PROVE  NotesInv'
  BY <1>1, NotesInvNotify
<1>2. ASSUME NEW id \in Ids, WillPresent(id)
      PROVE  NotesInv'
  <2>1. NotesTypeOK'
    BY <1>2 DEF NotesInv, NotesTypeOK, WillPresent
  <2>2. NewestIsPendingOrShown'
    BY <1>2 DEF NotesInv, NotesTypeOK, NewestIsPendingOrShown, WillPresent, Serial
  <2> QED
    BY <2>1, <2>2 DEF NotesInv
<1>3. CASE AnswerAuthorization \/ UNCHANGED noteVars
  BY <1>3 DEF AnswerAuthorization, noteVars, NotesInv, NotesTypeOK, NewestIsPendingOrShown, Serial
<1> QED
  BY <1>1, <1>2, <1>3 DEF NotesNext, NotesStep

\* Nothing was accepted, waits or was shown at the start.
LEMMA NotesInvStart == NotesInit => NotesInv
BY DEF NotesInit, NotesInv, NotesTypeOK, NewestIsPendingOrShown

\* The variables of the notification component keep their types.
THEOREM NotesTypeCorrect == NotesSafety => []NotesTypeOK
<1>1. NotesInv => NotesTypeOK
  BY DEF NotesInv
<1> QED
  BY <1>1, NotesInvStart, NotesInvStep, PTL DEF NotesSafety

\* In every behaviour of notifyFor and the notification centre the newest change
\* that was accepted for a restaurant is pending, or it is the one shown.
THEOREM NewestCorrect == NotesSafety => []NewestIsPendingOrShown
<1>1. NotesInv => NewestIsPendingOrShown
  BY DEF NotesInv
<1> QED
  BY <1>1, NotesInvStart, NotesInvStep, PTL DEF NotesSafety

\* notifyFor and the notification centre implement the safety part of the
\* announcements: what is presented is always the announcement in force.
THEOREM NotesRefineAnnouncements == NotesSafety => Abstract!AnnouncementsSafety
<1>1. NotesInit => Abstract!AnnouncementsInit
  BY DEF NotesInit, Abstract!AnnouncementsInit
<1>2. NotesInv /\ [NotesNext]_noteVars => [Abstract!AnnouncementsNext]_<<lastNote, shownNote>>
  <2> SUFFICES ASSUME NotesInv, [NotesNext]_noteVars
               PROVE  [Abstract!AnnouncementsNext]_<<lastNote, shownNote>>
    OBVIOUS
  <2>1. ASSUME NEW id \in Ids, NEW title \in Titles, NotifyFor(id, title)
        PROVE  [Abstract!AnnouncementsNext]_<<lastNote, shownNote>>
    <3>1. CASE authorization # "granted"
      BY <2>1, <3>1 DEF NotifyFor, noteVars
    <3>2. CASE authorization = "granted"
      <4>1. Body(title) \in Bodies
        BY DEF Body, Bodies
      <4>2. Abstract!Say(id, Body(title))
        BY <2>1, <3>2 DEF NotifyFor, NextNote, Serial, Abstract!Say, Abstract!Serial
      <4> QED
        BY <4>1, <4>2 DEF Abstract!AnnouncementsNext
    <3> QED
      BY <3>1, <3>2
  <2>2. ASSUME NEW id \in Ids, WillPresent(id)
        PROVE  [Abstract!AnnouncementsNext]_<<lastNote, shownNote>>
    <3>1. pendingNote[id] = lastNote[id] /\ Serial(shownNote[id]) < Serial(lastNote[id])
      BY <2>2 DEF WillPresent, NotesInv, NewestIsPendingOrShown
    <3>2. Serial(lastNote[id]) \in Nat
      BY DEF NotesInv, NotesTypeOK, Serial, Note
    <3>3. shownNote[id] # lastNote[id]
      BY <3>1, <3>2
    <3>4. Abstract!Hear(id)
      BY <2>2, <3>1, <3>3 DEF WillPresent, Abstract!Hear
    <3> QED
      BY <3>4 DEF Abstract!AnnouncementsNext
  <2>3. CASE AnswerAuthorization \/ UNCHANGED noteVars
    BY <2>3 DEF AnswerAuthorization, noteVars
  <2> QED
    BY <2>1, <2>2, <2>3 DEF NotesNext, NotesStep
<1> QED
  BY <1>1, <1>2, NotesInvStart, NotesInvStep, PTL DEF NotesSafety, Abstract!AnnouncementsSafety

-----------------------------------------------------------------------------
\* What the controller's steps are for its parts.


\* An event from the database is a step of the pins and of the notifications.
LEMMA ObserverSteps ==
    ASSUME NEW k \in Ids, Observe(k)
    PROVE  [PinsNext]_pinVars /\ [NotesNext]_noteVars
<1>1. CASE ChildAdded(k)
  BY <1>1 DEF ChildAdded, PinsNext
<1>2. CASE ChildChanged(k)
  <2>1. Window[k] \in Titles /\ ReplacePin(k, Window[k]) /\ NotifyFor(k, Window[k])
    BY <1>2 DEF ChildChanged
  <2> QED
    BY <2>1 DEF PinsNext, NotesNext
<1>3. CASE ChildMalformed(k)
  BY <1>3 DEF ChildMalformed
<1>4. CASE ChildRemoved(k)
  BY <1>4 DEF ChildRemoved, PinsNext
<1>5. CASE ChildRemovedUnlisted(k)
  BY <1>5 DEF ChildRemovedUnlisted
<1> QED
  BY <1>1, <1>2, <1>3, <1>4, <1>5 DEF Observe

\* Every step of the controller is one of the pins and of the notifications.
LEMMA ControllerSteps == [Next]_vars => [PinsNext]_pinVars /\ [NotesNext]_noteVars
<1> SUFFICES ASSUME [Next]_vars PROVE [PinsNext]_pinVars /\ [NotesNext]_noteVars
  OBVIOUS
<1>1. ASSUME NEW k \in Ids, Write(k)
      PROVE  [PinsNext]_pinVars /\ [NotesNext]_noteVars
  BY <1>1 DEF Write
<1>2. CASE PinsStep /\ UNCHANGED <<feedVars, noteVars, panelVars>>
  BY <1>2 DEF PinsNext
<1>3. CASE NotesStep /\ UNCHANGED <<feedVars, pinVars, panelVars>>
  BY <1>3 DEF NotesNext
<1>4. CASE PanelStep /\ UNCHANGED <<feedVars, pinVars, noteVars>>
  BY <1>4
<1>5. CASE UNCHANGED vars
  BY <1>5 DEF vars
<1> QED
  BY <1>1, <1>2, <1>3, <1>4, <1>5, ObserverSteps DEF Next, FeedNext

\* The controller drives the pins the way their component allows, whatever the
\* database sends and whatever the user does meanwhile.
THEOREM ControllerRefinesPins == Spec => PinsSafety
<1>1. Init => PinsInit
  BY DEF Init
<1> QED
  BY <1>1, ControllerSteps, PTL DEF Spec, PinsSafety

\* In the whole controller too the requests are spaced by the unanswered ones, the
\* dictionary names pins on the map, and a restaurant without overtaken requests
\* has only its latest pin.
THEOREM ControllerPins ==
    Spec => [](RequestsAreSpaced /\ RegisteredPinsAreOnMap /\ UnracedPinIsLatest)
BY ControllerRefinesPins, SpacingCorrect, RegisteredCorrect, UnracedCorrect, PTL

\* The whole controller implements the safety part of the announcements.
THEOREM ControllerRefinesAnnouncements == Spec => Abstract!AnnouncementsSafety
<1>1. Init => NotesInit
  BY DEF Init
<1>2. Spec => NotesSafety
  BY <1>1, ControllerSteps, PTL DEF Spec, NotesSafety
<1> QED
  BY <1>2, NotesRefineAnnouncements, PTL

-----------------------------------------------------------------------------
(* Filters of the list: what they keep, and that they keep it once.          *)

Distinct(list) == \A i, j \in DOMAIN list : list[i].id = list[j].id => i = j

\* The kept entries are those at the positions, one for each.
LEMMA KeptEntries ==
    ASSUME NEW R, NEW list \in Seq(R), NEW K \in SUBSET DOMAIN list
    PROVE  /\ Kept(list, K) \in Seq(R)
           /\ \A i \in K : \E n \in DOMAIN Kept(list, K) : Kept(list, K)[n] = list[i]
           /\ \E position : /\ \A n \in DOMAIN Kept(list, K) : position[n] \in K /\ Kept(list, K)[n] = list[position[n]]
                            /\ \A m, n \in DOMAIN Kept(list, K) : position[m] = position[n] => m = n
<1> DEFINE upTo(i) == {j \in K : j <= i}
           rank == [i \in K |-> Cardinality(upTo(i))]
           size1 == Cardinality(K)
           Position(n) == CHOOSE i \in K : Cardinality(upTo(i)) = n
           position == [n \in 1..size1 |-> Position(n)]
<1>1. DOMAIN list = 1..Len(list) /\ Len(list) \in Nat /\ K \subseteq Int
  OBVIOUS
<1>2. IsFiniteSet(K) /\ size1 \in Nat
  <2>1. IsFiniteSet(1..Len(list))
    BY <1>1, FS_Interval
  <2> QED
    BY <1>1, <2>1, FS_Subset, FS_CardinalityType
<1>3. \A i \in K : IsFiniteSet(upTo(i)) /\ rank[i] \in 1..size1
  <2> SUFFICES ASSUME NEW i \in K PROVE IsFiniteSet(upTo(i)) /\ rank[i] \in 1..size1
    OBVIOUS
  <2>1. upTo(i) \in SUBSET K /\ i \in upTo(i)
    BY <1>1
  <2>2. IsFiniteSet(upTo(i)) /\ Cardinality(upTo(i)) <= size1
    BY <1>2, <2>1, FS_Subset
  <2>3. Cardinality(upTo(i)) \in Nat /\ Cardinality(upTo(i)) # 0
    BY <2>1, <2>2, FS_CardinalityType, FS_EmptySet
  <2> QED
    BY <1>2, <2>2, <2>3
<1>4. \A i, j \in K : i < j => rank[i] # rank[j]
  <2> SUFFICES ASSUME NEW i \in K, NEW j \in K, i < j PROVE rank[i] # rank[j]
    OBVIOUS
  <2>1. upTo(i) \in SUBSET upTo(j) /\ j \in upTo(j) /\ j \notin upTo(i)
    BY <1>1
  <2>2. IsFiniteSet(upTo(j)) /\ upTo(i) # upTo(j)
    BY <1>3, <2>1
  <2>3. Cardinality(upTo(j)) # Cardinality(upTo(i))
    BY <2>1, <2>2, FS_Subset
  <2> QED
    BY <2>3
<1>5. rank \in Injection(K, 1..size1)
  <2>1. rank \in [K -> 1..size1]
    BY <1>3
  <2> HIDE DEF rank
  <2>2. \A i, j \in K : rank[i] = rank[j] => i = j
    <3>1. \A i, j \in K : i # j => i < j \/ j < i
      BY <1>1
    <3> QED
      BY <1>4, <3>1
  <2> QED
    BY <2>1, <2>2 DEF Injection, IsInjective
<1>6. rank \in Surjection(K, 1..size1)
  <2>1. IsFiniteSet(1..size1) /\ Cardinality(1..size1) = size1
    BY <1>2, FS_Interval
  <2> HIDE DEF rank
  <2> QED
    BY <1>5, <2>1, FS_Injection
<1>7. \A n \in 1..size1 : position[n] \in K /\ rank[position[n]] = n
  <2> SUFFICES ASSUME NEW n \in 1..size1 PROVE position[n] \in K /\ rank[position[n]] = n
    OBVIOUS
  <2>1. \E i \in K : rank[i] = n
    BY <1>6 DEF Surjection
  <2>2. \E i \in K : Cardinality(upTo(i)) = n
    BY <2>1
  <2>3. Position(n) \in K /\ Cardinality(upTo(Position(n))) = n
    BY <2>2
  <2> QED
    BY <2>3
<1>8. Kept(list, K) = [n \in 1..size1 |-> list[position[n]]]
  BY DEF Kept
<1>9. \A i \in K : rank[i] \in 1..size1 /\ position[rank[i]] = i
  <2> SUFFICES ASSUME NEW i \in K PROVE rank[i] \in 1..size1 /\ position[rank[i]] = i
    OBVIOUS
  <2>1. rank[i] \in 1..size1 /\ \A j \in K : rank[i] = rank[j] => i = j
    BY <1>3, <1>5 DEF Injection, IsInjective
  <2> HIDE DEF rank, position
  <2> QED
    BY <1>7, <2>1
<1> HIDE DEF rank, position, size1
<1>10. Kept(list, K) \in Seq(R) /\ DOMAIN Kept(list, K) = 1..size1
  BY <1>2, <1>7, <1>8
<1>11. \A i \in K : Kept(list, K)[rank[i]] = list[i]
  BY <1>8, <1>9
<1>12. \A m, n \in 1..size1 : position[m] = position[n] => m = n
  BY <1>7
<1> QED
  BY <1>7, <1>8, <1>9, <1>10, <1>11, <1>12

\* restaurants.filter { $0.id != id }.
LEMMA WithoutEntries ==
    ASSUME NEW list \in Seq(Restaurant), NEW id
    PROVE  /\ Without(list, id) \in Seq(Restaurant)
           /\ ToSet(Without(list, id)) = {r \in ToSet(list) : r.id # id}
           /\ Distinct(list) => Distinct(Without(list, id))
<1> DEFINE K == {i \in DOMAIN list : list[i].id # id}
           rest == Without(list, id)
<1>1. rest = Kept(list, K) /\ K \in SUBSET DOMAIN list
  BY DEF Without
<1> HIDE DEF rest, K
<1>2. /\ rest \in Seq(Restaurant)
      /\ \A i \in K : \E n \in DOMAIN rest : rest[n] = list[i]
  BY <1>1, KeptEntries
<1>3. PICK position : /\ \A n \in DOMAIN rest : position[n] \in K /\ rest[n] = list[position[n]]
                      /\ \A m, n \in DOMAIN rest : position[m] = position[n] => m = n
  BY <1>1, KeptEntries
<1>4. ToSet(rest) = {r \in ToSet(list) : r.id # id}
  BY <1>2, <1>3 DEF ToSet, K
<1>5. Distinct(list) => Distinct(rest)
  BY <1>3 DEF Distinct, K
<1> QED
  BY <1>2, <1>4, <1>5 DEF rest

\* ... and { $0.id == id }.
LEMMA OnlyTypes == ASSUME NEW list \in Seq(Restaurant), NEW id PROVE Only(list, id) \in Seq(Restaurant)
BY KeptEntries DEF Only

\* restaurants.append.
LEMMA AppendEntries ==
    ASSUME NEW list \in Seq(Restaurant), NEW r \in Restaurant
    PROVE  /\ Append(list, r) \in Seq(Restaurant)
           /\ ToSet(Append(list, r)) = ToSet(list) \cup {r}
           /\ Distinct(list) /\ (\A x \in ToSet(list) : x.id # r.id) => Distinct(Append(list, r))
<1> DEFINE more == Append(list, r)
<1>1. /\ more \in Seq(Restaurant) /\ DOMAIN list = 1..Len(list) /\ Len(list) \in Nat
      /\ DOMAIN more = 1..(Len(list) + 1)
      /\ \A i \in 1..Len(list) : more[i] = list[i]
      /\ more[Len(list) + 1] = r
  OBVIOUS
<1> HIDE DEF more
<1>2. \A i \in 1..(Len(list) + 1) : i \in 1..Len(list) \/ i = Len(list) + 1
  BY <1>1
<1>3. ToSet(more) = ToSet(list) \cup {r}
  <2>1. 1..(Len(list) + 1) = (1..Len(list)) \cup {Len(list) + 1}
    BY <1>1
  <2> QED
    BY <1>1, <2>1 DEF ToSet
<1>4. Distinct(list) /\ (\A x \in ToSet(list) : x.id # r.id) => Distinct(more)
  <2> SUFFICES ASSUME Distinct(list), \A x \in ToSet(list) : x.id # r.id,
                      NEW i \in DOMAIN more, NEW j \in DOMAIN more, more[i].id = more[j].id
               PROVE  i = j
    BY DEF Distinct
  <2>1. \A n \in 1..Len(list) : list[n].id # r.id
    BY <1>1 DEF ToSet
  <2> QED
    BY <1>1, <1>2, <2>1 DEF Distinct
<1> QED
  BY <1>1, <1>3, <1>4 DEF more

\* Entries of a list are restaurants.
LEMMA EntryTypes == ASSUME NEW list \in Seq(Restaurant), NEW r \in ToSet(list) PROVE r \in Restaurant /\ r.id \in Ids
<1>1. PICK i \in DOMAIN list : r = list[i]
  BY DEF ToSet
<1>2. r \in Restaurant
  BY <1>1
<1> QED
  BY <1>2 DEF Restaurant

-----------------------------------------------------------------------------
(* The list, the notifications and the pins, which different callbacks       *)
(* update.  What holds of all three together needs, beside the invariants of *)
(* the parts, that a note was accepted only with authorization.              *)

FeedTypes == db \in [Ids -> Children] /\ view \in [Ids -> Children] /\ writes \in Nat /\ removed \in BOOLEAN

AcceptedIsGranted == \A id \in Ids : lastNote[id] # NoNote => authorization = "granted"

\* The parts, each with its own invariant.
PartsInv == CountInv /\ PinsInv /\ NotesInv /\ CameraInv /\ FeedTypes

ControllerInv ==
    PartsInv /\ AcceptedIsGranted /\ ListingMatchesReports /\ NotesMatchListing /\ ListedDealIsPinned

\* The query shows children of the database or nothing.
LEMMA WindowTypes == ASSUME FeedTypes, NEW k \in Ids PROVE Window[k] \in Children
BY DEF FeedTypes, Window, Children

\* An observer leaves a list of restaurants behind.
LEMMA ObservedTypes ==
    ASSUME CameraInv, FeedTypes, NEW k \in Ids, Observe(k)
    PROVE  CameraInv' /\ FeedTypes'
<1> DEFINE entry == [id |-> k, title |-> Window[k]]
<1>1. restaurants \in Seq(Restaurant) /\ chevronHidden \in BOOLEAN
  BY DEF CameraInv, RowsInv, PanelTypeOK
<1>2. FeedTypes'
  <2>1. view' \in [Ids -> Children] /\ db' = db /\ writes' = writes
    BY WindowTypes DEF FeedTypes, Observe, ChildAdded, ChildChanged, ChildMalformed, ChildRemoved, ChildRemovedUnlisted, Report
  <2>2. removed' \in BOOLEAN
    BY DEF FeedTypes, Observe, ChildAdded, ChildChanged, ChildMalformed, ChildRemoved, ChildRemovedUnlisted, Listed
  <2> QED
    BY <2>1, <2>2 DEF FeedTypes
<1>3. CASE ChildMalformed(k)
  <2>1. UNCHANGED panelVars
    BY <1>3 DEF ChildMalformed
  <2> QED
    BY <1>2, <2>1, CameraStep
<1>4. CASE ~ChildMalformed(k)
  <2>1. Window[k] \in Titles => entry \in Restaurant
    BY DEF Restaurant
  <2>2. restaurants' \in Seq(Restaurant)
    <3>1. CASE ChildAdded(k)
      BY <1>1, <2>1, <3>1, AppendEntries DEF ChildAdded
    <3>2. CASE ChildChanged(k)
      <4>1. Without(restaurants, k) \in Seq(Restaurant)
        BY <1>1, WithoutEntries
      <4> QED
        BY <2>1, <3>2, <4>1, AppendEntries DEF ChildChanged
    <3>3. CASE ChildRemoved(k)
      BY <1>1, <3>3, OnlyTypes DEF ChildRemoved
    <3>4. CASE ChildRemovedUnlisted(k)
      BY <1>1, <3>4 DEF ChildRemovedUnlisted
    <3> QED
      BY <1>4, <3>1, <3>2, <3>3, <3>4 DEF Observe
  <2>3. chevronHidden' \in BOOLEAN /\ ReloadData /\ UNCHANGED mapVars
    BY <1>1, <1>4 DEF Observe, ChildAdded, ChildChanged, ChildRemoved, ChildRemovedUnlisted
  <2> QED
    BY <1>2, <2>2, <2>3, PanelReloaded
<1> QED
  BY <1>2, <1>3, <1>4

\* No step of the controller disturbs the invariant of a part.
LEMMA PartsStep == ASSUME PartsInv, [Next]_vars PROVE PartsInv'
<1>1. [PinsNext]_pinVars /\ [NotesNext]_noteVars
  BY ControllerSteps
<1>2. CountInv' /\ NotesInv'
  BY <1>1, CountStep, NotesInvStep DEF PartsInv
<1>3. PinsInv'
  BY <1>1, <1>2, PinsInvStep DEF PartsInv, CountInv
<1>f. UNCHANGED feedVars => FeedTypes'
  BY DEF PartsInv, feedVars, FeedTypes
<1>4. ASSUME NEW k \in Ids, Observe(k) PROVE CameraInv' /\ FeedTypes'
  BY <1>4, ObservedTypes DEF PartsInv
<1>5. ASSUME NEW k \in Ids, Write(k) PROVE CameraInv' /\ FeedTypes'
  <2>1. CameraInv'
    BY <1>5, CameraStep DEF Write, PartsInv
  <2> QED
    BY <1>5, <2>1 DEF Write, PartsInv, FeedTypes
<1>6. ASSUME PanelStep, UNCHANGED <<feedVars, pinVars, noteVars>> PROVE CameraInv' /\ FeedTypes'
  <2>1. CameraInv'
    BY <1>6, CameraStep DEF PanelNext, PartsInv
  <2> QED
    BY <1>f, <1>6, <2>1
<1>7. ASSUME UNCHANGED <<feedVars, panelVars>> PROVE CameraInv' /\ FeedTypes'
  <2>1. CameraInv'
    BY <1>7, CameraStep DEF PartsInv
  <2> QED
    BY <1>f, <1>7, <2>1
<1>8. CameraInv' /\ FeedTypes'
  <2>1. CASE UNCHANGED vars
    BY <1>7, <2>1 DEF vars
  <2>2. CASE Next
    BY <1>4, <1>5, <1>6, <1>7, <2>2 DEF Next, FeedNext
  <2> QED
    BY <2>1, <2>2
<1> QED
  BY <1>2, <1>3, <1>8 DEF PartsInv

\* Authorization, once given, stays; only with it is a note accepted.
LEMMA GrantedStep == ASSUME PartsInv, AcceptedIsGranted, [Next]_vars PROVE AcceptedIsGranted'
<1>1. [NotesNext]_noteVars
  BY ControllerSteps
<1>2. ASSUME NEW id \in Ids, NEW title \in Titles, NotifyFor(id, title) PROVE AcceptedIsGranted'
  BY <1>2 DEF NotifyFor, AcceptedIsGranted, PartsInv, NotesInv, NotesTypeOK, noteVars
<1>3. CASE NotesStep
  BY <1>3 DEF NotesStep, AnswerAuthorization, WillPresent, AcceptedIsGranted
<1>4. CASE UNCHANGED noteVars
  BY <1>4 DEF noteVars, AcceptedIsGranted
<1> QED
  BY <1>1, <1>2, <1>3, <1>4 DEF NotesNext

\* What an observer makes of the list, as long as no listed restaurant was removed:
\* the reported restaurant takes the place of its earlier versions, or nothing changes.
LEMMA ObservedList ==
    ASSUME PartsInv, ListingMatchesReports, NEW k \in Ids, Observe(k), ~removed'
    PROVE  /\ ~removed /\ view' = [view EXCEPT ![k] = Window[k]]
           /\ Distinct(restaurants')
           /\ \/ /\ Window[k] \in Titles
                 /\ ToSet(restaurants') =
                        {r \in ToSet(restaurants) : r.id # k} \cup {[id |-> k, title |-> Window[k]]}
                 /\ ChildAdded(k) \/ ChildChanged(k)
                 /\ ChildAdded(k) => \A r \in ToSet(restaurants) : r.id # k
              \/ /\ restaurants' = restaurants /\ Window[k] \notin Titles
                 /\ Window[k] = Absent => \A r \in ToSet(restaurants) : r.id # k
                 /\ UNCHANGED <<pinVars, noteVars>>
<1> DEFINE entry == [id |-> k, title |-> Window[k]]
<1>1. restaurants \in Seq(Restaurant) /\ view \in [Ids -> Children]
  BY DEF PartsInv, CameraInv, RowsInv, PanelTypeOK, FeedTypes
<1>2. view' = [view EXCEPT ![k] = Window[k]]
  BY DEF Observe, ChildAdded, ChildChanged, ChildMalformed, ChildRemoved, ChildRemovedUnlisted, Report
<1>3. ~removed
  BY DEF Observe, ChildAdded, ChildChanged, ChildMalformed, ChildRemoved, ChildRemovedUnlisted
<1>4. Distinct(restaurants) /\ \A r \in ToSet(restaurants) : view[r.id] # Absent
  BY <1>3 DEF ListingMatchesReports, Distinct, ToSet
<1>5. Window[k] \in Titles => entry \in Restaurant
  BY DEF Restaurant
<1>6. CASE ChildAdded(k)
  <2>1. restaurants' = Append(restaurants, entry) /\ Window[k] \in Titles /\ view[k] = Absent
    BY <1>6 DEF ChildAdded
  <2>2. \A r \in ToSet(restaurants) : r.id # k
    BY <1>4, <2>1
  <2>3. entry.id = k
    OBVIOUS
  <2> HIDE DEF entry
  <2>4. Distinct(restaurants') /\ ToSet(restaurants') = ToSet(restaurants) \cup {entry}
    BY <1>1, <1>4, <1>5, <2>1, <2>2, <2>3, AppendEntries
  <2> QED
    BY <1>2, <1>3, <1>6, <2>1, <2>2, <2>4 DEF entry
<1>7. CASE ChildChanged(k)
  <2> DEFINE rest == Without(restaurants, k)
  <2>1. restaurants' = Append(rest, entry) /\ Window[k] \in Titles /\ view[k] # Absent
    BY <1>7 DEF ChildChanged
  <2>2. rest \in Seq(Restaurant) /\ ToSet(rest) = {r \in ToSet(restaurants) : r.id # k} /\ Distinct(rest)
    BY <1>1, <1>4, WithoutEntries
  <2>3. entry.id = k /\ ~ChildAdded(k)
    BY <2>1 DEF ChildAdded
  <2> HIDE DEF entry, rest
  <2>4. Distinct(restaurants') /\ ToSet(restaurants') = ToSet(rest) \cup {entry}
    BY <1>5, <2>1, <2>2, <2>3, AppendEntries
  <2> QED
    BY <1>2, <1>3, <1>7, <2>1, <2>2, <2>3, <2>4 DEF entry
<1>8. CASE ChildMalformed(k)
  <2>1. Window[k] \in {Partial, NoId} /\ UNCHANGED <<pinVars, noteVars>>
    BY <1>8 DEF ChildMalformed
  <2>2. restaurants' = restaurants
    BY <1>8 DEF ChildMalformed, panelVars
  <2>3. Window[k] \notin Titles /\ Window[k] # Absent
    BY <2>1, MainViewControllerAssumption
  <2> QED
    BY <1>2, <1>3, <1>4, <2>1, <2>2, <2>3
<1>9. CASE ChildRemovedUnlisted(k)
  <2>1. ~Listed(k) /\ restaurants' = restaurants /\ Window[k] = Absent /\ UNCHANGED <<pinVars, noteVars>>
    BY <1>9 DEF ChildRemovedUnlisted
  <2>2. \A r \in ToSet(restaurants) : r.id # k
    BY <2>1 DEF Listed, ToSet
  <2> QED
    BY <1>2, <1>3, <1>4, <2>1, <2>2, MainViewControllerAssumption
<1>10. ~ChildRemoved(k)
  BY DEF ChildRemoved
<1> QED
  BY <1>6, <1>7, <1>8, <1>9, <1>10 DEF Observe

\* A step that is not of an observer leaves list, reports and history alone.
LEMMA Unobserved ==
    ASSUME [Next]_vars, \A k \in Ids : ~Observe(k)
    PROVE  /\ restaurants' = restaurants /\ view' = view /\ removed' = removed
           /\ lastNote' = lastNote
           /\ [PinsStep]_pinVars
<1>1. ASSUME NEW k \in Ids, Write(k)
      PROVE  restaurants' = restaurants /\ view' = view /\ removed' = removed /\ UNCHANGED <<pinVars, noteVars>>
  BY <1>1 DEF Write, panelVars
<1>2. ASSUME PanelStep, UNCHANGED <<feedVars, pinVars, noteVars>>
      PROVE  restaurants' = restaurants /\ view' = view /\ removed' = removed /\ UNCHANGED <<pinVars, noteVars>>
  BY <1>2 DEF feedVars, PanelStep, Swipe, ScrollMoves, DidSelectItem, ScrollEnds, ChevronButtonPressed,
              AnimationEnds, LocationButtonPressed, LookupFound, LookupFailed, DidUpdateLocations, MapFollowsUser
<1>3. ASSUME UNCHANGED <<feedVars, panelVars>>
      PROVE  restaurants' = restaurants /\ view' = view /\ removed' = removed
  BY <1>3 DEF feedVars, panelVars
<1>4. NotesStep => lastNote' = lastNote
  BY DEF NotesStep, AnswerAuthorization, WillPresent
<1>5. UNCHANGED noteVars => lastNote' = lastNote
  BY DEF noteVars
<1>6. CASE UNCHANGED vars
  BY <1>3, <1>5, <1>6 DEF vars
<1>7. CASE Next
  BY <1>1, <1>2, <1>3, <1>4, <1>5, <1>7 DEF Next, FeedNext
<1> QED
  BY <1>6, <1>7

\* The list holds what was reported, once, after every step.
LEMMA ListingStep == ASSUME PartsInv, ListingMatchesReports, [Next]_vars PROVE ListingMatchesReports'
<1> DEFINE shown == ToSet(restaurants)
           shownNext == ToSet(restaurants')
<1>1. SUFFICES ASSUME ~removed'
               PROVE  /\ \A k \in Ids : view'[k] \in Titles => [id |-> k, title |-> view'[k]] \in shownNext
                      /\ \A r \in shownNext : view'[r.id] # Absent
                      /\ Distinct(restaurants')
  BY DEF ListingMatchesReports, Distinct, ToSet
<1>2. ~removed => /\ \A k \in Ids : view[k] \in Titles => [id |-> k, title |-> view[k]] \in shown
                  /\ \A r \in shown : view[r.id] # Absent
                  /\ Distinct(restaurants)
  BY DEF ListingMatchesReports, Distinct, ToSet
<1>3. ASSUME NEW k \in Ids, Observe(k)
      PROVE  /\ \A j \in Ids : view'[j] \in Titles => [id |-> j, title |-> view'[j]] \in shownNext
             /\ \A r \in shownNext : view'[r.id] # Absent
             /\ Distinct(restaurants')
  <2>1. /\ ~removed /\ view' = [view EXCEPT ![k] = Window[k]] /\ Distinct(restaurants')
        /\ \/ /\ Window[k] \in Titles
              /\ shownNext = {r \in shown : r.id # k} \cup {[id |-> k, title |-> Window[k]]}
           \/ /\ restaurants' = restaurants /\ Window[k] \notin Titles
              /\ Window[k] = Absent => \A r \in shown : r.id # k
    BY <1>1, <1>3, ObservedList
  <2>2. view \in [Ids -> Children] /\ Absent \notin Titles
    BY MainViewControllerAssumption DEF PartsInv, FeedTypes
  <2>3. \A r \in shown : r.id \in Ids
    <3>1. restaurants \in Seq(Restaurant)
      BY DEF PartsInv, CameraInv, RowsInv, PanelTypeOK
    <3> QED
      BY <3>1, EntryTypes
  <2>4. CASE Window[k] \in Titles
    <3> DEFINE t == Window[k]
    <3>1. view'[k] = t /\ \A j \in Ids : j # k => view'[j] = view[j]
      BY <2>1, <2>2
    <3>2. shownNext = {r \in shown : r.id # k} \cup {[id |-> k, title |-> t]}
      BY <2>1, <2>4
    <3> HIDE DEF t, shown, shownNext
    <3>3. \A j \in Ids : view'[j] \in Titles => [id |-> j, title |-> view'[j]] \in shownNext
      <4> SUFFICES ASSUME NEW j \in Ids, view'[j] \in Titles PROVE [id |-> j, title |-> view'[j]] \in shownNext
        OBVIOUS
      <4>1. CASE j = k
        BY <3>1, <3>2, <4>1
      <4>2. CASE j # k
        <5>1. [id |-> j, title |-> view[j]] \in shown /\ view'[j] = view[j]
          BY <1>2, <2>1, <3>1, <4>2
        <5> QED
          BY <3>2, <4>2, <5>1
      <4> QED
        BY <4>1, <4>2
    <3>4. \A r \in shownNext : view'[r.id] # Absent
      <4>1. \A r \in shownNext : r.id = k \/ (r \in shown /\ r.id # k)
        BY <3>2
      <4>2. t # Absent
        BY <2>2, <2>4 DEF t
      <4> QED
        BY <1>2, <2>1, <2>3, <3>1, <4>1, <4>2
    <3> QED
      BY <2>1, <3>3, <3>4
  <2>5. CASE Window[k] \notin Titles
    <3>1. shownNext = shown /\ (Window[k] = Absent => \A r \in shown : r.id # k)
      BY <2>1, <2>5
    <3>2. \A j \in Ids : view'[j] \in Titles => view'[j] = view[j]
      BY <2>1, <2>2, <2>5
    <3>3. \A j \in Ids : view'[j] = IF j = k THEN Window[k] ELSE view[j]
      BY <2>1, <2>2
    <3> HIDE DEF shown, shownNext
    <3>4. \A r \in shown : view'[r.id] # Absent
      BY <1>2, <2>1, <2>3, <3>1, <3>3
    <3>5. \A j \in Ids : view'[j] \in Titles => [id |-> j, title |-> view'[j]] \in shown
      BY <1>2, <2>1, <3>2
    <3> QED
      BY <2>1, <3>1, <3>4, <3>5
  <2> QED
    BY <2>4, <2>5
<1>4. CASE \A k \in Ids : ~Observe(k)
  BY <1>1, <1>2, <1>4, Unobserved
<1> QED
  BY <1>3, <1>4

\* The newest accepted note of a listed restaurant announces the listed deal.
LEMMA NotesMatchStep ==
    ASSUME PartsInv, AcceptedIsGranted, ListingMatchesReports, NotesMatchListing, [Next]_vars
    PROVE  NotesMatchListing'
<1> SUFFICES ASSUME ~removed', NEW id \in Ids, lastNote'[id] # NoNote
             PROVE  \E r \in ToSet(restaurants') : r.id = id /\ lastNote'[id].body = Body(r.title)
  BY DEF NotesMatchListing, Body
<1>1. ASSUME NEW k \in Ids, Observe(k)
      PROVE  \E r \in ToSet(restaurants') : r.id = id /\ lastNote'[id].body = Body(r.title)
  <2>1. ~removed
    BY <1>1, ObservedList
  <2>2. lastNote[id] # NoNote => \E r \in ToSet(restaurants) : r.id = id /\ lastNote[id].body = Body(r.title)
    BY <2>1 DEF NotesMatchListing
  <2>3. CASE /\ Window[k] \in Titles
             /\ ToSet(restaurants') =
                    {r \in ToSet(restaurants) : r.id # k} \cup {[id |-> k, title |-> Window[k]]}
             /\ ChildAdded(k) \/ ChildChanged(k)
             /\ ChildAdded(k) => \A r \in ToSet(restaurants) : r.id # k
    <3> DEFINE entry == [id |-> k, title |-> Window[k]]
    <3>1. entry.id = k /\ entry.title = Window[k]
      OBVIOUS
    <3>2. ToSet(restaurants') = {r \in ToSet(restaurants) : r.id # k} \cup {entry}
      BY <2>3
    <3>3. CASE ChildAdded(k)
      <4>1. lastNote' = lastNote
        BY <3>3 DEF ChildAdded, noteVars
      <4> QED
        BY <2>2, <2>3, <3>2, <3>3, <4>1
    <3>4. CASE ChildChanged(k)
      <4>1. NotifyFor(k, Window[k])
        BY <3>4 DEF ChildChanged
      <4>2. CASE authorization = "granted"
        <5>1. lastNote' = [lastNote EXCEPT ![k] = NextNote(k, Window[k])] /\ lastNote \in [Ids -> Note \cup {NoNote}]
          BY <4>1, <4>2 DEF NotifyFor, PartsInv, NotesInv, NotesTypeOK
        <5>2. NextNote(k, Window[k]).body = Body(entry.title)
          BY DEF NextNote
        <5> HIDE DEF entry
        <5>3. CASE id = k
          BY <3>1, <3>2, <5>1, <5>2, <5>3
        <5>4. CASE id # k
          BY <2>2, <3>2, <5>1, <5>4
        <5> QED
          BY <5>3, <5>4
      <4>3. CASE authorization # "granted"
        <5>1. lastNote' = lastNote
          BY <4>1, <4>3 DEF NotifyFor, noteVars
        <5> QED
          BY <4>3, <5>1 DEF AcceptedIsGranted
      <4> QED
        BY <4>2, <4>3
    <3> QED
      BY <2>3, <3>3, <3>4
  <2>4. CASE restaurants' = restaurants /\ UNCHANGED <<pinVars, noteVars>>
    <3>1. lastNote' = lastNote
      BY <2>4 DEF noteVars
    <3> QED
      BY <2>2, <2>4, <3>1
  <2> QED
    BY <1>1, <2>3, <2>4, ObservedList
<1>2. CASE \A k \in Ids : ~Observe(k)
  <2>1. restaurants' = restaurants /\ removed' = removed /\ lastNote' = lastNote
    BY <1>2, Unobserved
  <2> QED
    BY <2>1 DEF NotesMatchListing
<1> QED
  BY <1>1, <1>2

\* The latest request of the restaurant carries the deal; unraced and found, its pin
\* is on the map and registered.
DealPinned(r) ==
    \E j \in 1..Len(requests) :
        /\ requests[j].id = r.id /\ requests[j].title = r.title /\ IsLatest(j)
        /\ r.id \notin raced /\ requests[j].stage = "found" => j \in pins /\ annotations[r.id] = j

\* addAnnotationFor for one restaurant: its deal is under way, the others' pins stay.
LEMMA PinnedAdd ==
    ASSUME PinsInv, NEW k \in Ids, NEW t \in Titles, AddPin(k, t) \/ ReplacePin(k, t)
    PROVE  /\ \A r : r.id = k /\ r.title = t => DealPinned(r)'
           /\ \A r : r.id \in Ids \ {k} /\ DealPinned(r) => DealPinned(r)'
<1> DEFINE last == Len(requests) + 1
           new == [id |-> k, title |-> t, due |-> now + Interval * geocoderCounter,
                   answeredBefore |-> answered, stage |-> "delayed"]
<1>1. /\ requests \in Seq(Request) /\ Len(requests) \in Nat /\ annotations \in [Ids -> 0..Len(requests)]
  BY DEF PinsInv, PinsTypeOK
<1>2. requests' = Append(requests, new)
  BY DEF AddPin, ReplacePin, AddAnnotationFor
<1>3. new.id = k /\ new.title = t /\ new.stage = "delayed"
  OBVIOUS
<1> HIDE DEF new
<1>4. /\ Len(requests') = last /\ requests'[last] = new
      /\ \A j \in 1..Len(requests) : requests'[j] = requests[j]
  BY <1>1, <1>2
<1>5. raced \subseteq raced'
  BY DEF AddPin, ReplacePin, MarkRaced
<1>6. \A r : r.id = k /\ r.title = t => DealPinned(r)'
  <2> SUFFICES ASSUME NEW r, r.id = k, r.title = t PROVE DealPinned(r)'
    OBVIOUS
  <2>1. last \in 1..Len(requests') /\ \A j \in 1..Len(requests') : ~(j > last)
    BY <1>1, <1>4
  <2> QED
    BY <1>3, <1>4, <2>1 DEF DealPinned, IsLatest
<1>7. ASSUME NEW r, r.id \in Ids, r.id # k, DealPinned(r) PROVE DealPinned(r)'
  <2>1. PICK i \in 1..Len(requests) :
            /\ requests[i].id = r.id /\ requests[i].title = r.title /\ IsLatest(i)
            /\ r.id \notin raced /\ requests[i].stage = "found" => i \in pins /\ annotations[r.id] = i
    BY <1>7 DEF DealPinned
  <2>2. i \in 1..Len(requests') /\ requests'[i] = requests[i]
    BY <1>1, <1>4
  <2>3. IsLatest(i)'
    <3> SUFFICES ASSUME NEW n \in 1..Len(requests'), n > i PROVE requests'[n].id # requests'[i].id
      BY DEF IsLatest
    <3>1. n \in 1..Len(requests) \/ n = last
      BY <1>1, <1>4
    <3>2. CASE n = last
      BY <1>3, <1>4, <1>7, <2>1, <2>2, <3>2
    <3>3. CASE n \in 1..Len(requests)
      BY <1>4, <2>1, <2>2, <3>3 DEF IsLatest
    <3> QED
      BY <3>1, <3>2, <3>3
  <2>4. annotations'[r.id] = annotations[r.id]
    BY <1>1, <1>7 DEF AddPin, ReplacePin, RemoveAnnotation
  <2>5. i \in pins => i \in pins'
    <3>1. annotations[k] # i
      <4>1. annotations[k] # NoAnnotation => requests[annotations[k]].id = k
        BY DEF PinsInv, RegisteredPinsAreOnMap
      <4> QED
        BY <1>1, <1>7, <2>1, <4>1 DEF NoAnnotation
    <3> QED
      BY <3>1 DEF AddPin, ReplacePin, RemoveAnnotation
  <2> QED
    BY <1>5, <2>1, <2>2, <2>3, <2>4, <2>5 DEF DealPinned
<1> QED
  BY <1>6, <1>7

\* The queue and the geocoder: an answer to an earlier request of the restaurant
\* would have been overtaken, so it does not count.
LEMMA PinnedAnswer ==
    ASSUME PinsInv, [PinsStep]_pinVars, NEW r, r.id \in Ids, DealPinned(r)
    PROVE  DealPinned(r)'
<1>1. PICK i \in 1..Len(requests) :
          /\ requests[i].id = r.id /\ requests[i].title = r.title /\ IsLatest(i)
          /\ r.id \notin raced /\ requests[i].stage = "found" => i \in pins /\ annotations[r.id] = i
  BY DEF DealPinned
<1>2. requests \in Seq(Request) /\ annotations \in [Ids -> 0..Len(requests)] /\ Len(requests) \in Nat
  BY DEF PinsInv, PinsTypeOK
<1>3. ASSUME NEW j \in DOMAIN requests, NEW stage \in {"delayed", "sent", "found", "failed"},
             requests' = [requests EXCEPT ![j].stage = stage], raced' = raced,
             \/ UNCHANGED <<annotations, pins>> /\ (j = i => stage # "found")
             \/ /\ requests[j].stage = "sent" /\ pins' = pins \cup {j}
                /\ annotations' = [annotations EXCEPT ![requests[j].id] = j]
      PROVE  DealPinned(r)'
  <2>1. /\ Len(requests') = Len(requests) /\ j \in 1..Len(requests) /\ requests'[j].stage = stage
        /\ \A n \in 1..Len(requests) : /\ requests'[n].id = requests[n].id /\ requests'[n].title = requests[n].title
                                       /\ n # j => requests'[n].stage = requests[n].stage
    BY <1>2, <1>3, StageChanged
  <2>2. IsLatest(i)'
    BY <1>1, <2>1 DEF IsLatest
  <2>3. ASSUME r.id \notin raced', requests'[i].stage = "found" PROVE i \in pins' /\ annotations'[r.id] = i
    <3>1. CASE i = j
      BY <1>1, <1>2, <1>3, <2>1, <2>3, <3>1
    <3>2. CASE i # j /\ requests[j].id # r.id
      BY <1>1, <1>2, <1>3, <2>1, <2>3, <3>2
    <3>3. CASE i # j /\ requests[j].id = r.id
      <4>1. j < i
        BY <1>1, <1>2, <2>1, <3>3 DEF IsLatest
      <4>2. ~Latest(j)
        BY <1>1, <3>3, <4>1 DEF Latest
      <4>3. requests[j].stage = "sent" => r.id \in raced
        BY <2>1, <3>3, <4>2 DEF PinsInv, UnracedRequestIsLatest, Outstanding
      <4> QED
        BY <1>1, <1>3, <2>1, <2>3, <3>3, <4>3
    <3> QED
      BY <3>1, <3>2, <3>3
  <2> QED
    BY <1>1, <2>1, <2>2, <2>3 DEF DealPinned
<1>4. ASSUME NEW j, Geocode(j) PROVE DealPinned(r)'
  BY <1>3, <1>4 DEF Geocode
<1>5. ASSUME NEW j, Found(j) PROVE DealPinned(r)'
  BY <1>3, <1>5 DEF Found, Answered
<1>6. ASSUME NEW j, NotFound(j) PROVE DealPinned(r)'
  BY <1>3, <1>6 DEF NotFound, Answered
<1>7. CASE Tick \/ UNCHANGED pinVars
  <2>1. UNCHANGED <<requests, annotations, pins, raced>>
    BY <1>7 DEF Tick, pinVars
  <2> QED
    BY <1>1, <2>1 DEF DealPinned, IsLatest
<1> QED
  BY <1>4, <1>5, <1>6, <1>7 DEF PinsStep

\* Every listed deal is on its way to the map, or there.
LEMMA PinnedStep ==
    ASSUME PartsInv, ListingMatchesReports, ListedDealIsPinned, [Next]_vars
    PROVE  ListedDealIsPinned'
<1>1. \A r \in ToSet(restaurants) : r.id \in Ids
  <2>1. restaurants \in Seq(Restaurant)
    BY DEF PartsInv, CameraInv, RowsInv, PanelTypeOK
  <2> QED
    BY <2>1, EntryTypes
<1>2. ~removed => \A r \in ToSet(restaurants) : DealPinned(r)
  BY DEF ListedDealIsPinned, DealPinned
<1> SUFFICES ASSUME ~removed', NEW r \in ToSet(restaurants') PROVE DealPinned(r)'
  BY DEF ListedDealIsPinned, DealPinned
<1>3. ASSUME NEW k \in Ids, Observe(k) PROVE DealPinned(r)'
  <2>1. ~removed
    BY <1>3, ObservedList
  <2>2. CASE /\ Window[k] \in Titles
             /\ ToSet(restaurants') =
                    {s \in ToSet(restaurants) : s.id # k} \cup {[id |-> k, title |-> Window[k]]}
             /\ ChildAdded(k) \/ ChildChanged(k)
    <3>1. PICK t \in Titles : t = Window[k]
      BY <2>2
    <3>2. AddPin(k, t) \/ ReplacePin(k, t)
      BY <2>2, <3>1 DEF ChildAdded, ChildChanged
    <3>3. (r \in ToSet(restaurants) /\ r.id # k) \/ r = [id |-> k, title |-> t]
      BY <2>2, <3>1
    <3>4. CASE r \in ToSet(restaurants) /\ r.id # k
      BY <1>1, <1>2, <2>1, <3>2, <3>4, PinnedAdd DEF PartsInv
    <3>5. CASE r = [id |-> k, title |-> t]
      <4>1. r.id = k /\ r.title = t
        BY <3>5
      <4> QED
        BY <3>2, <4>1, PinnedAdd DEF PartsInv
    <3> QED
      BY <3>3, <3>4, <3>5
  <2>3. CASE restaurants' = restaurants /\ UNCHANGED <<pinVars, noteVars>>
    BY <1>1, <1>2, <2>1, <2>3, PinnedAnswer DEF PartsInv
  <2> QED
    BY <1>3, <2>2, <2>3, ObservedList
<1>4. CASE \A k \in Ids : ~Observe(k)
  <2>1. restaurants' = restaurants /\ removed' = removed /\ [PinsStep]_pinVars
    BY <1>4, Unobserved
  <2> QED
    BY <1>1, <1>2, <2>1, PinnedAnswer DEF PartsInv
<1> QED
  BY <1>3, <1>4

\* No step of the controller disturbs its invariant.
LEMMA ControllerStep == ControllerInv /\ [Next]_vars => ControllerInv'
BY PartsStep, GrantedStep, ListingStep, NotesMatchStep, PinnedStep DEF ControllerInv

\* Nothing is listed, accepted or asked for at the start.
LEMMA ControllerStart == Init => ControllerInv
<1> SUFFICES ASSUME Init PROVE ControllerInv
  OBVIOUS
<1>1. CountInv /\ PinsInv /\ NotesInv /\ CameraInv
  BY CountStart, PinsInvStart, NotesInvStart, CameraStart DEF Init
<1>2. FeedTypes
  BY DEF Init, FeedTypes, Children
<1>3. restaurants = <<>> /\ ToSet(restaurants) = {} /\ DOMAIN restaurants = {}
  BY DEF Init, PanelInit, ToSet
<1>4. view = [k \in Ids |-> Absent] /\ lastNote = [k \in Ids |-> NoNote]
  BY DEF Init, NotesInit
<1>5. ListingMatchesReports
  BY <1>3, <1>4, MainViewControllerAssumption DEF ListingMatchesReports
<1>6. AcceptedIsGranted /\ NotesMatchListing
  BY <1>4 DEF AcceptedIsGranted, NotesMatchListing
<1>7. ListedDealIsPinned
  BY <1>3 DEF ListedDealIsPinned
<1> QED
  BY <1>1, <1>2, <1>5, <1>6, <1>7 DEF ControllerInv, PartsInv

\* Until a listed restaurant is removed, the list holds every complete child that was
\* reported, once and with its latest deal, and nothing else, in whatever order the
\* observers of childAdded, childChanged and childRemoved are called.
THEOREM ControllerListing == Spec => []ListingMatchesReports
<1>1. ControllerInv => ListingMatchesReports
  BY DEF ControllerInv
<1> QED
  BY <1>1, ControllerStart, ControllerStep, PTL DEF Spec

\* What the list shows is what notifyFor announced and what addAnnotationFor puts on the
\* map, though list, notifications and pins are updated by different callbacks.
THEOREM ControllerDeals == Spec => []ListedDealsAreOut
<1>1. ControllerInv => ListedDealsAreOut
  BY DEF ControllerInv, ListedDealsAreOut
<1> QED
  BY <1>1, ControllerStart, ControllerStep, PTL DEF Spec

\* Whatever the database sends while the carousel scrolls and the panel moves, the
\* variables keep their types, restaurants[page] in updateRestaurantLocation is a
\* restaurant of the list, and the settled camera fits the panel unless the map view
\* itself followed the user.
THEOREM ControllerPanel == Spec => [](TypeOK /\ PageNamesRestaurant /\ SettledCameraFitsPanel)
<1>1. ControllerInv => TypeOK /\ PageNamesRestaurant /\ SettledCameraFitsPanel
  BY CameraFacts DEF ControllerInv, PartsInv, CountInv, NotesInv, FeedTypes, TypeOK
<1> QED
  BY <1>1, ControllerStart, ControllerStep, PTL DEF Spec

-----------------------------------------------------------------------------
(* The application: controller, views and layout share no variable, so each  *)
(* keeps its invariant whichever of them moves.                              *)

AppInv == PartsInv /\ ViewsInv /\ LayoutInv

\* A scenario moves one part the way the part allows and leaves the others alone.
LEMMA AppStep == AppInv /\ [AllNext]_allVars => AppInv'
<1> SUFFICES ASSUME AppInv, [AllNext]_allVars PROVE AppInv'
  OBVIOUS
<1>1. ASSUME UNCHANGED vars PROVE PartsInv'
  BY <1>1, PartsStep DEF AppInv
<1>2. ASSUME UNCHANGED viewVars PROVE ViewsInv'
  BY <1>2, ViewsStep DEF AppInv
<1>3. ASSUME UNCHANGED layoutVars PROVE LayoutInv'
  BY <1>3, LayoutStep DEF AppInv
<1>4. CASE Next /\ UNCHANGED <<viewVars, layoutVars>>
  BY <1>2, <1>3, <1>4, PartsStep DEF AppInv
<1>5. CASE PanelNext /\ UNCHANGED <<feedVars, pinVars, noteVars, viewVars, layoutVars>>
  <2>1. CameraInv' /\ FeedTypes'
    BY <1>5, CameraStep DEF AppInv, PartsInv, feedVars, FeedTypes
  <2>2. CountInv' /\ NotesInv'
    BY <1>5, CountStep, NotesInvStep DEF AppInv, PartsInv
  <2>3. PinsInv'
    BY <1>5, <2>2, PinsInvStep DEF AppInv, PartsInv, CountInv
  <2> QED
    BY <1>2, <1>3, <1>5, <2>1, <2>2, <2>3 DEF AppInv, PartsInv
<1>6. CASE NotesNext /\ UNCHANGED <<feedVars, pinVars, panelVars, viewVars, layoutVars>>
  <2>1. CameraInv' /\ FeedTypes'
    BY <1>6, CameraStep DEF AppInv, PartsInv, feedVars, FeedTypes
  <2>2. CountInv' /\ NotesInv'
    BY <1>6, CountStep, NotesInvStep DEF AppInv, PartsInv
  <2>3. PinsInv'
    BY <1>6, <2>2, PinsInvStep DEF AppInv, PartsInv, CountInv
  <2> QED
    BY <1>2, <1>3, <1>6, <2>1, <2>2, <2>3 DEF AppInv, PartsInv
<1>7. CASE ViewsNext /\ UNCHANGED <<vars, layoutVars>>
  BY <1>1, <1>3, <1>7, ViewsStep DEF AppInv
<1>8. CASE LayoutNext /\ UNCHANGED <<vars, viewVars>>
  BY <1>1, <1>2, <1>8, LayoutStep DEF AppInv
<1>9. CASE UNCHANGED allVars
  BY <1>1, <1>2, <1>3, <1>9 DEF allVars, AppInv
<1> QED
  BY <1>4, <1>5, <1>6, <1>7, <1>8, <1>9 DEF AllNext, Next

\* In the whole application every variable keeps its type, recycled views show the
\* restaurant or the pin they stand for, and the carousel rests on an item.
THEOREM AppCorrect == AllSpec => [](AppTypeOK /\ ViewsAreCurrent /\ CarouselIsCentered)
<1>1. AllInit => AppInv
  BY ControllerStart, ViewsStart, LayoutStart DEF AllInit, AppInv, ControllerInv
<1>2. AppInv => AppTypeOK /\ ViewsAreCurrent /\ CarouselIsCentered
  <2>1. PartsInv => TypeOK
    BY CameraFacts DEF PartsInv, CountInv, NotesInv, FeedTypes, TypeOK
  <2> QED
    BY <2>1, RestsCentered DEF AppInv, AppTypeOK, ViewsInv, LayoutInv, LaidOut
<1> QED
  BY <1>1, <1>2, AppStep, PTL DEF AllSpec
=============================================================================
