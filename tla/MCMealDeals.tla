---------------------------- MODULE MCMealDeals -----------------------------
(***************************************************************************)
(* The application for TLC: the controller, the recycled views and the     *)
(* layout of the carousel.  A behaviour exercises one of                   *)
(*   feed      database events, pins and notifications,                    *)
(*   user      the same on a smaller scale, with the user's actions,       *)
(*   panel     the panel and its camera under any list,                    *)
(*   notes     the notifications under any change,                         *)
(*   views     cells and pin views,                                        *)
(*   carousel  the layout.                                                 *)
(***************************************************************************)
EXTENDS MainViewController, ReusableViews, CenteredFlowLayout

CONSTANT Scenarios  \* the ones of the run

VARIABLE scenario

allVars == <<vars, viewVars, layoutVars, scenario>>

\* Bounds of the scenarios that would be too large with those of "feed".
SmallIds == {1, 2}
AnyTitle == CHOOSE t \in Titles : t # NoTitle
SmallFeed ==
    /\ writes <= 2
    /\ \A k \in Ids \ SmallIds : db[k] = Absent
    /\ \A k \in SmallIds : db[k] \in Children \ (Titles \ {AnyTitle})
    /\ Len(requests) <= 2 /\ \A i \in DOMAIN requests : requests[i].due <= 2
    /\ authorization = "undetermined"  \* the user leaves the prompt open
SmallList(list) == \A i \in DOMAIN list : list[i].id \in SmallIds
SmallPanel == \A i \in DOMAIN restaurants : restaurants[i].title = AnyTitle

AllInit ==
    /\ Init /\ ViewsInit /\ LayoutInit /\ scenario \in Scenarios
    /\ scenario # "carousel" => \A a \in Axes, n \in ItemLengths : n <= itemSize[a]

AllNext ==
    /\ UNCHANGED scenario
    /\ \/ scenario = "feed" /\ FeedNext /\ UNCHANGED <<viewVars, layoutVars>>
       \/ scenario = "user" /\ Next /\ SmallFeed' /\ UNCHANGED <<viewVars, layoutVars>>
       \/ /\ scenario = "panel" /\ PanelNext /\ SmallPanel'
          /\ UNCHANGED <<feedVars, pinVars, noteVars, viewVars, layoutVars>>
       \/ /\ scenario = "notes" /\ NotesNext /\ \A k \in Ids \ SmallIds : lastNote'[k] = NoNote
          /\ UNCHANGED <<feedVars, pinVars, panelVars, viewVars, layoutVars>>
       \/ scenario = "views" /\ ViewsNext /\ SmallList(listing') /\ UNCHANGED <<vars, layoutVars>>
       \/ scenario = "carousel" /\ LayoutNext /\ UNCHANGED <<vars, viewVars>>

AllSpec == AllInit /\ [][AllNext]_allVars

Otherwise == UNCHANGED <<viewVars, layoutVars, scenario>>
PinsAlone(A) == scenario = "feed" /\ A /\ UNCHANGED <<feedVars, noteVars, panelVars>> /\ Otherwise
PanelAlone(A) == scenario = "panel" /\ A /\ UNCHANGED <<feedVars, pinVars, noteVars>> /\ Otherwise
NotesAlone(A) ==
    scenario \in {"feed", "notes"} /\ A /\ UNCHANGED <<feedVars, pinVars, panelVars>> /\ Otherwise

\* With FeedFairness, PanelFairness and NotesFairness.
FairSpec ==
    /\ AllSpec
    /\ \A k \in Ids : /\ WF_allVars(scenario = "feed" /\ Observe(k) /\ Otherwise)
                      /\ WF_allVars(NotesAlone(WillPresent(k)))
    /\ \A j \in 1..MaxRequests : /\ WF_allVars(PinsAlone(Geocode(j)))
                                 /\ WF_allVars(PinsAlone(Found(j) \/ NotFound(j)))
    /\ WF_allVars(PinsAlone(Tick))
    /\ WF_allVars(PanelAlone(AnimationEnds))
    /\ WF_allVars(PanelAlone(ScrollEnds))
    /\ WF_allVars(PanelAlone(\E i \in 1..MaxLookups : LookupFound(i) \/ LookupFailed(i)))

\* The types of the controller, the views and the layout.
AppTypeOK == TypeOK /\ ViewsTypeOK /\ LayoutTypeOK
=============================================================================
