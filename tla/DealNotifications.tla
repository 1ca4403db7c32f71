--------------------------- MODULE DealNotifications ---------------------------
(***************************************************************************)
(* Notifications about changed deals: MainViewController.notifyFor, the    *)
(* presentation handler of UNUserNotificationCenterDelegate, and the       *)
(* authorization that AppDelegate asks for at launch.                      *)
(*                                                                         *)
(* notifyFor files a request under the restaurant's id; the notification   *)
(* centre keeps one pending request per identifier, so a second change     *)
(* within the second before the trigger fires replaces the first.  The     *)
(* centre refuses requests until the user has granted authorization; the   *)
(* completion block only prints that error.                                *)
(***************************************************************************)
EXTENDS Restaurants, Naturals

CONSTANTS
    Placeholder,  \* "Deal coming soon!"
    NoNote,       \* no notification
    MaxNotes      \* bound: accepted requests per restaurant

ASSUME DealNotificationsAssumption == MaxNotes \in Nat

VARIABLES
    authorization,  \* the user's answer to requestAuthorization
    pendingNote,    \* requests in the notification centre waiting for their trigger
    lastNote,       \* history: the last request the centre accepted, per id
    shownNote       \* the last notification presented, per id

noteVars == <<authorization, pendingNote, lastNote, shownNote>>

Bodies == (Titles \ {NoTitle}) \cup {Placeholder}

\* Mutant: a missing deal has no text to stand for it.
BodyWithoutPlaceholder(title) == title

\* content.body = restaurant.dealTitle ?? "Deal coming soon!"
Body(title) == IF title = NoTitle THEN Placeholder ELSE title

Note == [serial : Nat \ {0}, body : Bodies]

ASSUME NoNoteAssumption == NoNote \notin Note

Serial(note) == IF note = NoNote THEN 0 ELSE note.serial

\* Types of the variables.
NotesTypeOK ==
    /\ authorization \in {"undetermined", "granted", "denied"}
    /\ pendingNote \in [Ids -> Note \cup {NoNote}]
    /\ lastNote \in [Ids -> Note \cup {NoNote}]
    /\ shownNote \in [Ids -> Note \cup {NoNote}]

NotesInit ==
    /\ authorization = "undetermined"
    /\ pendingNote = [id \in Ids |-> NoNote]
    /\ lastNote = [id \in Ids |-> NoNote]
    /\ shownNote = [id \in Ids |-> NoNote]

-----------------------------------------------------------------------------
\* The note that the next accepted request for id carries.
NextNote(id, title) == [serial |-> Serial(lastNote[id]) + 1, body |-> Body(title)]

\* Mutant: a request whose identifier is taken does not replace the pending one.
NotifyForKeepFirst(id, title) ==
    IF authorization = "granted"
    THEN /\ Serial(lastNote[id]) < MaxNotes
         /\ lastNote' = [lastNote EXCEPT ![id] = NextNote(id, title)]
         /\ pendingNote' = IF pendingNote[id] = NoNote
                           THEN [pendingNote EXCEPT ![id] = NextNote(id, title)]
                           ELSE pendingNote
         /\ UNCHANGED <<authorization, shownNote>>
    ELSE UNCHANGED noteVars

\* notifyFor(restaurant:): center.add(request) under the identifier id.
NotifyFor(id, title) ==
    IF authorization = "granted"
    THEN /\ Serial(lastNote[id]) < MaxNotes
         /\ lastNote' = [lastNote EXCEPT ![id] = NextNote(id, title)]
         /\ pendingNote' = [pendingNote EXCEPT ![id] = NextNote(id, title)]
         /\ UNCHANGED <<authorization, shownNote>>
    ELSE UNCHANGED noteVars

\* The trigger fires one second after the request was filed and does not
\* repeat; willPresent answers .alert, so the notification is presented.
WillPresent(id) ==
    /\ pendingNote[id] # NoNote
    /\ shownNote' = [shownNote EXCEPT ![id] = pendingNote[id]]
    /\ pendingNote' = [pendingNote EXCEPT ![id] = NoNote]
    /\ UNCHANGED <<authorization, lastNote>>

\* The completion of requestAuthorization: granted or not, and a print.
AnswerAuthorization ==
    /\ authorization = "undetermined"
    /\ authorization' \in {"granted", "denied"}
    /\ UNCHANGED <<pendingNote, lastNote, shownNote>>

\* What happens by itself, without an event from the database.
NotesStep == AnswerAuthorization \/ \E id \in Ids : WillPresent(id)

-----------------------------------------------------------------------------
NotesNext == NotesStep \/ \E id \in Ids, title \in Titles : NotifyFor(id, title)

\* Triggers fire; the user need not answer the authorization prompt.
NotesFairness == \A id \in Ids : WF_noteVars(WillPresent(id))

NotesSafety == NotesInit /\ [][NotesNext]_noteVars

NotesSpec == NotesSafety /\ NotesFairness

-----------------------------------------------------------------------------
(* Properties. *)

\* What waits in the notification centre is the newest accepted change of the
\* restaurant, and when nothing waits the newest one has been presented: no
\* sequence of quick changes leaves the user with an outdated deal.
NewestIsPendingOrShown ==
    \A id \in Ids :
        /\ pendingNote[id] # NoNote =>
              pendingNote[id] = lastNote[id] /\ Serial(shownNote[id]) < Serial(lastNote[id])
        /\ pendingNote[id] = NoNote => shownNote[id] = lastNote[id]

Abstract == INSTANCE Announcements WITH said <- lastNote, heard <- shownNote

\* notifyFor and the notification centre implement the announcements: the newest
\* accepted change of each restaurant is presented in the end, an outdated one never.
ImplementsAnnouncements == Abstract!AnnouncementsSpec
=============================================================================
