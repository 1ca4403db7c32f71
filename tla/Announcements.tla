----------------------------- MODULE Announcements -----------------------------
(***************************************************************************)
(* What the deal notifications promise, without notification centre,       *)
(* triggers or identifiers: for each restaurant there is one announcement  *)
(* in force, a newer one supersedes it, and what the user gets to see is   *)
(* always the one in force.  Nothing outdated is ever shown, and nothing   *)
(* in force stays unshown.                                                 *)
(***************************************************************************)
EXTENDS Naturals

CONSTANTS Ids, Bodies, NoNote

VARIABLES said, heard

Note == [serial : Nat \ {0}, body : Bodies]

Serial(note) == IF note = NoNote THEN 0 ELSE note.serial

AnnouncementsInit ==
    /\ said = [id \in Ids |-> NoNote]
    /\ heard = [id \in Ids |-> NoNote]

Say(id, body) ==
    /\ said' = [said EXCEPT ![id] = [serial |-> Serial(said[id]) + 1, body |-> body]]
    /\ UNCHANGED heard

Hear(id) ==
    /\ heard[id] # said[id]
    /\ heard' = [heard EXCEPT ![id] = said[id]]
    /\ UNCHANGED said

AnnouncementsNext ==
    \E id \in Ids : Hear(id) \/ \E body \in Bodies : Say(id, body)

AnnouncementsSafety == AnnouncementsInit /\ [][AnnouncementsNext]_<<said, heard>>

AnnouncementsSpec ==
    AnnouncementsSafety /\ \A id \in Ids : WF_<<said, heard>>(Hear(id))
=============================================================================
