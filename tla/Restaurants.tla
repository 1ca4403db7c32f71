------------------------------ MODULE Restaurants ------------------------------
(***************************************************************************)
(* The struct Restaurant and the values its fields take.  Name, address    *)
(* and deal description are never compared or branched on, so they travel  *)
(* with the id (who) and the title (which deal); a title stands for all    *)
(* the texts of one version of a deal.                                     *)
(***************************************************************************)

CONSTANTS
    Ids,      \* the values of the field "id"
    Titles,   \* the values of dealTitle, NoTitle included
    NoTitle   \* dealTitle = nil

Restaurant == [id : Ids, title : Titles]
=============================================================================
