----------------------------- MODULE UserCursor -----------------------------
(***************************************************************************)
(* What leveldb::Iterator promises (include/leveldb/iterator.h): a cursor  *)
(* over a fixed map of user keys, moved by five operations, that may fail  *)
(* at any time but then says so from there on.                             *)
(***************************************************************************)
EXTENDS SSTable

CONSTANT UserKeys       \* the keys one may seek

VARIABLES
    view,     \* the map iterated over, as a function on its keys
    at,       \* the set of the key the cursor is at; empty if not valid
    shown,    \* the set of the value it shows
    op,       \* the operation performed last
    failed    \* status() is not ok

cursorVars == <<view, at, shown, op, failed>>

Operation == [name : {"first", "last", "next", "prev"}] \cup [name : {"seek"}, target : UserKeys]
Closed == [name |-> "closed"]
Opened == [name |-> "open"]

\* The least or greatest of a set of keys, as a set.
Least(S) == {k \in S : \A j \in S : ~BytesLess(j, k)}
Greatest(S) == {k \in S : \A j \in S : ~BytesLess(k, j)}

\* Where an operation leaves a cursor that is at k.
Moved(o, k) ==
    LET keys == DOMAIN view
    IN  CASE o.name = "first" -> Least(keys)
          [] o.name = "last"  -> Greatest(keys)
          [] o.name = "seek"  -> Least({j \in keys : ~BytesLess(j, o.target)})
          [] o.name = "next"  -> Least({j \in keys : \A i \in k : BytesLess(i, j)})
          [] o.name = "prev"  -> Greatest({j \in keys : \A i \in k : BytesLess(j, i)})

CursorInit == op = Closed /\ at = {} /\ shown = {} /\ ~failed

\* Until it is opened there is no cursor, and the map may change.
Prepare == op = Closed /\ UNCHANGED <<at, shown, op, failed>>

Open == op = Closed /\ op' = Opened /\ at' = {} /\ shown' = {}

\* An operation that does what it should; next and prev need a valid cursor.
Move ==
    \E o \in Operation :
        /\ op # Closed
        /\ o.name \in {"next", "prev"} => at # {}
        /\ op' = o
        /\ at' = Moved(o, at)
        /\ shown' = {view[k] : k \in at'}
        /\ UNCHANGED <<view, failed>>

\* An operation that meets a read error, or follows one.
Fail == op # Closed /\ failed' /\ op' \in Operation /\ UNCHANGED view

CursorSpec == CursorInit /\ [][Prepare \/ Open \/ Move \/ Fail]_cursorVars
=============================================================================
