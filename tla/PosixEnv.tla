------------------------------ MODULE PosixEnv ------------------------------
(***************************************************************************)
(* What leveldb asks of its environment and util/env_posix.cc does with    *)
(* threads and locks: Schedule and its one background thread, and LockFile *)
(* and UnlockFile on the LOCK file of a database that two processes, and   *)
(* two threads of one, want to open.                                       *)
(***************************************************************************)
EXTENDS Integers, Sequences, FiniteSets

CONSTANTS
    Processes,
    Openers,        \* threads of a process that open the database
    MaxItems,       \* bound: calls of Schedule
    MaxOpens        \* bound: calls of LockFile

Nobody == "nobody"

ASSUME PosixEnvAssumption ==
    /\ MaxItems \in Nat /\ MaxOpens \in Nat
    /\ Nobody \notin Processes

Ops == Processes \X Openers

VARIABLES
    scheduled,      \* items given to Schedule so far, numbered from 1
    queue,          \* queue_
    bg,             \* the background thread: not started, ready for the lock, waiting, or running
    running,        \* the item it runs
    ran,            \* the items it has run
    lockPc,         \* what each opener does
    lockedFiles,    \* the processes whose locked_files_ has the LOCK file
    owner,          \* the process the kernel's lock belongs to
    dropped,        \* whether closing a descriptor took the lock from a holder
    opens           \* calls of LockFile so far

bgVars == <<scheduled, queue, bg, running, ran>>
lockVars == <<lockPc, lockedFiles, owner, dropped, opens>>
envVars == <<bgVars, lockVars>>

EnvInit ==
    /\ scheduled = 0 /\ queue = <<>> /\ bg = "none" /\ running = 0 /\ ran = <<>>
    /\ lockPc = [o \in Ops |-> "idle"] /\ lockedFiles = {} /\ owner = Nobody
    /\ dropped = FALSE /\ opens = 0

-----------------------------------------------------------------------------
\* Mutant: a waiting thread is not signalled.
ScheduleSilently ==
    /\ scheduled < MaxItems
    /\ scheduled' = scheduled + 1
    /\ bg' = IF bg = "none" THEN "ready" ELSE bg
    /\ queue' = Append(queue, scheduled + 1)
    /\ UNCHANGED <<running, ran, lockVars>>

\* Schedule, by any thread, the background thread's own item included: the thread is
\* started on the first call and signalled when the queue was empty.
Schedule ==
    /\ scheduled < MaxItems
    /\ scheduled' = scheduled + 1
    /\ bg' = CASE bg = "none"                     -> "ready"
               [] bg = "waiting" /\ queue = <<>>  -> "ready"
               [] OTHER                           -> bg
    /\ queue' = Append(queue, scheduled + 1)
    /\ UNCHANGED <<running, ran, lockVars>>

\* BGThread: with the lock, it waits or takes the front item and runs it without.
BGWait ==
    /\ bg = "ready" /\ queue = <<>>
    /\ bg' = "waiting"
    /\ UNCHANGED <<scheduled, queue, running, ran, lockVars>>

BGTake ==
    /\ bg = "ready" /\ queue # <<>>
    /\ bg' = "running" /\ running' = Head(queue) /\ queue' = Tail(queue)
    /\ UNCHANGED <<scheduled, ran, lockVars>>
BGReturn ==
    /\ bg = "running"
    /\ bg' = "ready" /\ ran' = Append(ran, running) /\ running' = 0
    /\ UNCHANGED <<scheduled, queue, lockVars>>
\* pthread_cond_wait may return without a signal.
SpuriousWakeup ==
    /\ bg = "waiting" /\ bg' = "ready"
    /\ UNCHANGED <<scheduled, queue, running, ran, lockVars>>

-----------------------------------------------------------------------------
Step(o, pc) == lockPc' = [lockPc EXCEPT ![o] = pc]

\* close: whichever descriptor it is, the process loses its fcntl lock on the file.
CloseFile(o) ==
    /\ owner' = IF owner = o[1] THEN Nobody ELSE owner
    /\ dropped' = (dropped \/ (owner = o[1] /\ \E h \in Ops \ {o} : h[1] = o[1] /\ lockPc[h] = "holds"))

\* Mutant: the set of the process is not asked.
InsertLockUnasked(o) ==
    /\ lockPc[o] = "idle" /\ opens < MaxOpens
    /\ opens' = opens + 1
    /\ Step(o, "inserted") /\ lockedFiles' = lockedFiles \cup {o[1]}
    /\ UNCHANGED <<owner, dropped, bgVars>>

\* LockFile: the file is opened and entered in the process's set.
InsertLock(o) ==
    /\ lockPc[o] = "idle" /\ opens < MaxOpens
    /\ opens' = opens + 1
    /\ IF o[1] \in lockedFiles
       THEN CloseFile(o) /\ UNCHANGED <<lockPc, lockedFiles>>
       ELSE /\ Step(o, "inserted") /\ lockedFiles' = lockedFiles \cup {o[1]}
            /\ UNCHANGED <<owner, dropped>>
    /\ UNCHANGED bgVars
\* Then the kernel's lock is taken; when another process has it, all is undone.
TakeLock(o) ==
    /\ lockPc[o] = "inserted" /\ owner \in {Nobody, o[1]}
    /\ Step(o, "holds") /\ owner' = o[1]
    /\ UNCHANGED <<lockedFiles, dropped, opens, bgVars>>
TakeLockFails(o) ==
    /\ lockPc[o] = "inserted" /\ owner \notin {Nobody, o[1]}
    /\ Step(o, "idle") /\ lockedFiles' = lockedFiles \ {o[1]}
    /\ CloseFile(o)
    /\ UNCHANGED <<opens, bgVars>>

\* UnlockFile: the kernel's lock is released, the name leaves the set, and then the
\* descriptor is closed.
ReleaseLock(o) ==
    /\ lockPc[o] = "holds"
    /\ Step(o, "released") /\ owner' = (IF owner = o[1] THEN Nobody ELSE owner)
    /\ UNCHANGED <<lockedFiles, dropped, opens, bgVars>>
RemoveLock(o) ==
    /\ lockPc[o] = "released"
    /\ Step(o, "removed") /\ lockedFiles' = lockedFiles \ {o[1]}
    /\ UNCHANGED <<owner, dropped, opens, bgVars>>
CloseLock(o) ==
    /\ lockPc[o] = "removed"
    /\ Step(o, "idle") /\ CloseFile(o)
    /\ UNCHANGED <<lockedFiles, opens, bgVars>>

BGStep == BGWait \/ BGTake \/ BGReturn
LockStep(o) ==
    InsertLock(o) \/ TakeLock(o) \/ TakeLockFails(o) \/ ReleaseLock(o) \/ RemoveLock(o) \/ CloseLock(o)
EnvNext == Schedule \/ BGStep \/ SpuriousWakeup \/ \E o \in Ops : LockStep(o)

\* The background thread gets to run; nothing else has to happen.
EnvSpec == EnvInit /\ [][EnvNext]_envVars /\ WF_envVars(BGStep)

-----------------------------------------------------------------------------
\* Items run one after the other, once each, in the order they were scheduled:
\* DBImpl relies on it for "at most one compaction at a time".
ItemsRunInOrder ==
    /\ ran = [i \in 1 .. Len(ran) |-> i]
    /\ Len(ran) + (IF bg = "running" THEN 1 ELSE 0) + Len(queue) = scheduled

\* No wake-up is lost: whatever was scheduled is run.
ItemsAreRun == \A i \in 1 .. MaxItems : scheduled >= i ~> Len(ran) >= i

\* The background thread does all of its work, each item once and in turn.
WorkIsDone == []ItemsRunInOrder /\ ItemsAreRun

\* At most one opener of a process holds the database, and holders in two processes
\* at once need a lock that a close() in the same process took away
\* (env_posix.cc:273-275: fcntl "does not provide any protection against multiple
\* uses from the same process", nor does a lock survive them).
LockExcludes ==
    \A a, b \in Ops :
        a # b /\ lockPc[a] = "holds" /\ lockPc[b] = "holds" => a[1] # b[1] /\ dropped
=============================================================================
