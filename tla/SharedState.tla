----------------------------- MODULE SharedState -----------------------------
(***************************************************************************)
(* What the threads of leveldb share beside DBImpl's own state: the        *)
(* memtable and its arena, the table cache, and the environment's queue of *)
(* background work and file locks.  None of them touches another: a        *)
(* behaviour exercises one of them.                                        *)
(***************************************************************************)
EXTENDS MemTable, Arena, TableCache, PosixEnv

VARIABLE used   \* the one that is exercised

MCHash == [f \in Files |-> f]

sharedVars == <<memVars, arenaVars, cacheVars, envVars, used>>

SharedInit ==
    /\ MemInit /\ ArenaInit /\ CacheInit /\ EnvInit
    /\ used \in {"memtable", "arena", "cache", "env"}

SharedNext ==
    \/ used = "memtable" /\ MemNext /\ UNCHANGED <<arenaVars, cacheVars, envVars, used>>
    \/ used = "arena" /\ ArenaNext /\ UNCHANGED <<memVars, cacheVars, envVars, used>>
    \/ used = "cache" /\ CacheNext /\ UNCHANGED <<memVars, arenaVars, envVars, used>>
    \/ used = "env" /\ EnvNext /\ UNCHANGED <<memVars, arenaVars, cacheVars, used>>

SharedSpec ==
    /\ SharedInit /\ [][SharedNext]_sharedVars
    /\ WF_sharedVars(BGStep /\ UNCHANGED <<memVars, arenaVars, cacheVars, used>>)
=============================================================================
