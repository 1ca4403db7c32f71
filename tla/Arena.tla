------------------------------- MODULE Arena --------------------------------
(***************************************************************************)
(* The arena of a memtable (util/arena.h, util/arena.cc): small requests   *)
(* are cut from the current block, large ones get a block of their own.    *)
(* An address is a block and an offset; blocks start aligned.              *)
(***************************************************************************)
EXTENDS Integers, Sequences

CONSTANTS
    BlockSize,      \* kBlockSize: 4096
    Align,          \* 8, or the size of a pointer
    Requests,       \* sizes that are asked for
    MaxRequests     \* bound: allocations

\* No request is empty (the assertion at arena.h:56).
ASSUME ArenaAssumption ==
    /\ BlockSize \in Nat
    /\ Align \in Nat \ {0}
    /\ Requests \subseteq Nat \ {0}

VARIABLES
    blocks,         \* sizes of the blocks
    allocBlock,     \* the block and the offset of alloc_ptr_
    allocOffset,
    remaining,      \* alloc_bytes_remaining_
    given           \* what was handed out: [block, offset, bytes, aligned]

arenaVars == <<blocks, allocBlock, allocOffset, remaining, given>>

ArenaInit == blocks = <<>> /\ allocBlock = 0 /\ allocOffset = 0 /\ remaining = 0 /\ given = <<>>

Give(block, offset, bytes, aligned) ==
    given' = Append(given, [block |-> block, offset |-> offset, bytes |-> bytes, aligned |-> aligned])

\* From the current block, behind slop bytes of padding.
TakeFromBlock(bytes, slop, aligned) ==
    /\ Give(allocBlock, allocOffset + slop, bytes, aligned)
    /\ allocOffset' = allocOffset + slop + bytes
    /\ remaining' = remaining - (slop + bytes)
    /\ UNCHANGED <<blocks, allocBlock>>

\* A request of more than a quarter of a block leaves the current block as it is;
\* otherwise what is left of the current block is wasted.
AllocateFallback(bytes, aligned) ==
    /\ Give(Len(blocks) + 1, 0, bytes, aligned)
    /\ IF bytes > BlockSize \div 4
       THEN /\ blocks' = Append(blocks, bytes)
            /\ UNCHANGED <<allocBlock, allocOffset, remaining>>
       ELSE /\ blocks' = Append(blocks, BlockSize) /\ allocBlock' = Len(blocks) + 1
            /\ allocOffset' = bytes /\ remaining' = BlockSize - bytes

Allocate(bytes) ==
    /\ Len(given) < MaxRequests
    /\ IF bytes <= remaining THEN TakeFromBlock(bytes, 0, FALSE) ELSE AllocateFallback(bytes, FALSE)

Slop == IF allocOffset % Align = 0 THEN 0 ELSE Align - (allocOffset % Align)
\* Mutant: the padding is not counted.
AllocateAlignedTight(bytes) ==
    /\ Len(given) < MaxRequests
    /\ IF bytes <= remaining THEN TakeFromBlock(bytes, Slop, TRUE) ELSE AllocateFallback(bytes, TRUE)

AllocateAligned(bytes) ==
    /\ Len(given) < MaxRequests
    /\ IF bytes + Slop <= remaining THEN TakeFromBlock(bytes, Slop, TRUE) ELSE AllocateFallback(bytes, TRUE)

ArenaNext == \E bytes \in Requests : Allocate(bytes) \/ AllocateAligned(bytes)

ArenaSpec == ArenaInit /\ [][ArenaNext]_arenaVars

\* Nothing that was handed out overlaps anything else or ends behind its block, and
\* a node of the skip list is aligned (the assertion at arena.cc:57), whatever large
\* requests came between two small ones.
AllocationsAreApart ==
    \A i \in DOMAIN given :
        LET a == given[i]
        IN  /\ a.block \in DOMAIN blocks /\ a.offset + a.bytes <= blocks[a.block]
            /\ a.aligned => a.offset % Align = 0
            /\ \A j \in 1 .. i - 1 :
                  given[j].block = a.block => \/ given[j].offset + given[j].bytes <= a.offset
                                              \/ a.offset + a.bytes <= given[j].offset
=============================================================================
