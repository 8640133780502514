------------------------------ MODULE FramePool -----------------------------
(***************************************************************************)
(* FramePool (include/rtos/pool.hpp): fixed blocks for coroutine frames,   *)
(* the free ones chained through their own storage.  allocate() and        *)
(* deallocate() are critical sections; free_count() is not, so a task that *)
(* preempts its caller runs between two of its steps.                      *)
(***************************************************************************)
EXTENDS Integers, FiniteSets

CONSTANTS
    BlockCount,   \* RTOS_FRAME_BLOCK_COUNT
    PREEMPTIVE,   \* RTOS_PREEMPTIVE_WAKE: other tasks create and destroy
                  \* frames while free_count() runs
    MaxCount      \* where the model stops a free_count() that is led astray

ASSUME PoolAssumption ==
    /\ BlockCount \in Nat \ {0}
    /\ PREEMPTIVE \in BOOLEAN
    /\ MaxCount \in Nat /\ MaxCount >= BlockCount

Blocks == 1 .. BlockCount    \* blocks_
Null == 0                    \* nullptr
FrameData == -1              \* what a block holds while a frame lives in it

VARIABLES
    free,          \* free_
    link,          \* Block::next, overwritten by the frame in the block
    initialized,   \* initialized_
    frames,        \* history: the blocks that hold a frame
    counting,      \* free_count() is running
    cursor,        \* b in free_count()
    counted        \* n in free_count()

poolVars == <<free, link, initialized, frames, counting, cursor, counted>>

PoolInit ==
    /\ free = Null
    /\ link = [b \in Blocks |-> FrameData]
    /\ initialized = FALSE
    /\ frames = {}
    /\ counting = FALSE
    /\ cursor = Null
    /\ counted = 0

\* The block that the next allocate() takes
first == IF initialized THEN free ELSE 1

\* Mutant: free_ stays at the block that is given away
allocateKeepsHead ==
    LET chain == IF initialized THEN link
                 ELSE [b \in Blocks |-> IF b = BlockCount THEN Null ELSE b + 1]
    IN  /\ initialized' = TRUE
        /\ first # Null
        /\ free' = first
        /\ link' = [chain EXCEPT ![first] = FrameData]
        /\ frames' = frames \union {first}

\* allocate: the first call chains the blocks in their order.  Without a block
\* it returns nullptr (as it does for a frame that is too large), and then the
\* task or Async is invalid, or the hook traps.
allocate ==
    LET chain == IF initialized THEN link
                 ELSE [b \in Blocks |-> IF b = BlockCount THEN Null ELSE b + 1]
    IN  /\ initialized' = TRUE
        /\ \/ /\ first # Null
              /\ free' = chain[first]
              /\ link' = [chain EXCEPT ![first] = FrameData]
              /\ frames' = frames \union {first}
           \/ /\ first = Null
              /\ UNCHANGED <<free, link, frames>>

\* Mutant: the rest of the chain is dropped
deallocateDropsChain(b) ==
    /\ b \in frames
    /\ link' = [link EXCEPT ![b] = Null]
    /\ free' = b
    /\ frames' = frames \ {b}
    /\ UNCHANGED initialized

\* deallocate: a frame is destroyed by the one that owns it.
deallocate(b) ==
    /\ b \in frames
    /\ link' = [link EXCEPT ![b] = free]
    /\ free' = b
    /\ frames' = frames \ {b}
    /\ UNCHANGED initialized

\* Mutant: counting starts at one
BeginCountAtOne ==
    /\ ~counting
    /\ counting' = TRUE
    /\ cursor' = free
    /\ counted' = 1

\* free_count: for (b = free_; b; b = b->next) ++n
BeginCount ==
    /\ ~counting
    /\ counting' = TRUE
    /\ cursor' = free
    /\ counted' = 0

CountOne ==
    /\ counting /\ cursor \in Blocks /\ counted < MaxCount
    /\ cursor' = link[cursor]
    /\ counted' = counted + 1
    /\ UNCHANGED counting

EndCount ==
    /\ counting /\ cursor = Null
    /\ counting' = FALSE
    /\ UNCHANGED <<cursor, counted>>

free_count ==
    /\ BeginCount \/ CountOne \/ EndCount
    /\ UNCHANGED <<free, link, initialized, frames>>

PoolNext ==
    \/ /\ counting => PREEMPTIVE
       /\ allocate \/ \E b \in Blocks : deallocate(b)
       /\ UNCHANGED <<counting, cursor, counted>>
    \/ free_count

PoolSpec == PoolInit /\ [][PoolNext]_poolVars

-----------------------------------------------------------------------------
(* Properties *)

\* The chain leads from free_ through every block that holds no frame, once,
\* and ends: no block is given to two frames, none is lost, and no block with
\* a live frame can be reached.
FreeBlocks == IF initialized THEN Blocks \ frames ELSE {}

IsChain(m, c) ==
    /\ {c[i] : i \in 1 .. m} = FreeBlocks
    /\ \A i, j \in 1 .. m : c[i] = c[j] => i = j
    /\ free = IF m = 0 THEN Null ELSE c[1]
    /\ \A i \in 1 .. m : link[c[i]] = IF i = m THEN Null ELSE c[i + 1]

ChainIntact ==
    \E m \in 0 .. BlockCount : \E c \in [1 .. m -> Blocks] : IsChain(m, c)

\* allocate() takes a block that holds no frame, and fails only when every
\* block holds one.
AllocatesFree ==
    /\ first # Null => first \in Blocks \ frames
    /\ first = Null => frames = Blocks

\* Where no task preempts it, free_count() returns the number of blocks in the
\* chain.  Before the first allocation this is 0: nothing is chained yet.
CountExact ==
    ~PREEMPTIVE /\ counting /\ cursor = Null => counted = Cardinality(FreeBlocks)

\* free_count() reads the link of free blocks only.
CountReadsLinks == counting => cursor # FrameData
=============================================================================
