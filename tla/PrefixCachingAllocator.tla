------------------------ MODULE PrefixCachingAllocator ------------------------
(***************************************************************************)
(* The prefix-caching block allocator of the v0 engine                     *)
(* (core/block/prefix_caching_block.py) together with the hashless         *)
(* allocator, the reference counter and the block objects it is built on   *)
(* (core/block/naive_block.py, core/block/common.py).                      *)
(*                                                                         *)
(* A physical block is free in the hashless allocator, resident in the     *)
(* evictor (cached, nobody uses it), or active.  Sequences hold BLOCK      *)
(* OBJECTS that point to physical blocks; several objects may share one    *)
(* block, after a fork or because their content hash was already cached.   *)
(* The allocator's own fields are one record, `alloc', and every helper    *)
(* method of the class is an operator from such a record to the next one,  *)
(* so that a public method is the composition the code writes.             *)
(*                                                                         *)
(* The evictor is abstract here: evict() may return any resident block.    *)
(* LRUMLEvictor, PDPEvictor and LRUEvictor choose among them.              *)
(***************************************************************************)
EXTENDS Naturals, FiniteSets

CONSTANTS
  BlockIds,   \* physical block ids of the device
  Objects,    \* the block objects of the BlockPool
  Hashes,     \* content of a full block (a hash stands for what it hashes)
  Partials,   \* content of a block that is not full yet
  None        \* Python's None

ASSUME AllocatorAssumption ==
  /\ IsFiniteSet(BlockIds)
  /\ IsFiniteSet(Objects)
  /\ Hashes \cap Partials = {}
  /\ None \notin BlockIds \cup Hashes \cup Partials

VARIABLES
  alloc,       \* the fields of PrefixCachingBlockAllocator, see AllocState
  pool,        \* block objects not handed out (BlockPool._free_ids)
  objBlock,    \* block.block_id of every block object
  objContent,  \* the tokens of every block object
  kv           \* what each physical block's KV memory holds for its users

vars == <<alloc, pool, objBlock, objContent, kv>>

Content == Hashes \cup Partials \cup {None}

\* refcounts: RefCounter; free: the hashless allocator's free ids; cached:
\* _cached_blocks; evictor: content_hash of each resident block; active and
\* computed: the BlockTracker of each block; touched: _touched_blocks;
\* failed: the blocks at which an assertion of the code was false.
AllocState ==
  [refcounts : [BlockIds -> Nat],
   free      : SUBSET BlockIds,
   cached    : [Hashes -> BlockIds \cup {None}],
   evictor   : [BlockIds -> Hashes \cup {None}],
   active    : SUBSET BlockIds,
   computed  : SUBSET BlockIds,
   touched   : SUBSET BlockIds,
   failed    : SUBSET BlockIds]

TypeOK ==
  /\ alloc \in AllocState
  /\ pool \subseteq Objects
  /\ objBlock \in [Objects -> BlockIds \cup {None}]
  /\ objContent \in [Objects -> Content]
  /\ kv \in [BlockIds -> Content]

Init ==
  /\ alloc = [refcounts |-> [b \in BlockIds |-> 0],
              free      |-> BlockIds,
              cached    |-> [h \in Hashes |-> None],
              evictor   |-> [b \in BlockIds |-> None],
              active    |-> {},
              computed  |-> {},
              touched   |-> {},
              failed    |-> {}]
  /\ pool = Objects
  /\ objBlock = [o \in Objects |-> None]
  /\ objContent = [o \in Objects |-> None]
  /\ kv = [b \in BlockIds |-> None]

-----------------------------------------------------------------------------
(* Helper methods: operators on the allocator's record st.                  *)

\* The failed set of `assert P' about block b.
Unless(P, b) == IF P THEN {} ELSE {b}

Resident(st) == {b \in BlockIds : st.evictor[b] # None}

\* BlockTracker.enable asserts that the block was not active.
TrackBlockId(st, b, isComputed) ==
  [st EXCEPT !.active   = @ \cup {b},
             !.computed = IF isComputed THEN @ \cup {b} ELSE @ \ {b},
             !.failed   = @ \cup ({b} \cap st.active)]

\* Mutated form: disable() without its reset().
UntrackWithoutReset(st, b) ==
  [st EXCEPT !.active = @ \ {b}, !.failed = @ \cup ({b} \ st.active)]

\* BlockTracker.disable asserts that the block was active.
UntrackBlockId(st, b) ==
  [st EXCEPT !.active   = @ \ {b},
             !.computed = @ \ {b},
             !.failed   = @ \cup ({b} \ st.active)]

\* Mutated form: enable() without the evictor.remove that precedes it.
IncrRefcountNotRemoved(st, b) ==
  LET up == [st EXCEPT !.refcounts[b] = @ + 1]
  IN  IF st.refcounts[b] = 0 THEN TrackBlockId(up, b, TRUE) ELSE up

\* A hit: take the cached block out of the evictor if nobody was using it.
IncrRefcountCachedBlock(st, b) ==
  LET up == [st EXCEPT !.refcounts[b] = @ + 1]
  IN  IF st.refcounts[b] = 0
      THEN TrackBlockId([up EXCEPT !.evictor[b] = None], b, TRUE)
      ELSE up

\* The last user of a cached block leaves it to the evictor.
DecrRefcountCachedBlock(st, b, h) ==
  LET down == [st EXCEPT !.refcounts[b] = @ - 1,
                         !.failed = @ \cup Unless(st.refcounts[b] > 0, b)]
  IN  IF st.refcounts[b] > 1
      THEN down
      ELSE UntrackBlockId([down EXCEPT !.evictor[b] = h,
                                       !.failed = @ \cup Unless(st.cached[h] # None, b)], b)

\* Mutated form: untrack whoever frees, not only the last user.
DecrHashlessUntracksShared(st, b) ==
  LET down == UntrackBlockId([st EXCEPT !.refcounts[b] = @ - 1], b)
  IN  IF st.refcounts[b] = 1 THEN [down EXCEPT !.free = @ \cup {b}] ELSE down

\* The last user of a mutable block returns it to the hashless allocator.
DecrRefcountHashlessBlock(st, b) ==
  LET down == [st EXCEPT !.refcounts[b] = @ - 1,
                         !.failed = @ \cup Unless(st.refcounts[b] > 0, b)]
  IN  IF st.refcounts[b] = 1
      THEN [UntrackBlockId(down, b) EXCEPT !.free = @ \cup {b}]
      ELSE down

FreeBlockId(st, b, content) ==
  IF content \in Hashes
  THEN DecrRefcountCachedBlock(st, b, content)
  ELSE DecrRefcountHashlessBlock(st, b)

\* What the loop of _maybe_allocate_evicted_block_id accepts from evict().
Evictable(st) ==
  {b \in Resident(st) : st.cached[st.evictor[b]] = b /\ st.refcounts[b] = 0}

\* _allocate_block_id can return b: a hashless block while there is one, else
\* whatever the evictor gives; the loop drops the entries of `dropped', which
\* evict() returned and the loop refused, before it accepts b.
CanAllocateBlockId(st, b, dropped) ==
  IF st.free # {}
  THEN b \in st.free /\ dropped = {}
  ELSE b \in Evictable(st) /\ dropped \subseteq Resident(st) \ Evictable(st)

\* Mutated form: the evicted block stays in _cached_blocks.
AllocateKeepsMapping(st, b, dropped) ==
  LET up == [st EXCEPT !.refcounts[b] = @ + 1]
  IN  TrackBlockId([up EXCEPT !.free = @ \ {b}, !.evictor[b] = None], b, FALSE)

AllocateBlockId(st, b, dropped) ==
  LET up == [st EXCEPT !.refcounts[b] = @ + 1]
  IN  IF st.free # {}
      THEN TrackBlockId([up EXCEPT !.free = @ \ {b}], b, FALSE)
      ELSE TrackBlockId(
             [up EXCEPT !.cached[st.evictor[b]] = None,
                        !.evictor = [x \in BlockIds |->
                                       IF x \in dropped \cup {b}
                                       THEN None ELSE st.evictor[x]]],
             b, FALSE)

\* promote_to_immutable_block: register the block under its hash, or give it
\* back and use the block that already holds the same content.
PromotedBlock(st, b, h) == IF st.cached[h] = None THEN b ELSE st.cached[h]

PromoteToImmutableBlock(st, b, h) ==
  IF st.cached[h] = None
  THEN [st EXCEPT !.cached[h] = b, !.touched = @ \cup {b}]
  ELSE IncrRefcountCachedBlock(DecrRefcountHashlessBlock(st, b), st.cached[h])

\* The tokens of block b become `content' (PrefixCachingBlock.append_token_ids
\* after its copy-on-write): a full block is promoted.
Appended(st, b, content) ==
  IF content \in Hashes THEN PromoteToImmutableBlock(st, b, content) ELSE st

AppendedBlock(st, b, content) ==
  IF content \in Hashes THEN PromotedBlock(st, b, content) ELSE b

-----------------------------------------------------------------------------
(* Public methods.                                                          *)

Running == alloc.failed = {}

\* Object o now has the given block and content.
Bind(o, b, content) ==
  /\ objBlock' = [objBlock EXCEPT ![o] = b]
  /\ objContent' = [objContent EXCEPT ![o] = content]

\* allocate_immutable_block, allocate_mutable_block and swap_in end in one of
\* these: o gets the cached block of its content, or a fresh block that is
\* filled with the content.
PointToCached(o, h) ==
  /\ alloc.cached[h] # None
  /\ alloc' = IncrRefcountCachedBlock(alloc, alloc.cached[h])
  /\ Bind(o, alloc.cached[h], h)
  /\ UNCHANGED kv

PointToFresh(o, content) ==
  \E b \in BlockIds, dropped \in SUBSET BlockIds :
    LET st == AllocateBlockId(alloc, b, dropped)
    IN  /\ CanAllocateBlockId(alloc, b, dropped)
        /\ alloc' = Appended(st, b, content)
        /\ Bind(o, AppendedBlock(st, b, content), content)
        /\ kv' = [kv EXCEPT ![b] = content]

AllocateImmutableBlock(o, h) ==
  /\ Running
  /\ o \in pool
  /\ pool' = pool \ {o}
  /\ \/ PointToCached(o, h)
     \/ alloc.cached[h] = None /\ PointToFresh(o, h)

AllocateMutableBlock(o) ==
  /\ Running
  /\ o \in pool
  /\ pool' = pool \ {o}
  /\ PointToFresh(o, None)

\* Mutated form: a block with two users counts as not shared.
AppendableWhenSharedByTwo(st, b) == st.refcounts[b] <= 2

\* CopyOnWriteTracker.is_appendable
IsAppendable(st, b) == st.refcounts[b] <= 1

\* Appending to a block that is not full.  A shared block is copied first:
\* free this object's reference, allocate another block, copy.
AppendTokenIds(o, content) ==
  /\ Running
  /\ objBlock[o] # None
  /\ objContent[o] \notin Hashes
  /\ content # objContent[o]
  /\ UNCHANGED pool
  /\ LET b == objBlock[o]
     IN  \/ /\ IsAppendable(alloc, b)
            /\ alloc' = Appended(alloc, b, content)
            /\ Bind(o, AppendedBlock(alloc, b, content), content)
            /\ kv' = [kv EXCEPT ![b] = content]
         \/ /\ ~IsAppendable(alloc, b)
            /\ \E trg \in BlockIds, dropped \in SUBSET BlockIds :
                 LET freed == FreeBlockId(alloc, b, None)
                     st == AllocateBlockId(freed, trg, dropped)
                 IN  /\ CanAllocateBlockId(freed, trg, dropped)
                     /\ alloc' = Appended(st, trg, content)
                     /\ Bind(o, AppendedBlock(st, trg, content), content)
                     /\ kv' = [kv EXCEPT ![trg] = content]

\* A block touched by the batch being scheduled is not released before
\* mark_blocks_as_computed: the scheduler preempts sequences it has not
\* scheduled yet, and everything else is released between two batches.
Releasable(o) ==
  /\ objBlock[o] # None
  /\ objBlock[o] \in alloc.touched => alloc.refcounts[objBlock[o]] > 1

\* free(block)
Free(o) ==
  /\ Running
  /\ Releasable(o)
  /\ alloc' = FreeBlockId(alloc, objBlock[o], objContent[o])
  /\ pool' = pool \cup {o}
  /\ Bind(o, None, None)
  /\ UNCHANGED kv

\* Mutated form: the copy is handed out without a reference of its own.
ForkWithoutIncr(o, copy) ==
  /\ Running
  /\ objBlock[o] # None
  /\ copy \in pool
  /\ pool' = pool \ {copy}
  /\ Bind(copy, objBlock[o], objContent[o])
  /\ UNCHANGED <<alloc, kv>>

\* fork, one block of the chain: the copy shares the physical block.
Fork(o, copy) ==
  /\ Running
  /\ objBlock[o] # None
  /\ copy \in pool
  /\ pool' = pool \ {copy}
  /\ alloc' = [alloc EXCEPT !.refcounts[objBlock[o]] = @ + 1,
                            !.failed = @ \cup Unless(alloc.refcounts[objBlock[o]] > 0, objBlock[o])]
  /\ Bind(copy, objBlock[o], objContent[o])
  /\ UNCHANGED kv

\* swap_out of one block: the object keeps its tokens, without a block here.
SwapOut(o) ==
  /\ Running
  /\ Releasable(o)
  /\ alloc' = FreeBlockId(alloc, objBlock[o], objContent[o])
  /\ Bind(o, None, objContent[o])
  /\ UNCHANGED <<pool, kv>>

\* swap_in of one block: as for a new object with the same tokens.
SwapIn(o) ==
  /\ Running
  /\ o \notin pool
  /\ objBlock[o] = None
  /\ UNCHANGED pool
  /\ \/ objContent[o] \in Hashes /\ PointToCached(o, objContent[o])
     \/ /\ objContent[o] \in Hashes => alloc.cached[objContent[o]] = None
        /\ PointToFresh(o, objContent[o])

\* mark_blocks_as_computed, at the end of every scheduler pass.
MarkBlocksAsComputed ==
  /\ Running
  /\ alloc.touched # {}
  /\ alloc' = [alloc EXCEPT !.computed = @ \cup alloc.touched, !.touched = {}]
  /\ UNCHANGED <<pool, objBlock, objContent, kv>>

NumFreeBlocks(st) == Cardinality(st.free) + Cardinality(Resident(st))

\* reset_prefix_cache, when no block is in use (it refuses otherwise): every
\* block the evictor accepts to give up returns to the hashless allocator.
ResetPrefixCache ==
  /\ Running
  /\ Cardinality(BlockIds) - NumFreeBlocks(alloc) <= 0
  /\ LET left == [h \in Hashes |->
                    IF alloc.cached[h] \in Evictable(alloc)
                    THEN None ELSE alloc.cached[h]]
     IN  alloc' = [alloc EXCEPT
                     !.free     = @ \cup Evictable(alloc),
                     !.cached   = left,
                     !.evictor  = [b \in BlockIds |-> None],
                     !.active   = {},
                     !.computed = {},
                     !.failed   = @ \cup {left[h] : h \in {g \in Hashes : left[g] # None}}]
  /\ UNCHANGED <<pool, objBlock, objContent, kv>>

Next ==
  \/ \E o \in Objects, h \in Hashes : AllocateImmutableBlock(o, h)
  \/ \E o \in Objects : AllocateMutableBlock(o)
  \/ \E o \in Objects, c \in Hashes \cup Partials : AppendTokenIds(o, c)
  \/ \E o \in Objects : Free(o)
  \/ \E o, copy \in Objects : Fork(o, copy)
  \/ \E o \in Objects : SwapOut(o)
  \/ \E o \in Objects : SwapIn(o)
  \/ MarkBlocksAsComputed
  \/ ResetPrefixCache

Spec == Init /\ [][Next]_vars

-----------------------------------------------------------------------------
(* Properties.                                                              *)

Users(b) == {o \in Objects : objBlock[o] = b}

\* Nothing leaks and nothing is used twice: a physical block is in exactly one
\* of three places, the hashless free list, the evictor, or in use, and its
\* reference count is the number of block objects that point to it, across
\* forks, copy-on-write, deduplication on promotion, eviction, swapping and
\* reset.
BlocksConserved ==
  \A b \in BlockIds :
    /\ alloc.refcounts[b] = Cardinality(Users(b))
    /\ b \in alloc.active <=> alloc.refcounts[b] > 0
    /\ b \in alloc.free <=> b \notin alloc.active /\ alloc.evictor[b] = None
    /\ alloc.evictor[b] # None => b \notin alloc.active

\* _cached_blocks, the evictor and the users of a block agree: what the evictor
\* gives up is always the block cached under that hash and unused (the loop of
\* _maybe_allocate_evicted_block_id never drops a block), an in-use cached block
\* has only users with that content, and a full block object always points to
\* the block cached under its hash.
CacheConsistent ==
  /\ Evictable(alloc) = Resident(alloc)
  /\ \A h \in Hashes, b \in BlockIds : alloc.cached[h] = b =>
       \/ alloc.evictor[b] = h
       \/ b \in alloc.active /\ \A o \in Users(b) : objContent[o] = h
  /\ \A o \in Objects : objBlock[o] # None /\ objContent[o] \in Hashes =>
       alloc.cached[objContent[o]] = objBlock[o]

\* Sharing is invisible: the memory behind a block object always holds that
\* object's own tokens, whatever other sequences append, free or evict, and a
\* cached block holds the content it is cached for.
ContentPreserved ==
  /\ \A o \in Objects : objBlock[o] # None => kv[objBlock[o]] = objContent[o]
  /\ \A h \in Hashes : alloc.cached[h] # None => kv[alloc.cached[h]] = h

\* The computed flag is never ahead of the content: a block marked computed, or
\* about to be marked by the end of the scheduler pass, is in use and cached.
ComputedIsCached ==
  \A b \in alloc.computed \cup alloc.touched :
    b \in alloc.active /\ \E h \in Hashes : alloc.cached[h] = b

\* No assertion of the allocator, the reference counter or the block tracker
\* can fire.
NoAssertionFails == alloc.failed = {}
=============================================================================
