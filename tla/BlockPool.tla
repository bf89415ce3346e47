------------------------------- MODULE BlockPool -------------------------------
(***************************************************************************)
(* The block pool of the v1 engine (v1/core/block_pool.py) and its free    *)
(* queue (FreeKVCacheBlockQueue in v1/core/kv_cache_utils.py), as values:  *)
(* every method is an operator from pool to pool.                          *)
(*                                                                         *)
(* The free queue is the doubly linked list of the code: head, tail, the   *)
(* two pointers of every block and the separate count.  A block hash is    *)
(* what it hashes, the tokens up to the end of the block; <<>> is None.    *)
(* `ok' becomes FALSE when an assertion of the code fails or it raises.    *)
(***************************************************************************)
EXTENDS Integers, SequencesExt

NoBlock == 0
NoHash == <<>>

\* The members of q that are in T, in their order.
Keep(q, T) ==
  LET kept[i \in 0 .. Len(q)] ==
        IF i = 0 THEN <<>>
        ELSE IF q[i] \in T THEN Append(kept[i - 1], q[i]) ELSE kept[i - 1]
  IN  kept[Len(q)]

\* BlockPool.__init__ and FreeKVCacheBlockQueue.__init__ for blocks 1 .. n.
NewPool(n) ==
  [ref |-> [b \in 1 .. n |-> 0], hash |-> [b \in 1 .. n |-> NoHash],
   cached |-> [h \in {} |-> <<>>],
   head |-> 1, tail |-> n, num |-> n,
   prev |-> [b \in 1 .. n |-> b - 1],
   next |-> [b \in 1 .. n |-> IF b < n THEN b + 1 ELSE NoBlock],
   ok |-> TRUE]

-----------------------------------------------------------------------------
(* FreeKVCacheBlockQueue                                                    *)

\* Mutated form: the tail is not updated when it is the block that leaves.
remove_keeps_tail(pool, block) ==
  LET p == pool.prev[block]
      n == pool.next[block]
  IN  [pool EXCEPT
         !.next = [b \in DOMAIN @ |->
                     IF b = block THEN NoBlock ELSE IF b = p THEN n ELSE @[b]],
         !.prev = [b \in DOMAIN @ |->
                     IF b = block THEN NoBlock ELSE IF b = n THEN p ELSE @[b]],
         !.head = IF @ = block THEN n ELSE @,
         !.num = @ - 1]

remove(pool, block) ==
  LET p == pool.prev[block]
      n == pool.next[block]
  IN  [pool EXCEPT
         !.next = [b \in DOMAIN @ |->
                     IF b = block THEN NoBlock ELSE IF b = p THEN n ELSE @[b]],
         !.prev = [b \in DOMAIN @ |->
                     IF b = block THEN NoBlock ELSE IF b = n THEN p ELSE @[b]],
         !.head = IF @ = block THEN n ELSE @,
         !.tail = IF @ = block THEN p ELSE @,
         !.num = @ - 1]

\* Mutated form: a block that is returned goes to the front.
append_in_front(pool, block) ==
  [pool EXCEPT !.next[block] = pool.head, !.head = block, !.num = @ + 1,
     !.prev = [b \in DOMAIN @ |-> IF b = pool.head THEN block ELSE @[b]],
     !.tail = IF @ = NoBlock THEN block ELSE @]

append(pool, block) ==
  LET last == pool.tail
  IN  [pool EXCEPT
         !.next = [b \in DOMAIN @ |->
                     IF b = block THEN NoBlock ELSE IF b = last THEN block ELSE @[b]],
         !.prev[block] = IF last # NoBlock THEN last ELSE @,
         !.head = IF last # NoBlock THEN @ ELSE block,
         !.tail = block,
         !.num = @ + 1,
         !.ok = @ /\ (last = NoBlock => pool.head = NoBlock)]

\* One more block of the walk along next_free_block, if there is one.
Walk(pool, seen) ==
  LET block == IF seen = <<>> THEN pool.head ELSE pool.next[Last(seen)]
  IN  IF block = NoBlock THEN seen ELSE Append(seen, block)

\* get_all_free_blocks: the blocks met by following next_free_block.
FreeList(pool) ==
  LET walk[i \in 0 .. Len(pool.ref)] == IF i = 0 THEN <<>> ELSE Walk(pool, walk[i - 1])
  IN  walk[Len(pool.ref)]

-----------------------------------------------------------------------------
(* BlockPool                                                                *)

\* The first block cached under hash h, if there is one.
get_cached_block(pool, h) ==
  IF h \in DOMAIN pool.cached THEN Head(pool.cached[h]) ELSE NoBlock

\* Mutated form: the block loses its hash but stays in the cache.
_reset_hash_only(pool, block) == [pool EXCEPT !.hash[block] = NoHash]

_maybe_evict_cached_block(pool, block) ==
  LET h == pool.hash[block]
      rest == Keep(pool.cached[h], ToSet(pool.cached[h]) \ {block})
      keys == IF rest = <<>> THEN DOMAIN pool.cached \ {h} ELSE DOMAIN pool.cached
  IN  IF h \notin DOMAIN pool.cached THEN pool
      ELSE [pool EXCEPT !.hash[block] = NoHash,
              !.cached = [k \in keys |-> IF k = h THEN rest ELSE @[k]]]

\* popleft: the block at the head loses its old hash and is the last of acc.blocks.
Take(acc) ==
  LET block == acc.pool.head
      taken == _maybe_evict_cached_block(remove(acc.pool, block), block)
  IN  [pool |-> [taken EXCEPT !.ok = @ /\ taken.ref[block] = 0, !.ref[block] = @ + 1],
       blocks |-> Append(acc.blocks, block)]

get_new_blocks(pool, n) ==
  LET after[i \in 0 .. n] ==
        IF i = 0 THEN [pool |-> pool, blocks |-> <<>>] ELSE Take(after[i - 1])
  IN  after[n]

Hit(pool, b) ==
  [(IF pool.ref[b] = 0 THEN remove(pool, b) ELSE pool) EXCEPT !.ref[b] = @ + 1]

touch(pool, blocks) ==
  LET after[i \in 0 .. Len(blocks)] == IF i = 0 THEN pool ELSE Hit(after[i - 1], blocks[i])
  IN  after[Len(blocks)]

Drop(pool, b) ==
  LET dropped == [pool EXCEPT !.ref[b] = @ - 1]
  IN  IF dropped.ref[b] = 0 THEN append(dropped, b) ELSE dropped

free_blocks(pool, blocks) ==
  LET after[i \in 0 .. Len(blocks)] == IF i = 0 THEN pool ELSE Drop(after[i - 1], blocks[i])
  IN  after[Len(blocks)]

\* The hash of block i of a request with these known hashes and tokens.
HashAt(hashes, tokens, i, size) ==
  IF i <= Len(hashes) THEN hashes[i] ELSE SubSeq(tokens, 1, i * size)

\* A block gets its hash, of so many tokens, and enters the cache.
File(pool, b, h, len) ==
  [pool EXCEPT
     !.ok = @ /\ pool.hash[b] = NoHash /\ Len(h) = len,
     !.hash[b] = h,
     !.cached = [k \in DOMAIN @ \cup {h} |->
                   IF k # h THEN @[k]
                   ELSE IF h \in DOMAIN @ THEN Append(@[h], b) ELSE <<b>>]]

\* Blocks cached + 1 .. full of a request with these blocks, known hashes and
\* tokens get their hashes and enter the cache.  A negative number of full
\* blocks, which Python would read from the end of the list, counts as a failure.
cache_full_blocks(pool, blocks, hashes, tokens, cached, full, size) ==
  LET Known(i) == HashAt(hashes, tokens, i, size)
      after[i \in 0 .. full - cached] ==
        IF i = 0 THEN pool
        ELSE File(after[i - 1], blocks[cached + i], Known(cached + i), (cached + i) * size)
      sound == /\ full >= 0
               /\ Len(hashes) >= cached
               /\ cached > 0 => pool.hash[blocks[cached]] # NoHash
  IN  IF full = cached THEN [pool |-> pool, hashes |-> hashes]
      ELSE IF ~sound THEN [pool |-> [pool EXCEPT !.ok = FALSE], hashes |-> hashes]
      ELSE [pool |-> IF full > cached THEN after[full - cached] ELSE pool,
            hashes |-> hashes \o [i \in 1 .. full - Len(hashes) |-> Known(Len(hashes) + i)]]

\* reset_prefix_cache where no block is in use; otherwise it refuses.
reset_prefix_cache(pool) ==
  [pool EXCEPT !.cached = [h \in {} |-> <<>>], !.hash = [b \in DOMAIN @ |-> NoHash]]
=============================================================================
