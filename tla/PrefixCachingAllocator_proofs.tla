-------------------- MODULE PrefixCachingAllocator_proofs --------------------
(***************************************************************************)
(* Machine-checked proofs about PrefixCachingAllocator, for any number of  *)
(* blocks, block objects and contents.                                     *)
(*                                                                         *)
(* AllocInv relates an allocator record to the block objects and the       *)
(* memory.  Each helper method of the class is shown to preserve it by a   *)
(* lemma of its own; a public method is a composition of helpers and its   *)
(* proof a chain of those lemmas.                                          *)
(***************************************************************************)
EXTENDS PrefixCachingAllocator, FiniteSetTheorems, TLAPS

UsersOf(ob, b) == {o \in Objects : ob[o] = b}

\* The inductive invariant, over an allocator record st, the block ids ob and
\* the contents oc of the block objects, and the memory m.
Typed(st, ob, oc, m) ==
  /\ st \in AllocState
  /\ ob \in [Objects -> BlockIds \cup {None}]
  /\ oc \in [Objects -> Content]
  /\ m \in [BlockIds -> Content]

Counted(st, ob) ==
  \A b \in BlockIds :
    /\ st.refcounts[b] = Cardinality(UsersOf(ob, b))
    /\ b \in st.active <=> st.refcounts[b] > 0

Placed(st) ==
  \A b \in BlockIds :
    /\ b \in st.free <=> (b \notin st.active /\ st.evictor[b] = None)
    /\ st.evictor[b] # None => (b \notin st.active /\ st.cached[st.evictor[b]] = b)

Shared(st, ob, oc) ==
  /\ \A h \in Hashes, b \in BlockIds : st.cached[h] = b =>
       \/ st.evictor[b] = h
       \/ b \in st.active /\ \A o \in Objects : ob[o] = b => oc[o] = h
  /\ \A o \in Objects : (ob[o] # None /\ oc[o] \in Hashes) => st.cached[oc[o]] = ob[o]

Stored(st, ob, oc, m) ==
  /\ \A o \in Objects : ob[o] # None => m[ob[o]] = oc[o]
  /\ \A h \in Hashes : st.cached[h] # None => m[st.cached[h]] = h

Marked(st) ==
  \A b \in st.computed \cup st.touched :
    b \in st.active /\ \E h \in Hashes : st.cached[h] = b

AllocInv(st, ob, oc, m) ==
  /\ Typed(st, ob, oc, m)
  /\ Counted(st, ob)
  /\ Placed(st)
  /\ Shared(st, ob, oc)
  /\ Stored(st, ob, oc, m)
  /\ Marked(st)
  /\ st.failed = {}

-----------------------------------------------------------------------------
(* Counting users.                                                          *)

\* Pointing an object without a block to block b adds one user to b and
\* leaves the number of users of every other block alone.
LEMMA UserAdded ==
  ASSUME NEW ob \in [Objects -> BlockIds \cup {None}], NEW o \in Objects,
         NEW b \in BlockIds, ob[o] = None
  PROVE  LET nb == [ob EXCEPT ![o] = b]
         IN  /\ Cardinality(UsersOf(nb, b)) = Cardinality(UsersOf(ob, b)) + 1
             /\ \A c \in BlockIds : c # b =>
                  Cardinality(UsersOf(nb, c)) = Cardinality(UsersOf(ob, c))
<1> DEFINE nb == [ob EXCEPT ![o] = b]
<1>1. None \notin BlockIds
  BY AllocatorAssumption
<1>2. UsersOf(nb, b) = UsersOf(ob, b) \cup {o}
  BY <1>1 DEF UsersOf
<1>3. o \notin UsersOf(ob, b)
  BY <1>1 DEF UsersOf
<1>4. IsFiniteSet(UsersOf(ob, b))
  BY AllocatorAssumption, FS_Subset DEF UsersOf
<1>5. Cardinality(UsersOf(nb, b)) = Cardinality(UsersOf(ob, b)) + 1
  BY <1>2, <1>3, <1>4, FS_AddElement
<1>6. ASSUME NEW c \in BlockIds, c # b
      PROVE  UsersOf(nb, c) = UsersOf(ob, c)
  BY <1>1, <1>6 DEF UsersOf
<1> QED
  BY <1>5, <1>6

\* Taking the block b from one of its users removes exactly that user.
LEMMA UserRemoved ==
  ASSUME NEW ob \in [Objects -> BlockIds \cup {None}], NEW o \in Objects,
         NEW b \in BlockIds, ob[o] = b
  PROVE  LET nb == [ob EXCEPT ![o] = None]
         IN  /\ Cardinality(UsersOf(nb, b)) = Cardinality(UsersOf(ob, b)) - 1
             /\ \A c \in BlockIds : c # b =>
                  Cardinality(UsersOf(nb, c)) = Cardinality(UsersOf(ob, c))
<1> DEFINE nb == [ob EXCEPT ![o] = None]
<1>1. None \notin BlockIds
  BY AllocatorAssumption
<1>2. UsersOf(nb, b) = UsersOf(ob, b) \ {o}
  BY <1>1 DEF UsersOf
<1>3. o \in UsersOf(ob, b)
  BY <1>1 DEF UsersOf
<1>4. IsFiniteSet(UsersOf(ob, b))
  BY AllocatorAssumption, FS_Subset DEF UsersOf
<1>5. Cardinality(UsersOf(nb, b)) = Cardinality(UsersOf(ob, b)) - 1
  BY <1>2, <1>3, <1>4, FS_RemoveElement
<1>6. ASSUME NEW c \in BlockIds, c # b
      PROVE  UsersOf(nb, c) = UsersOf(ob, c)
  BY <1>1, <1>6 DEF UsersOf
<1> QED
  BY <1>5, <1>6

\* A block nobody uses has count zero, and a block with count one has a single
\* user.
LEMMA UserCount ==
  ASSUME NEW ob \in [Objects -> BlockIds \cup {None}], NEW b \in BlockIds
  PROVE  /\ Cardinality(UsersOf(ob, b)) \in Nat
         /\ Cardinality(UsersOf(ob, b)) = 0 <=> \A o \in Objects : ob[o] # b
         /\ Cardinality(UsersOf(ob, b)) = 1 =>
              \A o, p \in Objects : ob[o] = b /\ ob[p] = b => o = p
<1>1. IsFiniteSet(UsersOf(ob, b))
  BY AllocatorAssumption, FS_Subset DEF UsersOf
<1>2. Cardinality(UsersOf(ob, b)) \in Nat
  BY <1>1, FS_CardinalityType
<1>3. Cardinality(UsersOf(ob, b)) = 0 <=> UsersOf(ob, b) = {}
  BY <1>1, FS_EmptySet
<1>4. ASSUME Cardinality(UsersOf(ob, b)) = 1
      PROVE  \E x : UsersOf(ob, b) = {x}
  BY <1>1, <1>4, FS_Singleton
<1>5. UsersOf(ob, b) = {} <=> \A o \in Objects : ob[o] # b
  BY DEF UsersOf
<1>6. ASSUME Cardinality(UsersOf(ob, b)) = 1,
             NEW o \in Objects, NEW p \in Objects, ob[o] = b, ob[p] = b
      PROVE  o = p
  <2>1. o \in UsersOf(ob, b) /\ p \in UsersOf(ob, b)
    BY <1>6 DEF UsersOf
  <2> QED
    BY <1>4, <1>6, <2>1
<1> QED
  BY <1>2, <1>3, <1>5, <1>6

-----------------------------------------------------------------------------
(* What each helper method does to the fields of the record.                *)

\* A record of fields of the right types is an allocator record.
LEMMA FieldTypes ==
  ASSUME NEW st \in AllocState
  PROVE  /\ st.refcounts \in [BlockIds -> Nat]
         /\ st.free \subseteq BlockIds
         /\ st.cached \in [Hashes -> BlockIds \cup {None}]
         /\ st.evictor \in [BlockIds -> Hashes \cup {None}]
         /\ st.active \subseteq BlockIds
         /\ st.computed \subseteq BlockIds
         /\ st.touched \subseteq BlockIds
         /\ st.failed \subseteq BlockIds
  BY DEF AllocState

\* _track_block_id of a block that was not active.
LEMMA TrackFields ==
  ASSUME NEW st \in AllocState, NEW b \in BlockIds, b \notin st.active,
         NEW isComputed \in BOOLEAN
  PROVE  LET nst == TrackBlockId(st, b, isComputed)
         IN  /\ nst \in AllocState
             /\ nst.refcounts = st.refcounts
             /\ nst.free = st.free
             /\ nst.cached = st.cached
             /\ nst.evictor = st.evictor
             /\ nst.active = st.active \cup {b}
             /\ nst.computed = IF isComputed THEN st.computed \cup {b} ELSE st.computed \ {b}
             /\ nst.touched = st.touched
             /\ nst.failed = st.failed
<1>1. st.failed \cup ({b} \cap st.active) = st.failed
  OBVIOUS
<1> QED
  BY <1>1 DEF TrackBlockId, AllocState

\* _untrack_block_id of an active block.
LEMMA UntrackFields ==
  ASSUME NEW st \in AllocState, NEW b \in BlockIds, b \in st.active
  PROVE  LET nst == UntrackBlockId(st, b)
         IN  /\ nst \in AllocState
             /\ nst.refcounts = st.refcounts
             /\ nst.free = st.free
             /\ nst.cached = st.cached
             /\ nst.evictor = st.evictor
             /\ nst.active = st.active \ {b}
             /\ nst.computed = st.computed \ {b}
             /\ nst.touched = st.touched
             /\ nst.failed = st.failed
<1>1. st.failed \cup ({b} \ st.active) = st.failed
  OBVIOUS
<1> QED
  BY <1>1 DEF UntrackBlockId, AllocState

\* _incr_refcount_cached_block.
LEMMA IncrFields ==
  ASSUME NEW st \in AllocState, NEW b \in BlockIds,
         st.refcounts[b] = 0 <=> b \notin st.active,
         b \in st.active => st.evictor[b] = None
  PROVE  LET nst == IncrRefcountCachedBlock(st, b)
         IN  /\ nst \in AllocState
             /\ \A c \in BlockIds : nst.refcounts[c] =
                  IF c = b THEN st.refcounts[c] + 1 ELSE st.refcounts[c]
             /\ nst.free = st.free
             /\ nst.cached = st.cached
             /\ \A c \in BlockIds : nst.evictor[c] =
                  IF c = b THEN None ELSE st.evictor[c]
             /\ nst.active = st.active \cup {b}
             /\ nst.computed \in {st.computed, st.computed \cup {b}}
             /\ nst.touched = st.touched
             /\ nst.failed = st.failed
<1> DEFINE up == [st EXCEPT !.refcounts[b] = @ + 1]
           out == [up EXCEPT !.evictor[b] = None]
<1>0. /\ st.refcounts \in [BlockIds -> Nat]
      /\ st.evictor \in [BlockIds -> Hashes \cup {None}]
  BY FieldTypes
<1>1. /\ up \in AllocState
      /\ up.refcounts = [st.refcounts EXCEPT ![b] = @ + 1]
      /\ up.free = st.free /\ up.cached = st.cached /\ up.evictor = st.evictor
      /\ up.active = st.active /\ up.computed = st.computed
      /\ up.touched = st.touched /\ up.failed = st.failed
  BY DEF AllocState
<1>2. /\ out \in AllocState
      /\ out.refcounts = [st.refcounts EXCEPT ![b] = @ + 1]
      /\ out.free = st.free /\ out.cached = st.cached
      /\ out.evictor = [st.evictor EXCEPT ![b] = None]
      /\ out.active = st.active /\ out.computed = st.computed
      /\ out.touched = st.touched /\ out.failed = st.failed
  BY <1>1 DEF AllocState
<1> HIDE DEF up, out
<1>3. CASE st.refcounts[b] = 0
  <2>1. IncrRefcountCachedBlock(st, b) = TrackBlockId(out, b, TRUE)
    BY <1>3 DEF IncrRefcountCachedBlock, up, out
  <2>2. b \notin out.active
    BY <1>2, <1>3
  <2> DEFINE nst == TrackBlockId(out, b, TRUE)
  <2>3. /\ nst \in AllocState
        /\ nst.refcounts = out.refcounts
        /\ nst.free = out.free
        /\ nst.cached = out.cached
        /\ nst.evictor = out.evictor
        /\ nst.active = out.active \cup {b}
        /\ nst.computed = out.computed \cup {b}
        /\ nst.touched = out.touched
        /\ nst.failed = out.failed
    BY <1>2, <2>2, TrackFields, ZenonT(60)
  <2>4. IncrRefcountCachedBlock(st, b) = nst
    BY <2>1
  <2> HIDE DEF nst
  <2>5. \A c \in BlockIds : nst.refcounts[c] =
          IF c = b THEN st.refcounts[c] + 1 ELSE st.refcounts[c]
    BY <1>0, <1>2, <2>3
  <2>6. \A c \in BlockIds : nst.evictor[c] =
          IF c = b THEN None ELSE st.evictor[c]
    BY <1>0, <1>2, <2>3
  <2> QED
    BY <1>2, <2>3, <2>4, <2>5, <2>6
<1>4. CASE st.refcounts[b] # 0
  <2>1. IncrRefcountCachedBlock(st, b) = up
    BY <1>4 DEF IncrRefcountCachedBlock, up
  <2> QED
    BY <1>0, <1>1, <1>4, <2>1
<1> QED
  BY <1>3, <1>4

\* _decr_refcount_hashless_block of a block in use.
LEMMA DecrHashlessFields ==
  ASSUME NEW st \in AllocState, NEW b \in BlockIds,
         st.refcounts[b] > 0, b \in st.active
  PROVE  LET nst == DecrRefcountHashlessBlock(st, b)
         IN  /\ nst \in AllocState
             /\ \A c \in BlockIds : nst.refcounts[c] =
                  IF c = b THEN st.refcounts[c] - 1 ELSE st.refcounts[c]
             /\ nst.free = IF st.refcounts[b] = 1 THEN st.free \cup {b} ELSE st.free
             /\ nst.cached = st.cached
             /\ \A c \in BlockIds : nst.evictor[c] =
                  st.evictor[c]
             /\ nst.active = IF st.refcounts[b] = 1 THEN st.active \ {b} ELSE st.active
             /\ nst.computed = IF st.refcounts[b] = 1 THEN st.computed \ {b} ELSE st.computed
             /\ nst.touched = st.touched
             /\ nst.failed = st.failed
<1>0. /\ st.refcounts \in [BlockIds -> Nat]
      /\ st.evictor \in [BlockIds -> Hashes \cup {None}]
  BY FieldTypes
<1> DEFINE down == [st EXCEPT !.refcounts[b] = @ - 1,
                              !.failed = @ \cup Unless(st.refcounts[b] > 0, b)]
<1>1. /\ down \in AllocState
      /\ down.refcounts = [st.refcounts EXCEPT ![b] = @ - 1]
      /\ down.free = st.free /\ down.cached = st.cached /\ down.evictor = st.evictor
      /\ down.active = st.active /\ down.computed = st.computed
      /\ down.touched = st.touched /\ down.failed = st.failed
  <2>1. Unless(st.refcounts[b] > 0, b) = {}
    BY DEF Unless
  <2>2. st.refcounts[b] - 1 \in Nat
    BY <1>0
  <2> QED
    BY <2>1, <2>2 DEF AllocState
<1> HIDE DEF down
<1>2. CASE st.refcounts[b] = 1
  <2> DEFINE un == UntrackBlockId(down, b)
             nst == [un EXCEPT !.free = @ \cup {b}]
  <2>1. DecrRefcountHashlessBlock(st, b) = nst
    BY <1>2 DEF DecrRefcountHashlessBlock, down
  <2>2. /\ un \in AllocState
        /\ un.refcounts = down.refcounts /\ un.free = down.free
        /\ un.cached = down.cached /\ un.evictor = down.evictor
        /\ un.active = down.active \ {b} /\ un.computed = down.computed \ {b}
        /\ un.touched = down.touched /\ un.failed = down.failed
    BY <1>1, UntrackFields
  <2> HIDE DEF un
  <2>3. /\ nst \in AllocState
        /\ nst.refcounts = down.refcounts /\ nst.free = st.free \cup {b}
        /\ nst.cached = st.cached /\ nst.evictor = st.evictor
        /\ nst.active = st.active \ {b} /\ nst.computed = st.computed \ {b}
        /\ nst.touched = st.touched /\ nst.failed = st.failed
    BY <1>1, <2>2 DEF AllocState
  <2> HIDE DEF nst
  <2>4. \A c \in BlockIds : nst.refcounts[c] =
          IF c = b THEN st.refcounts[c] - 1 ELSE st.refcounts[c]
    BY <1>0, <1>1, <2>3
  <2> QED
    BY <1>2, <2>1, <2>3, <2>4
<1>3. CASE st.refcounts[b] # 1
  <2>1. DecrRefcountHashlessBlock(st, b) = down
    BY <1>3 DEF DecrRefcountHashlessBlock, down
  <2> QED
    BY <1>0, <1>1, <1>3, <2>1
<1> QED
  BY <1>2, <1>3

\* _decr_refcount_cached_block of a block in use whose hash is cached.
LEMMA DecrCachedFields ==
  ASSUME NEW st \in AllocState, NEW b \in BlockIds, NEW h \in Hashes,
         st.cached[h] # None,
         st.refcounts[b] > 0, b \in st.active
  PROVE  LET nst == DecrRefcountCachedBlock(st, b, h)
         IN  /\ nst \in AllocState
             /\ \A c \in BlockIds : nst.refcounts[c] =
                  IF c = b THEN st.refcounts[c] - 1 ELSE st.refcounts[c]
             /\ nst.free = st.free
             /\ nst.cached = st.cached
             /\ \A c \in BlockIds : nst.evictor[c] =
                  IF c = b /\ st.refcounts[b] = 1 THEN h ELSE st.evictor[c]
             /\ nst.active = IF st.refcounts[b] = 1 THEN st.active \ {b} ELSE st.active
             /\ nst.computed = IF st.refcounts[b] = 1 THEN st.computed \ {b} ELSE st.computed
             /\ nst.touched = st.touched
             /\ nst.failed = st.failed
<1>0. /\ st.refcounts \in [BlockIds -> Nat]
      /\ st.evictor \in [BlockIds -> Hashes \cup {None}]
  BY FieldTypes
<1> DEFINE down == [st EXCEPT !.refcounts[b] = @ - 1,
                              !.failed = @ \cup Unless(st.refcounts[b] > 0, b)]
<1>1. /\ down \in AllocState
      /\ down.refcounts = [st.refcounts EXCEPT ![b] = @ - 1]
      /\ down.free = st.free /\ down.cached = st.cached /\ down.evictor = st.evictor
      /\ down.active = st.active /\ down.computed = st.computed
      /\ down.touched = st.touched /\ down.failed = st.failed
  <2>1. Unless(st.refcounts[b] > 0, b) = {}
    BY DEF Unless
  <2>2. st.refcounts[b] - 1 \in Nat
    BY <1>0
  <2> QED
    BY <2>1, <2>2 DEF AllocState
<1> HIDE DEF down
<1>2. CASE st.refcounts[b] = 1
  <2> DEFINE add == [down EXCEPT !.evictor[b] = h,
                                 !.failed = @ \cup Unless(st.cached[h] # None, b)]
             nst == UntrackBlockId(add, b)
  <2>1. DecrRefcountCachedBlock(st, b, h) = nst
    BY <1>2 DEF DecrRefcountCachedBlock, down
  <2>2. Unless(st.cached[h] # None, b) = {}
    BY DEF Unless
  <2>3. /\ add \in AllocState
        /\ add.refcounts = down.refcounts /\ add.free = st.free
        /\ add.cached = st.cached /\ add.evictor = [st.evictor EXCEPT ![b] = h]
        /\ add.active = st.active /\ add.computed = st.computed
        /\ add.touched = st.touched /\ add.failed = st.failed
    BY <1>1, <2>2 DEF AllocState
  <2> HIDE DEF add
  <2>4. /\ nst \in AllocState
        /\ nst.refcounts = add.refcounts /\ nst.free = add.free
        /\ nst.cached = add.cached /\ nst.evictor = add.evictor
        /\ nst.active = add.active \ {b} /\ nst.computed = add.computed \ {b}
        /\ nst.touched = add.touched /\ nst.failed = add.failed
    BY <2>3, UntrackFields
  <2> HIDE DEF nst
  <2>5. \A c \in BlockIds : nst.refcounts[c] =
          IF c = b THEN st.refcounts[c] - 1 ELSE st.refcounts[c]
    BY <1>0, <1>1, <2>3, <2>4
  <2>6. \A c \in BlockIds : nst.evictor[c] =
          IF c = b /\ st.refcounts[b] = 1 THEN h ELSE st.evictor[c]
    BY <1>0, <1>2, <2>3, <2>4
  <2> QED
    BY <1>2, <2>1, <2>3, <2>4, <2>5, <2>6
<1>3. CASE st.refcounts[b] # 1
  <2>1. DecrRefcountCachedBlock(st, b, h) = down
    BY <1>0, <1>3 DEF DecrRefcountCachedBlock, down
  <2> QED
    BY <1>0, <1>1, <1>3, <2>1
<1> QED
  BY <1>2, <1>3

\* _allocate_block_id, from the hashless allocator or from the evictor.
LEMMA AllocateFields ==
  ASSUME NEW st \in AllocState, NEW b \in BlockIds, NEW dropped \in SUBSET BlockIds,
         b \notin st.active, st.free = {} => st.evictor[b] # None
  PROVE  LET nst == AllocateBlockId(st, b, dropped)
         IN  /\ nst \in AllocState
             /\ \A c \in BlockIds : nst.refcounts[c] =
                  IF c = b THEN st.refcounts[c] + 1 ELSE st.refcounts[c]
             /\ nst.free = st.free \ {b}
             /\ \A g \in Hashes : nst.cached[g] =
                  IF st.free = {} /\ g = st.evictor[b] THEN None ELSE st.cached[g]
             /\ \A c \in BlockIds : nst.evictor[c] =
                  IF st.free = {} /\ c \in dropped \cup {b} THEN None ELSE st.evictor[c]
             /\ nst.active = st.active \cup {b}
             /\ nst.computed = st.computed \ {b}
             /\ nst.touched = st.touched
             /\ nst.failed = st.failed
<1>0. /\ st.refcounts \in [BlockIds -> Nat]
      /\ st.cached \in [Hashes -> BlockIds \cup {None}]
      /\ st.evictor \in [BlockIds -> Hashes \cup {None}]
  BY FieldTypes
<1> DEFINE up == [st EXCEPT !.refcounts[b] = @ + 1]
<1>1. /\ up \in AllocState
      /\ up.refcounts = [st.refcounts EXCEPT ![b] = @ + 1]
      /\ up.free = st.free /\ up.cached = st.cached /\ up.evictor = st.evictor
      /\ up.active = st.active /\ up.computed = st.computed
      /\ up.touched = st.touched /\ up.failed = st.failed
  BY DEF AllocState
<1> HIDE DEF up
<1>2. CASE st.free # {}
  <2> DEFINE tk == [up EXCEPT !.free = @ \ {b}]
             nst == TrackBlockId(tk, b, FALSE)
  <2>1. AllocateBlockId(st, b, dropped) = nst
    BY <1>2 DEF AllocateBlockId, up
  <2>2. /\ tk \in AllocState
        /\ tk.refcounts = up.refcounts /\ tk.free = st.free \ {b}
        /\ tk.cached = st.cached /\ tk.evictor = st.evictor
        /\ tk.active = st.active /\ tk.computed = st.computed
        /\ tk.touched = st.touched /\ tk.failed = st.failed
    BY <1>1 DEF AllocState
  <2> HIDE DEF tk
  <2>3. /\ nst \in AllocState
        /\ nst.refcounts = tk.refcounts /\ nst.free = tk.free
        /\ nst.cached = tk.cached /\ nst.evictor = tk.evictor
        /\ nst.active = tk.active \cup {b} /\ nst.computed = tk.computed \ {b}
        /\ nst.touched = tk.touched /\ nst.failed = tk.failed
    BY <2>2, TrackFields
  <2> HIDE DEF nst
  <2>4. \A c \in BlockIds : nst.refcounts[c] =
          IF c = b THEN st.refcounts[c] + 1 ELSE st.refcounts[c]
    BY <1>0, <1>1, <2>2, <2>3
  <2> QED
    BY <1>2, <2>1, <2>2, <2>3, <2>4
<1>3. CASE st.free = {}
  <2> DEFINE ev == [x \in BlockIds |-> IF x \in dropped \cup {b} THEN None ELSE st.evictor[x]]
             tk == [up EXCEPT !.cached[st.evictor[b]] = None, !.evictor = ev]
             nst == TrackBlockId(tk, b, FALSE)
  <2>1. AllocateBlockId(st, b, dropped) = nst
    BY <1>3 DEF AllocateBlockId, up
  <2>2. ev \in [BlockIds -> Hashes \cup {None}]
    BY <1>0
  <2>3. st.evictor[b] \in Hashes
    BY <1>0, <1>3
  <2>4. /\ tk \in AllocState
        /\ tk.refcounts = up.refcounts /\ tk.free = st.free
        /\ tk.cached = [st.cached EXCEPT ![st.evictor[b]] = None] /\ tk.evictor = ev
        /\ tk.active = st.active /\ tk.computed = st.computed
        /\ tk.touched = st.touched /\ tk.failed = st.failed
    <3> HIDE DEF ev
    <3> QED BY <1>1, <2>2, <2>3 DEF AllocState
  <2> HIDE DEF tk
  <2>5. /\ nst \in AllocState
        /\ nst.refcounts = tk.refcounts /\ nst.free = tk.free
        /\ nst.cached = tk.cached /\ nst.evictor = tk.evictor
        /\ nst.active = tk.active \cup {b} /\ nst.computed = tk.computed \ {b}
        /\ nst.touched = tk.touched /\ nst.failed = tk.failed
    BY <2>4, TrackFields, ZenonT(60)
  <2> HIDE DEF nst
  <2>6. \A c \in BlockIds : nst.refcounts[c] =
          IF c = b THEN st.refcounts[c] + 1 ELSE st.refcounts[c]
    BY <1>0, <1>1, <2>4, <2>5
  <2>7. \A g \in Hashes : nst.cached[g] =
          IF st.free = {} /\ g = st.evictor[b] THEN None ELSE st.cached[g]
    BY <1>0, <1>3, <2>3, <2>4, <2>5
  <2>8. \A c \in BlockIds : nst.evictor[c] =
          IF st.free = {} /\ c \in dropped \cup {b} THEN None ELSE st.evictor[c]
    BY <1>3, <2>4, <2>5
  <2>9. nst.free = st.free \ {b}
    BY <1>3, <2>4, <2>5
  <2> QED
    BY <2>1, <2>4, <2>5, <2>6, <2>7, <2>8, <2>9
<1> QED
  BY <1>2, <1>3

-----------------------------------------------------------------------------
(* One lemma per helper method: it keeps the invariant when the block object *)
(* concerned changes as the caller changes it.                               *)

\* A cache hit keeps the invariant: the object joins the users of the cached
\* block, which leaves the evictor if it was there.
LEMMA HitKeepsInv ==
  ASSUME NEW st, NEW ob, NEW oc, NEW m, AllocInv(st, ob, oc, m),
         NEW o \in Objects, ob[o] = None,
         NEW h \in Hashes, st.cached[h] # None
  PROVE  AllocInv(IncrRefcountCachedBlock(st, st.cached[h]),
                  [ob EXCEPT ![o] = st.cached[h]], [oc EXCEPT ![o] = h], m)
<1> DEFINE b == st.cached[h]
           nst == IncrRefcountCachedBlock(st, b)
           nob == [ob EXCEPT ![o] = b]
           noc == [oc EXCEPT ![o] = h]
<1>1. /\ Typed(st, ob, oc, m) /\ Counted(st, ob) /\ Placed(st)
      /\ Shared(st, ob, oc) /\ Stored(st, ob, oc, m) /\ Marked(st) /\ st.failed = {}
  BY DEF AllocInv
<1>2. /\ st \in AllocState
      /\ ob \in [Objects -> BlockIds \cup {None}]
      /\ oc \in [Objects -> Content]
      /\ m \in [BlockIds -> Content]
  BY <1>1 DEF Typed
<1>3. /\ st.refcounts \in [BlockIds -> Nat]
      /\ st.cached \in [Hashes -> BlockIds \cup {None}]
      /\ st.evictor \in [BlockIds -> Hashes \cup {None}]
  BY <1>2, FieldTypes
<1>4. /\ None \notin BlockIds /\ None \notin Hashes
      /\ Hashes \subseteq Content /\ None \in Content
  BY AllocatorAssumption DEF Content
<1>5. b \in BlockIds
  BY <1>3
<1>6. /\ Cardinality(UsersOf(nob, b)) = Cardinality(UsersOf(ob, b)) + 1
      /\ \A c \in BlockIds : c # b =>
           Cardinality(UsersOf(nob, c)) = Cardinality(UsersOf(ob, c))
  BY <1>2, <1>5, UserAdded
<1>7. /\ st.refcounts[b] = 0 <=> b \notin st.active
      /\ b \in st.active => st.evictor[b] = None
  BY <1>1, <1>3, <1>5 DEF Counted, Placed
<1>8. /\ nst \in AllocState
      /\ \A c \in BlockIds : nst.refcounts[c] =
           IF c = b THEN st.refcounts[c] + 1 ELSE st.refcounts[c]
      /\ nst.free = st.free
      /\ nst.cached = st.cached
      /\ \A c \in BlockIds : nst.evictor[c] = IF c = b THEN None ELSE st.evictor[c]
      /\ nst.active = st.active \cup {b}
      /\ nst.computed \in {st.computed, st.computed \cup {b}}
      /\ nst.touched = st.touched
      /\ nst.failed = st.failed
  BY <1>2, <1>5, <1>7, IncrFields
<1> HIDE DEF nst
<1>9. Typed(nst, nob, noc, m)
  BY <1>2, <1>4, <1>5, <1>8 DEF Typed
<1>10. Counted(nst, nob)
  <2> HIDE DEF nob, b
  <2>1. ASSUME NEW c \in BlockIds
        PROVE  /\ nst.refcounts[c] = Cardinality(UsersOf(nob, c))
               /\ c \in nst.active <=> nst.refcounts[c] > 0
    <3>1. CASE c = b
      BY <1>1, <1>3, <1>6, <1>8, <3>1 DEF Counted
    <3>2. CASE c # b
      BY <1>1, <1>3, <1>6, <1>8, <3>2 DEF Counted
    <3> QED
      BY <3>1, <3>2
  <2> QED
    BY <2>1 DEF Counted
<1>11. Placed(nst)
  <2> HIDE DEF b
  <2>1. b \in st.free => b \notin st.active /\ st.evictor[b] = None
    BY <1>1, <1>5 DEF Placed
  <2>2. b \notin st.free
    \* a cached block is resident or in use
    BY <1>1, <1>3, <1>4, <1>5, <2>1 DEF Shared, b
  <2>3. ASSUME NEW c \in BlockIds
        PROVE  /\ c \in nst.free <=> (c \notin nst.active /\ nst.evictor[c] = None)
               /\ nst.evictor[c] # None =>
                    (c \notin nst.active /\ nst.cached[nst.evictor[c]] = c)
    BY <1>1, <1>8, <2>2 DEF Placed
  <2> QED
    BY <2>3 DEF Placed
<1>12. Shared(nst, nob, noc)
  <2>1. ASSUME NEW g \in Hashes, NEW c \in BlockIds, st.cached[g] = c
        PROVE  \/ nst.evictor[c] = g
               \/ c \in nst.active /\ \A x \in Objects : nob[x] = c => noc[x] = g
    <3>1. CASE c # b
      BY <1>1, <1>2, <1>5, <1>8, <2>1, <3>1 DEF Shared
    <3>2. CASE c = b
      <4>1. g = h
        \* two hashes of one block: the block is neither resident nor used twice
        BY <1>1, <1>3, <1>4, <1>5, <2>1, <3>2 DEF Stored
      <4>2. ASSUME NEW x \in Objects, nob[x] = b
            PROVE  noc[x] = h
        <5>1. CASE x = o
          BY <1>2, <5>1
        <5>2. CASE x # o
          <6>1. ob[x] = b
            BY <1>2, <4>2, <5>2
          <6>2. m[b] = h /\ m[b] = oc[x]
            BY <1>1, <1>4, <1>5, <6>1 DEF Stored
          <6> QED
            BY <1>2, <5>2, <6>2
        <5> QED
          BY <5>1, <5>2
      <4> QED
        BY <1>8, <3>2, <4>1, <4>2
    <3> QED
      BY <3>1, <3>2
  <2>2. ASSUME NEW x \in Objects, nob[x] # None, noc[x] \in Hashes
        PROVE  st.cached[noc[x]] = nob[x]
    BY <1>1, <1>2, <2>2 DEF Shared
  <2> QED
    BY <1>8, <2>1, <2>2 DEF Shared
<1>13. Stored(nst, nob, noc, m)
  BY <1>1, <1>2, <1>4, <1>5, <1>8 DEF Stored
<1>14. Marked(nst)
  BY <1>1, <1>5, <1>8 DEF Marked
<1> QED
  BY <1>1, <1>8, <1>9, <1>10, <1>11, <1>12, <1>13, <1>14 DEF AllocInv, nst

\* Allocating a block for content that is not full keeps the invariant.
LEMMA AllocateKeepsInv ==
  ASSUME NEW st, NEW ob, NEW oc, NEW m, AllocInv(st, ob, oc, m),
         NEW o \in Objects, ob[o] = None,
         NEW p \in Content \ Hashes, NEW b \in BlockIds, NEW dropped \in SUBSET BlockIds,
         CanAllocateBlockId(st, b, dropped)
  PROVE  /\ AllocInv(AllocateBlockId(st, b, dropped), [ob EXCEPT ![o] = b],
                     [oc EXCEPT ![o] = p], [m EXCEPT ![b] = p])
         /\ AllocateBlockId(st, b, dropped).refcounts[b] = 1
         /\ \A g \in Hashes : st.cached[g] = None =>
              AllocateBlockId(st, b, dropped).cached[g] = None
<1> DEFINE nst == AllocateBlockId(st, b, dropped)
           nob == [ob EXCEPT ![o] = b]
           noc == [oc EXCEPT ![o] = p]
           nm == [m EXCEPT ![b] = p]
<1>1. /\ Typed(st, ob, oc, m) /\ Counted(st, ob) /\ Placed(st)
      /\ Shared(st, ob, oc) /\ Stored(st, ob, oc, m) /\ Marked(st) /\ st.failed = {}
  BY DEF AllocInv
<1>2. /\ st \in AllocState
      /\ ob \in [Objects -> BlockIds \cup {None}]
      /\ oc \in [Objects -> Content]
      /\ m \in [BlockIds -> Content]
  BY <1>1 DEF Typed
<1>3. /\ st.refcounts \in [BlockIds -> Nat]
      /\ st.cached \in [Hashes -> BlockIds \cup {None}]
      /\ st.evictor \in [BlockIds -> Hashes \cup {None}]
  BY <1>2, FieldTypes
<1>4. /\ None \notin BlockIds /\ None \notin Hashes
      /\ Hashes \subseteq Content /\ None \in Content
  BY AllocatorAssumption DEF Content
<1>5. /\ Cardinality(UsersOf(nob, b)) = Cardinality(UsersOf(ob, b)) + 1
      /\ \A c \in BlockIds : c # b =>
           Cardinality(UsersOf(nob, c)) = Cardinality(UsersOf(ob, c))
  BY <1>2, UserAdded
<1>6. \A c \in BlockIds : c \notin st.active => \A x \in Objects : ob[x] # c
  BY <1>1, <1>2, <1>3, UserCount DEF Counted
<1>7. /\ b \notin st.active
      /\ st.free = {} => st.evictor[b] # None
      /\ st.free # {} => st.evictor[b] = None
      /\ st.free = {} => dropped = {}
  <2>1. Evictable(st) = Resident(st)
    BY <1>1, <1>3 DEF Evictable, Resident, Placed, Counted
  <2>2. b \in Resident(st) <=> st.evictor[b] # None
    BY DEF Resident
  <2> QED
    BY <1>1, <2>1, <2>2 DEF CanAllocateBlockId, Placed
<1>8. /\ nst \in AllocState
      /\ \A c \in BlockIds : nst.refcounts[c] =
           IF c = b THEN st.refcounts[c] + 1 ELSE st.refcounts[c]
      /\ nst.free = st.free \ {b}
      /\ \A g \in Hashes : nst.cached[g] =
           IF st.free = {} /\ g = st.evictor[b] THEN None ELSE st.cached[g]
      /\ \A c \in BlockIds : nst.evictor[c] =
           IF st.free = {} /\ c \in dropped \cup {b} THEN None ELSE st.evictor[c]
      /\ nst.active = st.active \cup {b}
      /\ nst.computed = st.computed \ {b}
      /\ nst.touched = st.touched
      /\ nst.failed = st.failed
  BY <1>2, <1>7, AllocateFields
<1> HIDE DEF nst
<1>9. \A g \in Hashes : nst.cached[g] # b
  BY <1>1, <1>3, <1>4, <1>7, <1>8 DEF Shared
<1>10. Typed(nst, nob, noc, nm)
  BY <1>2, <1>8 DEF Typed
<1>11. Counted(nst, nob)
  <2> HIDE DEF nob
  <2>1. ASSUME NEW c \in BlockIds
        PROVE  /\ nst.refcounts[c] = Cardinality(UsersOf(nob, c))
               /\ c \in nst.active <=> nst.refcounts[c] > 0
    <3>1. CASE c = b
      BY <1>1, <1>3, <1>5, <1>8, <3>1 DEF Counted
    <3>2. CASE c # b
      BY <1>1, <1>3, <1>5, <1>8, <3>2 DEF Counted
    <3> QED
      BY <3>1, <3>2
  <2> QED
    BY <2>1 DEF Counted
<1>12. Placed(nst)
  BY <1>1, <1>3, <1>4, <1>7, <1>8 DEF Placed
<1>13. Shared(nst, nob, noc)
  <2>1. ASSUME NEW g \in Hashes, NEW c \in BlockIds, nst.cached[g] = c
        PROVE  \/ nst.evictor[c] = g
               \/ c \in nst.active /\ \A x \in Objects : nob[x] = c => noc[x] = g
    <3>1. c # b /\ st.cached[g] = c
      BY <1>4, <1>8, <1>9, <2>1
    <3> QED
      BY <1>1, <1>2, <1>7, <1>8, <3>1 DEF Shared
  <2>2. ASSUME NEW x \in Objects, nob[x] # None, noc[x] \in Hashes
        PROVE  nst.cached[noc[x]] = nob[x]
    <3>1. x # o /\ nob[x] = ob[x] /\ noc[x] = oc[x]
      BY <1>2, <2>2
    <3>2. st.cached[oc[x]] = ob[x] /\ ob[x] \in st.active
      BY <1>1, <1>2, <1>6, <2>2, <3>1 DEF Shared
    <3> QED
      BY <1>1, <1>3, <1>7, <1>8, <2>2, <3>1, <3>2 DEF Placed
  <2> QED
    BY <2>1, <2>2 DEF Shared
<1>14. Stored(nst, nob, noc, nm)
  BY <1>1, <1>2, <1>3, <1>4, <1>6, <1>7, <1>8, <1>9 DEF Stored
<1>15. Marked(nst)
  <2>1. ASSUME NEW c \in nst.computed \cup nst.touched
        PROVE  c \in nst.active /\ \E g \in Hashes : nst.cached[g] = c
    <3>1. c \in st.active
      BY <1>1, <1>8, <2>1 DEF Marked
    <3>2. PICK g \in Hashes : st.cached[g] = c
      BY <1>1, <1>8, <2>1 DEF Marked
    <3>3. c \in BlockIds
      BY <1>2, <3>1, FieldTypes
    <3>4. nst.cached[g] = c
      BY <1>1, <1>3, <1>4, <1>7, <1>8, <3>1, <3>2, <3>3 DEF Placed
    <3> QED
      BY <1>8, <3>1, <3>4
  <2> QED
    BY <2>1 DEF Marked
<1>16. nst.refcounts[b] = 1
  BY <1>1, <1>3, <1>7, <1>8 DEF Counted
<1>17. \A g \in Hashes : st.cached[g] = None => nst.cached[g] = None
  BY <1>8
<1> QED
  BY <1>1, <1>8, <1>10, <1>11, <1>12, <1>13, <1>14, <1>15, <1>16, <1>17 DEF AllocInv, nst

\* Releasing a block that is not full keeps the invariant.
LEMMA FreeHashlessKeepsInv ==
  ASSUME NEW st, NEW ob, NEW oc, NEW m, AllocInv(st, ob, oc, m),
         NEW o \in Objects, NEW b \in BlockIds, ob[o] = b, oc[o] \notin Hashes,
         NEW p \in Content
  PROVE  /\ AllocInv(DecrRefcountHashlessBlock(st, b),
                     [ob EXCEPT ![o] = None], [oc EXCEPT ![o] = p], m)
         /\ DecrRefcountHashlessBlock(st, b).cached = st.cached
         /\ st.refcounts[b] = 1 => b \in DecrRefcountHashlessBlock(st, b).free
<1> DEFINE nst == DecrRefcountHashlessBlock(st, b)
           nob == [ob EXCEPT ![o] = None]
           noc == [oc EXCEPT ![o] = p]
<1>1. /\ Typed(st, ob, oc, m) /\ Counted(st, ob) /\ Placed(st)
      /\ Shared(st, ob, oc) /\ Stored(st, ob, oc, m) /\ Marked(st) /\ st.failed = {}
  BY DEF AllocInv
<1>2. /\ st \in AllocState
      /\ ob \in [Objects -> BlockIds \cup {None}]
      /\ oc \in [Objects -> Content]
      /\ m \in [BlockIds -> Content]
  BY <1>1 DEF Typed
<1>3. /\ st.refcounts \in [BlockIds -> Nat]
      /\ st.cached \in [Hashes -> BlockIds \cup {None}]
      /\ st.evictor \in [BlockIds -> Hashes \cup {None}]
  BY <1>2, FieldTypes
<1>4. /\ None \notin BlockIds /\ None \notin Hashes
      /\ Hashes \subseteq Content /\ None \in Content
  BY AllocatorAssumption DEF Content
<1>5. /\ Cardinality(UsersOf(nob, b)) = Cardinality(UsersOf(ob, b)) - 1
      /\ \A c \in BlockIds : c # b =>
           Cardinality(UsersOf(nob, c)) = Cardinality(UsersOf(ob, c))
  BY <1>2, UserRemoved
<1>6. st.refcounts[b] > 0 /\ b \in st.active /\ st.evictor[b] = None
  BY <1>1, <1>2, <1>3, UserCount DEF Counted, Placed
<1>7. \A g \in Hashes : st.cached[g] # b
  BY <1>1, <1>4 DEF Stored
<1>8. /\ nst \in AllocState
      /\ \A c \in BlockIds : nst.refcounts[c] =
           IF c = b THEN st.refcounts[c] - 1 ELSE st.refcounts[c]
      /\ nst.free = IF st.refcounts[b] = 1 THEN st.free \cup {b} ELSE st.free
      /\ nst.cached = st.cached
      /\ \A c \in BlockIds : nst.evictor[c] = st.evictor[c]
      /\ nst.active = IF st.refcounts[b] = 1 THEN st.active \ {b} ELSE st.active
      /\ nst.computed = IF st.refcounts[b] = 1 THEN st.computed \ {b} ELSE st.computed
      /\ nst.touched = st.touched
      /\ nst.failed = st.failed
  BY <1>2, <1>6, DecrHashlessFields, ZenonT(60)
<1> HIDE DEF nst
<1>9. Typed(nst, nob, noc, m)
  BY <1>2, <1>8 DEF Typed
<1>10. Counted(nst, nob)
  <2> HIDE DEF nob
  <2>1. ASSUME NEW c \in BlockIds
        PROVE  /\ nst.refcounts[c] = Cardinality(UsersOf(nob, c))
               /\ c \in nst.active <=> nst.refcounts[c] > 0
    <3>1. CASE c = b
      BY <1>1, <1>3, <1>5, <1>6, <1>8, <3>1 DEF Counted
    <3>2. CASE c # b
      BY <1>1, <1>3, <1>5, <1>6, <1>8, <3>2 DEF Counted
    <3> QED
      BY <3>1, <3>2
  <2> QED
    BY <2>1 DEF Counted
<1>11. Placed(nst)
  <2>1. ASSUME NEW c \in BlockIds
        PROVE  /\ c \in nst.free <=> (c \notin nst.active /\ nst.evictor[c] = None)
               /\ nst.evictor[c] # None =>
                    (c \notin nst.active /\ nst.cached[nst.evictor[c]] = c)
    BY <1>1, <1>6, <1>8 DEF Placed
  <2> QED
    BY <2>1 DEF Placed
<1>12. Shared(nst, nob, noc)
  <2>1. ASSUME NEW g \in Hashes, NEW c \in BlockIds, nst.cached[g] = c
        PROVE  \/ nst.evictor[c] = g
               \/ c \in nst.active /\ \A x \in Objects : nob[x] = c => noc[x] = g
    <3>1. c # b /\ st.cached[g] = c
      BY <1>7, <1>8, <2>1
    <3> QED
      BY <1>1, <1>2, <1>4, <1>8, <3>1 DEF Shared
  <2>2. ASSUME NEW x \in Objects, nob[x] # None, noc[x] \in Hashes
        PROVE  nst.cached[noc[x]] = nob[x]
    BY <1>1, <1>2, <1>8, <2>2 DEF Shared
  <2> QED
    BY <2>1, <2>2 DEF Shared
<1>13. Stored(nst, nob, noc, m)
  BY <1>1, <1>2, <1>8 DEF Stored
<1>14. Marked(nst)
  BY <1>1, <1>7, <1>8 DEF Marked
<1> QED
  BY <1>1, <1>8, <1>9, <1>10, <1>11, <1>12, <1>13, <1>14 DEF AllocInv, nst

\* Releasing a full block keeps the invariant, unless it would take the last
\* user away from a block that is still to be marked computed.
LEMMA FreeCachedKeepsInv ==
  ASSUME NEW st, NEW ob, NEW oc, NEW m, AllocInv(st, ob, oc, m),
         NEW o \in Objects, NEW b \in BlockIds, ob[o] = b, oc[o] \in Hashes,
         b \in st.touched => st.refcounts[b] > 1,
         NEW p \in Content
  PROVE  AllocInv(DecrRefcountCachedBlock(st, b, oc[o]),
                  [ob EXCEPT ![o] = None], [oc EXCEPT ![o] = p], m)
<1> DEFINE h == oc[o]
           nst == DecrRefcountCachedBlock(st, b, h)
           nob == [ob EXCEPT ![o] = None]
           noc == [oc EXCEPT ![o] = p]
<1>1. /\ Typed(st, ob, oc, m) /\ Counted(st, ob) /\ Placed(st)
      /\ Shared(st, ob, oc) /\ Stored(st, ob, oc, m) /\ Marked(st) /\ st.failed = {}
  BY DEF AllocInv
<1>2. /\ st \in AllocState
      /\ ob \in [Objects -> BlockIds \cup {None}]
      /\ oc \in [Objects -> Content]
      /\ m \in [BlockIds -> Content]
  BY <1>1 DEF Typed
<1>3. /\ st.refcounts \in [BlockIds -> Nat]
      /\ st.cached \in [Hashes -> BlockIds \cup {None}]
      /\ st.evictor \in [BlockIds -> Hashes \cup {None}]
  BY <1>2, FieldTypes
<1>4. /\ None \notin BlockIds /\ None \notin Hashes
      /\ Hashes \subseteq Content /\ None \in Content
  BY AllocatorAssumption DEF Content
<1>5. /\ Cardinality(UsersOf(nob, b)) = Cardinality(UsersOf(ob, b)) - 1
      /\ \A c \in BlockIds : c # b =>
           Cardinality(UsersOf(nob, c)) = Cardinality(UsersOf(ob, c))
  BY <1>2, UserRemoved
<1>6. st.refcounts[b] > 0 /\ b \in st.active /\ st.evictor[b] = None
  BY <1>1, <1>2, <1>3, UserCount DEF Counted, Placed
<1>7. h \in Hashes /\ st.cached[h] = b /\ st.cached[h] # None
  BY <1>1, <1>4 DEF Shared
<1> HIDE DEF h
<1>8. \A g \in Hashes : st.cached[g] = b => g = h
  BY <1>1, <1>4, <1>7 DEF Stored
<1>9. /\ nst \in AllocState
      /\ \A c \in BlockIds : nst.refcounts[c] =
           IF c = b THEN st.refcounts[c] - 1 ELSE st.refcounts[c]
      /\ nst.free = st.free
      /\ nst.cached = st.cached
      /\ \A c \in BlockIds : nst.evictor[c] =
           IF c = b /\ st.refcounts[b] = 1 THEN h ELSE st.evictor[c]
      /\ nst.active = IF st.refcounts[b] = 1 THEN st.active \ {b} ELSE st.active
      /\ nst.computed = IF st.refcounts[b] = 1 THEN st.computed \ {b} ELSE st.computed
      /\ nst.touched = st.touched
      /\ nst.failed = st.failed
  BY <1>2, <1>4, <1>6, <1>7, DecrCachedFields, ZenonT(60)
<1> HIDE DEF nst
<1>10. Typed(nst, nob, noc, m)
  BY <1>2, <1>9 DEF Typed
<1>11. Counted(nst, nob)
  <2> HIDE DEF nob
  <2>1. ASSUME NEW c \in BlockIds
        PROVE  /\ nst.refcounts[c] = Cardinality(UsersOf(nob, c))
               /\ c \in nst.active <=> nst.refcounts[c] > 0
    <3>1. CASE c = b
      BY <1>1, <1>3, <1>5, <1>6, <1>9, <3>1 DEF Counted
    <3>2. CASE c # b
      BY <1>1, <1>3, <1>5, <1>6, <1>9, <3>2 DEF Counted
    <3> QED
      BY <3>1, <3>2
  <2> QED
    BY <2>1 DEF Counted
<1>12. Placed(nst)
  <2>1. ASSUME NEW c \in BlockIds
        PROVE  /\ c \in nst.free <=> (c \notin nst.active /\ nst.evictor[c] = None)
               /\ nst.evictor[c] # None =>
                    (c \notin nst.active /\ nst.cached[nst.evictor[c]] = c)
    BY <1>1, <1>4, <1>6, <1>7, <1>9 DEF Placed
  <2> QED
    BY <2>1 DEF Placed
<1>13. Shared(nst, nob, noc)
  <2>1. ASSUME NEW g \in Hashes, NEW c \in BlockIds, nst.cached[g] = c
        PROVE  \/ nst.evictor[c] = g
               \/ c \in nst.active /\ \A x \in Objects : nob[x] = c => noc[x] = g
    <3>1. CASE c = b /\ st.refcounts[b] = 1
      BY <1>8, <1>9, <2>1, <3>1
    <3>2. CASE ~(c = b /\ st.refcounts[b] = 1)
      BY <1>1, <1>2, <1>4, <1>9, <2>1, <3>2 DEF Shared
    <3> QED
      BY <3>1, <3>2
  <2>2. ASSUME NEW x \in Objects, nob[x] # None, noc[x] \in Hashes
        PROVE  nst.cached[noc[x]] = nob[x]
    BY <1>1, <1>2, <1>9, <2>2 DEF Shared
  <2> QED
    BY <2>1, <2>2 DEF Shared
<1>14. Stored(nst, nob, noc, m)
  BY <1>1, <1>2, <1>9 DEF Stored
<1>15. Marked(nst)
  <2>1. ASSUME NEW c \in nst.computed \cup nst.touched
        PROVE  c \in nst.active /\ \E g \in Hashes : nst.cached[g] = c
    <3>1. c \in st.computed \cup st.touched
      BY <1>9, <2>1
    <3>2. c \in st.active /\ \E g \in Hashes : st.cached[g] = c
      BY <1>1, <3>1 DEF Marked
    <3>3. c = b => st.refcounts[b] # 1
      BY <1>3, <1>9, <2>1
    <3> QED
      BY <1>9, <3>2, <3>3
  <2> QED
    BY <2>1 DEF Marked
<1> QED
  BY <1>1, <1>9, <1>10, <1>11, <1>12, <1>13, <1>14, <1>15 DEF AllocInv, nst, h

\* Filling a block that has one user keeps the invariant when its content was
\* not cached before: the block is registered and touched.
LEMMA RegisterKeepsInv ==
  ASSUME NEW st, NEW ob, NEW oc, NEW m, AllocInv(st, ob, oc, m),
         NEW o \in Objects, NEW b \in BlockIds, ob[o] = b, oc[o] \notin Hashes,
         st.refcounts[b] = 1, NEW h \in Hashes, st.cached[h] = None
  PROVE  AllocInv([st EXCEPT !.cached[h] = b, !.touched = @ \cup {b}],
                  ob, [oc EXCEPT ![o] = h], [m EXCEPT ![b] = h])
<1> DEFINE nst == [st EXCEPT !.cached[h] = b, !.touched = @ \cup {b}]
           noc == [oc EXCEPT ![o] = h]
           nm == [m EXCEPT ![b] = h]
<1>1. /\ Typed(st, ob, oc, m) /\ Counted(st, ob) /\ Placed(st)
      /\ Shared(st, ob, oc) /\ Stored(st, ob, oc, m) /\ Marked(st) /\ st.failed = {}
  BY DEF AllocInv
<1>2. /\ st \in AllocState
      /\ ob \in [Objects -> BlockIds \cup {None}]
      /\ oc \in [Objects -> Content]
      /\ m \in [BlockIds -> Content]
  BY <1>1 DEF Typed
<1>3. /\ st.refcounts \in [BlockIds -> Nat]
      /\ st.cached \in [Hashes -> BlockIds \cup {None}]
      /\ st.evictor \in [BlockIds -> Hashes \cup {None}]
  BY <1>2, FieldTypes
<1>4. /\ None \notin BlockIds /\ None \notin Hashes
      /\ Hashes \subseteq Content /\ None \in Content
  BY AllocatorAssumption DEF Content
<1>5. \A x \in Objects : ob[x] = b => x = o
  BY <1>1, <1>2, UserCount DEF Counted
<1>6. b \in st.active /\ st.evictor[b] = None
  BY <1>1, <1>3 DEF Counted, Placed
<1>7. \A g \in Hashes : st.cached[g] # b
  BY <1>1, <1>4 DEF Stored
<1>8. /\ nst \in AllocState
      /\ nst.refcounts = st.refcounts
      /\ nst.free = st.free
      /\ nst.cached = [st.cached EXCEPT ![h] = b]
      /\ nst.evictor = st.evictor
      /\ nst.active = st.active
      /\ nst.computed = st.computed
      /\ nst.touched = st.touched \cup {b}
      /\ nst.failed = st.failed
  BY <1>2 DEF AllocState
<1>9. \A g \in Hashes : nst.cached[g] = IF g = h THEN b ELSE st.cached[g]
  BY <1>3, <1>8
<1> HIDE DEF nst
<1>10. Typed(nst, ob, noc, nm)
  BY <1>2, <1>4, <1>8 DEF Typed
<1>11. Counted(nst, ob)
  BY <1>1, <1>8 DEF Counted
<1>12. Placed(nst)
  <2>1. ASSUME NEW c \in BlockIds, st.evictor[c] # None
        PROVE  nst.cached[st.evictor[c]] = c
    <3>1. st.evictor[c] \in Hashes /\ st.cached[st.evictor[c]] = c
      BY <1>1, <1>3, <2>1 DEF Placed
    <3> QED
      BY <1>4, <1>9, <3>1
  <2> QED
    BY <1>1, <1>8, <2>1 DEF Placed
<1>13. Shared(nst, ob, noc)
  <2>1. ASSUME NEW g \in Hashes, NEW c \in BlockIds, nst.cached[g] = c
        PROVE  \/ nst.evictor[c] = g
               \/ c \in nst.active /\ \A x \in Objects : ob[x] = c => noc[x] = g
    <3>1. CASE g = h
      BY <1>2, <1>5, <1>6, <1>8, <1>9, <2>1, <3>1
    <3>2. CASE g # h
      BY <1>1, <1>2, <1>7, <1>8, <1>9, <2>1, <3>2 DEF Shared
    <3> QED
      BY <3>1, <3>2
  <2>2. ASSUME NEW x \in Objects, ob[x] # None, noc[x] \in Hashes
        PROVE  nst.cached[noc[x]] = ob[x]
    <3>1. CASE x = o
      BY <1>2, <1>9, <3>1
    <3>2. CASE x # o
      BY <1>1, <1>2, <1>9, <2>2, <3>2 DEF Shared
    <3> QED
      BY <3>1, <3>2
  <2> QED
    BY <2>1, <2>2 DEF Shared
<1>14. Stored(nst, ob, noc, nm)
  <2>1. ASSUME NEW x \in Objects, ob[x] # None
        PROVE  nm[ob[x]] = noc[x]
    BY <1>1, <1>2, <1>5, <2>1 DEF Stored
  <2>2. ASSUME NEW g \in Hashes, nst.cached[g] # None
        PROVE  nm[nst.cached[g]] = g
    BY <1>1, <1>2, <1>3, <1>7, <1>9, <2>2 DEF Stored
  <2> QED
    BY <2>1, <2>2 DEF Stored
<1>15. Marked(nst)
  <2>1. ASSUME NEW c \in nst.computed \cup nst.touched
        PROVE  c \in nst.active /\ \E g \in Hashes : nst.cached[g] = c
    <3>1. CASE c = b
      BY <1>6, <1>8, <1>9, <3>1
    <3>2. CASE c # b
      <4>1. c \in st.active
        BY <1>1, <1>8, <2>1, <3>2 DEF Marked
      <4>2. PICK g \in Hashes : st.cached[g] = c
        BY <1>1, <1>8, <2>1, <3>2 DEF Marked
      <4>3. c # None
        BY <1>2, <1>4, <4>1, FieldTypes
      <4>4. nst.cached[g] = c
        BY <1>9, <4>2, <4>3
      <4> QED
        BY <1>8, <4>1, <4>4
    <3> QED
      BY <3>1, <3>2
  <2> QED
    BY <2>1 DEF Marked
<1> QED
  BY <1>1, <1>8, <1>10, <1>11, <1>12, <1>13, <1>14, <1>15 DEF AllocInv, nst

\* Appending to a block with one user without filling it keeps the invariant.
LEMMA OverwriteKeepsInv ==
  ASSUME NEW st, NEW ob, NEW oc, NEW m, AllocInv(st, ob, oc, m),
         NEW o \in Objects, NEW b \in BlockIds, ob[o] = b, oc[o] \notin Hashes,
         st.refcounts[b] = 1, NEW p \in Content \ Hashes
  PROVE  AllocInv(st, ob, [oc EXCEPT ![o] = p], [m EXCEPT ![b] = p])
<1> DEFINE noc == [oc EXCEPT ![o] = p]
           nm == [m EXCEPT ![b] = p]
<1>1. /\ Typed(st, ob, oc, m) /\ Counted(st, ob) /\ Placed(st)
      /\ Shared(st, ob, oc) /\ Stored(st, ob, oc, m) /\ Marked(st) /\ st.failed = {}
  BY DEF AllocInv
<1>2. /\ st \in AllocState
      /\ ob \in [Objects -> BlockIds \cup {None}]
      /\ oc \in [Objects -> Content]
      /\ m \in [BlockIds -> Content]
  BY <1>1 DEF Typed
<1>3. /\ st.refcounts \in [BlockIds -> Nat]
      /\ st.cached \in [Hashes -> BlockIds \cup {None}]
      /\ st.evictor \in [BlockIds -> Hashes \cup {None}]
  BY <1>2, FieldTypes
<1>4. /\ None \notin BlockIds /\ None \notin Hashes
      /\ Hashes \subseteq Content /\ None \in Content
  BY AllocatorAssumption DEF Content
<1>5. \A x \in Objects : ob[x] = b => x = o
  BY <1>1, <1>2, UserCount DEF Counted
<1>6. \A g \in Hashes : st.cached[g] # b
  BY <1>1, <1>4 DEF Stored
<1>7. Typed(st, ob, noc, nm)
  BY <1>2 DEF Typed
<1>8. Shared(st, ob, noc)
  BY <1>1, <1>2, <1>6 DEF Shared
<1>9. Stored(st, ob, noc, nm)
  <2>1. ASSUME NEW x \in Objects, ob[x] # None
        PROVE  nm[ob[x]] = noc[x]
    BY <1>1, <1>2, <1>5, <2>1 DEF Stored
  <2>2. ASSUME NEW g \in Hashes, st.cached[g] # None
        PROVE  nm[st.cached[g]] = g
    BY <1>1, <1>2, <1>3, <1>6, <2>2 DEF Stored
  <2> QED
    BY <2>1, <2>2 DEF Stored
<1> QED
  BY <1>1, <1>7, <1>8, <1>9 DEF AllocInv

\* What a free block's memory holds does not matter.
LEMMA FreeMemoryKeepsInv ==
  ASSUME NEW st, NEW ob, NEW oc, NEW m, AllocInv(st, ob, oc, m),
         NEW b \in BlockIds, b \in st.free, NEW p \in Content
  PROVE  AllocInv(st, ob, oc, [m EXCEPT ![b] = p])
<1> DEFINE nm == [m EXCEPT ![b] = p]
<1>1. /\ Typed(st, ob, oc, m) /\ Counted(st, ob) /\ Placed(st)
      /\ Shared(st, ob, oc) /\ Stored(st, ob, oc, m) /\ Marked(st) /\ st.failed = {}
  BY DEF AllocInv
<1>2. /\ st \in AllocState
      /\ ob \in [Objects -> BlockIds \cup {None}]
      /\ oc \in [Objects -> Content]
      /\ m \in [BlockIds -> Content]
  BY <1>1 DEF Typed
<1>3. /\ st.refcounts \in [BlockIds -> Nat]
      /\ st.cached \in [Hashes -> BlockIds \cup {None}]
      /\ st.evictor \in [BlockIds -> Hashes \cup {None}]
  BY <1>2, FieldTypes
<1>4. /\ None \notin BlockIds /\ None \notin Hashes
      /\ Hashes \subseteq Content /\ None \in Content
  BY AllocatorAssumption DEF Content
<1>5. b \notin st.active /\ st.evictor[b] = None
  BY <1>1 DEF Placed
<1>6. \A x \in Objects : ob[x] # b
  BY <1>1, <1>2, <1>3, <1>5, UserCount DEF Counted
<1>7. \A g \in Hashes : st.cached[g] # b
  BY <1>1, <1>4, <1>5 DEF Shared
<1>8. Typed(st, ob, oc, nm)
  BY <1>2 DEF Typed
<1>9. Stored(st, ob, oc, nm)
  BY <1>1, <1>2, <1>3, <1>6, <1>7 DEF Stored
<1> QED
  BY <1>1, <1>8, <1>9 DEF AllocInv

\* append_token_ids on a block with one user keeps the invariant, whether the
\* block stays partial, is registered, or gives way to an equal cached block.
LEMMA AppendKeepsInv ==
  ASSUME NEW st, NEW ob, NEW oc, NEW m, AllocInv(st, ob, oc, m),
         NEW o \in Objects, NEW b \in BlockIds, ob[o] = b, oc[o] \notin Hashes,
         st.refcounts[b] = 1, NEW c \in Content
  PROVE  AllocInv(Appended(st, b, c), [ob EXCEPT ![o] = AppendedBlock(st, b, c)],
                  [oc EXCEPT ![o] = c], [m EXCEPT ![b] = c])
<1> DEFINE noc == [oc EXCEPT ![o] = c]
           nm == [m EXCEPT ![b] = c]
<1>1. /\ st \in AllocState
      /\ ob \in [Objects -> BlockIds \cup {None}]
      /\ oc \in [Objects -> Content]
      /\ m \in [BlockIds -> Content]
  BY DEF AllocInv, Typed
<1>2. ob = [ob EXCEPT ![o] = b]
  BY <1>1
<1>3. CASE c \notin Hashes
  <2>1. Appended(st, b, c) = st /\ AppendedBlock(st, b, c) = b
    BY <1>3 DEF Appended, AppendedBlock
  <2>2. AllocInv(st, ob, noc, nm)
    BY <1>3, OverwriteKeepsInv
  <2> QED
    BY <1>2, <2>1, <2>2
<1>4. CASE c \in Hashes /\ st.cached[c] = None
  <2>1. AppendedBlock(st, b, c) = b
    BY <1>4 DEF AppendedBlock, PromotedBlock
  <2>2. Appended(st, b, c) = [st EXCEPT !.cached[c] = b, !.touched = @ \cup {b}]
    BY <1>4 DEF Appended, PromoteToImmutableBlock
  <2>3. AllocInv([st EXCEPT !.cached[c] = b, !.touched = @ \cup {b}], ob, noc, nm)
    BY <1>4, RegisterKeepsInv
  <2> QED
    BY <1>2, <2>1, <2>2, <2>3
<1>5. CASE c \in Hashes /\ st.cached[c] # None
  <2> DEFINE dst == DecrRefcountHashlessBlock(st, b)
             dob == [ob EXCEPT ![o] = None]
             doc == [oc EXCEPT ![o] = None]
  <2>1. AppendedBlock(st, b, c) = st.cached[c]
    BY <1>5 DEF AppendedBlock, PromotedBlock
  <2>2. Appended(st, b, c) = IncrRefcountCachedBlock(dst, st.cached[c])
    BY <1>5 DEF Appended, PromoteToImmutableBlock
  <2>3. None \in Content
    BY DEF Content
  <2>4. AllocInv(dst, dob, doc, m) /\ dst.cached = st.cached /\ b \in dst.free
    BY <2>3, FreeHashlessKeepsInv
  <2> HIDE DEF dst
  <2>5. AllocInv(dst, dob, doc, nm)
    BY <2>4, FreeMemoryKeepsInv
  <2>6. dob[o] = None /\ dst.cached[c] # None
    BY <1>1, <1>5, <2>4
  <2> HIDE DEF dob, doc, nm
  <2>7. AllocInv(IncrRefcountCachedBlock(dst, dst.cached[c]),
                 [dob EXCEPT ![o] = dst.cached[c]], [doc EXCEPT ![o] = c], nm)
    BY <1>5, <2>5, <2>6, HitKeepsInv
  <2>8. /\ [dob EXCEPT ![o] = st.cached[c]] = [ob EXCEPT ![o] = st.cached[c]]
        /\ [doc EXCEPT ![o] = c] = noc
    BY <1>1 DEF dob, doc
  <2> QED
    BY <2>1, <2>2, <2>4, <2>7, <2>8 DEF nm
<1> QED
  BY <1>3, <1>4, <1>5

\* A fresh block filled with an object's content keeps the invariant.
LEMMA FreshKeepsInv ==
  ASSUME NEW st, NEW ob, NEW oc, NEW m, AllocInv(st, ob, oc, m),
         NEW o \in Objects, ob[o] = None, NEW c \in Content,
         NEW b \in BlockIds, NEW dropped \in SUBSET BlockIds,
         CanAllocateBlockId(st, b, dropped)
  PROVE  LET nst == AllocateBlockId(st, b, dropped)
         IN  AllocInv(Appended(nst, b, c), [ob EXCEPT ![o] = AppendedBlock(nst, b, c)],
                      [oc EXCEPT ![o] = c], [m EXCEPT ![b] = c])
<1> DEFINE nst == AllocateBlockId(st, b, dropped)
           nob == [ob EXCEPT ![o] = b]
           noc == [oc EXCEPT ![o] = None]
           nm == [m EXCEPT ![b] = None]
<1>1. /\ ob \in [Objects -> BlockIds \cup {None}]
      /\ oc \in [Objects -> Content]
      /\ m \in [BlockIds -> Content]
  BY DEF AllocInv, Typed
<1>2. None \in Content \ Hashes
  BY AllocatorAssumption DEF Content
<1>3. AllocInv(nst, nob, noc, nm) /\ nst.refcounts[b] = 1
  BY <1>2, AllocateKeepsInv
<1>4. nob[o] = b /\ noc[o] \notin Hashes
  BY <1>1, <1>2
<1> HIDE DEF nst, nob, noc, nm
<1>5. AllocInv(Appended(nst, b, c), [nob EXCEPT ![o] = AppendedBlock(nst, b, c)],
               [noc EXCEPT ![o] = c], [nm EXCEPT ![b] = c])
  BY <1>3, <1>4, AppendKeepsInv
<1>6. /\ [nob EXCEPT ![o] = AppendedBlock(nst, b, c)] = [ob EXCEPT ![o] = AppendedBlock(nst, b, c)]
      /\ [noc EXCEPT ![o] = c] = [oc EXCEPT ![o] = c]
      /\ [nm EXCEPT ![b] = c] = [m EXCEPT ![b] = c]
  BY <1>1 DEF nob, noc, nm
<1> QED
  BY <1>5, <1>6 DEF nst

\* Forking a block object keeps the invariant.
LEMMA ForkKeepsInv ==
  ASSUME NEW st, NEW ob, NEW oc, NEW m, AllocInv(st, ob, oc, m),
         NEW o \in Objects, NEW copy \in Objects, NEW b \in BlockIds,
         ob[o] = b, ob[copy] = None
  PROVE  AllocInv([st EXCEPT !.refcounts[b] = @ + 1,
                             !.failed = @ \cup Unless(st.refcounts[b] > 0, b)],
                  [ob EXCEPT ![copy] = b], [oc EXCEPT ![copy] = oc[o]], m)
<1> DEFINE nst == [st EXCEPT !.refcounts[b] = @ + 1,
                             !.failed = @ \cup Unless(st.refcounts[b] > 0, b)]
           nob == [ob EXCEPT ![copy] = b]
           noc == [oc EXCEPT ![copy] = oc[o]]
<1>1. /\ Typed(st, ob, oc, m) /\ Counted(st, ob) /\ Placed(st)
      /\ Shared(st, ob, oc) /\ Stored(st, ob, oc, m) /\ Marked(st) /\ st.failed = {}
  BY DEF AllocInv
<1>2. /\ st \in AllocState
      /\ ob \in [Objects -> BlockIds \cup {None}]
      /\ oc \in [Objects -> Content]
      /\ m \in [BlockIds -> Content]
  BY <1>1 DEF Typed
<1>3. /\ st.refcounts \in [BlockIds -> Nat]
      /\ st.cached \in [Hashes -> BlockIds \cup {None}]
      /\ st.evictor \in [BlockIds -> Hashes \cup {None}]
  BY <1>2, FieldTypes
<1>4. /\ None \notin BlockIds /\ None \notin Hashes
      /\ Hashes \subseteq Content /\ None \in Content
  BY AllocatorAssumption DEF Content
<1>5. /\ Cardinality(UsersOf(nob, b)) = Cardinality(UsersOf(ob, b)) + 1
      /\ \A c \in BlockIds : c # b =>
           Cardinality(UsersOf(nob, c)) = Cardinality(UsersOf(ob, c))
  BY <1>2, UserAdded
<1>6. st.refcounts[b] > 0 /\ b \in st.active
  BY <1>1, <1>2, <1>3, UserCount DEF Counted
<1>7. Unless(st.refcounts[b] > 0, b) = {}
  BY <1>6 DEF Unless
<1>8. /\ nst \in AllocState
      /\ nst.refcounts = [st.refcounts EXCEPT ![b] = @ + 1]
      /\ nst.free = st.free /\ nst.cached = st.cached /\ nst.evictor = st.evictor
      /\ nst.active = st.active /\ nst.computed = st.computed
      /\ nst.touched = st.touched /\ nst.failed = st.failed
  <2> DEFINE none == Unless(st.refcounts[b] > 0, b)
             up == [st.refcounts EXCEPT ![b] = @ + 1]
  <2>1. nst = [st EXCEPT !.refcounts = up, !.failed = st.failed \cup none]
    BY <1>2 DEF AllocState
  <2>2. none = {} /\ up \in [BlockIds -> Nat]
    BY <1>3, <1>7
  <2> HIDE DEF none, up, nst
  <2>3. nst = [st EXCEPT !.refcounts = up, !.failed = st.failed]
    BY <2>1, <2>2
  <2>4. /\ nst \in AllocState
        /\ nst.refcounts = up
        /\ nst.free = st.free /\ nst.cached = st.cached /\ nst.evictor = st.evictor
        /\ nst.active = st.active /\ nst.computed = st.computed
        /\ nst.touched = st.touched /\ nst.failed = st.failed
    BY <1>2, <2>2, <2>3 DEF AllocState
  <2> QED
    BY <2>4 DEF up
<1>9. \A c \in BlockIds : nst.refcounts[c] =
        IF c = b THEN st.refcounts[c] + 1 ELSE st.refcounts[c]
  BY <1>3, <1>8
<1> HIDE DEF nst
<1>10. Typed(nst, nob, noc, m)
  BY <1>2, <1>8 DEF Typed
<1>11. Counted(nst, nob)
  <2> HIDE DEF nob
  <2>1. ASSUME NEW c \in BlockIds
        PROVE  /\ nst.refcounts[c] = Cardinality(UsersOf(nob, c))
               /\ c \in nst.active <=> nst.refcounts[c] > 0
    <3>1. CASE c = b
      BY <1>1, <1>3, <1>5, <1>6, <1>8, <1>9, <3>1 DEF Counted
    <3>2. CASE c # b
      BY <1>1, <1>3, <1>5, <1>8, <1>9, <3>2 DEF Counted
    <3> QED
      BY <3>1, <3>2
  <2> QED
    BY <2>1 DEF Counted
<1>12. Placed(nst)
  BY <1>1, <1>8 DEF Placed
<1>13. Shared(nst, nob, noc)
  <2>1. ASSUME NEW g \in Hashes, NEW c \in BlockIds, st.cached[g] = c
        PROVE  \/ st.evictor[c] = g
               \/ c \in st.active /\ \A x \in Objects : nob[x] = c => noc[x] = g
    <3>1. CASE st.evictor[c] = g
      BY <3>1
    <3>2. CASE st.evictor[c] # g
      <4>1. c \in st.active /\ \A x \in Objects : ob[x] = c => oc[x] = g
        BY <1>1, <2>1, <3>2 DEF Shared
      <4> QED
        BY <1>2, <4>1
    <3> QED
      BY <3>1, <3>2
  <2>2. ASSUME NEW x \in Objects, nob[x] # None, noc[x] \in Hashes
        PROVE  st.cached[noc[x]] = nob[x]
    <3>1. CASE x = copy
      BY <1>1, <1>2, <1>4, <2>2, <3>1 DEF Shared
    <3>2. CASE x # copy
      BY <1>1, <1>2, <2>2, <3>2 DEF Shared
    <3> QED
      BY <3>1, <3>2
  <2> QED
    BY <1>8, <2>1, <2>2 DEF Shared
<1>14. Stored(nst, nob, noc, m)
  BY <1>1, <1>2, <1>4, <1>8 DEF Stored
<1>15. Marked(nst)
  BY <1>1, <1>8 DEF Marked
<1> QED
  BY <1>1, <1>8, <1>10, <1>11, <1>12, <1>13, <1>14, <1>15 DEF AllocInv, nst

\* mark_blocks_as_computed keeps the invariant.
LEMMA MarkKeepsInv ==
  ASSUME NEW st, NEW ob, NEW oc, NEW m, AllocInv(st, ob, oc, m)
  PROVE  AllocInv([st EXCEPT !.computed = @ \cup st.touched, !.touched = {}], ob, oc, m)
<1> DEFINE nst == [st EXCEPT !.computed = @ \cup st.touched, !.touched = {}]
<1>1. /\ Typed(st, ob, oc, m) /\ Counted(st, ob) /\ Placed(st)
      /\ Shared(st, ob, oc) /\ Stored(st, ob, oc, m) /\ Marked(st) /\ st.failed = {}
  BY DEF AllocInv
<1>2. /\ st \in AllocState
      /\ ob \in [Objects -> BlockIds \cup {None}]
      /\ oc \in [Objects -> Content]
      /\ m \in [BlockIds -> Content]
  BY <1>1 DEF Typed
<1>3. /\ st.refcounts \in [BlockIds -> Nat]
      /\ st.cached \in [Hashes -> BlockIds \cup {None}]
      /\ st.evictor \in [BlockIds -> Hashes \cup {None}]
  BY <1>2, FieldTypes
<1>4. /\ None \notin BlockIds /\ None \notin Hashes
      /\ Hashes \subseteq Content /\ None \in Content
  BY AllocatorAssumption DEF Content
<1>5. /\ nst \in AllocState
      /\ nst.refcounts = st.refcounts /\ nst.free = st.free
      /\ nst.cached = st.cached /\ nst.evictor = st.evictor
      /\ nst.active = st.active /\ nst.computed = st.computed \cup st.touched
      /\ nst.touched = {} /\ nst.failed = st.failed
  BY <1>2 DEF AllocState
<1> HIDE DEF nst
<1>6. Typed(nst, ob, oc, m)
  BY <1>2, <1>5 DEF Typed
<1>7. Counted(nst, ob)
  BY <1>1, <1>5 DEF Counted
<1>8. Placed(nst)
  BY <1>1, <1>5 DEF Placed
<1>9. Shared(nst, ob, oc)
  BY <1>1, <1>5 DEF Shared
<1>10. Stored(nst, ob, oc, m)
  BY <1>1, <1>5 DEF Stored
<1>11. Marked(nst)
  BY <1>1, <1>5 DEF Marked
<1> QED
  BY <1>1, <1>5, <1>6, <1>7, <1>8, <1>9, <1>10, <1>11 DEF AllocInv, nst

\* When free and evictable blocks add up to all blocks, no block is in use.
LEMMA NoneInUse ==
  ASSUME NEW st, NEW ob, NEW oc, NEW m, AllocInv(st, ob, oc, m),
         Cardinality(BlockIds) - NumFreeBlocks(st) <= 0
  PROVE  st.active = {}
<1>1. Placed(st) /\ st \in AllocState
  BY DEF AllocInv, Typed
<1>2. /\ st.free \subseteq BlockIds /\ st.active \subseteq BlockIds
      /\ Resident(st) \subseteq BlockIds
  BY <1>1, FieldTypes DEF Resident
<1>3. IsFiniteSet(BlockIds) /\ IsFiniteSet(st.free) /\ IsFiniteSet(Resident(st))
  BY <1>2, AllocatorAssumption, FS_Subset
<1>4. st.free \cap Resident(st) = {}
  BY <1>1 DEF Placed, Resident
<1>5. SUFFICES ASSUME NEW b \in BlockIds, b \in st.active
               PROVE  FALSE
  BY <1>2
<1>6. b \notin st.free \cup Resident(st)
  BY <1>1, <1>5 DEF Placed, Resident
<1>7. /\ IsFiniteSet(st.free \cup Resident(st))
      /\ Cardinality(st.free \cup Resident(st)) =
           Cardinality(st.free) + Cardinality(Resident(st))
                                - Cardinality(st.free \cap Resident(st))
  BY <1>3, FS_Union
<1>8. Cardinality(st.free \cap Resident(st)) = 0
  BY <1>4, FS_EmptySet
<1>9. /\ IsFiniteSet(BlockIds \ {b})
      /\ Cardinality(BlockIds \ {b}) = Cardinality(BlockIds) - 1
  BY <1>3, <1>5, FS_RemoveElement
<1>10. Cardinality(st.free \cup Resident(st)) <= Cardinality(BlockIds \ {b})
  BY <1>2, <1>6, <1>9, FS_Subset
<1>11. /\ Cardinality(st.free) \in Nat /\ Cardinality(Resident(st)) \in Nat
       /\ Cardinality(BlockIds) \in Nat
  BY <1>3, FS_CardinalityType
<1> QED
  BY <1>7, <1>8, <1>9, <1>10, <1>11 DEF NumFreeBlocks

\* reset_prefix_cache keeps the invariant.
LEMMA ResetKeepsInv ==
  ASSUME AllocInv(alloc, objBlock, objContent, kv), ResetPrefixCache
  PROVE  AllocInv(alloc, objBlock, objContent, kv)'
<1> DEFINE st == alloc
           ob == objBlock
           oc == objContent
           m == kv
           left == [h \in Hashes |->
                      IF alloc.cached[h] \in Evictable(alloc) THEN None ELSE alloc.cached[h]]
           nothing == {left[h] : h \in {g \in Hashes : left[g] # None}}
           gone == [b \in BlockIds |-> None]
           given == alloc.free \cup Evictable(alloc)
<1>1. /\ Typed(st, ob, oc, m) /\ Counted(st, ob) /\ Placed(st)
      /\ Shared(st, ob, oc) /\ Stored(st, ob, oc, m) /\ Marked(st) /\ st.failed = {}
  BY DEF AllocInv
<1>2. /\ st \in AllocState
      /\ ob \in [Objects -> BlockIds \cup {None}]
      /\ oc \in [Objects -> Content]
      /\ m \in [BlockIds -> Content]
  BY <1>1 DEF Typed
<1>3. /\ st.refcounts \in [BlockIds -> Nat]
      /\ st.cached \in [Hashes -> BlockIds \cup {None}]
      /\ st.evictor \in [BlockIds -> Hashes \cup {None}]
  BY <1>2, FieldTypes
<1>4. /\ None \notin BlockIds /\ None \notin Hashes
      /\ Hashes \subseteq Content /\ None \in Content
  BY AllocatorAssumption DEF Content
<1>5. st.active = {}
  BY NoneInUse DEF ResetPrefixCache
<1>6. \A b \in BlockIds : st.refcounts[b] = 0 /\ \A x \in Objects : ob[x] # b
  BY <1>1, <1>2, <1>3, <1>5, UserCount DEF Counted
<1>7. Evictable(st) = Resident(st)
  BY <1>1, <1>3, <1>6 DEF Evictable, Resident, Placed
<1>8. \A h \in Hashes : st.cached[h] # None => st.cached[h] \in Resident(st)
  BY <1>1, <1>3, <1>4, <1>5 DEF Shared, Resident
<1>9. left = [h \in Hashes |-> None]
  BY <1>7, <1>8
<1>10. nothing = {}
  BY <1>9
<1>11. given = BlockIds
  BY <1>1, <1>2, <1>5, <1>7, FieldTypes DEF Placed, Resident
<1>12. st.touched = {}
  BY <1>1, <1>5 DEF Marked
<1>13. UNCHANGED <<objBlock, objContent, kv>>
  BY DEF ResetPrefixCache
<1>14. alloc' = [alloc EXCEPT !.free = given, !.cached = left, !.evictor = gone,
                              !.active = {}, !.computed = {},
                              !.failed = alloc.failed \cup nothing]
  BY DEF ResetPrefixCache
<1> HIDE DEF left, nothing, gone, given, st, ob, oc, m
<1>15. alloc' = [st EXCEPT !.free = BlockIds, !.cached = left, !.evictor = gone,
                           !.active = {}, !.computed = {}, !.failed = {}]
  <2>1. alloc.failed \cup nothing = {}
    BY <1>1, <1>10 DEF st
  <2> QED
    BY <1>11, <1>14, <2>1 DEF st
<1>16. left \in [Hashes -> BlockIds \cup {None}] /\ gone \in [BlockIds -> Hashes \cup {None}]
  BY <1>9 DEF gone
<1>17. /\ alloc' \in AllocState
       /\ alloc'.refcounts = st.refcounts /\ alloc'.free = BlockIds
       /\ alloc'.cached = left /\ alloc'.evictor = gone
       /\ alloc'.active = {} /\ alloc'.computed = {}
       /\ alloc'.touched = st.touched /\ alloc'.failed = {}
  BY <1>2, <1>15, <1>16 DEF AllocState
<1>18. \A h \in Hashes : alloc'.cached[h] = None
  BY <1>9, <1>17
<1>19. \A b \in BlockIds : alloc'.evictor[b] = None
  BY <1>17 DEF gone
<1>20. Typed(alloc', ob, oc, m)
  BY <1>2, <1>17 DEF Typed
<1>21. Counted(alloc', ob)
  BY <1>1, <1>6, <1>17 DEF Counted
<1>22. Placed(alloc')
  BY <1>17, <1>19 DEF Placed
<1>23. Shared(alloc', ob, oc)
  BY <1>2, <1>4, <1>6, <1>18 DEF Shared
<1>24. Stored(alloc', ob, oc, m)
  BY <1>1, <1>18 DEF Stored
<1>25. Marked(alloc')
  BY <1>12, <1>17 DEF Marked
<1> QED
  BY <1>13, <1>17, <1>20, <1>21, <1>22, <1>23, <1>24, <1>25 DEF AllocInv, ob, oc, m

-----------------------------------------------------------------------------
(* The theorems about Spec.                                                 *)

IndInv ==
  /\ AllocInv(alloc, objBlock, objContent, kv)
  /\ pool \subseteq Objects
  /\ \A o \in pool : objBlock[o] = None

\* The initial state satisfies the invariant.
LEMMA InitInv == Init => IndInv
<1> SUFFICES ASSUME Init PROVE IndInv
  OBVIOUS
<1> USE DEF Init
<1>1. None \notin BlockIds /\ None \in Content
  BY AllocatorAssumption DEF Content
<1>2. Typed(alloc, objBlock, objContent, kv)
  BY <1>1 DEF Typed, AllocState
<1>3. Counted(alloc, objBlock)
  <2>1. \A b \in BlockIds : Cardinality(UsersOf(objBlock, b)) = 0
    BY <1>1, <1>2, UserCount DEF Typed
  <2> QED
    BY <2>1 DEF Counted
<1>4. Placed(alloc) /\ Marked(alloc) /\ alloc.failed = {}
  BY DEF Placed, Marked
<1>5. Shared(alloc, objBlock, objContent)
  BY <1>1 DEF Shared
<1>6. Stored(alloc, objBlock, objContent, kv)
  BY DEF Stored
<1> QED
  BY <1>2, <1>3, <1>4, <1>5, <1>6 DEF IndInv, AllocInv

\* The steps of swap_in and of the two allocate methods that bind an object.
LEMMA PointKeepsInv ==
  ASSUME AllocInv(alloc, objBlock, objContent, kv),
         NEW o \in Objects, objBlock[o] = None, NEW c \in Content,
         \/ c \in Hashes /\ PointToCached(o, c)
         \/ PointToFresh(o, c)
  PROVE  /\ AllocInv(alloc, objBlock, objContent, kv)'
         /\ \A x \in Objects : x # o => objBlock'[x] = objBlock[x]
<1>1. objBlock \in [Objects -> BlockIds \cup {None}]
  BY DEF AllocInv, Typed
<1>2. CASE c \in Hashes /\ PointToCached(o, c)
  <2>1. AllocInv(IncrRefcountCachedBlock(alloc, alloc.cached[c]),
                 [objBlock EXCEPT ![o] = alloc.cached[c]], [objContent EXCEPT ![o] = c], kv)
    BY <1>2, HitKeepsInv DEF PointToCached
  <2> QED
    BY <1>1, <1>2, <2>1 DEF PointToCached, Bind
<1>3. CASE PointToFresh(o, c)
  <2>1. PICK b \in BlockIds, dropped \in SUBSET BlockIds :
          LET st == AllocateBlockId(alloc, b, dropped)
          IN  /\ CanAllocateBlockId(alloc, b, dropped)
              /\ alloc' = Appended(st, b, c)
              /\ Bind(o, AppendedBlock(st, b, c), c)
              /\ kv' = [kv EXCEPT ![b] = c]
    BY <1>3 DEF PointToFresh
  <2> DEFINE st == AllocateBlockId(alloc, b, dropped)
  <2>2. AllocInv(Appended(st, b, c), [objBlock EXCEPT ![o] = AppendedBlock(st, b, c)],
                 [objContent EXCEPT ![o] = c], [kv EXCEPT ![b] = c])
    BY <2>1, FreshKeepsInv
  <2> HIDE DEF st
  <2> QED
    BY <1>1, <2>1, <2>2 DEF Bind, st
<1> QED
  BY <1>2, <1>3

\* Releasing an object's block, by free or swap_out.
LEMMA ReleaseKeepsInv ==
  ASSUME AllocInv(alloc, objBlock, objContent, kv), NEW o \in Objects, Releasable(o),
         NEW c \in Content
  PROVE  AllocInv(FreeBlockId(alloc, objBlock[o], objContent[o]),
                  [objBlock EXCEPT ![o] = None], [objContent EXCEPT ![o] = c], kv)
<1>1. objBlock[o] \in BlockIds
  BY DEF AllocInv, Typed, Releasable
<1>2. CASE objContent[o] \in Hashes
  BY <1>1, <1>2, FreeCachedKeepsInv DEF FreeBlockId, Releasable
<1>3. CASE objContent[o] \notin Hashes
  BY <1>1, <1>3, FreeHashlessKeepsInv DEF FreeBlockId
<1> QED
  BY <1>2, <1>3

\* Appending to an object, with copy-on-write of a shared block.
LEMMA AppendActionKeepsInv ==
  ASSUME AllocInv(alloc, objBlock, objContent, kv), NEW o \in Objects,
         NEW c \in Hashes \cup Partials, AppendTokenIds(o, c)
  PROVE  /\ AllocInv(alloc, objBlock, objContent, kv)'
         /\ \A x \in Objects : x # o => objBlock'[x] = objBlock[x]
<1> DEFINE b == objBlock[o]
<1>1. /\ alloc \in AllocState
      /\ objBlock \in [Objects -> BlockIds \cup {None}]
      /\ objContent \in [Objects -> Content]
      /\ kv \in [BlockIds -> Content]
      /\ Counted(alloc, objBlock)
  BY DEF AllocInv, Typed
<1>2. /\ b \in BlockIds /\ objContent[o] \notin Hashes
      /\ c \in Content /\ None \in Content /\ None \notin Hashes
  BY <1>1, AllocatorAssumption DEF AppendTokenIds, Content
<1>3. alloc.refcounts[b] \in Nat /\ alloc.refcounts[b] > 0
  BY <1>1, <1>2, UserCount DEF Counted
<1>4. CASE IsAppendable(alloc, b)
  <2>1. alloc.refcounts[b] = 1
    BY <1>3, <1>4 DEF IsAppendable
  <2>2. AllocInv(Appended(alloc, b, c), [objBlock EXCEPT ![o] = AppendedBlock(alloc, b, c)],
                 [objContent EXCEPT ![o] = c], [kv EXCEPT ![b] = c])
    BY <1>2, <2>1, AppendKeepsInv
  <2>3. /\ alloc' = Appended(alloc, b, c)
        /\ Bind(o, AppendedBlock(alloc, b, c), c)
        /\ kv' = [kv EXCEPT ![b] = c]
    BY <1>4 DEF AppendTokenIds
  <2> HIDE DEF b
  <2> QED
    BY <1>1, <2>2, <2>3 DEF Bind
<1>5. CASE ~IsAppendable(alloc, b)
  <2> DEFINE fst == DecrRefcountHashlessBlock(alloc, b)
             fob == [objBlock EXCEPT ![o] = None]
             foc == [objContent EXCEPT ![o] = None]
  <2>1. AllocInv(fst, fob, foc, kv)
    BY <1>2, FreeHashlessKeepsInv
  <2>2. FreeBlockId(alloc, b, None) = fst
    BY <1>2 DEF FreeBlockId
  <2>3. PICK trg \in BlockIds, dropped \in SUBSET BlockIds :
          /\ CanAllocateBlockId(fst, trg, dropped)
          /\ alloc' = Appended(AllocateBlockId(fst, trg, dropped), trg, c)
          /\ Bind(o, AppendedBlock(AllocateBlockId(fst, trg, dropped), trg, c), c)
          /\ kv' = [kv EXCEPT ![trg] = c]
    BY <1>5, <2>2 DEF AppendTokenIds
  <2> HIDE DEF fst
  <2> DEFINE st == AllocateBlockId(fst, trg, dropped)
  <2>4. fob[o] = None
    BY <1>1
  <2> HIDE DEF fob, foc
  <2>5. AllocInv(Appended(st, trg, c), [fob EXCEPT ![o] = AppendedBlock(st, trg, c)],
                 [foc EXCEPT ![o] = c], [kv EXCEPT ![trg] = c])
    BY <1>2, <2>1, <2>3, <2>4, FreshKeepsInv
  <2> HIDE DEF st, b
  <2>6. /\ [fob EXCEPT ![o] = AppendedBlock(st, trg, c)] = objBlock'
        /\ [foc EXCEPT ![o] = c] = objContent'
        /\ \A x \in Objects : x # o => objBlock'[x] = objBlock[x]
    BY <1>1, <2>3 DEF fob, foc, Bind, st
  <2> QED
    BY <2>3, <2>5, <2>6 DEF st
<1> QED
  BY <1>4, <1>5

\* Every step preserves the invariant.
LEMMA NextInv == IndInv /\ [Next]_vars => IndInv'
<1> SUFFICES ASSUME IndInv, [Next]_vars PROVE IndInv'
  OBVIOUS
<1>1. /\ AllocInv(alloc, objBlock, objContent, kv)
      /\ pool \subseteq Objects
      /\ \A o \in pool : objBlock[o] = None
  BY DEF IndInv
<1>2. /\ objBlock \in [Objects -> BlockIds \cup {None}]
      /\ objContent \in [Objects -> Content]
  BY <1>1 DEF AllocInv, Typed
<1>3. None \in Content /\ Hashes \subseteq Content
  BY DEF Content
<1>4. ASSUME NEW o \in Objects, NEW h \in Hashes, AllocateImmutableBlock(o, h)
      PROVE  IndInv'
  <2>1. /\ AllocInv(alloc, objBlock, objContent, kv)'
        /\ \A x \in Objects : x # o => objBlock'[x] = objBlock[x]
    BY <1>1, <1>3, <1>4, PointKeepsInv DEF AllocateImmutableBlock
  <2> QED
    BY <1>1, <1>4, <2>1 DEF IndInv, AllocateImmutableBlock
<1>5. ASSUME NEW o \in Objects, AllocateMutableBlock(o)
      PROVE  IndInv'
  <2>1. /\ AllocInv(alloc, objBlock, objContent, kv)'
        /\ \A x \in Objects : x # o => objBlock'[x] = objBlock[x]
    BY <1>1, <1>3, <1>5, PointKeepsInv DEF AllocateMutableBlock
  <2> QED
    BY <1>1, <1>5, <2>1 DEF IndInv, AllocateMutableBlock
<1>6. ASSUME NEW o \in Objects, NEW c \in Hashes \cup Partials, AppendTokenIds(o, c)
      PROVE  IndInv'
  <2>1. /\ AllocInv(alloc, objBlock, objContent, kv)'
        /\ \A x \in Objects : x # o => objBlock'[x] = objBlock[x]
    BY <1>1, <1>6, AppendActionKeepsInv
  <2>2. o \notin pool /\ pool' = pool
    BY <1>1, <1>6 DEF AppendTokenIds
  <2> QED
    BY <1>1, <2>1, <2>2 DEF IndInv
<1>7. ASSUME NEW o \in Objects, Free(o)
      PROVE  IndInv'
  <2>1. AllocInv(alloc, objBlock, objContent, kv)'
    BY <1>1, <1>3, <1>7, ReleaseKeepsInv DEF Free, Bind
  <2> QED
    BY <1>1, <1>2, <1>7, <2>1 DEF IndInv, Free, Bind
<1>8. ASSUME NEW o \in Objects, NEW copy \in Objects, Fork(o, copy)
      PROVE  IndInv'
  <2>1. objBlock[o] \in BlockIds /\ objBlock[copy] = None
    BY <1>1, <1>2, <1>8 DEF Fork
  <2>2. AllocInv(alloc, objBlock, objContent, kv)'
    BY <1>1, <1>8, <2>1, ForkKeepsInv DEF Fork, Bind
  <2> QED
    BY <1>1, <1>2, <1>8, <2>2 DEF IndInv, Fork, Bind
<1>9. ASSUME NEW o \in Objects, SwapOut(o)
      PROVE  IndInv'
  <2>1. AllocInv(alloc, objBlock, objContent, kv)'
    BY <1>1, <1>2, <1>9, ReleaseKeepsInv DEF SwapOut, Bind
  <2> QED
    BY <1>1, <1>2, <1>9, <2>1 DEF IndInv, SwapOut, Bind
<1>10. ASSUME NEW o \in Objects, SwapIn(o)
       PROVE  IndInv'
  <2>1. objContent[o] \in Content /\ objBlock[o] = None
    BY <1>2, <1>10 DEF SwapIn
  <2>2. /\ AllocInv(alloc, objBlock, objContent, kv)'
        /\ \A x \in Objects : x # o => objBlock'[x] = objBlock[x]
    BY <1>1, <1>10, <2>1, PointKeepsInv DEF SwapIn
  <2>3. o \notin pool /\ pool' = pool
    BY <1>10 DEF SwapIn
  <2> QED
    BY <1>1, <2>2, <2>3 DEF IndInv
<1>11. ASSUME MarkBlocksAsComputed
       PROVE  IndInv'
  <2>1. AllocInv(alloc, objBlock, objContent, kv)'
    BY <1>1, <1>11, MarkKeepsInv DEF MarkBlocksAsComputed
  <2> QED
    BY <1>1, <1>11, <2>1 DEF IndInv, MarkBlocksAsComputed
<1>12. ASSUME ResetPrefixCache
       PROVE  IndInv'
  <2>1. AllocInv(alloc, objBlock, objContent, kv)'
    BY <1>1, <1>12, ResetKeepsInv
  <2> QED
    BY <1>1, <1>12, <2>1 DEF IndInv, ResetPrefixCache
<1>13. CASE UNCHANGED vars
  BY <1>1, <1>13 DEF IndInv, vars
<1> QED
  BY <1>4, <1>5, <1>6, <1>7, <1>8, <1>9, <1>10, <1>11, <1>12, <1>13 DEF Next

\* The inductive invariant implies the properties stated in the specification.
LEMMA InvImpliesProperties ==
  IndInv => /\ TypeOK /\ BlocksConserved /\ CacheConsistent
            /\ ContentPreserved /\ ComputedIsCached /\ NoAssertionFails
<1> SUFFICES ASSUME IndInv
             PROVE  /\ TypeOK /\ BlocksConserved /\ CacheConsistent
                    /\ ContentPreserved /\ ComputedIsCached /\ NoAssertionFails
  OBVIOUS
<1>1. /\ Typed(alloc, objBlock, objContent, kv) /\ Counted(alloc, objBlock)
      /\ Placed(alloc) /\ Shared(alloc, objBlock, objContent)
      /\ Stored(alloc, objBlock, objContent, kv) /\ Marked(alloc)
      /\ alloc.failed = {} /\ pool \subseteq Objects
  BY DEF IndInv, AllocInv
<1>2. TypeOK
  BY <1>1 DEF TypeOK, Typed
<1>3. \A b \in BlockIds : Users(b) = UsersOf(objBlock, b)
  BY DEF Users, UsersOf
<1>4. /\ alloc.refcounts \in [BlockIds -> Nat]
      /\ alloc.evictor \in [BlockIds -> Hashes \cup {None}]
  BY <1>1, FieldTypes DEF Typed
<1>5. BlocksConserved
  BY <1>1, <1>3 DEF BlocksConserved, Counted, Placed
<1>6. CacheConsistent
  <2>1. Evictable(alloc) = Resident(alloc)
    BY <1>1, <1>4 DEF Evictable, Resident, Placed, Counted
  <2>2. \A h \in Hashes, b \in BlockIds : alloc.cached[h] = b =>
          \/ alloc.evictor[b] = h
          \/ b \in alloc.active /\ \A o \in Users(b) : objContent[o] = h
    BY <1>1 DEF Shared, Users
  <2> QED
    BY <1>1, <2>1, <2>2 DEF CacheConsistent, Shared
<1>7. ContentPreserved
  BY <1>1 DEF ContentPreserved, Stored
<1>8. ComputedIsCached
  BY <1>1 DEF ComputedIsCached, Marked
<1>9. NoAssertionFails
  BY <1>1 DEF NoAssertionFails
<1> QED
  BY <1>2, <1>5, <1>6, <1>7, <1>8, <1>9

\* The allocator's state is always well-typed; in particular no reference count
\* of RefCounter drops below zero.
THEOREM TypeCorrect == Spec => []TypeOK
<1>1. IndInv => TypeOK
  BY InvImpliesProperties
<1> QED
  BY <1>1, InitInv, NextInv, PTL DEF Spec

\* No block is leaked or used twice, and reference counts are exact, whatever
\* the number of blocks and sequences (RefCounter, _free_block_indices and the
\* evictor partition the blocks).
THEOREM Conservation == Spec => []BlocksConserved
<1>1. IndInv => BlocksConserved
  BY InvImpliesProperties
<1> QED
  BY <1>1, InitInv, NextInv, PTL DEF Spec

\* _cached_blocks, the evictor and the users of every block agree, so that the
\* retry loop of _maybe_allocate_evicted_block_id never drops a block.
THEOREM Consistency == Spec => []CacheConsistent
<1>1. IndInv => CacheConsistent
  BY InvImpliesProperties
<1> QED
  BY <1>1, InitInv, NextInv, PTL DEF Spec

\* A sequence's blocks always hold its own tokens, although blocks are shared,
\* deduplicated, copied on write and evicted.
THEOREM ContentSafety == Spec => []ContentPreserved
<1>1. IndInv => ContentPreserved
  BY InvImpliesProperties
<1> QED
  BY <1>1, InitInv, NextInv, PTL DEF Spec

\* Only cached blocks in use are, or are about to be, marked computed.
THEOREM ComputedSafety == Spec => []ComputedIsCached
<1>1. IndInv => ComputedIsCached
  BY InvImpliesProperties
<1> QED
  BY <1>1, InitInv, NextInv, PTL DEF Spec

\* No assertion of the allocator, RefCounter or BlockTracker can fire.
THEOREM AssertionsHold == Spec => []NoAssertionFails
<1>1. IndInv => NoAssertionFails
  BY InvImpliesProperties
<1> QED
  BY <1>1, InitInv, NextInv, PTL DEF Spec
=============================================================================
