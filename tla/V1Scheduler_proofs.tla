------------------------- MODULE V1Scheduler_proofs -------------------------
(***************************************************************************)
(* Proofs about V1Scheduler and BlockPool, for every set of requests,      *)
(* prompts, block size, model length and number of blocks.                 *)
(*                                                                         *)
(* Accounting holds in every mode, as long as no assertion has failed: the *)
(* pointers of the free queue form one list of the blocks without users,   *)
(* and every reference has its holder.  With at most two batches in flight *)
(* and drafts of at most one token (Tame), no assertion fails, and every   *)
(* executed token sees the context of its own request.                     *)
(*                                                                         *)
(* The free queue is related to a sequence q by Chain(pool, q), and every  *)
(* operation of the pool is a step from one such sequence to another.      *)
(***************************************************************************)
EXTENDS V1Scheduler, FiniteSetTheorems, NaturalsInduction, WellFoundedInduction, TLAPS

Words == Seq(Tokens \cup {EOS})

\* The queue q has the members of A, each once.
Lists(q, A) ==
  /\ q \in Seq(A)
  /\ \A i, j \in DOMAIN q : q[i] = q[j] => i = j
  /\ \A x \in A : \E i \in DOMAIN q : q[i] = x

\* The values that the fields of the pool of n blocks take.
Caches(n) == UNION {[D -> Seq(1 .. n)] : D \in SUBSET Words}
Pools(n) ==
  [ref : [1 .. n -> Nat], hash : [1 .. n -> Words], cached : Caches(n),
   head : 0 .. n, tail : 0 .. n, num : Nat, prev : [1 .. n -> 0 .. n],
   next : [1 .. n -> 0 .. n], ok : BOOLEAN]

\* The pointers, the head, the tail and the count of the free queue are those of q,
\* and q has the blocks that nobody uses.
Chain(p, q) ==
  /\ Lists(q, {b \in DOMAIN p.ref : p.ref[b] = 0})
  /\ p.num = Len(q)
  /\ p.head = IF q = <<>> THEN NoBlock ELSE q[1]
  /\ p.tail = IF q = <<>> THEN NoBlock ELSE q[Len(q)]
  /\ \A i \in 1 .. Len(q) :
       /\ p.next[q[i]] = IF i < Len(q) THEN q[i + 1] ELSE NoBlock
       /\ p.prev[q[i]] = IF i > 1 THEN q[i - 1] ELSE NoBlock
  /\ \A b \in DOMAIN p.ref : p.ref[b] # 0 => p.prev[b] = NoBlock

Linked(p) == Chain(p, FreeList(p))

\* The cache lists the blocks of every hash that a block carries.
Filed(p) ==
  /\ NoHash \notin DOMAIN p.cached
  /\ \A h \in DOMAIN p.cached :
       p.cached[h] # <<>> /\ Lists(p.cached[h], {b \in DOMAIN p.hash : p.hash[b] = h})
  /\ \A b \in DOMAIN p.hash : p.hash[b] # NoHash => p.hash[b] \in DOMAIN p.cached

Holders(b) == {r \in Requests : b \in ToSet(request[r].blocks)}

-----------------------------------------------------------------------------
(* What holds in every mode, while no assertion has failed.                 *)

Statuses == Live \cup {"new", "finished"}
RequestType ==
  [status : Statuses, tokens : Words, computed : Int, spec : Words, blocks : Seq(Nat),
   hashes : Seq(Words), ncached : Int]
Entries == [start : Int, n : Nat, spec : Words, blocks : Seq(Nat), tokens : Words]
Outputs == UNION {[R -> Entries] : R \in SUBSET Requests}
Passes ==
  [at : {"idle", "running", "waiting", "end", "execute"}, index : Nat \ {0}, budget : Nat,
   encoder : Int, preempted : BOOLEAN, skipped : Seq(Requests), output : Outputs]

Encoders == [cached : [Requests -> SUBSET Nat], slots : Int]

Types ==
  /\ mode \in Modes
  /\ pool \in Pools(mode.blocks)
  /\ encoder \in Encoders
  /\ request \in [Requests -> RequestType]
  /\ scheduled_req_ids \subseteq Requests
  /\ pass \in Passes
  /\ batches \in Seq(Outputs)
  /\ DOMAIN kv = 1 .. mode.blocks

Queued ==
  /\ Lists(running, {r \in Requests : request[r].status = "running"})
  /\ Lists(waiting, ToSet(waiting)) /\ Lists(pass.skipped, ToSet(pass.skipped))
  /\ ToSet(waiting) \cap ToSet(pass.skipped) = {}
  /\ ToSet(waiting) \cup ToSet(pass.skipped) =
       {r \in Requests : request[r].status \in Live \ {"running"}}
  /\ Len(running) <= mode.seqs
  /\ pass.at \in {"idle", "execute", "running"} => pass.skipped = <<>>
  /\ pass.at \in {"idle", "execute"} => DOMAIN pass.output = {}
  /\ pass.budget <= mode.budget
  /\ \A r \in Requests : encoder.cached[r] \subseteq DOMAIN Images[r]
  /\ Len(batches) <= mode.queue
  /\ pass.at \in {"running", "waiting", "end"} => Len(batches) < mode.queue
  /\ pass.at = "idle" /\ mode.queue = 1 => batches = <<>>
  /\ pass.at = "execute" => batches # <<>>

\* The known hashes of a request are the beginnings of its tokens.
Knowing(hashes, tokens, size) ==
  /\ hashes \in Seq(Words) /\ Len(hashes) * size <= Len(tokens)
  /\ \A i \in 1 .. Len(hashes) : hashes[i] = SubSeq(tokens, 1, i * size)

\* What a request knows of itself.
Sane(m, req) ==
  /\ req \in RequestType
  /\ Len(req.tokens) \in 1 .. MaxModelLen
  /\ req.status \in Live \cup {"new"} => Len(req.tokens) < MaxModelLen
  /\ Knowing(req.hashes, req.tokens, BlockSize)
  /\ Len(req.spec) <= m.spec
  /\ req.blocks \in Seq(1 .. m.blocks) /\ Lists(req.blocks, ToSet(req.blocks))
  /\ Len(req.blocks) <= max_num_blocks_per_req
  /\ req.ncached \in {None} \cup 0 .. Len(req.blocks)
  /\ req.status # "running" => req.blocks = <<>> /\ req.ncached = None /\ req.computed = 0
  /\ req.status = "running" => req.ncached # None /\ req.ncached <= Len(req.hashes)

Accounted ==
  /\ Filed(pool)
  /\ \A b \in DOMAIN pool.ref : IsFiniteSet(Holders(b)) /\ pool.ref[b] = Cardinality(Holders(b))

Inv ==
  /\ Types
  /\ Linked(pool)
  /\ Queued
  /\ \A r \in Requests : Sane(mode, request[r])
  /\ Accounted

-----------------------------------------------------------------------------
(* Queues.                                                                  *)

\* Induction over the indices of a sequence.
LEMMA IndexInduction ==
  ASSUME NEW n \in Nat, NEW G, 0 \in G, \A i \in 1 .. n : i - 1 \in G => i \in G
  PROVE  \A i \in 0 .. n : i \in G
  <1> DEFINE Bad == {i \in Nat : i <= n /\ i \notin G}
  <1> SUFFICES ASSUME Bad # {}
               PROVE  FALSE
    OBVIOUS
  <1>1. PICK m \in Bad : \A k \in Bad : ~(k < m)
    <2>1. PICK m \in Bad : \A k \in Bad : <<k, m>> \notin OpToRel(<, Nat)
      BY WFMin, NatLessThanWellFounded DEF Bad
    <2> QED BY <2>1 DEF OpToRel
  <1>2. m - 1 \notin G
    BY <1>1
  <1>3. m - 1 \in Bad
    BY <1>1, <1>2
  <1> QED BY <1>1, <1>3

KeepBody(f, q, T, m) ==
  [n \in 0 .. m |-> IF n = 0 THEN <<>>
                    ELSE IF q[n] \in T THEN Append(f[n - 1], q[n]) ELSE f[n - 1]]

\* Keep is the last value of a function that satisfies its recursion.
LEMMA KeepFunction ==
  ASSUME NEW A, NEW q \in Seq(A), NEW T
  PROVE  \E f : f = KeepBody(f, q, T, Len(q)) /\ Keep(q, T) = f[Len(q)]
  <1> DEFINE n == Len(q)
             G == {m \in 0 .. n : \E f : f = KeepBody(f, q, T, m)}
  <1>1. n \in Nat
    OBVIOUS
  <1>2. 0 \in G
    <2> DEFINE f == [i \in 0 .. 0 |-> <<>>]
    <2>1. f = KeepBody(f, q, T, 0)
      BY DEF KeepBody
    <2> QED BY <1>1, <2>1
  <1>3. ASSUME NEW i \in 1 .. n, i - 1 \in G
        PROVE  i \in G
    <2>1. PICK f : f = KeepBody(f, q, T, i - 1)
      BY <1>3
    <2> DEFINE g == [k \in 0 .. i |-> IF k = i THEN IF q[i] \in T THEN Append(f[i - 1], q[i]) ELSE f[i - 1]
                                      ELSE f[k]]
    <2>2. \A k \in 0 .. i - 1 : f[k] = IF k = 0 THEN <<>>
                    ELSE IF q[k] \in T THEN Append(f[k - 1], q[k]) ELSE f[k - 1]
      BY <2>1 DEF KeepBody
    <2>3. \A k \in 0 .. i : g[k] = IF k = 0 THEN <<>>
                    ELSE IF q[k] \in T THEN Append(g[k - 1], q[k]) ELSE g[k - 1]
      BY <2>2
    <2>4. g = [k \in 0 .. i |-> g[k]]
      OBVIOUS
    <2> HIDE DEF g
    <2>5. g = KeepBody(g, q, T, i)
      BY <2>3, <2>4 DEF KeepBody
    <2> QED BY <2>5
  <1>4. n \in G
    <2> HIDE DEF G, n
    <2>1. n \in 0 .. n
      BY <1>1
    <2> QED BY <1>1, <1>2, <1>3, <2>1, IndexInduction
  <1> DEFINE h == CHOOSE f : f = [k \in 0 .. Len(q) |-> IF k = 0 THEN <<>>
                    ELSE IF q[k] \in T THEN Append(f[k - 1], q[k]) ELSE f[k - 1]]
  <1>5. Keep(q, T) = h[Len(q)]
    BY DEF Keep
  <1> HIDE DEF h
  <1> QED BY <1>4, <1>5 DEF KeepBody

\* What listing a set means, index by index.
LEMMA ListsFacts ==
  ASSUME NEW A, NEW q, Lists(q, A)
  PROVE  /\ q \in Seq(A) /\ Len(q) \in Nat /\ DOMAIN q = 1 .. Len(q)
         /\ \A i \in 1 .. Len(q) : q[i] \in A
         /\ \A i, j \in 1 .. Len(q) : q[i] = q[j] => i = j
         /\ \A x \in A : \E i \in 1 .. Len(q) : q[i] = x
         /\ ToSet(q) = A
  <1>1. ToSet(q) = A
    BY DEF Lists, ToSet
  <1> QED BY <1>1 DEF Lists

\* A queue that lists its members lists a subset of the requests.
LEMMA ListsEmpty == Lists(<<>>, {}) /\ ToSet(<<>>) = {}
  BY DEF Lists, ToSet

\* A new member at the end.
LEMMA ListsAppend ==
  ASSUME NEW A, NEW q, Lists(q, A), NEW x, x \notin A
  PROVE  Lists(Append(q, x), A \cup {x}) /\ ToSet(Append(q, x)) = A \cup {x}
  <1> DEFINE B == A \cup {x}
             p == Append(q, x)
  <1>1. /\ q \in Seq(A) /\ Len(q) \in Nat /\ DOMAIN q = 1 .. Len(q)
        /\ \A i \in 1 .. Len(q) : q[i] \in A
        /\ \A i, j \in 1 .. Len(q) : q[i] = q[j] => i = j
        /\ \A y \in A : \E i \in 1 .. Len(q) : q[i] = y
    BY ListsFacts
  <1>2. q \in Seq(B)
    BY <1>1
  <1>3. /\ p \in Seq(B) /\ DOMAIN p = 1 .. Len(q) + 1
        /\ \A i \in 1 .. Len(q) : p[i] = q[i] /\ i \in DOMAIN p
        /\ p[Len(q) + 1] = x /\ Len(q) + 1 \in DOMAIN p
        /\ \A i \in DOMAIN p : i \in 1 .. Len(q) \/ i = Len(q) + 1
    BY <1>1, <1>2
  <1> HIDE DEF p
  <1>4. \A y \in B : \E i \in DOMAIN p : p[i] = y
    BY <1>1, <1>3
  <1>5. Lists(p, B)
    BY <1>1, <1>3, <1>4 DEF Lists
  <1> QED BY <1>5, ListsFacts DEF p

\* The first member goes.
LEMMA ListsTail ==
  ASSUME NEW A, NEW q, Lists(q, A), q # <<>>
  PROVE  /\ Head(q) \in A /\ Head(q) = q[1] /\ Len(Tail(q)) = Len(q) - 1
         /\ Lists(Tail(q), A \ {Head(q)}) /\ ToSet(Tail(q)) = A \ {Head(q)}
  <1> DEFINE h == Head(q)
             B == A \ {h}
             p == Tail(q)
  <1>1. /\ q \in Seq(A) /\ Len(q) \in Nat /\ DOMAIN q = 1 .. Len(q)
        /\ \A i \in 1 .. Len(q) : q[i] \in A
        /\ \A i, j \in 1 .. Len(q) : q[i] = q[j] => i = j
        /\ \A y \in A : \E i \in 1 .. Len(q) : q[i] = y
    BY ListsFacts
  <1>2. /\ h = q[1] /\ 1 \in 1 .. Len(q) /\ h \in A
        /\ p \in Seq(A) /\ DOMAIN p = 1 .. Len(q) - 1 /\ Len(p) = Len(q) - 1
        /\ \A i \in DOMAIN p : i \in Int /\ i + 1 # 1 /\ i + 1 \in 1 .. Len(q) /\ p[i] = q[i + 1]
        /\ \A i \in 1 .. Len(q) : i # 1 => i - 1 \in DOMAIN p /\ p[i - 1] = q[i]
    BY <1>1
  <1> HIDE DEF p, h
  <1>3. p \in Seq(B)
    <2>1. Len(q) - 1 \in Nat
      BY <1>1, <1>2
    <2>2. p \in [1 .. Len(q) - 1 -> B]
      BY <1>1, <1>2
    <2> HIDE DEF B
    <2> QED BY <2>1, <2>2
  <1>4. ASSUME NEW i \in DOMAIN p, NEW j \in DOMAIN p, p[i] = p[j]
        PROVE  i = j
    BY <1>1, <1>2, <1>4
  <1>5. ASSUME NEW y \in B
        PROVE  \E i \in DOMAIN p : p[i] = y
    <2>1. PICK i \in 1 .. Len(q) : q[i] = y
      BY <1>1
    <2>2. i # 1
      BY <1>2, <2>1
    <2> QED BY <1>2, <2>1, <2>2
  <1>6. Lists(p, B)
    BY <1>3, <1>4, <1>5 DEF Lists
  <1> QED BY <1>2, <1>6, ListsFacts DEF p, h

\* The last member goes.
LEMMA ListsFront ==
  ASSUME NEW A, NEW q, Lists(q, A), q # <<>>
  PROVE  /\ Last(q) \in A /\ Len(Front(q)) = Len(q) - 1
         /\ Lists(Front(q), A \ {Last(q)}) /\ ToSet(Front(q)) = A \ {Last(q)}
  <1> DEFINE h == Last(q)
             B == A \ {h}
             p == Front(q)
  <1>1. /\ q \in Seq(A) /\ Len(q) \in Nat /\ DOMAIN q = 1 .. Len(q)
        /\ \A i \in 1 .. Len(q) : q[i] \in A
        /\ \A i, j \in 1 .. Len(q) : q[i] = q[j] => i = j
        /\ \A y \in A : \E i \in 1 .. Len(q) : q[i] = y
    BY ListsFacts
  <1>2. Len(q) > 0 /\ Len(q) - 1 \in Nat
    BY <1>1
  <1>3. h = q[Len(q)] /\ p = SubSeq(q, 1, Len(q) - 1)
    BY DEF Front, Last
  <1>4. Len(q) \in 1 .. Len(q) /\ 1 .. Len(q) - 1 \subseteq 1 .. Len(q)
    BY <1>1, <1>2
  <1>5. /\ p \in Seq(A) /\ DOMAIN p = 1 .. Len(q) - 1 /\ Len(p) = Len(q) - 1
        /\ \A i \in 1 .. Len(q) - 1 : p[i] = q[i]
    BY <1>3, <1>1, <1>2
  <1>6. /\ h = q[Len(q)] /\ Len(q) \in 1 .. Len(q) /\ h \in A
        /\ p \in Seq(A) /\ DOMAIN p = 1 .. Len(q) - 1 /\ Len(p) = Len(q) - 1
        /\ \A i \in DOMAIN p : i # Len(q) /\ i \in 1 .. Len(q) /\ p[i] = q[i]
        /\ \A i \in 1 .. Len(q) : i # Len(q) => i \in DOMAIN p
    <2> HIDE DEF p, h
    <2>1. Len(q) \in Nat
      BY <1>1
    <2>2. h \in A
      BY <1>3, <1>1, <1>4
    <2> QED BY <1>3, <1>4, <1>5, <2>1, <2>2
  <1> HIDE DEF p, h
  <1>7. \A i \in DOMAIN p : p[i] \in B
    BY <1>1, <1>6
  <1>8. p \in Seq(B)
    BY <1>2, <1>6, <1>7
  <1>9. ASSUME NEW y \in B
        PROVE  \E i \in DOMAIN p : p[i] = y
    BY <1>1, <1>6
  <1>10. Lists(p, B)
    BY <1>1, <1>6, <1>8, <1>9 DEF Lists
  <1> QED BY <1>6, <1>10, ListsFacts DEF p, h

\* Two queues with different members, one behind the other.
LEMMA ListsConcat ==
  ASSUME NEW A, NEW B, NEW q, NEW p, Lists(q, A), Lists(p, B), A \cap B = {}
  PROVE  Lists(q \o p, A \cup B) /\ ToSet(q \o p) = A \cup B
  <1> DEFINE C == A \cup B
             r == q \o p
  <1>1. /\ q \in Seq(A) /\ Len(q) \in Nat /\ DOMAIN q = 1 .. Len(q)
        /\ \A i \in 1 .. Len(q) : q[i] \in A
        /\ \A i, j \in 1 .. Len(q) : q[i] = q[j] => i = j
        /\ \A y \in A : \E i \in 1 .. Len(q) : q[i] = y
    BY ListsFacts
  <1>2. /\ p \in Seq(B) /\ Len(p) \in Nat /\ DOMAIN p = 1 .. Len(p)
        /\ \A i \in 1 .. Len(p) : p[i] \in B
        /\ \A i, j \in 1 .. Len(p) : p[i] = p[j] => i = j
        /\ \A y \in B : \E i \in 1 .. Len(p) : p[i] = y
    BY ListsFacts
  <1>3. /\ r \in Seq(C) /\ DOMAIN r = 1 .. Len(q) + Len(p)
        /\ \A i \in 1 .. Len(q) : i \in DOMAIN r /\ r[i] = q[i]
        /\ \A i \in 1 .. Len(p) : i + Len(q) \in DOMAIN r /\ r[i + Len(q)] = p[i]
        /\ \A i \in DOMAIN r : /\ i \in Int
                               /\ i \in 1 .. Len(q) \/ (i - Len(q) \in 1 .. Len(p) /\ r[i] = p[i - Len(q)])
    BY <1>1, <1>2
  <1> HIDE DEF r
  <1>4. ASSUME NEW i \in DOMAIN r, NEW j \in DOMAIN r, r[i] = r[j]
        PROVE  i = j
    <2>1. CASE i \in 1 .. Len(q) /\ j \in 1 .. Len(q)
      BY <1>1, <1>3, <1>4, <2>1
    <2>2. CASE /\ i - Len(q) \in 1 .. Len(p) /\ r[i] = p[i - Len(q)]
               /\ j - Len(q) \in 1 .. Len(p) /\ r[j] = p[j - Len(q)]
      <3>1. i - Len(q) = j - Len(q)
        BY <1>2, <1>4, <2>2
      <3> QED BY <1>1, <1>3, <3>1
    <2>3. CASE /\ i \in 1 .. Len(q)
               /\ j - Len(q) \in 1 .. Len(p) /\ r[j] = p[j - Len(q)]
      BY <1>1, <1>2, <1>3, <1>4, <2>3
    <2>4. CASE /\ j \in 1 .. Len(q)
               /\ i - Len(q) \in 1 .. Len(p) /\ r[i] = p[i - Len(q)]
      BY <1>1, <1>2, <1>3, <1>4, <2>4
    <2> QED BY <1>3, <2>1, <2>2, <2>3, <2>4
  <1>5. ASSUME NEW y \in C
        PROVE  \E i \in DOMAIN r : r[i] = y
    <2>1. CASE y \in A
      BY <1>1, <1>3, <2>1
    <2>2. CASE y \in B
      BY <1>2, <1>3, <2>2
    <2> QED BY <2>1, <2>2
  <1>6. Lists(r, C)
    BY <1>3, <1>4, <1>5 DEF Lists
  <1> QED BY <1>6, ListsFacts DEF r

\* A queue from its end to its beginning.
LEMMA ListsReverse ==
  ASSUME NEW A, NEW q, Lists(q, A)
  PROVE  Lists(Reverse(q), A)
  <1> DEFINE p == Reverse(q)
  <1>1. /\ q \in Seq(A) /\ Len(q) \in Nat /\ DOMAIN q = 1 .. Len(q)
        /\ \A i \in 1 .. Len(q) : q[i] \in A
        /\ \A i, j \in 1 .. Len(q) : q[i] = q[j] => i = j
        /\ \A y \in A : \E i \in 1 .. Len(q) : q[i] = y
    BY ListsFacts
  <1>2. p \in Seq(A) /\ DOMAIN p = 1 .. Len(q)
    BY <1>1 DEF Reverse
  <1>3. \A i \in 1 .. Len(q) : p[i] = q[(Len(q) - i) + 1]
    BY DEF Reverse
  <1> HIDE DEF p
  <1>4. ASSUME NEW i \in 1 .. Len(q), NEW j \in 1 .. Len(q), p[i] = p[j]
        PROVE  i = j
    <2>1. q[(Len(q) - i) + 1] = q[(Len(q) - j) + 1]
      BY <1>3, <1>4
    <2>2. (Len(q) - i) + 1 = (Len(q) - j) + 1
      BY <1>1, <2>1
    <2> QED BY <1>1, <2>2
  <1>5. ASSUME NEW y \in A
        PROVE  \E i \in 1 .. Len(q) : p[i] = y
    <2>1. PICK i \in 1 .. Len(q) : q[i] = y
      BY <1>1
    <2>2. /\ (Len(q) - i) + 1 \in 1 .. Len(q)
          /\ (Len(q) - ((Len(q) - i) + 1)) + 1 = i
      BY <1>1
    <2> QED BY <1>3, <2>1, <2>2
  <1> QED BY <1>2, <1>4, <1>5 DEF Lists, p

\* The members of a queue that are in T.
LEMMA ListsKeep ==
  ASSUME NEW A, NEW q, Lists(q, A), NEW T
  PROVE  Lists(Keep(q, T), A \cap T) /\ ToSet(Keep(q, T)) = A \cap T
  <1> DEFINE n == Len(q)
             Part(i) == {q[k] : k \in 1 .. i} \cap T
  <1>1. /\ q \in Seq(A) /\ n \in Nat /\ DOMAIN q = 1 .. n
        /\ \A i \in 1 .. n : q[i] \in A
        /\ \A i, j \in 1 .. n : q[i] = q[j] => i = j
        /\ \A y \in A : \E i \in 1 .. n : q[i] = y
    BY ListsFacts
  <1>2. PICK f : f = KeepBody(f, q, T, n) /\ Keep(q, T) = f[n]
    BY <1>1, KeepFunction
  <1> HIDE DEF n
  <1>3. /\ f[0] = <<>>
        /\ \A i \in 1 .. n : f[i] = IF q[i] \in T THEN Append(f[i - 1], q[i]) ELSE f[i - 1]
    <2>1. 0 \in 0 .. n /\ \A i \in 1 .. n : i \in 0 .. n /\ i # 0
      BY <1>1
    <2> QED BY <1>2, <2>1 DEF KeepBody
  <1> DEFINE G == {i \in 0 .. n : Lists(f[i], Part(i))}
  <1>4. 0 \in G
    <2>1. Part(0) = {}
      OBVIOUS
    <2>2. 0 \in 0 .. n
      BY <1>1
    <2> HIDE DEF Part
    <2> QED BY <1>3, <2>1, <2>2, ListsEmpty
  <1>5. ASSUME NEW i \in 1 .. n, i - 1 \in G
        PROVE  i \in G
    <2>1. Lists(f[i - 1], Part(i - 1))
      BY <1>5
    <2>2. \A k \in 1 .. i - 1 : k \in 1 .. i /\ k \in 1 .. n /\ k # i
      BY <1>1
    <2>3. CASE q[i] \in T
      <3>1. Part(i) = Part(i - 1) \cup {q[i]}
        BY <2>2, <2>3
      <3>2. q[i] \notin Part(i - 1)
        BY <1>1, <2>2
      <3>3. f[i] = Append(f[i - 1], q[i])
        BY <1>3, <2>3
      <3> HIDE DEF Part
      <3>4. Lists(f[i], Part(i))
        BY <2>1, <3>1, <3>2, <3>3, ListsAppend
      <3> QED BY <3>4
    <2>4. CASE q[i] \notin T
      <3>1. Part(i) = Part(i - 1)
        BY <2>2, <2>4
      <3>2. f[i] = f[i - 1]
        BY <1>3, <2>4
      <3> HIDE DEF Part
      <3>3. Lists(f[i], Part(i))
        BY <2>1, <3>1, <3>2
      <3> QED BY <3>3
    <2> QED BY <2>3, <2>4
  <1>6. n \in G
    <2> HIDE DEF G
    <2>1. n \in 0 .. n
      BY <1>1
    <2> QED BY <1>1, <1>4, <1>5, <2>1, IndexInduction
  <1>7. Part(n) = A \cap T
    BY <1>1
  <1>8. Lists(Keep(q, T), A \cap T)
    BY <1>2, <1>6, <1>7
  <1> QED BY <1>8, ListsFacts

\* A queue is as long as the set of its members is large.
LEMMA ListsLen ==
  ASSUME NEW A, NEW q, Lists(q, A)
  PROVE  IsFiniteSet(A) /\ Cardinality(A) = Len(q)
  <1>1. /\ q \in Seq(A) /\ Len(q) \in Nat /\ DOMAIN q = 1 .. Len(q)
        /\ \A i \in 1 .. Len(q) : q[i] \in A
        /\ \A i, j \in 1 .. Len(q) : q[i] = q[j] => i = j
        /\ \A y \in A : \E i \in 1 .. Len(q) : q[i] = y
    BY ListsFacts
  <1>2. IsFiniteSet(1 .. Len(q)) /\ Cardinality(1 .. Len(q)) = Len(q)
    <2>1. IsFiniteSet(1 .. Len(q)) /\ Cardinality(1 .. Len(q)) = IF 1 > Len(q) THEN 0 ELSE Len(q) - 1 + 1
      BY <1>1, FS_Interval
    <2> QED BY <1>1, <2>1
  <1>3. ExistsBijection(1 .. Len(q), A)
    BY <1>1 DEF Bijection, Injection, Surjection, IsInjective, ExistsBijection
  <1> QED BY <1>2, <1>3, FS_Bijection

-----------------------------------------------------------------------------
(* The loops of the code: each is the last value of a function that        *)
(* satisfies its recursion.                                                 *)

\* The walk along the free queue.
LEMMA WalkFunction ==
  ASSUME NEW p, NEW n \in Nat, Len(p.ref) = n
  PROVE  \E f : /\ f[0] = <<>>
                /\ \A i \in 1 .. n : f[i] = Walk(p, f[i - 1])
                /\ FreeList(p) = f[n]
  <1> DEFINE N == n
             Body(f, m) == [i \in 0 .. m |-> IF i = 0 THEN <<>>
                                             ELSE Walk(p, f[i - 1])]
             G == {m \in 0 .. N : \E f : f = Body(f, m)}
  <1>1. N \in Nat
    OBVIOUS
  <1>2. 0 \in G
    <2> DEFINE f == [i \in 0 .. 0 |-> <<>>]
    <2>1. f = Body(f, 0)
      OBVIOUS
    <2>2. 0 \in 0 .. N
      BY <1>1
    <2> HIDE DEF f, N
    <2> QED BY <2>1, <2>2
  <1>3. ASSUME NEW m \in 1 .. N, m - 1 \in G
        PROVE  m \in G
    <2> HIDE DEF N
    <2>1. PICK f : f = Body(f, m - 1)
      BY <1>3
    <2> DEFINE g == [i \in 0 .. m |-> IF i = m THEN Walk(p, f[m - 1]) ELSE f[i]]
    <2>2. /\ g = [i \in 0 .. m |-> g[i]] /\ \A i \in 0 .. m - 1 : g[i] = f[i]
          /\ g[m] = Walk(p, f[m - 1])
      BY <1>1
    <2> HIDE DEF g
    <2>3. ASSUME NEW i \in 0 .. m
          PROVE  g[i] = IF i = 0 THEN <<>> ELSE Walk(p, g[i - 1])
      <3>1. CASE i = m
        <4>1. m - 1 \in 0 .. m - 1 /\ m # 0
          BY <1>1
        <4> QED BY <2>2, <3>1, <4>1
      <3>2. CASE i # m
        <4>1. i \in 0 .. m - 1 /\ (i # 0 => i - 1 \in 0 .. m - 1)
          BY <3>2, <1>1
        <4> QED BY <2>1, <2>2, <4>1
      <3> QED BY <3>1, <3>2
    <2>4. g = Body(g, m)
      BY <2>2, <2>3
    <2> QED BY <1>1, <2>4, SMTT(20)
  <1>4. N \in G
    <2> HIDE DEF G, N
    <2> QED BY <1>1, <1>2, <1>3, IndexInduction
  <1> DEFINE h == CHOOSE f : f = Body(f, N)
  <1>5. \E f : f = Body(f, N)
    BY <1>4
  <1>6. h = Body(h, N)
    BY <1>5
  <1>7. FreeList(p) = h[N]
    BY DEF FreeList
  <1> HIDE DEF h
  <1> QED BY <1>1, <1>6, <1>7

\* touch: one hit after the other.
LEMMA TouchFunction ==
  ASSUME NEW p, NEW q, Len(q) \in Nat
  PROVE  \E f : /\ f[0] = p
                /\ \A i \in 1 .. Len(q) : f[i] = Hit(f[i - 1], q[i])
                /\ touch(p, q) = f[Len(q)]
  <1> DEFINE N == Len(q)
             Body(f, m) == [i \in 0 .. m |-> IF i = 0 THEN p
                                             ELSE Hit(f[i - 1], q[i])]
             G == {m \in 0 .. N : \E f : f = Body(f, m)}
  <1>1. N \in Nat
    OBVIOUS
  <1>2. 0 \in G
    <2> DEFINE f == [i \in 0 .. 0 |-> p]
    <2>1. f = Body(f, 0)
      OBVIOUS
    <2>2. 0 \in 0 .. N
      BY <1>1
    <2> HIDE DEF f, N
    <2> QED BY <2>1, <2>2
  <1>3. ASSUME NEW m \in 1 .. N, m - 1 \in G
        PROVE  m \in G
    <2> HIDE DEF N
    <2>1. PICK f : f = Body(f, m - 1)
      BY <1>3
    <2> DEFINE g == [i \in 0 .. m |-> IF i = m THEN Hit(f[m - 1], q[m]) ELSE f[i]]
    <2>2. /\ g = [i \in 0 .. m |-> g[i]] /\ \A i \in 0 .. m - 1 : g[i] = f[i]
          /\ g[m] = Hit(f[m - 1], q[m])
      BY <1>1
    <2> HIDE DEF g
    <2>3. ASSUME NEW i \in 0 .. m
          PROVE  g[i] = IF i = 0 THEN p ELSE Hit(g[i - 1], q[i])
      <3>1. CASE i = m
        <4>1. m - 1 \in 0 .. m - 1 /\ m # 0
          BY <1>1
        <4> QED BY <2>2, <3>1, <4>1
      <3>2. CASE i # m
        <4>1. i \in 0 .. m - 1 /\ (i # 0 => i - 1 \in 0 .. m - 1)
          BY <3>2, <1>1
        <4> QED BY <2>1, <2>2, <4>1
      <3> QED BY <3>1, <3>2
    <2>4. g = Body(g, m)
      BY <2>2, <2>3
    <2> QED BY <1>1, <2>4, SMTT(20)
  <1>4. N \in G
    <2> HIDE DEF G, N
    <2> QED BY <1>1, <1>2, <1>3, IndexInduction
  <1> DEFINE h == CHOOSE f : f = Body(f, N)
  <1>5. \E f : f = Body(f, N)
    BY <1>4
  <1>6. h = Body(h, N)
    BY <1>5
  <1>7. touch(p, q) = h[N]
    BY DEF touch
  <1> HIDE DEF h
  <1> QED BY <1>1, <1>6, <1>7

\* free_blocks: one block after the other.
LEMMA FreeFunction ==
  ASSUME NEW p, NEW q, Len(q) \in Nat
  PROVE  \E f : /\ f[0] = p
                /\ \A i \in 1 .. Len(q) : f[i] = Drop(f[i - 1], q[i])
                /\ free_blocks(p, q) = f[Len(q)]
  <1> DEFINE N == Len(q)
             Body(f, m) == [i \in 0 .. m |-> IF i = 0 THEN p
                                             ELSE Drop(f[i - 1], q[i])]
             G == {m \in 0 .. N : \E f : f = Body(f, m)}
  <1>1. N \in Nat
    OBVIOUS
  <1>2. 0 \in G
    <2> DEFINE f == [i \in 0 .. 0 |-> p]
    <2>1. f = Body(f, 0)
      OBVIOUS
    <2>2. 0 \in 0 .. N
      BY <1>1
    <2> HIDE DEF f, N
    <2> QED BY <2>1, <2>2
  <1>3. ASSUME NEW m \in 1 .. N, m - 1 \in G
        PROVE  m \in G
    <2> HIDE DEF N
    <2>1. PICK f : f = Body(f, m - 1)
      BY <1>3
    <2> DEFINE g == [i \in 0 .. m |-> IF i = m THEN Drop(f[m - 1], q[m]) ELSE f[i]]
    <2>2. /\ g = [i \in 0 .. m |-> g[i]] /\ \A i \in 0 .. m - 1 : g[i] = f[i]
          /\ g[m] = Drop(f[m - 1], q[m])
      BY <1>1
    <2> HIDE DEF g
    <2>3. ASSUME NEW i \in 0 .. m
          PROVE  g[i] = IF i = 0 THEN p ELSE Drop(g[i - 1], q[i])
      <3>1. CASE i = m
        <4>1. m - 1 \in 0 .. m - 1 /\ m # 0
          BY <1>1
        <4> QED BY <2>2, <3>1, <4>1
      <3>2. CASE i # m
        <4>1. i \in 0 .. m - 1 /\ (i # 0 => i - 1 \in 0 .. m - 1)
          BY <3>2, <1>1
        <4> QED BY <2>1, <2>2, <4>1
      <3> QED BY <3>1, <3>2
    <2>4. g = Body(g, m)
      BY <2>2, <2>3
    <2> QED BY <1>1, <2>4, SMTT(20)
  <1>4. N \in G
    <2> HIDE DEF G, N
    <2> QED BY <1>1, <1>2, <1>3, IndexInduction
  <1> DEFINE h == CHOOSE f : f = Body(f, N)
  <1>5. \E f : f = Body(f, N)
    BY <1>4
  <1>6. h = Body(h, N)
    BY <1>5
  <1>7. free_blocks(p, q) = h[N]
    BY DEF free_blocks
  <1> HIDE DEF h
  <1> QED BY <1>1, <1>6, <1>7

\* get_new_blocks: one block after the other.
LEMMA TakeFunction ==
  ASSUME NEW p, NEW n \in Nat
  PROVE  \E f : /\ f[0] = [pool |-> p, blocks |-> <<>>]
                /\ \A i \in 1 .. n : f[i] = Take(f[i - 1])
                /\ get_new_blocks(p, n) = f[n]
  <1> DEFINE N == n
             Body(f, m) == [i \in 0 .. m |-> IF i = 0 THEN [pool |-> p, blocks |-> <<>>]
                                             ELSE Take(f[i - 1])]
             G == {m \in 0 .. N : \E f : f = Body(f, m)}
  <1>1. N \in Nat
    OBVIOUS
  <1>2. 0 \in G
    <2> DEFINE f == [i \in 0 .. 0 |-> [pool |-> p, blocks |-> <<>>]]
    <2>1. f = Body(f, 0)
      OBVIOUS
    <2>2. 0 \in 0 .. N
      BY <1>1
    <2> HIDE DEF f, N
    <2> QED BY <2>1, <2>2
  <1>3. ASSUME NEW m \in 1 .. N, m - 1 \in G
        PROVE  m \in G
    <2> HIDE DEF N
    <2>1. PICK f : f = Body(f, m - 1)
      BY <1>3
    <2> DEFINE g == [i \in 0 .. m |-> IF i = m THEN Take(f[m - 1]) ELSE f[i]]
    <2>2. /\ g = [i \in 0 .. m |-> g[i]] /\ \A i \in 0 .. m - 1 : g[i] = f[i]
          /\ g[m] = Take(f[m - 1])
      BY <1>1
    <2> HIDE DEF g
    <2>3. ASSUME NEW i \in 0 .. m
          PROVE  g[i] = IF i = 0 THEN [pool |-> p, blocks |-> <<>>] ELSE Take(g[i - 1])
      <3>1. CASE i = m
        <4>1. m - 1 \in 0 .. m - 1 /\ m # 0
          BY <1>1
        <4> QED BY <2>2, <3>1, <4>1
      <3>2. CASE i # m
        <4>1. i \in 0 .. m - 1 /\ (i # 0 => i - 1 \in 0 .. m - 1)
          BY <3>2, <1>1
        <4> QED BY <2>1, <2>2, <4>1
      <3> QED BY <3>1, <3>2
    <2>4. g = Body(g, m)
      BY <2>2, <2>3
    <2> QED BY <1>1, <2>4, SMTT(20)
  <1>4. N \in G
    <2> HIDE DEF G, N
    <2> QED BY <1>1, <1>2, <1>3, IndexInduction
  <1> DEFINE h == CHOOSE f : f = Body(f, N)
  <1>5. \E f : f = Body(f, N)
    BY <1>4
  <1>6. h = Body(h, N)
    BY <1>5
  <1>7. get_new_blocks(p, n) = h[N]
    BY DEF get_new_blocks
  <1> HIDE DEF h
  <1>8. h[0] = [pool |-> p, blocks |-> <<>>] /\ \A i \in 1 .. N : h[i] = Take(h[i - 1])
    BY <1>1, <1>6
  <1> QED BY <1>7, <1>8

-----------------------------------------------------------------------------
(* The free queue.                                                          *)

\* The fields of a pool.
LEMMA PoolFields ==
  ASSUME NEW n \in Nat, NEW p \in Pools(n)
  PROVE  /\ p.ref \in [1 .. n -> Nat] /\ p.hash \in [1 .. n -> Words] /\ p.cached \in Caches(n)
         /\ p.head \in 0 .. n /\ p.tail \in 0 .. n /\ p.num \in Nat
         /\ p.prev \in [1 .. n -> 0 .. n] /\ p.next \in [1 .. n -> 0 .. n] /\ p.ok \in BOOLEAN
         /\ DOMAIN p.ref = 1 .. n /\ DOMAIN p.hash = 1 .. n
         /\ DOMAIN p.next = 1 .. n /\ DOMAIN p.prev = 1 .. n
         /\ Len(p.ref) = n
  <1>1. p.ref \in [1 .. n -> Nat]
    BY DEF Pools
  <1>2. p.ref \in Seq(Nat)
    BY <1>1
  <1>3. Len(p.ref) = n
    BY <1>1, <1>2
  <1> QED BY <1>1, <1>3 DEF Pools

\* What a chain is, index by index.
LEMMA ChainFacts ==
  ASSUME NEW n \in Nat, NEW p \in Pools(n), NEW q, Chain(p, q)
  PROVE  /\ q \in Seq(1 .. n) /\ Len(q) \in Nat /\ DOMAIN q = 1 .. Len(q)
         /\ \A i \in 1 .. Len(q) : q[i] \in 1 .. n /\ p.ref[q[i]] = 0
         /\ \A i, j \in 1 .. Len(q) : q[i] = q[j] => i = j
         /\ \A b \in 1 .. n : p.ref[b] = 0 => \E i \in 1 .. Len(q) : q[i] = b
         /\ p.num = Len(q)
         /\ q = <<>> <=> Len(q) = 0
         /\ p.head = IF Len(q) = 0 THEN NoBlock ELSE q[1]
         /\ p.tail = IF Len(q) = 0 THEN NoBlock ELSE q[Len(q)]
         /\ \A i \in 1 .. Len(q) :
              /\ p.next[q[i]] = IF i < Len(q) THEN q[i + 1] ELSE NoBlock
              /\ p.prev[q[i]] = IF i > 1 THEN q[i - 1] ELSE NoBlock
         /\ \A b \in 1 .. n : p.ref[b] # 0 => p.prev[b] = NoBlock
         /\ ToSet(q) = {b \in 1 .. n : p.ref[b] = 0}
         /\ Len(q) <= n
  <1> DEFINE F == {b \in 1 .. n : p.ref[b] = 0}
  <1>1. DOMAIN p.ref = 1 .. n
    BY PoolFields
  <1>2. Lists(q, F)
    BY <1>1 DEF Chain
  <1>3. /\ q \in Seq(F) /\ Len(q) \in Nat /\ DOMAIN q = 1 .. Len(q)
        /\ \A i \in 1 .. Len(q) : q[i] \in F
        /\ \A i, j \in 1 .. Len(q) : q[i] = q[j] => i = j
        /\ \A x \in F : \E i \in 1 .. Len(q) : q[i] = x
        /\ ToSet(q) = F
    BY <1>2, ListsFacts
  <1>4. q \in Seq(1 .. n)
    BY <1>3
  <1>5. Len(q) <= n
    <2>1. IsFiniteSet(1 .. n) /\ Cardinality(1 .. n) = n
      BY FS_Interval
    <2>2. Cardinality(F) <= Cardinality(1 .. n)
      BY <2>1, FS_Subset
    <2> QED BY <1>2, <2>1, <2>2, ListsLen
  <1>6. /\ p.num = Len(q)
        /\ p.head = IF Len(q) = 0 THEN NoBlock ELSE q[1]
        /\ p.tail = IF Len(q) = 0 THEN NoBlock ELSE q[Len(q)]
        /\ \A i \in 1 .. Len(q) :
              /\ p.next[q[i]] = IF i < Len(q) THEN q[i + 1] ELSE NoBlock
              /\ p.prev[q[i]] = IF i > 1 THEN q[i - 1] ELSE NoBlock
        /\ \A b \in 1 .. n : p.ref[b] # 0 => p.prev[b] = NoBlock
    BY <1>1, <1>3 DEF Chain
  <1> QED BY <1>3, <1>4, <1>5, <1>6

\* The other direction.
Linking(n, p, q) ==
  /\ q \in Seq(1 .. n)
  /\ \A i \in 1 .. Len(q) : p.ref[q[i]] = 0
  /\ \A i, j \in 1 .. Len(q) : q[i] = q[j] => i = j
  /\ \A b \in 1 .. n : p.ref[b] = 0 => \E i \in 1 .. Len(q) : q[i] = b
  /\ p.num = Len(q)
  /\ p.head = IF Len(q) = 0 THEN NoBlock ELSE q[1]
  /\ p.tail = IF Len(q) = 0 THEN NoBlock ELSE q[Len(q)]
  /\ \A i \in 1 .. Len(q) :
       /\ p.next[q[i]] = IF i < Len(q) THEN q[i + 1] ELSE NoBlock
       /\ p.prev[q[i]] = IF i > 1 THEN q[i - 1] ELSE NoBlock
  /\ \A b \in 1 .. n : p.ref[b] # 0 => p.prev[b] = NoBlock

LEMMA ChainIntro ==
  ASSUME NEW n \in Nat, NEW p \in Pools(n), NEW q, Linking(n, p, q)
  PROVE  Chain(p, q)
  <1> USE DEF Linking
  <1>1. DOMAIN p.ref = 1 .. n
    BY PoolFields
  <1>2. DOMAIN q = 1 .. Len(q) /\ \A i \in 1 .. Len(q) : q[i] \in 1 .. n
    OBVIOUS
  <1> DEFINE F == {b \in DOMAIN p.ref : p.ref[b] = 0}
  <1>3. q \in Seq(F)
    BY <1>1, <1>2 DEF Linking
  <1>4. Lists(q, F)
    BY <1>1, <1>2, <1>3 DEF Lists
  <1> QED BY <1>1, <1>4 DEF Chain

\* A walk along a chain meets its blocks in order.
LEMMA WalkChain ==
  ASSUME NEW n \in Nat, NEW p \in Pools(n), NEW q, Chain(p, q)
  PROVE  FreeList(p) = q
  <1> DEFINE m == Len(q)
             Cut(i) == [k \in 1 .. (IF i < m THEN i ELSE m) |-> q[k]]
  <1>1. /\ q \in Seq(1 .. n) /\ Len(q) \in Nat /\ DOMAIN q = 1 .. Len(q)
        /\ \A i \in 1 .. Len(q) : q[i] \in 1 .. n
        /\ p.head = IF Len(q) = 0 THEN NoBlock ELSE q[1]
        /\ \A i \in 1 .. Len(q) : p.next[q[i]] = IF i < Len(q) THEN q[i + 1] ELSE NoBlock
        /\ Len(q) <= n
    BY ChainFacts
  <1>2. Len(p.ref) = n
    BY PoolFields
  <1>3. PICK f : /\ f[0] = <<>>
                 /\ \A i \in 1 .. n : f[i] = Walk(p, f[i - 1])
                 /\ FreeList(p) = f[n]
    BY <1>2, WalkFunction, Zenon
  <1> DEFINE G == {i \in 0 .. n : f[i] = Cut(i)}
  <1>4. 0 \in G
    BY <1>1, <1>3
  <1>5. ASSUME NEW i \in 1 .. n, i - 1 \in G
        PROVE  i \in G
    <2>1. f[i] = Walk(p, Cut(i - 1))
      BY <1>3, <1>5
    <2>2. CASE i = 1
      <3>1. Cut(i - 1) = <<>>
        BY <1>1, <2>2
      <3>2. Walk(p, <<>>) = IF m = 0 THEN <<>> ELSE <<q[1]>>
        BY <1>1 DEF Walk, NoBlock
      <3>3. Cut(i) = IF m = 0 THEN <<>> ELSE <<q[1]>>
        BY <1>1, <2>2
      <3> QED BY <2>1, <3>1, <3>2, <3>3
    <2>3. CASE i > 1 /\ m >= 1
      <3> DEFINE c == Cut(i - 1)
                 l == IF i - 1 < m THEN i - 1 ELSE m
      <3>1. l \in 1 .. m /\ c = [k \in 1 .. l |-> q[k]]
        BY <1>1, <2>3
      <3>2. c \in Seq(1 .. n) /\ Len(c) = l /\ c # <<>> /\ Last(c) = q[l]
        <4>1. c \in Seq(1 .. n) /\ DOMAIN c = 1 .. l /\ DOMAIN c = 1 .. Len(c) /\ Len(c) \in Nat
          BY <1>1, <3>1
        <4>2. Len(c) = l
          BY <3>1, <4>1
        <4>3. c[l] = q[l]
          BY <3>1
        <4>4. c # <<>>
          BY <3>1, <4>2
        <4> HIDE DEF c, l
        <4> QED BY <4>1, <4>2, <4>3, <4>4 DEF Last
      <3>3. p.next[Last(c)] = IF l < m THEN q[l + 1] ELSE NoBlock
        BY <1>1, <3>1, <3>2
      <3>4. CASE l = m
        <4>1. Walk(p, c) = c
          BY <3>2, <3>3, <3>4 DEF Walk
        <4>2. Cut(i) = c
          BY <1>1, <2>3, <3>1, <3>4
        <4> QED BY <2>1, <4>1, <4>2
      <3>5. CASE l # m
        <4>1. l = i - 1 /\ i <= m
          BY <1>1, <3>1, <3>5
        <4>2. q[l + 1] # NoBlock
          BY <1>1, <4>1, <3>1 DEF NoBlock
        <4> HIDE DEF c, l
        <4>3. Walk(p, c) = Append(c, q[i])
          BY <3>1, <3>2, <3>3, <3>5, <4>1, <4>2, SMTT(20) DEF Walk
        <4>4. Cut(i) = Append(c, q[i])
          <5>1. Cut(i) = [k \in 1 .. i |-> q[k]]
            BY <1>1, <4>1
          <5>2. l + 1 = i
            BY <4>1
          <5>3. \A k \in 1 .. i : k # i => k \in 1 .. l
            BY <4>1
          <5>4. Append(c, q[i]) = [k \in 1 .. i |-> q[k]]
            BY <3>1, <3>2, <5>2, <5>3
          <5> QED BY <5>1, <5>4
        <4>5. f[i] = Cut(i)
          BY <2>1, <4>3, <4>4 DEF c
        <4> QED BY <4>5
      <3> QED BY <3>4, <3>5
    <2>4. CASE i > 1 /\ m = 0
      BY <1>1, <2>1, <2>4 DEF Walk
    <2> QED BY <1>1, <2>2, <2>3, <2>4
  <1>6. \A i \in 0 .. n : i \in G
    BY <1>4, <1>5, IndexInduction
  <1>7. f[n] = Cut(n)
    BY <1>6
  <1>8. Cut(n) = q
    BY <1>1
  <1> QED BY <1>3, <1>7, <1>8

\* The queue q without its k-th block.
Without(q, k) == [i \in 1 .. Len(q) - 1 |-> IF i < k THEN q[i] ELSE q[i + 1]]

LEMMA WithoutFacts ==
  ASSUME NEW A, NEW q \in Seq(A), NEW k \in 1 .. Len(q)
  PROVE  /\ Without(q, k) \in Seq(A) /\ Len(Without(q, k)) = Len(q) - 1
         /\ \A i \in 1 .. Len(q) - 1 : Without(q, k)[i] = IF i < k THEN q[i] ELSE q[i + 1]
  <1> DEFINE w == Without(q, k)
  <1>1. w \in [1 .. Len(q) - 1 -> A]
    BY DEF Without
  <1>2. w \in Seq(A)
    BY <1>1
  <1>3. Len(w) = Len(q) - 1
    BY <1>1, <1>2
  <1> QED BY <1>2, <1>3 DEF Without

\* A block leaves the queue.
LEMMA Unlinked ==
  ASSUME NEW n \in Nat, NEW p \in Pools(n), NEW q, Chain(p, q), NEW k \in 1 .. Len(q),
         NEW s \in Pools(n),
         s.ref = [p.ref EXCEPT ![q[k]] = 1],
         s.num = remove(p, q[k]).num,
         s.head = remove(p, q[k]).head, s.tail = remove(p, q[k]).tail,
         s.next = remove(p, q[k]).next, s.prev = remove(p, q[k]).prev
  PROVE  Chain(s, Without(q, k))
  <1> DEFINE m == Len(q)
             w == Without(q, k)
             b == q[k]
             pr == p.prev[b]
             ne == p.next[b]
  <1>1. /\ q \in Seq(1 .. n) /\ m \in Nat /\ DOMAIN q = 1 .. m
        /\ \A i \in 1 .. m : q[i] \in 1 .. n /\ p.ref[q[i]] = 0
        /\ \A i, j \in 1 .. m : q[i] = q[j] => i = j
        /\ \A x \in 1 .. n : p.ref[x] = 0 => \E i \in 1 .. m : q[i] = x
        /\ p.num = m
        /\ p.head = IF m = 0 THEN NoBlock ELSE q[1]
        /\ p.tail = IF m = 0 THEN NoBlock ELSE q[m]
        /\ \A i \in 1 .. m :
              /\ p.next[q[i]] = IF i < m THEN q[i + 1] ELSE NoBlock
              /\ p.prev[q[i]] = IF i > 1 THEN q[i - 1] ELSE NoBlock
        /\ \A x \in 1 .. n : p.ref[x] # 0 => p.prev[x] = NoBlock
    BY ChainFacts, SMTT(20)
  <1>2. k \in 1 .. m /\ q[k] = b
    OBVIOUS
  <1>3. /\ w \in Seq(1 .. n) /\ Len(w) = m - 1
        /\ \A i \in 1 .. m - 1 : w[i] = IF i < k THEN q[i] ELSE q[i + 1]
    <2>1. q \in Seq(1 .. n)
      BY <1>1
    <2> QED BY <2>1, WithoutFacts
  <1>4. /\ b \in 1 .. n
        /\ pr = (IF k > 1 THEN q[k - 1] ELSE NoBlock)
        /\ ne = (IF k < m THEN q[k + 1] ELSE NoBlock)
    BY <1>1
  <1>5. remove(p, b) = [p EXCEPT
           !.next = [x \in DOMAIN @ |-> IF x = b THEN NoBlock ELSE IF x = pr THEN ne ELSE @[x]],
           !.prev = [x \in DOMAIN @ |-> IF x = b THEN NoBlock ELSE IF x = ne THEN pr ELSE @[x]],
           !.head = IF @ = b THEN ne ELSE @,
           !.tail = IF @ = b THEN pr ELSE @,
           !.num = @ - 1]
    BY DEF remove
  <1>6. /\ s.num = remove(p, b).num /\ s.head = remove(p, b).head /\ s.tail = remove(p, b).tail
        /\ s.next = remove(p, b).next /\ s.prev = remove(p, b).prev
        /\ s.ref = [p.ref EXCEPT ![b] = 1]
    OBVIOUS
  <1> HIDE DEF w, b, pr, ne, m
  <1>7. /\ s.num = p.num - 1
        /\ s.head = (IF p.head = b THEN ne ELSE p.head)
        /\ s.tail = (IF p.tail = b THEN pr ELSE p.tail)
        /\ \A x \in 1 .. n :
             /\ s.next[x] = (IF x = b THEN NoBlock ELSE IF x = pr THEN ne ELSE p.next[x])
             /\ s.prev[x] = (IF x = b THEN NoBlock ELSE IF x = ne THEN pr ELSE p.prev[x])
    <2> DEFINE N == [x \in DOMAIN p.next |-> IF x = b THEN NoBlock ELSE IF x = pr THEN ne ELSE p.next[x]]
               P == [x \in DOMAIN p.prev |-> IF x = b THEN NoBlock ELSE IF x = ne THEN pr ELSE p.prev[x]]
    <2>1. /\ remove(p, b).num = p.num - 1
          /\ remove(p, b).head = (IF p.head = b THEN ne ELSE p.head)
          /\ remove(p, b).tail = (IF p.tail = b THEN pr ELSE p.tail)
          /\ remove(p, b).next = N
          /\ remove(p, b).prev = P
      BY <1>5 DEF Pools
    <2>2. /\ \A x \in 1 .. n : N[x] = (IF x = b THEN NoBlock ELSE IF x = pr THEN ne ELSE p.next[x])
          /\ \A x \in 1 .. n : P[x] = (IF x = b THEN NoBlock ELSE IF x = ne THEN pr ELSE p.prev[x])
      BY PoolFields
    <2> HIDE DEF N, P
    <2> QED BY <1>6, <2>1, <2>2
  <1>8. \A x \in 1 .. n : s.ref[x] = IF x = b THEN 1 ELSE p.ref[x]
    BY <1>6, <1>4, PoolFields
  <1>9. m \in Nat /\ k \in 1 .. m
    BY <1>2, <1>1
  <1>10. ASSUME NEW i \in 1 .. m - 1
         PROVE  \E j \in 1 .. m : j # k /\ w[i] = q[j] /\ j = IF i < k THEN i ELSE i + 1
    BY <1>9, <1>3
  <1>11. \A i \in 1 .. Len(w) : s.ref[w[i]] = 0
    <2> SUFFICES ASSUME NEW i \in 1 .. m - 1
                 PROVE  s.ref[w[i]] = 0
      BY <1>3
    <2>1. PICK j \in 1 .. m : j # k /\ w[i] = q[j]
      BY <1>10
    <2>2. p.ref[q[j]] = 0
      BY <1>1
    <2> QED BY <1>2, <1>1, <1>8, <2>1, <2>2
  <1>12. \A i, j \in 1 .. Len(w) : w[i] = w[j] => i = j
    <2> SUFFICES ASSUME NEW i \in 1 .. m - 1, NEW j \in 1 .. m - 1, w[i] = w[j]
                 PROVE  i = j
      BY <1>3
    <2>1. PICK i1 \in 1 .. m : w[i] = q[i1] /\ i1 = IF i < k THEN i ELSE i + 1
      BY <1>10
    <2>2. PICK j1 \in 1 .. m : w[j] = q[j1] /\ j1 = IF j < k THEN j ELSE j + 1
      BY <1>10
    <2>3. i1 = j1
      <3>1. q[i1] = q[j1]
        BY <2>1, <2>2
      <3> QED BY <1>1, <3>1
    <2> QED BY <1>9, <2>1, <2>2, <2>3
  <1>13. \A x \in 1 .. n : s.ref[x] = 0 => \E i \in 1 .. Len(w) : w[i] = x
    <2> SUFFICES ASSUME NEW x \in 1 .. n, s.ref[x] = 0
                 PROVE  \E i \in 1 .. m - 1 : w[i] = x
      BY <1>3
    <2>1. x # b /\ p.ref[x] = 0
      BY <1>8
    <2>2. PICK j \in 1 .. m : q[j] = x
      BY <1>1, <2>1
    <2>3. j # k
      BY <1>2, <2>1, <2>2
    <2>4. CASE j < k
      BY <1>9, <1>3, <2>2, <2>4
    <2>5. CASE j > k
      <3>1. j - 1 \in 1 .. m - 1 /\ ~(j - 1 < k) /\ (j - 1) + 1 = j
        BY <1>2, <1>1, <2>5
      <3> QED BY <1>3, <2>2, <3>1
    <2> QED BY <2>3, <2>4, <2>5, <1>1
  <1>14. s.num = Len(w)
    BY <1>1, <1>3, <1>7
  <1>15. s.head = IF Len(w) = 0 THEN NoBlock ELSE w[1]
    BY <1>2, <1>1, <1>3, <1>4, <1>7
  <1>16. s.tail = IF Len(w) = 0 THEN NoBlock ELSE w[Len(w)]
    BY <1>2, <1>1, <1>3, <1>4, <1>7
  <1>17. ASSUME NEW i \in 1 .. Len(w)
         PROVE  /\ s.next[w[i]] = IF i < Len(w) THEN w[i + 1] ELSE NoBlock
                /\ s.prev[w[i]] = IF i > 1 THEN w[i - 1] ELSE NoBlock
    <2>1. i \in 1 .. m - 1
      BY <1>3
    <2>2. PICK j \in 1 .. m : j # k /\ w[i] = q[j] /\ j = IF i < k THEN i ELSE i + 1
      BY <1>10, <2>1
    <2>3. q[j] # b /\ q[j] \in 1 .. n /\ q[j] # NoBlock
      BY <1>2, <1>1, <2>2 DEF NoBlock
    <2>4. q[j] = pr <=> j = k - 1
      <3>1. CASE k > 1
        <4>1. q[j] = q[k - 1] => j = k - 1
          BY <1>9, <1>1, <1>4, <3>1
        <4> QED BY <1>9, <1>4, <3>1, <4>1
      <3>2. CASE ~(k > 1)
        BY <1>9, <1>4, <2>2, <2>3, <3>2
      <3> QED BY <3>1, <3>2
    <2>5. q[j] = ne <=> j = k + 1
      <3>1. CASE k < m
        <4>1. q[j] = q[k + 1] => j = k + 1
          BY <1>9, <1>1, <1>4, <3>1
        <4> QED BY <1>9, <1>4, <3>1, <4>1
      <3>2. CASE ~(k < m)
        BY <1>9, <1>4, <2>2, <2>3, <3>2
      <3> QED BY <3>1, <3>2
    <2>6. /\ s.next[q[j]] = (IF q[j] = b THEN NoBlock ELSE IF q[j] = pr THEN ne ELSE p.next[q[j]])
          /\ s.prev[q[j]] = (IF q[j] = b THEN NoBlock ELSE IF q[j] = ne THEN pr ELSE p.prev[q[j]])
      BY <1>7, <2>3
    <2>7. s.next[w[i]] = IF j = k - 1 THEN ne ELSE IF j < m THEN q[j + 1] ELSE NoBlock
      BY <1>1, <2>4, <2>6, <2>2, <2>3
    <2>8. s.prev[w[i]] = IF j = k + 1 THEN pr ELSE IF j > 1 THEN q[j - 1] ELSE NoBlock
      BY <1>1, <2>5, <2>6, <2>2, <2>3
    <2>9. i < m - 1 => w[i + 1] = IF i + 1 < k THEN q[i + 1] ELSE q[i + 2]
      <3>1. i < m - 1 => i + 1 \in 1 .. m - 1 /\ (i + 1) + 1 = i + 2
        BY <2>1, <1>1
      <3> QED BY <1>3, <3>1
    <2>10. i > 1 => w[i - 1] = IF i - 1 < k THEN q[i - 1] ELSE q[i]
      <3>1. i > 1 => i - 1 \in 1 .. m - 1 /\ (i - 1) + 1 = i
        BY <2>1, <1>1
      <3> QED BY <1>3, <3>1
    <2>11. s.next[w[i]] = IF i < m - 1 THEN w[i + 1] ELSE NoBlock
      <3>1. CASE j = k - 1
        <4>1. i = k - 1 /\ k \in Int /\ ~(i + 1 < k) /\ i + 2 = k + 1
          BY <1>9, <2>1, <2>2, <3>1
        <4> QED BY <1>1, <1>4, <2>1, <2>7, <2>9, <3>1, <4>1
      <3>2. CASE j # k - 1 /\ i < k
        BY <1>2, <1>1, <2>1, <2>2, <2>7, <2>9, <3>2
      <3>3. CASE ~(i < k)
        <4>1. j = i + 1 /\ ~(i + 1 < k) /\ j + 1 = i + 2 /\ ((i < m - 1) <=> (j < m)) /\ j # k - 1
          BY <1>2, <2>1, <2>2, <3>3, <1>1
        <4> QED BY <2>7, <2>9, <4>1
      <3> QED BY <3>1, <3>2, <3>3, <2>2
    <2>12. s.prev[w[i]] = IF i > 1 THEN w[i - 1] ELSE NoBlock
      <3>1. CASE j = k + 1
        <4>1. i = k
          BY <1>2, <2>1, <2>2, <3>1, <1>1, SMTT(30)
        <4> QED BY <1>4, <2>1, <2>8, <2>10, <3>1, <4>1
      <3>2. CASE j # k + 1 /\ i < k
        <4>1. j = i /\ i - 1 < k
          BY <1>2, <2>1, <2>2, <3>2, <1>1
        <4> QED BY <2>8, <2>10, <3>2, <4>1
      <3>3. CASE j # k + 1 /\ ~(i < k)
        BY <1>2, <1>1, <2>1, <2>2, <2>8, <2>10, <3>3
      <3> QED BY <3>1, <3>2, <3>3, <2>2
    <2> QED BY <1>3, <2>11, <2>12
  <1>18. \A x \in 1 .. n : s.ref[x] # 0 => s.prev[x] = NoBlock
    <2> SUFFICES ASSUME NEW x \in 1 .. n, s.ref[x] # 0, x # b
                 PROVE  s.prev[x] = NoBlock
      BY <1>7
    <2>1. p.ref[x] # 0
      BY <1>8
    <2>2. p.prev[x] = NoBlock
      BY <1>1, <2>1
    <2>3. x # ne
      <3> SUFFICES ASSUME x = ne
                   PROVE  FALSE
        OBVIOUS
      <3>1. ne # NoBlock
        BY DEF NoBlock
      <3> QED BY <1>2, <1>1, <1>4, <2>1, <3>1
    <2> QED BY <1>7, <2>2, <2>3
  <1>19. Chain(s, w)
    <2>1. w \in Seq(1 .. n)
      BY <1>3
    <2>2. \A i \in 1 .. Len(w) : /\ s.next[w[i]] = IF i < Len(w) THEN w[i + 1] ELSE NoBlock
                                 /\ s.prev[w[i]] = IF i > 1 THEN w[i - 1] ELSE NoBlock
      BY <1>17
    <2>3. Linking(n, s, w)
      BY <2>1, <2>2, <1>11, <1>12, <1>13, <1>14, <1>15, <1>16, <1>18, Zenon DEF Linking
    <2> QED BY <2>3, ChainIntro
  <1> QED BY <1>19 DEF w

\* A block enters the queue.
LEMMA Appended ==
  ASSUME NEW n \in Nat, NEW p \in Pools(n), NEW q, NEW b \in 1 .. n, p.ref[b] # 0, Chain(p, q),
         NEW s \in Pools(n),
         s.ref = [p.ref EXCEPT ![b] = 0],
         s.num = append(p, b).num,
         s.head = append(p, b).head, s.tail = append(p, b).tail,
         s.next = append(p, b).next, s.prev = append(p, b).prev
  PROVE  Chain(s, Append(q, b))
  <1> DEFINE m == Len(q)
             w == Append(q, b)
  <1>1. /\ q \in Seq(1 .. n) /\ m \in Nat /\ DOMAIN q = 1 .. m
        /\ \A i \in 1 .. m : q[i] \in 1 .. n /\ p.ref[q[i]] = 0
        /\ \A i, j \in 1 .. m : q[i] = q[j] => i = j
        /\ \A x \in 1 .. n : p.ref[x] = 0 => \E i \in 1 .. m : q[i] = x
        /\ p.num = m
        /\ p.head = IF m = 0 THEN NoBlock ELSE q[1]
        /\ p.tail = IF m = 0 THEN NoBlock ELSE q[m]
        /\ \A i \in 1 .. m :
              /\ p.next[q[i]] = IF i < m THEN q[i + 1] ELSE NoBlock
              /\ p.prev[q[i]] = IF i > 1 THEN q[i - 1] ELSE NoBlock
        /\ \A x \in 1 .. n : p.ref[x] # 0 => p.prev[x] = NoBlock
    BY ChainFacts
  <1>2. /\ w \in Seq(1 .. n) /\ Len(w) = m + 1
        /\ \A i \in 1 .. m : w[i] = q[i]
        /\ w[m + 1] = b
    BY <1>1
  <1>3. \A i \in 1 .. m : q[i] # b /\ q[i] # NoBlock
    BY <1>1 DEF NoBlock
  <1>4. /\ s.num = p.num + 1
        /\ s.head = (IF p.tail # NoBlock THEN p.head ELSE b)
        /\ s.tail = b
        /\ \A x \in 1 .. n :
             /\ s.next[x] = (IF x = b THEN NoBlock ELSE IF x = p.tail THEN b ELSE p.next[x])
             /\ s.prev[x] = (IF x = b THEN IF p.tail # NoBlock THEN p.tail ELSE p.prev[x] ELSE p.prev[x])
    <2> DEFINE N == [x \in DOMAIN p.next |-> IF x = b THEN NoBlock ELSE IF x = p.tail THEN b ELSE p.next[x]]
               P == [p.prev EXCEPT ![b] = IF p.tail # NoBlock THEN p.tail ELSE p.prev[b]]
    <2>1. /\ s.next = N /\ s.prev = P
      BY DEF append, Pools
    <2>2. \A x \in 1 .. n :
             /\ N[x] = (IF x = b THEN NoBlock ELSE IF x = p.tail THEN b ELSE p.next[x])
             /\ P[x] = (IF x = b THEN IF p.tail # NoBlock THEN p.tail ELSE p.prev[x] ELSE p.prev[x])
      BY PoolFields
    <2> HIDE DEF N, P
    <2> QED BY <2>1, <2>2 DEF append, Pools
  <1>5. \A x \in 1 .. n : s.ref[x] = IF x = b THEN 0 ELSE p.ref[x]
    BY PoolFields
  <1>6. (p.tail = NoBlock <=> m = 0) /\ (m > 0 => p.tail = q[m] /\ m \in 1 .. m)
    BY <1>1, <1>3
  <1> HIDE DEF w, m
  <1>7. \A i \in 1 .. Len(w) : s.ref[w[i]] = 0
    <2> SUFFICES ASSUME NEW i \in 1 .. m + 1
                 PROVE  s.ref[w[i]] = 0
      BY <1>2
    <2>1. CASE i = m + 1
      BY <1>2, <1>5, <2>1
    <2>2. CASE i \in 1 .. m
      BY <1>1, <1>2, <1>3, <1>5, <2>2
    <2> QED BY <1>1, <2>1, <2>2
  <1>8. \A i, j \in 1 .. Len(w) : w[i] = w[j] => i = j
    <2> SUFFICES ASSUME NEW i \in 1 .. m + 1, NEW j \in 1 .. m + 1, w[i] = w[j]
                 PROVE  i = j
      BY <1>2
    <2>1. (i \in 1 .. m \/ i = m + 1) /\ (j \in 1 .. m \/ j = m + 1)
      BY <1>1
    <2> QED BY <1>1, <1>2, <1>3, <2>1
  <1>9. \A x \in 1 .. n : s.ref[x] = 0 => \E i \in 1 .. Len(w) : w[i] = x
    BY <1>1, <1>2, <1>5
  <1>10. s.num = Len(w) /\ Len(w) # 0
    BY <1>1, <1>2, <1>4
  <1>11. s.head = w[1]
    BY <1>1, <1>2, <1>4, <1>6
  <1>12. s.tail = w[Len(w)]
    BY <1>2, <1>4
  <1>13. ASSUME NEW i \in 1 .. Len(w)
         PROVE  /\ s.next[w[i]] = IF i < Len(w) THEN w[i + 1] ELSE NoBlock
                /\ s.prev[w[i]] = IF i > 1 THEN w[i - 1] ELSE NoBlock
    <2>1. i \in 1 .. m + 1
      BY <1>2
    <2>2. CASE i = m + 1
      BY <1>1, <1>2, <1>4, <1>6, <2>2
    <2>3. CASE i \in 1 .. m
      <3>1. w[i] = q[i] /\ q[i] \in 1 .. n /\ q[i] # b /\ i < Len(w)
        BY <1>1, <1>2, <1>3, <2>3
      <3>2. s.prev[q[i]] = IF i > 1 THEN q[i - 1] ELSE NoBlock
        <4>1. s.prev[q[i]] = p.prev[q[i]]
          BY <1>4, <3>1
        <4> QED BY <1>1, <2>3, <4>1
      <3>3. i > 1 => w[i - 1] = q[i - 1]
        BY <1>1, <1>2, <2>3
      <3>4. CASE i = m
        <4>1. s.next[q[i]] = b
          BY <1>4, <1>6, <2>3, <3>1, <3>4, <1>1
        <4>2. w[i + 1] = b
          BY <1>2, <3>4
        <4> QED BY <3>1, <3>2, <3>3, <4>1, <4>2
      <3>5. CASE i # m
        <4>1. i < m /\ i + 1 \in 1 .. m /\ m \in 1 .. m /\ m > 0
          BY <1>1, <2>3, <3>5
        <4>2. q[i] # p.tail
          BY <1>1, <1>6, <2>3, <4>1
        <4>3. s.next[q[i]] = q[i + 1]
          BY <1>1, <1>4, <2>3, <3>1, <4>1, <4>2
        <4> QED BY <1>2, <3>1, <3>2, <3>3, <4>1, <4>3
      <3> QED BY <3>4, <3>5
    <2> QED BY <1>1, <2>1, <2>2, <2>3
  <1>14. \A x \in 1 .. n : s.ref[x] # 0 => s.prev[x] = NoBlock
    BY <1>1, <1>4, <1>5
  <1>15. Chain(s, w)
    <2>1. w \in Seq(1 .. n)
      BY <1>2
    <2>2. /\ s.head = IF Len(w) = 0 THEN NoBlock ELSE w[1]
          /\ s.tail = IF Len(w) = 0 THEN NoBlock ELSE w[Len(w)]
      BY <1>10, <1>11, <1>12
    <2>3. Linking(n, s, w)
      BY <1>7, <1>8, <1>9, <1>10, <1>13, <1>14, <2>1, <2>2, Zenon DEF Linking
    <2> QED BY <2>3, ChainIntro
  <1> QED BY <1>15 DEF w

-----------------------------------------------------------------------------
(* The steps of the pool.                                                   *)

\* Blocks that stay free keep their order, and the others come after them.
Later(p, s) ==
  LET before == FreeList(p)
      after == FreeList(s)
  IN  \A i, j \in DOMAIN after : i < j =>
        \A l \in DOMAIN before : before[l] = after[j] =>
          \E k \in 1 .. l - 1 : before[k] = after[i]

\* The same, for the queues.
LEMMA LaterIntro ==
  ASSUME NEW n \in Nat, NEW p \in Pools(n), NEW s \in Pools(n), NEW q, NEW w,
         Chain(p, q), Chain(s, w),
         \A i, j \in 1 .. Len(w) : i < j =>
           \A l \in 1 .. Len(q) : q[l] = w[j] => \E k \in 1 .. l - 1 : q[k] = w[i]
  PROVE  Later(p, s) /\ Linked(s) /\ FreeList(p) = q /\ FreeList(s) = w
  <1>1. DOMAIN q = 1 .. Len(q) /\ DOMAIN w = 1 .. Len(w)
    BY ChainFacts
  <1> QED BY <1>1, WalkChain DEF Later, Linked

\* Two steps of the queue are one, if no block that stays was away in between.
LEMMA LaterTransitive ==
  ASSUME NEW n \in Nat, NEW p \in Pools(n), NEW s \in Pools(n), NEW t \in Pools(n),
         Linked(p), Linked(s), Linked(t), Later(p, s), Later(s, t),
         \A b \in 1 .. n : p.ref[b] = 0 /\ t.ref[b] = 0 => s.ref[b] = 0
  PROVE  Later(p, t)
  <1> DEFINE a == FreeList(p)
             b == FreeList(s)
             c == FreeList(t)
  <1>1. /\ DOMAIN a = 1 .. Len(a) /\ \A i \in 1 .. Len(a) : a[i] \in 1 .. n /\ p.ref[a[i]] = 0
    BY ChainFacts DEF Linked
  <1>2. /\ Len(b) \in Nat /\ DOMAIN b = 1 .. Len(b)
        /\ \A x \in 1 .. n : s.ref[x] = 0 => \E i \in 1 .. Len(b) : b[i] = x
    BY ChainFacts DEF Linked
  <1>3. /\ DOMAIN c = 1 .. Len(c) /\ \A i \in 1 .. Len(c) : c[i] \in 1 .. n /\ t.ref[c[i]] = 0
    BY ChainFacts DEF Linked
  <1>4. \A i, j \in DOMAIN b : i < j =>
          \A l \in DOMAIN a : a[l] = b[j] => \E k \in 1 .. l - 1 : a[k] = b[i]
    BY DEF Later
  <1>5. \A i, j \in DOMAIN c : i < j =>
          \A l \in DOMAIN b : b[l] = c[j] => \E k \in 1 .. l - 1 : b[k] = c[i]
    BY DEF Later
  <1> SUFFICES ASSUME NEW i \in DOMAIN c, NEW j \in DOMAIN c, i < j,
                      NEW l \in DOMAIN a, a[l] = c[j]
               PROVE  \E k \in 1 .. l - 1 : a[k] = c[i]
    BY DEF Later
  <1> HIDE DEF a, b, c
  <1>6. s.ref[c[j]] = 0 /\ c[j] \in 1 .. n
    BY <1>1, <1>3
  <1>7. PICK m \in DOMAIN b : b[m] = c[j]
    BY <1>2, <1>6
  <1>8. PICK k \in 1 .. m - 1 : b[k] = c[i]
    BY <1>5, <1>7
  <1> QED BY <1>2, <1>4, <1>7, <1>8

\* Nothing changes for the queue.
LEMMA SameChain ==
  ASSUME NEW n \in Nat, NEW p \in Pools(n), NEW s \in Pools(n), Linked(p),
         s.num = p.num, s.head = p.head, s.tail = p.tail, s.next = p.next, s.prev = p.prev,
         \A b \in 1 .. n : s.ref[b] = 0 <=> p.ref[b] = 0
  PROVE  Linked(s) /\ Later(p, s) /\ FreeList(s) = FreeList(p)
  <1> DEFINE q == FreeList(p)
  <1>1. Chain(p, q)
    BY DEF Linked
  <1> HIDE DEF q
  <1>2. Chain(s, q)
    BY <1>1, PoolFields DEF Chain
  <1>3. Len(q) \in Nat /\ \A i, j \in 1 .. Len(q) : q[i] = q[j] => i = j
    BY <1>1, ChainFacts
  <1>4. ASSUME NEW i \in 1 .. Len(q), NEW j \in 1 .. Len(q), i < j, NEW l \in 1 .. Len(q), q[l] = q[j]
        PROVE  \E k \in 1 .. l - 1 : q[k] = q[i]
    BY <1>3, <1>4
  <1> QED BY <1>1, <1>2, <1>4, LaterIntro, ZenonT(40)

\* A block that leaves the queue.
LEMMA UnlinkedLater ==
  ASSUME NEW n \in Nat, NEW p \in Pools(n), Linked(p), NEW b \in 1 .. n, p.ref[b] = 0,
         NEW s \in Pools(n),
         s.ref = [p.ref EXCEPT ![b] = 1],
         s.num = remove(p, b).num,
         s.head = remove(p, b).head, s.tail = remove(p, b).tail,
         s.next = remove(p, b).next, s.prev = remove(p, b).prev
  PROVE  Linked(s) /\ Later(p, s)
  <1> DEFINE q == FreeList(p)
  <1>1. Chain(p, q)
    BY DEF Linked
  <1> HIDE DEF q
  <1>2. /\ q \in Seq(1 .. n) /\ Len(q) \in Nat
        /\ \A i, j \in 1 .. Len(q) : q[i] = q[j] => i = j
        /\ \A x \in 1 .. n : p.ref[x] = 0 => \E i \in 1 .. Len(q) : q[i] = x
    BY <1>1, ChainFacts
  <1>3. PICK k \in 1 .. Len(q) : q[k] = b
    BY <1>2
  <1> DEFINE w == Without(q, k)
  <1>4. Chain(s, w)
    BY <1>1, <1>3, Unlinked
  <1>5. Len(w) = Len(q) - 1 /\ \A i \in 1 .. Len(q) - 1 : w[i] = IF i < k THEN q[i] ELSE q[i + 1]
    BY <1>2, <1>3, WithoutFacts
  <1> HIDE DEF w
  <1>6. ASSUME NEW i \in 1 .. Len(w), NEW j \in 1 .. Len(w), i < j, NEW l \in 1 .. Len(q), q[l] = w[j]
        PROVE  \E m \in 1 .. l - 1 : q[m] = w[i]
    <2> DEFINE i1 == IF i < k THEN i ELSE i + 1
               j1 == IF j < k THEN j ELSE j + 1
    <2>1. i1 \in 1 .. Len(q) /\ j1 \in 1 .. Len(q) /\ i1 < j1
      <3> DEFINE m == Len(q)
      <3>1. m \in Nat /\ Len(w) = m - 1
        BY <1>2, <1>5
      <3> HIDE DEF m
      <3>2. i \in Int /\ j \in Int /\ k \in Int /\ 1 <= i /\ i < j /\ j <= m - 1 /\ 1 <= k /\ k <= m
        BY <1>6, <3>1 DEF m
      <3> QED BY <3>1, <3>2 DEF m
    <2>2. w[i] = q[i1] /\ w[j] = q[j1]
      BY <1>5
    <2> HIDE DEF i1, j1
    <2>3. l = j1
      BY <1>2, <1>6, <2>1, <2>2
    <2>4. i1 \in 1 .. l - 1
      BY <2>1, <2>3, <1>2
    <2> QED BY <2>2, <2>4
  <1> QED BY <1>1, <1>4, <1>6, LaterIntro, Zenon

\* A block that enters the queue.
LEMMA AppendedLater ==
  ASSUME NEW n \in Nat, NEW p \in Pools(n), NEW b \in 1 .. n, p.ref[b] # 0, Linked(p),
         NEW s \in Pools(n),
         s.ref = [p.ref EXCEPT ![b] = 0],
         s.num = append(p, b).num,
         s.head = append(p, b).head, s.tail = append(p, b).tail,
         s.next = append(p, b).next, s.prev = append(p, b).prev
  PROVE  Linked(s) /\ Later(p, s)
  <1> DEFINE q == FreeList(p)
             w == Append(q, b)
  <1>1. Chain(p, q)
    BY DEF Linked
  <1> HIDE DEF q
  <1>2. /\ q \in Seq(1 .. n) /\ Len(q) \in Nat
        /\ \A i, j \in 1 .. Len(q) : q[i] = q[j] => i = j
        /\ \A i \in 1 .. Len(q) : p.ref[q[i]] = 0
    BY <1>1, ChainFacts
  <1>3. Chain(s, w)
    BY <1>1, Appended
  <1>4. Len(w) = Len(q) + 1 /\ w[Len(q) + 1] = b /\ \A i \in 1 .. Len(q) : w[i] = q[i]
    BY <1>2
  <1> HIDE DEF w
  <1>5. ASSUME NEW i \in 1 .. Len(w), NEW j \in 1 .. Len(w), i < j, NEW l \in 1 .. Len(q), q[l] = w[j]
        PROVE  \E m \in 1 .. l - 1 : q[m] = w[i]
    <2>1. j # Len(q) + 1
      BY <1>2, <1>4, <1>5
    <2>2. j \in 1 .. Len(q) /\ i \in 1 .. Len(q)
      BY <1>2, <1>4, <1>5, <2>1
    <2>3. i \in 1 .. l - 1 /\ w[i] = q[i]
      BY <1>2, <1>4, <1>5, <2>2
    <2> QED BY <2>3
  <1> QED BY <1>1, <1>3, <1>5, LaterIntro, Zenon

\* The fields of a pool after remove.
LEMMA RemoveFields ==
  ASSUME NEW n \in Nat, NEW p \in Pools(n), NEW b \in 1 .. n, p.num > 0
  PROVE  LET s == remove(p, b) IN
         /\ s \in Pools(n) /\ s.num = p.num - 1
         /\ s.ref = p.ref /\ s.hash = p.hash /\ s.cached = p.cached /\ s.ok = p.ok
  <1> DEFINE s == remove(p, b)
             pr == p.prev[b]
             ne == p.next[b]
             N == [x \in DOMAIN p.next |-> IF x = b THEN NoBlock ELSE IF x = pr THEN ne ELSE p.next[x]]
             P == [x \in DOMAIN p.prev |-> IF x = b THEN NoBlock ELSE IF x = ne THEN pr ELSE p.prev[x]]
             H == IF p.head = b THEN ne ELSE p.head
             T == IF p.tail = b THEN pr ELSE p.tail
  <1>1. /\ p.ref \in [1 .. n -> Nat] /\ p.head \in 0 .. n /\ p.tail \in 0 .. n /\ p.num \in Nat
        /\ p.prev \in [1 .. n -> 0 .. n] /\ p.next \in [1 .. n -> 0 .. n]
        /\ p.hash \in [1 .. n -> Words] /\ p.cached \in Caches(n) /\ p.ok \in BOOLEAN
    BY PoolFields
  <1>2. s = [p EXCEPT !.next = N, !.prev = P, !.head = H, !.tail = T, !.num = p.num - 1]
    BY DEF remove
  <1>3. /\ N \in [1 .. n -> 0 .. n] /\ P \in [1 .. n -> 0 .. n]
        /\ H \in 0 .. n /\ T \in 0 .. n /\ p.num - 1 \in Nat
    <2>1. 0 \in 0 .. n /\ pr \in 0 .. n /\ ne \in 0 .. n
      BY <1>1, SMTT(30)
    <2>2. p.num - 1 \in Nat
      BY <1>1, SMTT(30)
    <2>3. N \in [1 .. n -> 0 .. n]
      BY <1>1, <2>1 DEF NoBlock
    <2>4. P \in [1 .. n -> 0 .. n]
      BY <1>1, <2>1 DEF NoBlock
    <2> QED BY <1>1, <2>1, <2>2, <2>3, <2>4
  <1> HIDE DEF N, P, H, T
  <1> HIDE DEF s
  <1>4. s \in Pools(n)
    BY <1>1, <1>2, <1>3 DEF Pools
  <1> QED BY <1>2, <1>4 DEF s, Pools

\* Hit: the block has one user more, and is not free.
LEMMA HitFacts ==
  ASSUME NEW n \in Nat, NEW p \in Pools(n), Linked(p), NEW b \in 1 .. n
  PROVE  LET s == Hit(p, b) IN
         /\ s \in Pools(n) /\ Linked(s) /\ Later(p, s)
         /\ s.ref = [p.ref EXCEPT ![b] = @ + 1]
         /\ s.hash = p.hash /\ s.cached = p.cached /\ s.ok = p.ok
         /\ p.ref[b] = 0 => s.num = p.num - 1
         /\ p.ref[b] # 0 => s.num = p.num
  <1> DEFINE s == Hit(p, b)
             u == IF p.ref[b] = 0 THEN remove(p, b) ELSE p
             R == [p.ref EXCEPT ![b] = p.ref[b] + 1]
  <1>1. p.ref[b] = 0 => p.num > 0
    BY ChainFacts DEF Linked
  <1>2. /\ u \in Pools(n) /\ u.num = (IF p.ref[b] = 0 THEN p.num - 1 ELSE p.num)
        /\ u.ref = p.ref /\ u.hash = p.hash /\ u.cached = p.cached /\ u.ok = p.ok
    BY <1>1, RemoveFields
  <1>3. s = [u EXCEPT !.ref = R]
    BY <1>2 DEF Hit, Pools
  <1>4. u = IF p.ref[b] = 0 THEN remove(p, b) ELSE p
    OBVIOUS
  <1> HIDE DEF u, s
  <1>5. R \in [1 .. n -> Nat]
    BY PoolFields
  <1>6. s \in Pools(n)
    BY <1>2, <1>3, <1>5 DEF Pools
  <1>7. /\ s.ref = R /\ s.hash = p.hash /\ s.cached = p.cached /\ s.ok = p.ok
        /\ s.num = (IF p.ref[b] = 0 THEN p.num - 1 ELSE p.num)
        /\ s.num = u.num /\ s.head = u.head /\ s.tail = u.tail /\ s.next = u.next /\ s.prev = u.prev
    BY <1>2, <1>3 DEF Pools
  <1>8. CASE p.ref[b] = 0
    BY <1>4, <1>6, <1>7, <1>8, UnlinkedLater DEF s
  <1>9. CASE p.ref[b] # 0
    <2>1. \A x \in 1 .. n : s.ref[x] = 0 <=> p.ref[x] = 0
      BY <1>7, <1>9, PoolFields
    <2>2. u = p
      BY <1>4, <1>9
    <2>3. Linked(s) /\ Later(p, s)
      BY <1>6, <1>7, <2>1, <2>2, SameChain, Zenon
    <2> QED BY <1>6, <1>7, <2>3 DEF s
  <1> QED BY <1>8, <1>9

\* Drop: the block has one user less, and is at the end of the queue if that was the last.
LEMMA DropFacts ==
  ASSUME NEW n \in Nat, NEW p \in Pools(n), Linked(p), NEW b \in 1 .. n, p.ref[b] > 0
  PROVE  LET s == Drop(p, b) IN
         /\ s \in Pools(n) /\ Linked(s) /\ Later(p, s)
         /\ s.ref = [p.ref EXCEPT ![b] = @ - 1]
         /\ s.hash = p.hash /\ s.cached = p.cached /\ s.ok = p.ok
  <1> DEFINE s == Drop(p, b)
             R == [p.ref EXCEPT ![b] = p.ref[b] - 1]
             d == [p EXCEPT !.ref = R]
  <1>1. /\ p.ref \in [1 .. n -> Nat] /\ p.head \in 0 .. n /\ p.tail \in 0 .. n /\ p.num \in Nat
        /\ p.prev \in [1 .. n -> 0 .. n] /\ p.next \in [1 .. n -> 0 .. n]
        /\ p.hash \in [1 .. n -> Words] /\ p.cached \in Caches(n) /\ p.ok \in BOOLEAN
    BY PoolFields
  <1>2. R \in [1 .. n -> Nat] /\ R[b] = p.ref[b] - 1
        /\ \A x \in 1 .. n : R[x] = IF x = b THEN p.ref[b] - 1 ELSE p.ref[x]
    BY <1>1, SMTT(20)
  <1>3. s = IF d.ref[b] = 0 THEN append(d, b) ELSE d
    BY DEF Drop
  <1> HIDE DEF R, s
  <1>4. d = [ref |-> R, hash |-> p.hash, cached |-> p.cached, head |-> p.head, tail |-> p.tail,
             num |-> p.num, prev |-> p.prev, next |-> p.next, ok |-> p.ok]
    <2>1. p = [ref |-> p.ref, hash |-> p.hash, cached |-> p.cached, head |-> p.head, tail |-> p.tail,
             num |-> p.num, prev |-> p.prev, next |-> p.next, ok |-> p.ok]
      BY DEF Pools
    <2> QED BY <2>1
  <1> HIDE DEF d
  <1>5. d \in Pools(n)
    BY <1>1, <1>2, <1>4 DEF Pools
  <1>6. d.ref = R
    BY <1>4
  <1>7. CASE R[b] # 0
    <2>1. s = d
      BY <1>3, <1>6, <1>7
    <2>2. \A x \in 1 .. n : s.ref[x] = 0 <=> p.ref[x] = 0
      <3>1. p.ref[b] \in Nat
        BY <1>1
      <3>2. s.ref = R
        BY <1>6, <2>1
      <3> QED BY <1>2, <1>7, <3>1, <3>2
    <2>3. s \in Pools(n)
      BY <1>5, <2>1
    <2>4. Linked(s) /\ Later(p, s)
      BY <1>4, <2>1, <2>2, <2>3, SameChain, Zenon
    <2> QED BY <1>4, <2>1, <2>3, <2>4 DEF s, R
  <1>8. CASE R[b] = 0
    <2> DEFINE N == [x \in DOMAIN p.next |-> IF x = b THEN NoBlock ELSE IF x = p.tail THEN b ELSE p.next[x]]
               P == [p.prev EXCEPT ![b] = IF p.tail # NoBlock THEN p.tail ELSE p.prev[b]]
               H == IF p.tail # NoBlock THEN p.head ELSE b
               O == p.ok /\ (p.tail = NoBlock => p.head = NoBlock)
    <2>1. s = append(d, b)
      BY <1>3, <1>6, <1>8
    <2>2. /\ N \in [1 .. n -> 0 .. n] /\ P \in [1 .. n -> 0 .. n] /\ H \in 0 .. n
          /\ b \in 0 .. n /\ p.num + 1 \in Nat
      <3>1. N \in [1 .. n -> 0 .. n]
        BY <1>1 DEF NoBlock
      <3>2. P \in [1 .. n -> 0 .. n]
        BY <1>1
      <3>3. H \in 0 .. n /\ p.num + 1 \in Nat
        BY <1>1 DEF NoBlock
      <3> HIDE DEF N, P, H
      <3> QED BY <3>1, <3>2, <3>3 DEF NoBlock
    <2>3. O = p.ok
      <3>1. Chain(p, FreeList(p))
        BY DEF Linked
      <3>2. /\ Len(FreeList(p)) \in Nat
            /\ \A i \in 1 .. Len(FreeList(p)) : FreeList(p)[i] \in 1 .. n
            /\ p.head = IF Len(FreeList(p)) = 0 THEN NoBlock ELSE FreeList(p)[1]
            /\ p.tail = IF Len(FreeList(p)) = 0 THEN NoBlock ELSE FreeList(p)[Len(FreeList(p))]
        BY <3>1, ChainFacts
      <3>3. p.tail = NoBlock => p.head = NoBlock
        BY <3>2 DEF NoBlock
      <3> QED BY <1>1, <3>3
    <2>4. s = [d EXCEPT !.next = N, !.prev = P, !.head = H, !.tail = b, !.num = p.num + 1, !.ok = O]
      <3>1. s = [d EXCEPT
         !.next = [x \in DOMAIN d.next |->
                     IF x = b THEN NoBlock ELSE IF x = d.tail THEN b ELSE d.next[x]],
         !.prev = [d.prev EXCEPT ![b] = IF d.tail # NoBlock THEN d.tail ELSE d.prev[b]],
         !.head = IF d.tail # NoBlock THEN d.head ELSE b,
         !.tail = b,
         !.num = d.num + 1,
         !.ok = d.ok /\ (d.tail = NoBlock => d.head = NoBlock)]
        BY <2>1, <1>5 DEF append, Pools
      <3> QED BY <1>4, <3>1
    <2>5. s = [ref |-> R, hash |-> p.hash, cached |-> p.cached, head |-> H, tail |-> b,
               num |-> p.num + 1, prev |-> P, next |-> N, ok |-> p.ok]
      BY <1>4, <2>3, <2>4
    <2>6. s \in Pools(n)
      BY <1>1, <1>2, <2>2, <2>5 DEF Pools
    <2>7. s.ref = [p.ref EXCEPT ![b] = 0]
      BY <1>2, <1>8, <2>5 DEF R
    <2>8. /\ s.num = append(p, b).num
          /\ s.head = append(p, b).head /\ s.tail = append(p, b).tail
          /\ s.next = append(p, b).next /\ s.prev = append(p, b).prev
      BY <2>5 DEF append, Pools
    <2>9. p.ref[b] # 0
      OBVIOUS
    <2>10. Linked(s) /\ Later(p, s)
      BY <2>6, <2>7, <2>8, <2>9, AppendedLater, Zenon
    <2> QED BY <2>5, <2>6, <2>10 DEF s, R
  <1> QED BY <1>7, <1>8

\* The values of a cache.
LEMMA CachesFacts ==
  ASSUME NEW n \in Nat, NEW c
  PROVE  c \in Caches(n) <=> /\ DOMAIN c \subseteq Words
                             /\ c = [h \in DOMAIN c |-> c[h]]
                             /\ \A h \in DOMAIN c : c[h] \in Seq(1 .. n)
  <1>1. ASSUME c \in Caches(n)
        PROVE  /\ DOMAIN c \subseteq Words
               /\ c = [h \in DOMAIN c |-> c[h]]
               /\ \A h \in DOMAIN c : c[h] \in Seq(1 .. n)
    BY <1>1 DEF Caches
  <1>2. ASSUME DOMAIN c \subseteq Words, c = [h \in DOMAIN c |-> c[h]],
               \A h \in DOMAIN c : c[h] \in Seq(1 .. n)
        PROVE  c \in Caches(n)
    BY <1>2 DEF Caches
  <1> QED BY <1>1, <1>2

\* A pool with other hashes and another cache.
Rehash(p, H, C, O) == [p EXCEPT !.hash = H, !.cached = C, !.ok = O]
LEMMA Rehashed ==
  ASSUME NEW n \in Nat, NEW p \in Pools(n), NEW H \in [1 .. n -> Words], NEW C \in Caches(n),
         NEW O \in BOOLEAN
  PROVE  LET s == Rehash(p, H, C, O) IN
         /\ s \in Pools(n)
         /\ s.hash = H /\ s.cached = C /\ s.ok = O /\ s.ref = p.ref /\ s.num = p.num
         /\ s.head = p.head /\ s.tail = p.tail /\ s.next = p.next /\ s.prev = p.prev
  <1> DEFINE s == Rehash(p, H, C, O)
  <1>1. s = Rehash(p, H, C, O)
    OBVIOUS
  <1> HIDE DEF s
  <1>2. s \in Pools(n)
    BY <1>1, PoolFields DEF Pools, Rehash
  <1> QED BY <1>1, <1>2 DEF s, Pools, Rehash

\* What Filed says depends on the hashes and on the cache.
LEMMA SameFiled ==
  ASSUME NEW p, NEW s, Filed(p), s.hash = p.hash, s.cached = p.cached
  PROVE  Filed(s)
  BY Zenon DEF Filed

\* A block without its hash is not in the cache.
LEMMA EvictFacts ==
  ASSUME NEW n \in Nat, NEW p \in Pools(n), Filed(p), NEW b \in 1 .. n
  PROVE  LET s == _maybe_evict_cached_block(p, b) IN
         /\ s \in Pools(n) /\ Filed(s) /\ s.hash = [p.hash EXCEPT ![b] = NoHash]
         /\ s.ok = p.ok /\ s.ref = p.ref /\ s.num = p.num
         /\ s.head = p.head /\ s.tail = p.tail /\ s.next = p.next /\ s.prev = p.prev
  <1> DEFINE s == _maybe_evict_cached_block(p, b)
             h == p.hash[b]
             T == ToSet(p.cached[h]) \ {b}
             rest == Keep(p.cached[h], T)
             keys == IF rest = <<>> THEN DOMAIN p.cached \ {h} ELSE DOMAIN p.cached
             C == [k \in keys |-> IF k = h THEN rest ELSE p.cached[k]]
             H == [p.hash EXCEPT ![b] = NoHash]
  <1>1. /\ p.hash \in [1 .. n -> Words] /\ p.cached \in Caches(n) /\ p.ok \in BOOLEAN
        /\ DOMAIN p.hash = 1 .. n
    BY PoolFields
  <1>2. /\ DOMAIN p.cached \subseteq Words /\ \A k \in DOMAIN p.cached : p.cached[k] \in Seq(1 .. n)
    BY <1>1, CachesFacts
  <1>3. /\ NoHash \notin DOMAIN p.cached
        /\ \A k \in DOMAIN p.cached :
             p.cached[k] # <<>> /\ Lists(p.cached[k], {x \in 1 .. n : p.hash[x] = k})
        /\ \A x \in 1 .. n : p.hash[x] # NoHash => p.hash[x] \in DOMAIN p.cached
    BY <1>1 DEF Filed
  <1>4. s = IF h \notin DOMAIN p.cached THEN p ELSE [p EXCEPT !.hash[b] = NoHash, !.cached = C]
    BY DEF _maybe_evict_cached_block
  <1>5. CASE h \notin DOMAIN p.cached
    BY <1>1, <1>3, <1>4, <1>5 DEF s
  <1>6. CASE h \in DOMAIN p.cached
    <2> DEFINE A == {x \in 1 .. n : p.hash[x] = h}
    <2>1. Lists(p.cached[h], A) /\ b \in A
      BY <1>3, <1>6
    <2>2. ToSet(p.cached[h]) = A
      BY <2>1, ListsFacts
    <2>3. A \cap T = A \ {b}
      BY <2>2
    <2> HIDE DEF A, T
    <2>4. Lists(rest, A \ {b}) /\ ToSet(rest) = A \ {b}
      <3>1. Lists(rest, A \cap T) /\ ToSet(rest) = A \cap T
        BY <2>1, ListsKeep, Zenon
      <3> HIDE DEF rest
      <3> QED BY <2>3, <3>1
    <2> HIDE DEF rest
    <2>5. rest \in Seq(A \ {b})
      BY <2>4 DEF Lists
    <2>6. A \subseteq 1 .. n
      BY DEF A
    <2>7. rest \in Seq(1 .. n)
      <3>1. Len(rest) \in Nat /\ rest \in [1 .. Len(rest) -> A \ {b}]
        BY <2>5
      <3>2. rest \in [1 .. Len(rest) -> 1 .. n]
        BY <2>6, <3>1
      <3> QED BY <3>1, <3>2
    <2>8. DOMAIN C = keys /\ keys \subseteq DOMAIN p.cached /\ h # NoHash
      BY <1>3, <1>6
    <2>9. \A k \in keys : C[k] \in Seq(1 .. n)
      BY <1>2, <2>7, <2>8
    <2>10. C \in Caches(n)
      <3>1. C = [k \in DOMAIN C |-> C[k]] /\ DOMAIN C \subseteq Words
        BY <1>2, <2>8
      <3> HIDE DEF C, keys
      <3> QED BY <3>1, <2>8, <2>9, CachesFacts
    <2>11. H \in [1 .. n -> Words]
      BY <1>1 DEF NoHash, Words
    <2>12. s = Rehash(p, H, C, p.ok)
      BY <1>4, <1>6 DEF Pools, Rehash
    <2> HIDE DEF C, H, s
    <2>13. /\ s \in Pools(n)
           /\ s.hash = H /\ s.cached = C /\ s.ok = p.ok /\ s.ref = p.ref /\ s.num = p.num
           /\ s.head = p.head /\ s.tail = p.tail /\ s.next = p.next /\ s.prev = p.prev
      BY <1>1, <2>10, <2>11, <2>12, Rehashed
    <2>14. DOMAIN H = 1 .. n
      BY <2>11
    <2>15. ASSUME NEW k \in DOMAIN C
           PROVE  C[k] # <<>> /\ Lists(C[k], {x \in DOMAIN H : H[x] = k})
      <3>1. k \in keys /\ k # NoHash
        BY <1>3, <2>8
      <3>2. CASE k = h
        BY <1>1, <2>4, <2>14, <3>1, <3>2 DEF C, A, H
      <3>3. CASE k # h
        BY <1>1, <1>3, <2>8, <2>14, <3>1, <3>3 DEF C, H
      <3> QED BY <3>2, <3>3
    <2>16. ASSUME NEW x \in DOMAIN H, H[x] # NoHash
           PROVE  H[x] \in DOMAIN C
      BY <1>1, <1>3, <2>4, <2>8, <2>14, <2>16, ListsEmpty DEF A, H
    <2>17. Filed(s)
      BY <1>3, <2>8, <2>13, <2>15, <2>16 DEF Filed
    <2> QED BY <2>13, <2>17 DEF s, H
  <1> QED BY <1>5, <1>6

\* Take: the block at the head of the queue has one user and no hash.
Taken(n, p, w, took) ==
  LET s == took.pool
      b == p.head
  IN  /\ b \in 1 .. n /\ p.ref[b] = 0 /\ took.blocks = Append(w, b)
      /\ s \in Pools(n) /\ Linked(s) /\ Later(p, s) /\ Filed(s)
      /\ s.ref = [p.ref EXCEPT ![b] = 1] /\ s.hash = [p.hash EXCEPT ![b] = NoHash]
      /\ s.num = p.num - 1 /\ s.ok = p.ok

LEMMA TakeFacts ==
  ASSUME NEW n \in Nat, NEW acc, NEW p \in Pools(n), acc.pool = p, Linked(p), Filed(p), p.num > 0
  PROVE  Taken(n, p, acc.blocks, Take(acc))
  <1> DEFINE s == Take(acc).pool
             b == p.head
             u == remove(p, b)
             e == _maybe_evict_cached_block(u, b)
  <1>1. /\ p.ref \in [1 .. n -> Nat] /\ p.num \in Nat /\ p.ok \in BOOLEAN
    BY PoolFields
  <1>2. b \in 1 .. n /\ p.ref[b] = 0
    BY <1>1, ChainFacts DEF Linked
  <1> HIDE DEF b
  <1>3. /\ u \in Pools(n) /\ u.num = p.num - 1
        /\ u.ref = p.ref /\ u.hash = p.hash /\ u.cached = p.cached /\ u.ok = p.ok
    BY <1>2, RemoveFields
  <1>4. Filed(u)
    BY <1>3, SameFiled
  <1> HIDE DEF u
  <1>5. /\ e \in Pools(n) /\ Filed(e) /\ e.hash = [u.hash EXCEPT ![b] = NoHash]
        /\ e.ok = u.ok /\ e.ref = u.ref /\ e.num = u.num
        /\ e.head = u.head /\ e.tail = u.tail /\ e.next = u.next /\ e.prev = u.prev
    BY <1>2, <1>3, <1>4, EvictFacts
  <1>6. Take(acc) = [pool |-> [e EXCEPT !.ok = @ /\ e.ref[b] = 0, !.ref[b] = @ + 1],
                     blocks |-> Append(acc.blocks, b)]
    BY DEF Take, u, b
  <1> HIDE DEF e
  <1> DEFINE R == [p.ref EXCEPT ![b] = 1]
  <1>7. s = [e EXCEPT !.ok = p.ok, !.ref = R]
    <2>1. s = [e EXCEPT !.ok = @ /\ e.ref[b] = 0, !.ref[b] = @ + 1]
      BY <1>6
    <2>2. (e.ok /\ e.ref[b] = 0) = p.ok
      BY <1>1, <1>2, <1>3, <1>5
    <2>3. [e.ref EXCEPT ![b] = e.ref[b] + 1] = R
      BY <1>2, <1>3, <1>5
    <2> HIDE DEF s, R
    <2> QED BY <1>5, <2>1, <2>2, <2>3 DEF Pools
  <1>8. R \in [1 .. n -> Nat]
    BY <1>1
  <1> HIDE DEF R, s
  <1>9. s = [ref |-> R, hash |-> e.hash, cached |-> e.cached, head |-> e.head, tail |-> e.tail,
             num |-> e.num, prev |-> e.prev, next |-> e.next, ok |-> p.ok]
    BY <1>5, <1>7 DEF Pools
  <1>10. s \in Pools(n)
    BY <1>1, <1>5, <1>8, <1>9 DEF Pools
  <1>11. Filed(s)
    BY <1>5, <1>9, SameFiled
  <1>12. Linked(s) /\ Later(p, s)
    BY <1>2, <1>5, <1>9, <1>10, UnlinkedLater DEF R, u
  <1>13. Take(acc).blocks = Append(acc.blocks, b)
    BY <1>6
  <1> QED BY <1>2, <1>3, <1>5, <1>9, <1>10, <1>11, <1>12, <1>13 DEF R, s, b, Taken

\* File: the block has this hash, and had none.
LEMMA FileFacts ==
  ASSUME NEW n \in Nat, NEW p \in Pools(n), NEW b \in 1 .. n, NEW h \in Words,
         NEW len \in Nat \ {0}
  PROVE  LET s == File(p, b, h, len) IN
         /\ s \in Pools(n)
         /\ s.ok <=> p.ok /\ p.hash[b] = NoHash /\ Len(h) = len
         /\ s.hash = [p.hash EXCEPT ![b] = h] /\ s.ref = p.ref /\ s.num = p.num
         /\ Linked(p) /\ Filed(p) /\ s.ok => Linked(s) /\ Later(p, s) /\ Filed(s)
  <1> DEFINE s == File(p, b, h, len)
             O == p.ok /\ p.hash[b] = NoHash /\ Len(h) = len
             C == [k \in DOMAIN p.cached \cup {h} |->
                   IF k # h THEN p.cached[k]
                   ELSE IF h \in DOMAIN p.cached THEN Append(p.cached[h], b) ELSE <<b>>]
             H == [p.hash EXCEPT ![b] = h]
  <1>1. /\ p.hash \in [1 .. n -> Words] /\ p.cached \in Caches(n) /\ p.ok \in BOOLEAN
        /\ DOMAIN p.hash = 1 .. n
    BY PoolFields
  <1>2. /\ DOMAIN p.cached \subseteq Words /\ \A k \in DOMAIN p.cached : p.cached[k] \in Seq(1 .. n)
    BY <1>1, CachesFacts
  <1>3. s = Rehash(p, H, C, O)
    BY DEF File, Rehash, Pools
  <1>4. H \in [1 .. n -> Words] /\ O \in BOOLEAN
    BY <1>1
  <1>5. C \in Caches(n)
    <2>1. DOMAIN C = DOMAIN p.cached \cup {h} /\ C = [k \in DOMAIN C |-> C[k]]
      OBVIOUS
    <2>2. ASSUME NEW k \in DOMAIN p.cached \cup {h}
          PROVE  C[k] \in Seq(1 .. n)
      <3>1. CASE k # h
        BY <1>2, <3>1
      <3>2. CASE k = h /\ h \in DOMAIN p.cached
        BY <1>2, <3>2
      <3>3. CASE k = h /\ h \notin DOMAIN p.cached
        BY <3>3
      <3> QED BY <3>1, <3>2, <3>3
    <2> HIDE DEF C
    <2> QED BY <1>2, <2>1, <2>2, CachesFacts
  <1> HIDE DEF C, H, s
  <1>6. /\ s \in Pools(n)
        /\ s.hash = H /\ s.cached = C /\ s.ok = O /\ s.ref = p.ref /\ s.num = p.num
        /\ s.head = p.head /\ s.tail = p.tail /\ s.next = p.next /\ s.prev = p.prev
    <2> HIDE DEF O
    <2> QED BY <1>3, <1>4, <1>5, Rehashed
  <1>7. s.ok <=> O
    BY <1>6
  <1>8. SUFFICES ASSUME Linked(p), Filed(p), O
                 PROVE  Linked(s) /\ Later(p, s) /\ Filed(s)
    BY <1>6, <1>7 DEF s, H
  <1>9. /\ NoHash \notin DOMAIN p.cached
        /\ \A k \in DOMAIN p.cached :
             p.cached[k] # <<>> /\ Lists(p.cached[k], {x \in 1 .. n : p.hash[x] = k})
        /\ \A x \in 1 .. n : p.hash[x] # NoHash => p.hash[x] \in DOMAIN p.cached
    BY <1>1, <1>8 DEF Filed
  <1>10. O
    BY <1>8
  <1>11. \A x \in 1 .. n : H[x] = IF x = b THEN h ELSE p.hash[x]
    BY <1>1 DEF H
  <1>12. h # NoHash
    BY <1>10 DEF NoHash
  <1>13. DOMAIN H = 1 .. n /\ DOMAIN C = DOMAIN p.cached \cup {h} /\ NoHash \notin DOMAIN C
    BY <1>9, <1>4, <1>12 DEF C
  <1>14. ASSUME NEW k \in DOMAIN C
         PROVE  C[k] # <<>> /\ Lists(C[k], {x \in DOMAIN H : H[x] = k})
    <2> DEFINE A == {x \in 1 .. n : p.hash[x] = k}
    <2>1. CASE k # h
      <3>1. {x \in DOMAIN H : H[x] = k} = A
        BY <1>10, <1>11, <1>13, <2>1
      <3> QED BY <1>9, <1>13, <2>1, <3>1 DEF C
    <2>2. CASE k = h
      <3>1. {x \in DOMAIN H : H[x] = k} = A \cup {b}
        BY <1>11, <1>13, <2>2
      <3>2. b \notin A
        BY <1>10, <1>12, <2>2
      <3>3. CASE h \in DOMAIN p.cached
        <4>1. C[k] = Append(p.cached[k], b)
          BY <1>13, <2>2, <3>3 DEF C
        <4>2. C[k] # <<>>
          BY <1>2, <1>9, <2>2, <3>3, <4>1
        <4>3. Lists(C[k], A \cup {b})
          BY <1>2, <1>9, <2>2, <3>2, <3>3, <4>1, ListsAppend
        <4> QED BY <3>1, <4>2, <4>3
      <3>4. CASE h \notin DOMAIN p.cached
        BY <1>9, <1>12, <1>13, <2>2, <3>1, <3>4 DEF C, Lists
      <3> QED BY <3>3, <3>4
    <2> QED BY <2>1, <2>2
  <1>15. Filed(s)
    BY <1>9, <1>6, <1>11, <1>13, <1>14 DEF Filed
  <1>16. Linked(s) /\ Later(p, s)
    BY <1>8, <1>6, SameChain
  <1> QED BY <1>15, <1>16

\* cache_full_blocks: one block after the other.
FilesAll(f, p, blocks, hashes, tokens, c, full, size) ==
  /\ f[0] = p
  /\ \A i \in 1 .. full - c : f[i] = File(f[i - 1], blocks[c + i],
                                           HashAt(hashes, tokens, c + i, size), (c + i) * size)
  /\ cache_full_blocks(p, blocks, hashes, tokens, c, full, size).pool = f[full - c]
LEMMA FileFunction ==
  ASSUME NEW p, NEW blocks, NEW hashes, NEW tokens, NEW c \in Nat, NEW full \in Nat, NEW size,
         full > c, Len(hashes) >= c, c > 0 => p.hash[blocks[c]] # NoHash
  PROVE  \E f : FilesAll(f, p, blocks, hashes, tokens, c, full, size)
  <1> DEFINE N == full - c
             Body(f, m) == [i \in 0 .. m |-> IF i = 0 THEN p
                                             ELSE File(f[i - 1], blocks[c + i], HashAt(hashes, tokens, c + i, size), (c + i) * size)]
             G == {m \in 0 .. N : \E f : f = Body(f, m)}
  <1>1. N \in Nat
    OBVIOUS
  <1>2. 0 \in G
    <2> DEFINE f == [i \in 0 .. 0 |-> p]
    <2>1. f = Body(f, 0)
      OBVIOUS
    <2>2. 0 \in 0 .. N
      BY <1>1
    <2> HIDE DEF f, N
    <2> QED BY <2>1, <2>2
  <1>3. ASSUME NEW m \in 1 .. N, m - 1 \in G
        PROVE  m \in G
    <2> HIDE DEF N
    <2>1. PICK f : f = Body(f, m - 1)
      BY <1>3
    <2> DEFINE g == [i \in 0 .. m |-> IF i = m THEN File(f[m - 1], blocks[c + m], HashAt(hashes, tokens, c + m, size), (c + m) * size) ELSE f[i]]
    <2>2. /\ g = [i \in 0 .. m |-> g[i]] /\ \A i \in 0 .. m - 1 : g[i] = f[i]
          /\ g[m] = File(f[m - 1], blocks[c + m], HashAt(hashes, tokens, c + m, size), (c + m) * size)
      BY <1>1
    <2> HIDE DEF g
    <2>3. ASSUME NEW i \in 0 .. m
          PROVE  g[i] = IF i = 0 THEN p ELSE File(g[i - 1], blocks[c + i], HashAt(hashes, tokens, c + i, size), (c + i) * size)
      <3>1. CASE i = m
        <4>1. m - 1 \in 0 .. m - 1 /\ m # 0
          BY <1>1
        <4> QED BY <2>2, <3>1, <4>1
      <3>2. CASE i # m
        <4>1. i \in 0 .. m - 1 /\ (i # 0 => i - 1 \in 0 .. m - 1)
          BY <3>2, <1>1
        <4> QED BY <2>1, <2>2, <4>1
      <3> QED BY <3>1, <3>2
    <2>4. g = Body(g, m)
      BY <2>2, <2>3
    <2> QED BY <1>1, <2>4, SMTT(20)
  <1>4. N \in G
    <2> HIDE DEF G, N
    <2> QED BY <1>1, <1>2, <1>3, IndexInduction
  <1> DEFINE h == CHOOSE f : f = Body(f, N)
  <1>5. \E f : f = Body(f, N)
    BY <1>4
  <1>6. h = Body(h, N)
    BY <1>5
  <1>7. cache_full_blocks(p, blocks, hashes, tokens, c, full, size).pool = h[N]
    BY DEF cache_full_blocks
  <1> HIDE DEF h
  <1>8. h[0] = p /\ \A i \in 1 .. N : h[i] = File(h[i - 1], blocks[c + i], HashAt(hashes, tokens, c + i, size), (c + i) * size)
    BY <1>1, <1>6
  <1> QED BY <1>7, <1>8 DEF FilesAll

-----------------------------------------------------------------------------
(* The operations of the pool.                                              *)

Prefix(q, i) == {q[k] : k \in 1 .. i}

LEMMA PrefixFacts ==
  ASSUME NEW A, NEW q \in Seq(A), \A i, j \in 1 .. Len(q) : q[i] = q[j] => i = j
  PROVE  /\ Prefix(q, 0) = {} /\ Prefix(q, Len(q)) = ToSet(q)
         /\ \A i \in 1 .. Len(q) : /\ Prefix(q, i) = Prefix(q, i - 1) \cup {q[i]}
                                   /\ q[i] \notin Prefix(q, i - 1)
         /\ ToSet(q) = {q[k] : k \in 1 .. Len(q)} /\ ToSet(q) \subseteq A
  <1>1. ASSUME NEW i \in 1 .. Len(q)
        PROVE  /\ Prefix(q, i) = Prefix(q, i - 1) \cup {q[i]}
               /\ q[i] \notin Prefix(q, i - 1)
    BY DEF Prefix
  <1> QED BY <1>1 DEF Prefix, ToSet

\* touch: every block has one user more.
LEMMA TouchFacts ==
  ASSUME NEW n \in Nat, NEW p \in Pools(n), Linked(p), NEW q \in Seq(1 .. n),
         \A i, j \in 1 .. Len(q) : q[i] = q[j] => i = j
  PROVE  LET s == touch(p, q) IN
         /\ s \in Pools(n) /\ Linked(s) /\ Later(p, s)
         /\ s.hash = p.hash /\ s.cached = p.cached /\ s.ok = p.ok
         /\ \A b \in 1 .. n : s.ref[b] = IF b \in ToSet(q) THEN p.ref[b] + 1 ELSE p.ref[b]
         /\ s.num = p.num - Cardinality({i \in DOMAIN q : p.ref[q[i]] = 0})
  <1> DEFINE N == Len(q)
             K(i) == {k \in 1 .. i : p.ref[q[k]] = 0}
  <1>1. N \in Nat /\ \A i \in 1 .. N : q[i] \in 1 .. n
    OBVIOUS
  <1>2. PICK f : /\ f[0] = p
                 /\ \A i \in 1 .. Len(q) : f[i] = Hit(f[i - 1], q[i])
                 /\ touch(p, q) = f[Len(q)]
    BY <1>1, TouchFunction, ZenonT(40)
  <1>3. /\ Prefix(q, 0) = {} /\ Prefix(q, Len(q)) = ToSet(q)
        /\ \A i \in 1 .. Len(q) : /\ Prefix(q, i) = Prefix(q, i - 1) \cup {q[i]}
                                  /\ q[i] \notin Prefix(q, i - 1)
    BY PrefixFacts
  <1>4. p.ref \in [1 .. n -> Nat] /\ p.num \in Nat
    BY PoolFields
  <1>5. \A i \in 0 .. N : IsFiniteSet(K(i)) /\ Cardinality(K(i)) \in Nat
    <2> SUFFICES ASSUME NEW i \in 0 .. N
                 PROVE  IsFiniteSet(K(i)) /\ Cardinality(K(i)) \in Nat
      OBVIOUS
    <2>1. IsFiniteSet(1 .. i)
      BY FS_Interval
    <2>2. K(i) \subseteq 1 .. i
      OBVIOUS
    <2> HIDE DEF K
    <2>3. IsFiniteSet(K(i))
      BY <2>1, <2>2, FS_Subset
    <2> QED BY <2>3, FS_CardinalityType
  <1> DEFINE Good(i) ==
               /\ f[i] \in Pools(n) /\ Linked(f[i]) /\ Later(p, f[i])
               /\ f[i].hash = p.hash /\ f[i].cached = p.cached /\ f[i].ok = p.ok
               /\ \A b \in 1 .. n : f[i].ref[b] = IF b \in Prefix(q, i) THEN p.ref[b] + 1 ELSE p.ref[b]
               /\ f[i].num = p.num - Cardinality(K(i))
             G == {i \in 0 .. N : Good(i)}
  <1>6. 0 \in G
    BY <1>1, <1>2, <1>3, <1>4, FS_EmptySet, SameChain
  <1>7. ASSUME NEW i \in 1 .. N, i - 1 \in G
        PROVE  i \in G
    <2> DEFINE s == f[i - 1]
               t == f[i]
               b == q[i]
    <2>1. Good(i - 1)
      BY <1>7
    <2>2. /\ s \in Pools(n) /\ Linked(s) /\ Later(p, s)
          /\ s.hash = p.hash /\ s.cached = p.cached /\ s.ok = p.ok
          /\ \A x \in 1 .. n : s.ref[x] = IF x \in Prefix(q, i - 1) THEN p.ref[x] + 1 ELSE p.ref[x]
          /\ s.num = p.num - Cardinality(K(i - 1))
      BY <2>1
    <2>3. b \in 1 .. n
      BY <1>1
    <2>4. t = Hit(s, b)
      BY <1>2
    <2> HIDE DEF s, t, b
    <2>5. /\ t \in Pools(n) /\ Linked(t) /\ Later(s, t)
          /\ t.ref = [s.ref EXCEPT ![b] = @ + 1]
          /\ t.hash = s.hash /\ t.cached = s.cached /\ t.ok = s.ok
          /\ t.num = IF s.ref[b] = 0 THEN s.num - 1 ELSE s.num
      <3>1. /\ Hit(s, b) \in Pools(n) /\ Linked(Hit(s, b)) /\ Later(s, Hit(s, b))
            /\ Hit(s, b).ref = [s.ref EXCEPT ![b] = @ + 1]
            /\ Hit(s, b).hash = s.hash /\ Hit(s, b).cached = s.cached /\ Hit(s, b).ok = s.ok
            /\ s.ref[b] = 0 => Hit(s, b).num = s.num - 1
            /\ s.ref[b] # 0 => Hit(s, b).num = s.num
        BY <2>2, <2>3, HitFacts, ZenonT(40)
      <3> QED BY <2>4, <3>1
    <2>6. s.ref \in [1 .. n -> Nat]
      BY <2>2, PoolFields
    <2>7. \A x \in 1 .. n : t.ref[x] = IF x = b THEN s.ref[b] + 1 ELSE s.ref[x]
      BY <2>5, <2>6
    <2>8. s.ref[b] = p.ref[b]
      BY <1>3, <2>2, <2>3 DEF b
    <2>9. \A x \in 1 .. n : t.ref[x] = IF x \in Prefix(q, i) THEN p.ref[x] + 1 ELSE p.ref[x]
      BY <1>3, <2>2, <2>7, <2>8 DEF b
    <2>10. Later(p, t)
      <3>1. \A x \in 1 .. n : p.ref[x] = 0 /\ t.ref[x] = 0 => s.ref[x] = 0
        <4> SUFFICES ASSUME NEW x \in 1 .. n, p.ref[x] = 0, t.ref[x] = 0
                     PROVE  s.ref[x] = 0
          OBVIOUS
        <4>1. s.ref[b] \in Nat
          BY <2>3, <2>6
        <4>2. t.ref[x] = IF x = b THEN s.ref[b] + 1 ELSE s.ref[x]
          BY <2>7
        <4> QED BY <4>1, <4>2
      <3> QED BY <2>2, <2>5, <3>1, LaterTransitive
    <2>11. t.num = p.num - Cardinality(K(i))
      <3>1. \A k \in 1 .. i - 1 : k \in 1 .. i /\ k # i
        BY <1>1
      <3>2. CASE p.ref[b] = 0
        <4>1. K(i) = K(i - 1) \cup {i} /\ i \notin K(i - 1)
          BY <1>1, <3>1, <3>2 DEF b
        <4> HIDE DEF K
        <4>2. IsFiniteSet(K(i - 1)) /\ Cardinality(K(i - 1)) \in Nat
          BY <1>1, <1>5
        <4>3. Cardinality(K(i)) = Cardinality(K(i - 1)) + 1
          BY <4>1, <4>2, FS_AddElement
        <4>4. s.num = p.num - Cardinality(K(i - 1))
          BY <2>2
        <4> DEFINE c == Cardinality(K(i - 1))
                   d == Cardinality(K(i))
        <4>5. c \in Nat /\ d = c + 1 /\ t.num = s.num - 1 /\ s.num = p.num - c /\ p.num \in Nat
          BY <1>4, <2>5, <2>8, <3>2, <4>2, <4>3, <4>4
        <4> HIDE DEF c, d
        <4>6. s.num \in Int
          BY <4>5
        <4>7. t.num = p.num - d
          BY <4>5, <4>6
        <4> QED BY <4>7 DEF d
      <3>3. CASE p.ref[b] # 0
        <4>1. K(i) = K(i - 1)
          BY <1>1, <3>1, <3>3 DEF b
        <4> HIDE DEF K
        <4> QED BY <2>2, <2>5, <2>8, <3>3, <4>1
      <3> QED BY <3>2, <3>3
    <2>12. Good(i)
      BY <2>2, <2>5, <2>9, <2>10, <2>11 DEF t
    <2>13. i \in 0 .. N
      BY <1>1
    <2> HIDE DEF Good
    <2> QED BY <2>12, <2>13
  <1>8. Good(N)
    <2> HIDE DEF G, N
    <2>1. \A i \in 0 .. N : i \in G
      BY <1>1, <1>6, <1>7, IndexInduction
    <2>2. N \in G
      BY <1>1, <2>1
    <2> HIDE DEF Good
    <2> QED BY <2>2 DEF G
  <1>9. K(N) = {i \in DOMAIN q : p.ref[q[i]] = 0}
    OBVIOUS
  <1> HIDE DEF K
  <1> QED BY <1>2, <1>3, <1>8, <1>9

\* get_new_blocks: so many free blocks, each with one user and no hash.
LEMMA NewBlocksFacts ==
  ASSUME NEW n \in Nat, NEW p \in Pools(n), Linked(p), Filed(p), NEW m \in Nat, m <= p.num
  PROVE  LET s == get_new_blocks(p, m).pool
             w == get_new_blocks(p, m).blocks
         IN  /\ s \in Pools(n) /\ Linked(s) /\ Later(p, s) /\ Filed(s)
             /\ s.ok = p.ok /\ s.num = p.num - m
             /\ w \in Seq(1 .. n) /\ Len(w) = m /\ Lists(w, ToSet(w))
             /\ \A b \in ToSet(w) : b \in 1 .. n /\ p.ref[b] = 0
             /\ \A b \in 1 .. n : /\ s.ref[b] = IF b \in ToSet(w) THEN 1 ELSE p.ref[b]
                                  /\ s.hash[b] = IF b \in ToSet(w) THEN NoHash ELSE p.hash[b]
  <1>1. PICK f : /\ f[0] = [pool |-> p, blocks |-> <<>>]
                 /\ \A i \in 1 .. m : f[i] = Take(f[i - 1])
                 /\ get_new_blocks(p, m) = f[m]
    BY TakeFunction, Zenon
  <1>2. p.ref \in [1 .. n -> Nat] /\ p.num \in Nat
    BY PoolFields
  <1> DEFINE Fair(s, w, i) ==
               /\ s \in Pools(n) /\ Linked(s) /\ Later(p, s) /\ Filed(s)
               /\ s.ok = p.ok /\ s.num = p.num - i
               /\ w \in Seq(1 .. n) /\ Len(w) = i /\ Lists(w, ToSet(w))
               /\ \A b \in ToSet(w) : b \in 1 .. n /\ p.ref[b] = 0
               /\ \A b \in 1 .. n : /\ s.ref[b] = IF b \in ToSet(w) THEN 1 ELSE p.ref[b]
                                    /\ s.hash[b] = IF b \in ToSet(w) THEN NoHash ELSE p.hash[b]
             G == {i \in 0 .. m : Fair(f[i].pool, f[i].blocks, i)}
  <1>3. 0 \in G
    <2>1. Later(p, p)
      BY SameChain
    <2>2. Fair(p, <<>>, 0)
      <3>1. p.num = p.num - 0 /\ <<>> \in Seq(1 .. n) /\ Len(<<>>) = 0
        BY <1>2
      <3> QED BY <2>1, <3>1, ListsEmpty
    <2> HIDE DEF Fair
    <2> QED BY <1>1, <2>2
  <1>4. ASSUME NEW i \in 1 .. m, i - 1 \in G
        PROVE  i \in G
    <2> DEFINE s == f[i - 1].pool
               w == f[i - 1].blocks
               b == s.head
               t == Take(f[i - 1]).pool
    <2>1. Fair(s, w, i - 1)
      BY <1>4
    <2>2. /\ s \in Pools(n) /\ Linked(s) /\ Later(p, s) /\ Filed(s)
          /\ s.ok = p.ok /\ s.num = p.num - (i - 1)
          /\ w \in Seq(1 .. n) /\ Len(w) = i - 1 /\ Lists(w, ToSet(w))
          /\ \A x \in ToSet(w) : x \in 1 .. n /\ p.ref[x] = 0
          /\ \A x \in 1 .. n : /\ s.ref[x] = IF x \in ToSet(w) THEN 1 ELSE p.ref[x]
                               /\ s.hash[x] = IF x \in ToSet(w) THEN NoHash ELSE p.hash[x]
      BY <2>1
    <2>3. s.num > 0
      BY <1>2, <2>2
    <2>4. /\ b \in 1 .. n /\ s.ref[b] = 0 /\ Take(f[i - 1]).blocks = Append(w, b)
          /\ t \in Pools(n) /\ Linked(t) /\ Later(s, t) /\ Filed(t)
          /\ t.ref = [s.ref EXCEPT ![b] = 1] /\ t.hash = [s.hash EXCEPT ![b] = NoHash]
          /\ t.num = s.num - 1 /\ t.ok = s.ok
      <3>1. s \in Pools(n) /\ Linked(s) /\ Filed(s) /\ f[i - 1].pool = s
        BY <2>2
      <3> HIDE DEF s
      <3>2. Taken(n, s, f[i - 1].blocks, Take(f[i - 1]))
        BY <2>3, <3>1, TakeFacts
      <3> QED BY <3>2 DEF Taken
    <2>5. f[i].pool = t /\ f[i].blocks = Append(w, b)
      BY <1>1, <2>4
    <2>6. s.ref \in [1 .. n -> Nat] /\ s.hash \in [1 .. n -> Words]
      BY <2>2, PoolFields
    <2> HIDE DEF s, w, b, t
    <2>7. b \notin ToSet(w) /\ p.ref[b] = 0
      BY <2>2, <2>4
    <2>8. Lists(Append(w, b), ToSet(w) \cup {b}) /\ ToSet(Append(w, b)) = ToSet(w) \cup {b}
      BY <2>2, <2>7, ListsAppend
    <2>9. Later(p, t)
      BY <2>2, <2>4, <2>6, LaterTransitive
    <2> DEFINE v == Append(w, b)
    <2>10. /\ \A x \in ToSet(v) : x \in 1 .. n /\ p.ref[x] = 0
           /\ \A x \in 1 .. n : /\ t.ref[x] = IF x \in ToSet(v) THEN 1 ELSE p.ref[x]
                                /\ t.hash[x] = IF x \in ToSet(v) THEN NoHash ELSE p.hash[x]
      BY <2>2, <2>4, <2>6, <2>7, <2>8
    <2>11. t.num = p.num - i /\ t.ok = p.ok
      <3>1. s.num = p.num - (i - 1) /\ s.ok = p.ok /\ t.num = s.num - 1 /\ t.ok = s.ok
        BY <2>2, <2>4
      <3> QED BY <1>2, <3>1
    <2>12. v \in Seq(1 .. n) /\ Len(v) = i /\ Lists(v, ToSet(v))
      BY <2>2, <2>4, <2>8
    <2> HIDE DEF v
    <2>13. Fair(t, v, i)
      BY <2>4, <2>9, <2>10, <2>11, <2>12
    <2>14. i \in 0 .. m /\ f[i].pool = t /\ f[i].blocks = v
      BY <2>5 DEF v
    <2> HIDE DEF Fair
    <2> QED BY <2>13, <2>14
  <1>5. Fair(f[m].pool, f[m].blocks, m)
    <2> HIDE DEF G
    <2>1. m \in G
      BY <1>3, <1>4, IndexInduction
    <2> HIDE DEF Fair
    <2> QED BY <2>1 DEF G
  <1> QED BY <1>1, <1>5

\* free_blocks: every block has one user less.
LEMMA FreeFacts ==
  ASSUME NEW n \in Nat, NEW p \in Pools(n), Linked(p), NEW q \in Seq(1 .. n),
         \A i, j \in 1 .. Len(q) : q[i] = q[j] => i = j,
         \A b \in ToSet(q) : p.ref[b] > 0
  PROVE  LET s == free_blocks(p, q) IN
         /\ s \in Pools(n) /\ Linked(s) /\ Later(p, s)
         /\ s.hash = p.hash /\ s.cached = p.cached /\ s.ok = p.ok
         /\ \A b \in 1 .. n : s.ref[b] = IF b \in ToSet(q) THEN p.ref[b] - 1 ELSE p.ref[b]
  <1> DEFINE N == Len(q)
  <1>1. N \in Nat /\ \A i \in 1 .. N : q[i] \in 1 .. n /\ q[i] \in ToSet(q)
    BY DEF ToSet
  <1>2. PICK f : /\ f[0] = p
                 /\ \A i \in 1 .. Len(q) : f[i] = Drop(f[i - 1], q[i])
                 /\ free_blocks(p, q) = f[Len(q)]
    BY <1>1, FreeFunction, ZenonT(40)
  <1>3. /\ Prefix(q, 0) = {} /\ Prefix(q, Len(q)) = ToSet(q)
        /\ \A i \in 1 .. Len(q) : /\ Prefix(q, i) = Prefix(q, i - 1) \cup {q[i]}
                                  /\ q[i] \notin Prefix(q, i - 1)
    BY PrefixFacts
  <1> DEFINE Good(i) ==
               /\ f[i] \in Pools(n) /\ Linked(f[i]) /\ Later(p, f[i])
               /\ f[i].hash = p.hash /\ f[i].cached = p.cached /\ f[i].ok = p.ok
               /\ \A b \in 1 .. n : f[i].ref[b] = IF b \in Prefix(q, i) THEN p.ref[b] - 1 ELSE p.ref[b]
             G == {i \in 0 .. N : Good(i)}
  <1>4. 0 \in G
    BY <1>1, <1>2, <1>3, SameChain
  <1>5. ASSUME NEW i \in 1 .. N, i - 1 \in G
        PROVE  i \in G
    <2> DEFINE s == f[i - 1]
               t == f[i]
               b == q[i]
    <2>1. Good(i - 1)
      BY <1>5
    <2>2. /\ s \in Pools(n) /\ Linked(s) /\ Later(p, s)
          /\ s.hash = p.hash /\ s.cached = p.cached /\ s.ok = p.ok
          /\ \A x \in 1 .. n : s.ref[x] = IF x \in Prefix(q, i - 1) THEN p.ref[x] - 1 ELSE p.ref[x]
      BY <2>1
    <2>3. b \in 1 .. n /\ b \in ToSet(q)
      BY <1>1
    <2>4. t = Drop(s, b)
      BY <1>2
    <2> HIDE DEF s, t, b
    <2>5. b \notin Prefix(q, i - 1) /\ Prefix(q, i) = Prefix(q, i - 1) \cup {b}
      BY <1>3 DEF b
    <2>6. s.ref[b] > 0
      BY <2>2, <2>3, <2>5
    <2>7. /\ t \in Pools(n) /\ Linked(t) /\ Later(s, t)
          /\ t.ref = [s.ref EXCEPT ![b] = @ - 1]
          /\ t.hash = s.hash /\ t.cached = s.cached /\ t.ok = s.ok
      <3>1. s \in Pools(n) /\ Linked(s)
        BY <2>2
      <3>2. /\ Drop(s, b) \in Pools(n) /\ Linked(Drop(s, b)) /\ Later(s, Drop(s, b))
            /\ Drop(s, b).ref = [s.ref EXCEPT ![b] = @ - 1]
            /\ Drop(s, b).hash = s.hash /\ Drop(s, b).cached = s.cached /\ Drop(s, b).ok = s.ok
        BY <2>3, <2>6, <3>1, DropFacts, ZenonT(40)
      <3> QED BY <2>4, <3>2
    <2>8. s.ref \in [1 .. n -> Nat]
      BY <2>2, PoolFields
    <2>9. \A x \in 1 .. n : t.ref[x] = IF x = b THEN s.ref[b] - 1 ELSE s.ref[x]
      BY <2>7, <2>8
    <2>10. \A x \in 1 .. n : t.ref[x] = IF x \in Prefix(q, i) THEN p.ref[x] - 1 ELSE p.ref[x]
      BY <2>2, <2>3, <2>9, <2>5
    <2>11. Later(p, t)
      <3>1. \A x \in 1 .. n : p.ref[x] = 0 /\ t.ref[x] = 0 => s.ref[x] = 0
        BY <2>3, <2>9
      <3> QED BY <2>2, <2>7, <3>1, LaterTransitive
    <2>12. Good(i)
      BY <2>2, <2>7, <2>10, <2>11 DEF t
    <2>13. i \in 0 .. N
      BY <1>1
    <2> HIDE DEF Good
    <2> QED BY <2>12, <2>13
  <1>6. Good(N)
    <2> HIDE DEF G, N
    <2>1. \A i \in 0 .. N : i \in G
      BY <1>1, <1>4, <1>5, IndexInduction
    <2>2. N \in G
      BY <1>1, <2>1
    <2> HIDE DEF Good
    <2> QED BY <2>2 DEF G
  <1> QED BY <1>2, <1>3, <1>6

\* Products.
LEMMA Times ==
  ASSUME NEW a \in Int, NEW b \in Int, NEW s \in Nat, a <= b
  PROVE  a * s \in Int /\ b * s \in Int /\ a * s <= b * s
  OBVIOUS

LEMMA Back ==
  ASSUME NEW x \in Int, NEW y \in Int
  PROVE  x + (y - x) = y
  OBVIOUS

LEMMA Upto ==
  ASSUME NEW c \in Nat, NEW i \in Nat \ {0}
  PROVE  c + i \in c + 1 .. c + i /\ \A k \in c + 1 .. c + (i - 1) : k \in c + 1 .. c + i
  OBVIOUS

\* A prefix of a word.
LEMMA Cut ==
  ASSUME NEW t \in Words, NEW m \in Nat, m <= Len(t)
  PROVE  /\ SubSeq(t, 1, m) \in Words /\ Len(SubSeq(t, 1, m)) = m
         /\ \A i \in 1 .. m : SubSeq(t, 1, m)[i] = t[i]
  BY DEF Words

\* Nothing is added.
LEMMA ConcatEmpty ==
  ASSUME NEW A, NEW q \in Seq(A)
  PROVE  q \o <<>> = q
  <1> DEFINE v == q \o <<>>
  <1>1. v \in Seq(A) /\ Len(v) = Len(q) /\ \A i \in 1 .. Len(q) : v[i] = q[i]
    OBVIOUS
  <1> HIDE DEF v
  <1>2. v = q
    BY <1>1
  <1> QED BY <1>2 DEF v

\* Blocks c + 1 .. full had no hash, and have that of the tokens up to their end.
Filing(n, p, s, blocks, tokens, c, full, size) ==
  /\ p.ok
  /\ s \in Pools(n) /\ Linked(s) /\ Later(p, s) /\ Filed(s)
  /\ s.ref = p.ref /\ s.num = p.num
  /\ \A k \in c + 1 .. full : /\ p.hash[blocks[k]] = NoHash
                              /\ s.hash[blocks[k]] = SubSeq(tokens, 1, k * size)
  /\ \A b \in 1 .. n : b \notin {blocks[k] : k \in c + 1 .. full} => s.hash[b] = p.hash[b]

\* What cache_full_blocks asserts.
Fileable(p, blocks, hashes, c, full) ==
  /\ p.ok /\ full >= 0 /\ Len(hashes) >= c /\ (c > 0 => p.hash[blocks[c]] # NoHash)
  /\ \A k \in c + 1 .. full : p.hash[blocks[k]] = NoHash

\* Positions after the first c.
LEMMA Beyond ==
  ASSUME NEW c \in Nat, NEW full \in Nat, full > c
  PROVE  /\ full - c \in Nat
         /\ \A m \in Nat, i \in 1 .. full - c :
              full <= m => c + i \in 1 .. full /\ c + i \in c + 1 .. full /\ c + i \in 1 .. m
  OBVIOUS

\* The loop of cache_full_blocks.
LEMMA FileLoop ==
  ASSUME NEW n \in Nat, NEW p \in Pools(n), Linked(p), Filed(p),
         NEW blocks \in Seq(1 .. n), \A i, j \in 1 .. Len(blocks) : blocks[i] = blocks[j] => i = j,
         NEW tokens \in Words, NEW hashes, NEW size \in Nat \ {0}, Knowing(hashes, tokens, size),
         NEW c \in Nat, NEW full \in Nat, full > c, full <= Len(blocks), full * size <= Len(tokens),
         Len(hashes) >= c, c > 0 => p.hash[blocks[c]] # NoHash
  PROVE  LET s == cache_full_blocks(p, blocks, hashes, tokens, c, full, size).pool IN
         /\ s.ok => Filing(n, p, s, blocks, tokens, c, full, size)
         /\ p.ok /\ (\A k \in c + 1 .. full : p.hash[blocks[k]] = NoHash) => s.ok
  <1> DEFINE N == full - c
  <1>1. N \in Nat /\ Len(blocks) \in Nat /\ \A i \in 1 .. Len(blocks) : blocks[i] \in 1 .. n
    <2>1. N \in Nat
      BY Beyond, Zenon
    <2>2. \A x \in Seq(1 .. n) : Len(x) \in Nat /\ \A i \in 1 .. Len(x) : x[i] \in 1 .. n
      BY SMTT(30)
    <2> QED BY <2>1, <2>2, Zenon
  <1>2. PICK f : /\ f[0] = p
                 /\ \A i \in 1 .. full - c : f[i] = File(f[i - 1], blocks[c + i],
                                 HashAt(hashes, tokens, c + i, size), (c + i) * size)
                 /\ cache_full_blocks(p, blocks, hashes, tokens, c, full, size).pool = f[full - c]
    <2>1. PICK f : FilesAll(f, p, blocks, hashes, tokens, c, full, size)
      BY FileFunction
    <2> QED BY <2>1 DEF FilesAll
  <1>3. ASSUME NEW k \in 1 .. full
        PROVE  /\ HashAt(hashes, tokens, k, size) = SubSeq(tokens, 1, k * size)
               /\ SubSeq(tokens, 1, k * size) \in Words /\ Len(SubSeq(tokens, 1, k * size)) = k * size
               /\ k * size \in Nat \ {0}
    <2>1. k * size \in Nat \ {0} /\ Len(tokens) \in Nat
      BY DEF Words
    <2>2. k * size <= full * size
      BY Times
    <2>3. k * size <= Len(tokens)
      BY <2>1, <2>2
    <2>4. HashAt(hashes, tokens, k, size) = SubSeq(tokens, 1, k * size)
      BY DEF Knowing, HashAt
    <2> QED BY <2>1, <2>3, <2>4, Cut
  <1> DEFINE Free == p.ok /\ \A k \in c + 1 .. full : p.hash[blocks[k]] = NoHash
             Good(s, i) ==
               /\ s \in Pools(n)
               /\ s.ok => Filing(n, p, s, blocks, tokens, c, c + i, size)
               /\ Free => s.ok
             G == {i \in 0 .. N : Good(f[i], i)}
  <1>4. 0 \in G
    <2>1. Later(p, p)
      BY SameChain
    <2>2. f[0] = p /\ 0 \in 0 .. N
      BY <1>1, <1>2
    <2>3. Good(p, 0)
      BY <2>1 DEF Filing
    <2> HIDE DEF Good
    <2> QED BY <2>2, <2>3
  <1>5. ASSUME NEW i \in 1 .. N, i - 1 \in G
        PROVE  i \in G
    <2> DEFINE s == f[i - 1]
               b == blocks[c + i]
               h == SubSeq(tokens, 1, (c + i) * size)
               t == File(s, b, h, (c + i) * size)
    <2>1. Good(s, i - 1)
      BY <1>5
    <2>2. /\ s \in Pools(n)
          /\ s.ok => Filing(n, p, s, blocks, tokens, c, c + (i - 1), size)
          /\ Free => s.ok
      BY <2>1
    <2>3. c + i \in 1 .. full /\ c + i \in c + 1 .. full /\ c + i \in 1 .. Len(blocks)
      BY <1>1, Beyond, Zenon
    <2>4. /\ b \in 1 .. n /\ h \in Words /\ Len(h) = (c + i) * size /\ (c + i) * size \in Nat \ {0}
      BY <1>1, <1>3, <2>3
    <2>5. f[i] = t
      BY <1>2, <1>3, <2>3
    <2> HIDE DEF s, b, h, Free
    <2>6. /\ t \in Pools(n)
          /\ t.ok <=> s.ok /\ s.hash[b] = NoHash /\ Len(h) = (c + i) * size
          /\ t.hash = [s.hash EXCEPT ![b] = h] /\ t.ref = s.ref /\ t.num = s.num
          /\ Linked(s) /\ Filed(s) /\ t.ok => Linked(t) /\ Later(s, t) /\ Filed(t)
      BY <2>2, <2>4, FileFacts
    <2> HIDE DEF t
    <2>7. s.hash \in [1 .. n -> Words] /\ DOMAIN s.hash = 1 .. n
      BY <2>2, PoolFields
    <2>8. \A x \in 1 .. n : t.hash[x] = IF x = b THEN h ELSE s.hash[x]
      BY <2>6, <2>7
    <2>9. \A k \in c + 1 .. c + (i - 1) : k \in 1 .. Len(blocks) /\ k # c + i /\ blocks[k] # b /\ blocks[k] \in 1 .. n
      <3>1. \A k \in c + 1 .. c + (i - 1) : k \in 1 .. Len(blocks) /\ k # c + i
        BY <2>3
      <3> QED BY <1>1, <2>3, <3>1 DEF b
    <2>10. \A k \in c + 1 .. c + i : k = c + i \/ k \in c + 1 .. c + (i - 1)
      OBVIOUS
    <2>11. s.ok => s.hash[b] = p.hash[b]
      BY <2>2, <2>4, <2>9 DEF Filing
    <2>12. ASSUME t.ok
           PROVE  Filing(n, p, t, blocks, tokens, c, c + i, size)
      <3>1. /\ p.ok /\ Linked(s) /\ Later(p, s) /\ Filed(s) /\ s.ref = p.ref /\ s.num = p.num
            /\ \A k \in c + 1 .. c + (i - 1) : /\ p.hash[blocks[k]] = NoHash
                                               /\ s.hash[blocks[k]] = SubSeq(tokens, 1, k * size)
            /\ \A x \in 1 .. n : x \notin {blocks[k] : k \in c + 1 .. c + (i - 1)} => s.hash[x] = p.hash[x]
        BY <2>2, <2>6, <2>12 DEF Filing
      <3>2. ASSUME NEW k \in c + 1 .. c + i
            PROVE  p.hash[blocks[k]] = NoHash /\ t.hash[blocks[k]] = SubSeq(tokens, 1, k * size)
        <4>1. CASE k = c + i
          BY <2>4, <2>6, <2>8, <2>11, <2>12, <4>1 DEF b, h
        <4>2. CASE k \in c + 1 .. c + (i - 1)
          BY <2>8, <2>9, <3>1, <4>2
        <4> QED BY <2>10, <4>1, <4>2
      <3>3. ASSUME NEW x \in 1 .. n, x \notin {blocks[k] : k \in c + 1 .. c + i}
            PROVE  t.hash[x] = p.hash[x]
        <4>1. i \in Nat \ {0}
          BY <1>1
        <4>2. x # b /\ x \notin {blocks[k] : k \in c + 1 .. c + (i - 1)}
          BY <3>3, <4>1, Upto DEF b
        <4> QED BY <2>8, <3>1, <4>2
      <3> QED BY <2>2, <2>6, <2>12, <3>1, <3>2, <3>3, LaterTransitive DEF Filing
    <2>13. Free => t.ok
      BY <2>2, <2>3, <2>4, <2>6, <2>11 DEF Free, b
    <2>14. Good(t, i)
      BY <2>6, <2>12, <2>13
    <2>15. i \in 0 .. N
      OBVIOUS
    <2> HIDE DEF Good
    <2> QED BY <2>5, <2>14, <2>15
  <1>6. Good(f[N], N)
    <2> HIDE DEF G, N
    <2>1. \A i \in 0 .. N : i \in G
      BY <1>1, <1>4, <1>5, IndexInduction
    <2>2. N \in G
      BY <1>1, <2>1
    <2> HIDE DEF Good
    <2> QED BY <2>2 DEF G
  <1>7. c + N = full
    BY Back
  <1> HIDE DEF Free
  <1> QED BY <1>2, <1>6, <1>7 DEF Free

\* cache_full_blocks
LEMMA CacheFacts ==
  ASSUME NEW n \in Nat, NEW p \in Pools(n), Linked(p), Filed(p),
         NEW blocks \in Seq(1 .. n), \A i, j \in 1 .. Len(blocks) : blocks[i] = blocks[j] => i = j,
         NEW tokens \in Words, NEW hashes, NEW size \in Nat \ {0}, Knowing(hashes, tokens, size),
         NEW c \in Nat, NEW full \in Int, full <= Len(blocks), full * size <= Len(tokens)
  PROVE  LET out == cache_full_blocks(p, blocks, hashes, tokens, c, full, size) IN
         /\ out.pool.ok => /\ full \in Nat
                           /\ Filing(n, p, out.pool, blocks, tokens, c, full, size)
                           /\ Knowing(out.hashes, tokens, size)
                           /\ full # c => Len(out.hashes) >= full
                           /\ Len(out.hashes) >= Len(hashes)
         /\ Fileable(p, blocks, hashes, c, full) => out.pool.ok
  <1> DEFINE out == cache_full_blocks(p, blocks, hashes, tokens, c, full, size)
             sound == full >= 0 /\ Len(hashes) >= c /\ (c > 0 => p.hash[blocks[c]] # NoHash)
             more == [i \in 1 .. full - Len(hashes) |-> HashAt(hashes, tokens, Len(hashes) + i, size)]
  <1>1. hashes \in Seq(Words) /\ Len(hashes) \in Nat /\ Len(tokens) \in Nat
    BY DEF Knowing, Words
  <1>2. CASE full = c
    BY <1>1, <1>2, SameChain DEF cache_full_blocks, Filing, out, Fileable
  <1>3. CASE full # c /\ ~sound
    BY <1>3 DEF cache_full_blocks, Pools, Fileable, out
  <1>4. CASE full # c /\ sound
    <2>1. full \in Nat
      BY <1>4
    <2>2. out.hashes = hashes \o more
      BY <1>4 DEF cache_full_blocks
    <2>3. full < c => out.pool = p
      BY <1>4 DEF cache_full_blocks
    <2>4. Knowing(hashes \o more, tokens, size) /\ Len(hashes \o more) >= full
          /\ Len(hashes \o more) >= Len(hashes)
      <3>1. CASE full <= Len(hashes)
        <4>1. more = <<>>
          BY <1>1, <3>1
        <4> HIDE DEF more
        <4> QED BY <1>1, <3>1, <4>1, ConcatEmpty
      <3>2. CASE full > Len(hashes)
        <4> DEFINE L == full - Len(hashes)
                   v == hashes \o more
        <4>1. L \in Nat
          BY <1>1, <3>2
        <4>2. ASSUME NEW i \in 1 .. L
              PROVE  /\ more[i] = SubSeq(tokens, 1, (Len(hashes) + i) * size)
                     /\ more[i] \in Words
          <5> DEFINE e == Len(hashes) + i
          <5>1. e * size <= full * size /\ e * size \in Nat
            <6>1. e \in Nat
              BY <1>1
            <6> HIDE DEF e
            <6>2. e <= full
              BY <1>1 DEF e
            <6> QED BY <2>1, <6>1, <6>2, Times
          <5>2. SubSeq(tokens, 1, e * size) \in Words
            BY <1>1, <2>1, <5>1, Cut
          <5> QED BY <1>1, <5>2 DEF HashAt
        <4>3. more \in Seq(Words) /\ Len(more) = L
          <5>1. more \in [1 .. L -> Words]
            BY <4>2
          <5> HIDE DEF more, L
          <5> QED BY <4>1, <5>1
        <4> HIDE DEF more
        <4>4. v \in Seq(Words) /\ Len(v) = full
          BY <1>1, <3>2, <4>3
        <4>5. ASSUME NEW i \in 1 .. full
              PROVE  v[i] = SubSeq(tokens, 1, i * size)
          <5>1. CASE i <= Len(hashes)
            BY <1>1, <4>3, <5>1 DEF Knowing
          <5>2. CASE i > Len(hashes)
            <6> DEFINE j == i - Len(hashes)
            <6>1. j \in 1 .. L /\ Len(hashes) + j = i
              BY <1>1, <5>2
            <6>2. v[i] = more[j]
              BY <1>1, <4>3, <5>2, SMTT(30)
            <6> HIDE DEF j, v, L
            <6> QED BY <4>2, <6>1, <6>2
          <5> HIDE DEF v
          <5> QED BY <1>1, <5>1, <5>2
        <4> HIDE DEF v
        <4>6. Knowing(v, tokens, size) /\ Len(v) >= full /\ Len(v) >= Len(hashes)
          BY <1>1, <2>1, <3>2, <4>4, <4>5 DEF Knowing
        <4> QED BY <4>6 DEF v
      <3> HIDE DEF more
      <3> QED BY <1>1, <3>1, <3>2
    <2> HIDE DEF more, out
    <2>5. CASE full < c
      BY <2>1, <2>2, <2>3, <2>4, <2>5, SameChain DEF Filing, out, Fileable
    <2>6. CASE full > c
      BY <1>4, <2>1, <2>2, <2>4, <2>6, FileLoop DEF out, Fileable
    <2> QED BY <1>4, <2>1, <2>5, <2>6
  <1> QED BY <1>2, <1>3, <1>4

-----------------------------------------------------------------------------
(* Blocks and tokens.                                                       *)

LEMMA Division ==
  ASSUME NEW a \in Int, NEW d \in Nat \ {0}
  PROVE  /\ a \div d \in Int /\ a % d \in 0 .. d - 1
         /\ a = (a \div d) * d + (a % d)
         /\ (a \div d) * d \in Int /\ (a \div d) * d <= a /\ a < (a \div d) * d + d
  <1> DEFINE q == a \div d
             r == a % d
  <1>1. q \in Int
    OBVIOUS
  <1>2. r \in 0 .. d - 1
    OBVIOUS
  <1>3. a = q * d + r
    OBVIOUS
  <1> HIDE DEF q, r
  <1>4. q * d \in Int
    BY <1>1
  <1> QED BY <1>1, <1>2, <1>3, <1>4 DEF q, r

\* Less than a multiple.
LEMMA Fewer ==
  ASSUME NEW a \in Int, NEW b \in Int, NEW d \in Nat \ {0}, a * d < b * d + d
  PROVE  a <= b
  <1> SUFFICES ASSUME a >= b + 1
               PROVE  FALSE
    OBVIOUS
  <1>1. (b + 1) * d <= a * d
    BY Times
  <1> QED BY <1>1

\* cdiv is the least number of blocks.
LEMMA Ceiling ==
  ASSUME NEW a \in Int, NEW d \in Nat \ {0}
  PROVE  /\ cdiv(a, d) \in Int /\ cdiv(a, d) * d \in Int /\ a <= cdiv(a, d) * d
         /\ cdiv(a, d) * d < a + d
         /\ a \div d <= cdiv(a, d)
         /\ \A k \in Int : a <= k * d => cdiv(a, d) <= k
  <1> DEFINE q == cdiv(a, d)
  <1>1. q = (a + d - 1) \div d
    BY DEF cdiv
  <1>2. a + d - 1 \in Int
    OBVIOUS
  <1> HIDE DEF q
  <1>3. ASSUME NEW k \in Int, a <= k * d
        PROVE  q <= k
    BY <1>1, <1>2, <1>3, Fewer, Division
  <1>4. a \div d <= q
    BY <1>1, <1>2, Division, Fewer
  <1> QED BY <1>1, <1>2, <1>3, <1>4, Division DEF q

LEMMA Constants ==
  /\ BlockSize \in Nat \ {0} /\ MaxModelLen \in Nat \ {0} /\ Preallocate \in Nat
  /\ max_num_blocks_per_req \in Nat \ {0}
  /\ MaxModelLen <= max_num_blocks_per_req * BlockSize
  /\ \A k \in Int : k * BlockSize <= MaxModelLen => k <= max_num_blocks_per_req
  /\ \A a \in Int : a <= MaxModelLen => cdiv(a, BlockSize) <= max_num_blocks_per_req
  <1>1. BlockSize \in Nat \ {0} /\ MaxModelLen \in Nat \ {0} /\ Preallocate \in Nat
    BY SchedulerAssumption
  <1> DEFINE x == max_num_blocks_per_req
  <1>2. x \in Int /\ x * BlockSize \in Int /\ MaxModelLen <= x * BlockSize
    BY <1>1, Ceiling DEF max_num_blocks_per_req
  <1> HIDE DEF x
  <1>3. x > 0
    BY <1>1, <1>2, Times
  <1>4. ASSUME NEW k \in Int, k * BlockSize <= MaxModelLen
        PROVE  k <= x
    BY <1>1, <1>2, <1>4, Fewer
  <1>5. ASSUME NEW a \in Int, a <= MaxModelLen
        PROVE  cdiv(a, BlockSize) <= x
    BY <1>1, <1>2, <1>5, Ceiling
  <1> QED BY <1>1, <1>2, <1>3, <1>4, <1>5 DEF x

\* The least of some numbers.
LEMMA MinThree ==
  ASSUME NEW a \in Int, NEW b \in Int, NEW c \in Int
  PROVE  LET m == Min({a, b, c}) IN
         m \in {a, b, c} /\ m <= a /\ m <= b /\ m <= c
  <1> DEFINE m == CHOOSE x \in {a, b, c} : \A y \in {a, b, c} : x <= y
  <1>1. m \in {a, b, c} /\ \A y \in {a, b, c} : m <= y
    OBVIOUS
  <1>2. Min({a, b, c}) = m
    BY DEF Min
  <1> HIDE DEF m
  <1> QED BY <1>1, <1>2

LEMMA MinTwo ==
  ASSUME NEW a \in Int, NEW b \in Int
  PROVE  LET m == Min({a, b}) IN
         m \in {a, b} /\ m <= a /\ m <= b
  <1> DEFINE m == CHOOSE x \in {a, b} : \A y \in {a, b} : x <= y
  <1>1. m \in {a, b} /\ \A y \in {a, b} : m <= y
    OBVIOUS
  <1>2. Min({a, b}) = m
    BY DEF Min
  <1> HIDE DEF m
  <1> QED BY <1>1, <1>2

-----------------------------------------------------------------------------
(* allocate_slots                                                           *)

\* ListsConcat, with its hypotheses and its conclusions in one formula each.
Joins(q, p, A, B) == Lists(q, A) /\ Lists(p, B) /\ A \cap B = {}
Joined(q, p, A, B) == Lists(q \o p, A \cup B) /\ ToSet(q \o p) = A \cup B
LEMMA ListsJoin ==
  ASSUME NEW q, NEW p, NEW A, NEW B, Joins(q, p, A, B)
  PROVE  Joined(q, p, A, B)
  BY ListsConcat DEF Joins, Joined

\* How many blocks are taken: enough, unless the block table is full.
Counting(X, S, T, L, available, missing) ==
  /\ X \in Int /\ S \in Nat /\ T \in Nat /\ T <= MaxModelLen /\ X - S <= T
  /\ L \in Nat /\ L <= max_num_blocks_per_req /\ available \in Int
  /\ missing \in Int /\ missing = cdiv(X, BlockSize) - L /\ missing <= available
Counted(X, S, T, L, available, missing) ==
  LET new == NumNewBlocks(missing, available, L)
      full == (X - S) \div BlockSize
  IN  /\ new \in Int /\ full \in Int /\ full * BlockSize <= T /\ full * BlockSize <= X - S
      /\ X - S >= 0 => full >= 0
      /\ missing <= 0 => full <= L /\ X <= L * BlockSize
      /\ missing > 0 /\ new <= 0 => full <= L /\ X > MaxModelLen
      /\ missing > 0 /\ new > 0 => /\ new <= available /\ full <= L + new
                                   /\ L + new <= max_num_blocks_per_req
                                   /\ X <= MaxModelLen => X <= (L + new) * BlockSize
LEMMA SlotCount ==
  ASSUME NEW X, NEW S, NEW T, NEW L, NEW available, NEW missing,
         Counting(X, S, T, L, available, missing)
  PROVE  Counted(X, S, T, L, available, missing)
  <1> USE DEF Counting
  <1> DEFINE B == BlockSize
             M == max_num_blocks_per_req
             Q == cdiv(X, B)
             P == Preallocate
             new == NumNewBlocks(missing, available, L)
             full == (X - S) \div B
  <1>1. /\ B \in Nat \ {0} /\ M \in Nat /\ P \in Nat
        /\ \A k \in Int : k * B <= MaxModelLen => k <= M
        /\ X <= MaxModelLen => Q <= M
        /\ MaxModelLen \in Nat
    BY Constants
  <1>2. Q \in Int /\ Q * B \in Int /\ X <= Q * B
    BY <1>1, Ceiling
  <1>3. full \in Int /\ full * B \in Int /\ full * B <= X - S /\ X - S < full * B + B
    <2>1. X - S \in Int
      OBVIOUS
    <2> QED BY <1>1, <2>1, Division
  <1>4. new \in {missing + P, available, M - L} /\ new <= missing + P /\ new <= available /\ new <= M - L
    <2>1. missing + P \in Int /\ available \in Int /\ M - L \in Int
      BY <1>1
    <2>2. new = Min({missing + P, available, M - L})
      BY DEF NumNewBlocks
    <2> HIDE DEF new, P, M
    <2> QED BY <2>1, <2>2, MinThree
  <1>5. missing = Q - L
    OBVIOUS
  <1> HIDE DEF B, M, Q, P, new, full
  <1>6. full * B <= T
    BY <1>3
  <1>7. full <= M
    BY <1>1, <1>3, <1>6
  <1>8. full <= Q
    BY <1>1, <1>2, <1>3, Fewer
  <1>9. X - S >= 0 => full >= 0
    BY <1>1, <1>3, Times
  <1>10. new \in Int
    BY <1>1, <1>4
  <1>11. missing <= 0 => full <= L /\ X <= L * B
    BY <1>1, <1>2, <1>3, <1>5, <1>8, Times
  <1>12. missing > 0 /\ new <= 0 => full <= L /\ X > MaxModelLen
    BY <1>1, <1>2, <1>3, <1>4, <1>5, <1>7
  <1>13. ASSUME missing > 0, new > 0
         PROVE  /\ full <= L + new /\ L + new <= M
                /\ X <= MaxModelLen => X <= (L + new) * B
    <2>1. full <= L + new /\ L + new <= M
      BY <1>1, <1>2, <1>3, <1>4, <1>5, <1>7, <1>8, <1>10
    <2> QED BY <1>1, <1>2, <1>4, <1>5, <1>10, <2>1, Times
  <1> QED BY <1>3, <1>4, <1>6, <1>9, <1>10, <1>11, <1>12, <1>13 DEF B, M, new, full, Counted

\* The number of the computed tokens, with the hits and n more.
Reach(req, hits, n) == req.computed + Len(hits) * BlockSize + n
\* The number of the blocks that are cached already.
Known(req, hits) == IF req.ncached = None THEN Len(hits) ELSE req.ncached

\* What allocate_slots may be asked.
Asked(N, req, hits, n) ==
  /\ req \in RequestType
  /\ req.blocks \in Seq(1 .. N) /\ Lists(req.blocks, ToSet(req.blocks))
  /\ \A b \in ToSet(req.blocks) : pool.ref[b] > 0
  /\ hits \in Seq(1 .. N) /\ Lists(hits, ToSet(hits))
  /\ ToSet(req.blocks) \cap ToSet(hits) = {}
  /\ n \in Nat
  /\ Knowing(req.hashes, req.tokens, BlockSize)
  /\ Known(req, hits) \in Nat
  /\ Len(req.blocks) + Len(hits) <= max_num_blocks_per_req
  /\ Len(req.tokens) <= MaxModelLen
  /\ Reach(req, hits, n) - Len(req.spec) <= Len(req.tokens)
  /\ CanAllocate(req, n, hits)

\* With w new blocks, and these hashes.
Grows(N, req, hits, X, out, w, hashes, blocks, c, full) ==
  /\ pool.ok
  /\ out.pool \in Pools(N) /\ Linked(out.pool) /\ Later(pool, out.pool) /\ Filed(out.pool)
  /\ blocks \in Seq(1 .. N) /\ Lists(blocks, ToSet(blocks))
  /\ Len(blocks) = Len(req.blocks) + Len(hits) + Len(w)
  /\ ToSet(blocks) = ToSet(req.blocks) \cup ToSet(hits) \cup ToSet(w)
  /\ Len(blocks) <= max_num_blocks_per_req /\ full \in 0 .. Len(blocks)
  /\ full * BlockSize <= Len(req.tokens)
  /\ w \in Seq(1 .. N)
  /\ \A b \in ToSet(w) : pool.ref[b] = 0 /\ b \notin ToSet(hits) /\ b \notin ToSet(req.blocks)
  /\ \A b \in 1 .. N :
       out.pool.ref[b] = IF b \in ToSet(w) \cup ToSet(hits) THEN pool.ref[b] + 1 ELSE pool.ref[b]
  /\ out.request = [req EXCEPT !.blocks = blocks, !.hashes = hashes, !.ncached = full]
  /\ Knowing(hashes, req.tokens, BlockSize) /\ Len(hashes) >= Len(req.hashes)
  /\ full # c => Len(hashes) >= full
  /\ \A k \in c + 1 .. full : /\ out.pool.hash[blocks[k]] = SubSeq(req.tokens, 1, k * BlockSize)
                              /\ blocks[k] \in ToSet(w) \/ pool.hash[blocks[k]] = NoHash
  /\ \A b \in 1 .. N : b \notin {blocks[k] : k \in c + 1 .. full} =>
       out.pool.hash[b] = IF b \in ToSet(w) THEN NoHash ELSE pool.hash[b]
  /\ X <= MaxModelLen => X <= Len(blocks) * BlockSize

Grown(N, req, hits, n, out, w, hashes) ==
  Grows(N, req, hits, Reach(req, hits, n), out, w, hashes, req.blocks \o hits \o w,
        Known(req, hits), (Reach(req, hits, n) - Len(req.spec)) \div BlockSize)

\* What the assertions on the way ask for.
Allocatable(req, hits, n) ==
  LET held == req.blocks \o hits
      c == Known(req, hits)
  IN  /\ pool.ok
      /\ Reach(req, hits, n) <= MaxModelLen /\ Reach(req, hits, n) - Len(req.spec) >= 0
      /\ c <= Len(held) /\ Len(req.hashes) >= c
      /\ c > 0 => pool.hash[held[c]] # NoHash
      /\ \A k \in c + 1 .. Len(held) : pool.hash[held[k]] = NoHash

LEMMA AllocateFacts ==
  ASSUME NEW N \in Nat, pool \in Pools(N), Linked(pool), Filed(pool),
         NEW req, NEW hits, NEW n, Asked(N, req, hits, n)
  PROVE  LET out == allocate_slots(req, n, hits) IN
         /\ out.pool.ok => \E w, hashes : Grown(N, req, hits, n, out, w, hashes)
         /\ Allocatable(req, hits, n) => out.pool.ok
  <1> DEFINE touched == touch(pool, hits)
             held == req.blocks \o hits
             missing == Missing(req, n, hits)
             L == Len(held)
             new == NumNewBlocks(missing, touched.num, L)
             got == IF missing <= 0 THEN [pool |-> touched, blocks |-> <<>>]
                    ELSE IF new <= 0 THEN [pool |-> [touched EXCEPT !.ok = FALSE], blocks |-> <<>>]
                    ELSE get_new_blocks(touched, new)
             w == got.blocks
             G == got.pool
             blocks == held \o w
             X == Reach(req, hits, n)
             S == Len(req.spec)
             full == (req.computed + Len(hits) * BlockSize + n - Len(req.spec)) \div BlockSize
             c == Known(req, hits)
             filed == cache_full_blocks(G, blocks, req.hashes, req.tokens, c, full, BlockSize)
             out == allocate_slots(req, n, hits)
  <1>1. /\ out.pool = filed.pool
        /\ out.request = [req EXCEPT !.blocks = blocks, !.hashes = filed.hashes, !.ncached = full]
    BY DEF allocate_slots, Reach, Known
  <1>2. /\ req.blocks \in Seq(1 .. N) /\ hits \in Seq(1 .. N) /\ n \in Nat
        /\ req.tokens \in Words /\ Len(req.tokens) \in Nat /\ S \in Nat /\ req.computed \in Int
        /\ req.hashes \in Seq(Words) /\ c \in Nat /\ Len(req.hashes) \in Nat
        /\ Len(req.blocks) \in Nat /\ Len(hits) \in Nat
    BY DEF Asked, RequestType, Words
  <1>3. /\ held \in Seq(1 .. N) /\ L = Len(req.blocks) + Len(hits)
        /\ Lists(held, ToSet(req.blocks) \cup ToSet(hits))
        /\ ToSet(held) = ToSet(req.blocks) \cup ToSet(hits)
    <2>1. /\ Lists(req.blocks \o hits, ToSet(req.blocks) \cup ToSet(hits))
          /\ ToSet(req.blocks \o hits) = ToSet(req.blocks) \cup ToSet(hits)
      BY ListsJoin, Zenon DEF Joins, Joined, Asked
    <2> QED BY <1>2, <2>1
  <1>4. X \in Int /\ full = (X - S) \div BlockSize /\ missing = cdiv(X, BlockSize) - L /\ missing \in Int
    <2>1. BlockSize \in Nat
      BY Constants
    <2>2. X \in Int
      BY <1>2, <2>1 DEF Reach
    <2>3. full = (X - S) \div BlockSize
      BY <1>2, <2>1 DEF Reach
    <2>4. missing = cdiv(X, BlockSize) - Len(req.blocks) - Len(hits)
      BY DEF Missing, Reach
    <2> HIDE DEF X, missing, L, full
    <2> DEFINE y == cdiv(X, BlockSize)
    <2>5. missing = y - Len(req.blocks) - Len(hits) /\ y \in Int
      BY <2>2, <2>4, Ceiling, Constants
    <2> HIDE DEF y
    <2>6. missing = y - L /\ missing \in Int
      BY <1>2, <1>3, <2>5
    <2> QED BY <2>2, <2>6, <2>3 DEF y
  <1>5. /\ touched \in Pools(N) /\ Linked(touched) /\ Later(pool, touched)
        /\ touched.hash = pool.hash /\ touched.cached = pool.cached /\ touched.ok = pool.ok
        /\ \A b \in 1 .. N : touched.ref[b] = IF b \in ToSet(hits) THEN pool.ref[b] + 1 ELSE pool.ref[b]
        /\ touched.num = pool.num - Cardinality({i \in DOMAIN hits : pool.ref[hits[i]] = 0})
    <2>1. \A i, j \in 1 .. Len(hits) : hits[i] = hits[j] => i = j
      BY ListsFacts DEF Asked
    <2> QED BY <1>2, <2>1, TouchFacts
  <1>6. missing <= touched.num
    BY <1>5 DEF Asked, CanAllocate
  <1>7. /\ touched.num \in Int /\ pool.ref \in [1 .. N -> Nat] /\ pool.hash \in [1 .. N -> Words]
        /\ touched.ref \in [1 .. N -> Nat]
    BY <1>5, PoolFields
  <1>8. /\ new \in Int /\ full \in Int /\ full * BlockSize <= Len(req.tokens) /\ full * BlockSize <= X - S
        /\ X - S >= 0 => full >= 0
        /\ missing <= 0 => full <= L /\ X <= L * BlockSize
        /\ missing > 0 /\ new <= 0 => full <= L /\ X > MaxModelLen
        /\ missing > 0 /\ new > 0 => /\ new <= touched.num /\ full <= L + new
                                     /\ L + new <= max_num_blocks_per_req
                                     /\ X <= MaxModelLen => X <= (L + new) * BlockSize
    <2>1. Len(req.tokens) <= MaxModelLen /\ X - S <= Len(req.tokens) /\ L <= max_num_blocks_per_req
      BY <1>3 DEF Asked
    <2>2. L \in Nat
      BY <1>2, <1>3
    <2> HIDE DEF X, missing, L, S, touched
    <2>3. Counting(X, S, Len(req.tokens), L, touched.num, missing)
      BY <1>2, <1>4, <1>6, <1>7, <2>1, <2>2 DEF Counting
    <2> QED BY <1>4, <2>3, SlotCount DEF Counted
  <1>9. /\ G \in Pools(N) /\ Linked(G) /\ Later(touched, G) /\ Filed(G)
        /\ w \in Seq(1 .. N) /\ Lists(w, ToSet(w))
        /\ \A b \in ToSet(w) : b \in 1 .. N /\ touched.ref[b] = 0
        /\ \A b \in 1 .. N : /\ G.ref[b] = IF b \in ToSet(w) THEN 1 ELSE touched.ref[b]
                             /\ G.hash[b] = IF b \in ToSet(w) THEN NoHash ELSE touched.hash[b]
        /\ G.ok => pool.ok
        /\ pool.ok /\ ~(missing > 0 /\ new <= 0) => G.ok
        /\ Len(w) = IF missing > 0 /\ new > 0 THEN new ELSE 0
    <2>1. Filed(touched)
      BY <1>5, SameFiled
    <2>2. Lists(<<>>, ToSet(<<>>)) /\ ToSet(<<>>) = {} /\ <<>> \in Seq(1 .. N) /\ Len(<<>>) = 0
      BY ListsEmpty
    <2>3. CASE missing <= 0
      BY <1>4, <1>5, <2>1, <2>2, <2>3, SameChain
    <2>4. CASE missing > 0 /\ new <= 0
      <3>1. G = [touched EXCEPT !.ok = FALSE] /\ w = <<>>
        BY <1>4, <2>4
      <3> HIDE DEF w, missing, new, G, touched
      <3>2. /\ G \in Pools(N) /\ G.ref = touched.ref /\ G.hash = touched.hash /\ G.cached = touched.cached
            /\ ~G.ok /\ G.num = touched.num /\ G.head = touched.head /\ G.tail = touched.tail
            /\ G.next = touched.next /\ G.prev = touched.prev
        BY <1>5, <3>1 DEF Pools
      <3>3. Linked(G) /\ Later(touched, G)
        BY <1>5, <3>2, SameChain
      <3>4. Filed(G)
        BY <2>1, <3>2, SameFiled
      <3> QED BY <1>4, <1>8, <2>2, <2>4, <3>1, <3>2, <3>3, <3>4
    <2>5. CASE missing > 0 /\ new > 0
      <3>1. got = get_new_blocks(touched, new)
        BY <1>4, <1>8, <2>5
      <3>2. new \in Nat /\ new <= touched.num /\ touched \in Pools(N) /\ Linked(touched)
        BY <1>5, <1>8, <2>5
      <3> HIDE DEF touched, missing, new, got
      <3>3. /\ G \in Pools(N) /\ Linked(G) /\ Later(touched, G) /\ Filed(G)
            /\ G.ok = touched.ok /\ G.num = touched.num - new
            /\ w \in Seq(1 .. N) /\ Len(w) = new /\ Lists(w, ToSet(w))
            /\ \A b \in ToSet(w) : b \in 1 .. N /\ touched.ref[b] = 0
            /\ \A b \in 1 .. N : /\ G.ref[b] = IF b \in ToSet(w) THEN 1 ELSE touched.ref[b]
                                 /\ G.hash[b] = IF b \in ToSet(w) THEN NoHash ELSE touched.hash[b]
        BY <2>1, <3>1, <3>2, NewBlocksFacts
      <3> HIDE DEF G, w
      <3> QED BY <1>5, <2>5, <3>3
    <2> HIDE DEF touched, missing, new, got
    <2> QED BY <1>4, <1>8, <2>3, <2>4, <2>5
  <1>10. \A b \in ToSet(w) : b \in 1 .. N /\ pool.ref[b] = 0 /\ b \notin ToSet(hits) /\ b \notin ToSet(req.blocks)
    <2> SUFFICES ASSUME NEW b \in ToSet(w)
                 PROVE  b \in 1 .. N /\ pool.ref[b] = 0 /\ b \notin ToSet(hits) /\ b \notin ToSet(req.blocks)
      OBVIOUS
    <2>1. touched.ref[b] = IF b \in ToSet(hits) THEN pool.ref[b] + 1 ELSE pool.ref[b]
      BY <1>5, <1>9
    <2>2. b \notin ToSet(hits) /\ pool.ref[b] = 0
      BY <1>7, <1>9, <2>1
    <2> QED BY <1>9, <2>2 DEF Asked
  <1> HIDE DEF touched, held, missing, new, got, w, G, X, S, L, full, c, filed, out
  <1>11. /\ blocks \in Seq(1 .. N) /\ Lists(blocks, ToSet(blocks))
         /\ Len(blocks) = L + Len(w) /\ Len(w) \in Nat
         /\ ToSet(blocks) = ToSet(req.blocks) \cup ToSet(hits) \cup ToSet(w)
    <2>1. (ToSet(req.blocks) \cup ToSet(hits)) \cap ToSet(w) = {}
      BY <1>10
    <2>2. Lists(held \o w, ToSet(req.blocks) \cup ToSet(hits) \cup ToSet(w))
          /\ ToSet(held \o w) = ToSet(req.blocks) \cup ToSet(hits) \cup ToSet(w)
      <3>1. Joined(held, w, ToSet(req.blocks) \cup ToSet(hits), ToSet(w))
        BY <1>3, <1>9, <2>1, ListsJoin, Zenon DEF Joins
      <3> QED BY <3>1 DEF Joined
    <2>3. held \o w \in Seq(1 .. N) /\ Len(held \o w) = L + Len(w)
      <3>1. held \in Seq(1 .. N) /\ w \in Seq(1 .. N) /\ L = Len(held)
        BY <1>3, <1>9 DEF L
      <3> QED BY <3>1
    <2>4. Len(w) \in Nat
      BY <1>9
    <2> QED BY <2>2, <2>3, <2>4
  <1>12. full <= Len(blocks) /\ Len(blocks) <= max_num_blocks_per_req
         /\ (X <= MaxModelLen => X <= Len(blocks) * BlockSize)
    <2>1. L <= max_num_blocks_per_req /\ L \in Nat
      BY <1>2, <1>3 DEF Asked
    <2>2. CASE missing <= 0
      BY <1>4, <1>8, <1>9, <1>11, <2>1, <2>2
    <2>3. CASE missing > 0 /\ new <= 0
      BY <1>4, <1>8, <1>9, <1>11, <2>1, <2>3, Constants
    <2>4. CASE missing > 0 /\ new > 0
      BY <1>8, <1>9, <1>11, <2>4
    <2> QED BY <1>4, <1>8, <2>2, <2>3, <2>4
  <1>13. /\ filed.pool.ok => /\ full \in Nat
                             /\ Filing(N, G, filed.pool, blocks, req.tokens, c, full, BlockSize)
                             /\ Knowing(filed.hashes, req.tokens, BlockSize)
                             /\ full # c => Len(filed.hashes) >= full
                             /\ Len(filed.hashes) >= Len(req.hashes)
         /\ Fileable(G, blocks, req.hashes, c, full) => filed.pool.ok
    <2>1. \A i, j \in 1 .. Len(blocks) : blocks[i] = blocks[j] => i = j
      BY <1>11, ListsFacts
    <2>2. full \in Int /\ full * BlockSize <= Len(req.tokens) /\ full <= Len(blocks)
      BY <1>8, <1>12
    <2>3. G \in Pools(N) /\ Linked(G) /\ Filed(G) /\ blocks \in Seq(1 .. N)
      BY <1>9, <1>11
    <2> HIDE DEF blocks
    <2> QED BY <1>2, <2>1, <2>2, <2>3, CacheFacts, Constants DEF filed, Asked
  <1>14. filed.pool.ok => \E v, hashes : Grown(N, req, hits, n, out, v, hashes)
    <2> SUFFICES ASSUME filed.pool.ok
                 PROVE  Grown(N, req, hits, n, out, w, filed.hashes)
      OBVIOUS
    <2> DEFINE F == filed.pool
    <2>1. /\ G.ok
          /\ F \in Pools(N) /\ Linked(F) /\ Later(G, F) /\ Filed(F)
          /\ F.ref = G.ref /\ F.num = G.num
          /\ \A k \in c + 1 .. full : /\ G.hash[blocks[k]] = NoHash
                                      /\ F.hash[blocks[k]] = SubSeq(req.tokens, 1, k * BlockSize)
          /\ \A b \in 1 .. N : b \notin {blocks[k] : k \in c + 1 .. full} => F.hash[b] = G.hash[b]
      BY <1>13 DEF F, blocks, Filing
    <2> HIDE DEF F
    <2>2. Later(pool, F)
      BY <1>5, <1>7, <1>9, <2>1, LaterTransitive
    <2>3. \A k \in c + 1 .. full : /\ F.hash[blocks[k]] = SubSeq(req.tokens, 1, k * BlockSize)
                                   /\ blocks[k] \in ToSet(w) \/ pool.hash[blocks[k]] = NoHash
      <3> SUFFICES ASSUME NEW k \in c + 1 .. full
                   PROVE  /\ F.hash[blocks[k]] = SubSeq(req.tokens, 1, k * BlockSize)
                          /\ blocks[k] \in ToSet(w) \/ pool.hash[blocks[k]] = NoHash
        OBVIOUS
      <3>1. k \in 1 .. Len(blocks)
        BY <1>2, <1>11, <1>12, <1>13
      <3>2. blocks[k] \in 1 .. N
        BY <1>11, <3>1
      <3> HIDE DEF blocks
      <3> QED BY <1>5, <1>9, <2>1, <3>2
    <2>4. pool.ok
      BY <1>9, <2>1
    <2>5. out.pool = F
      BY <1>1 DEF F
    <2>6. /\ blocks = req.blocks \o hits \o w
      BY DEF held
    <2>7. full * BlockSize <= Len(req.tokens)
      BY <1>8
    <2> HIDE DEF blocks
    <2>8. /\ out.pool \in Pools(N) /\ Linked(out.pool) /\ Later(pool, out.pool) /\ Filed(out.pool)
          /\ \A b \in 1 .. N :
               out.pool.ref[b] = IF b \in ToSet(w) \cup ToSet(hits) THEN pool.ref[b] + 1 ELSE pool.ref[b]
          /\ \A k \in c + 1 .. full : /\ out.pool.hash[blocks[k]] = SubSeq(req.tokens, 1, k * BlockSize)
                                      /\ blocks[k] \in ToSet(w) \/ pool.hash[blocks[k]] = NoHash
          /\ \A b \in 1 .. N : b \notin {blocks[k] : k \in c + 1 .. full} =>
               out.pool.hash[b] = IF b \in ToSet(w) THEN NoHash ELSE pool.hash[b]
      BY <1>5, <1>9, <1>10, <2>1, <2>2, <2>3, <2>5
    <2>9. /\ blocks \in Seq(1 .. N) /\ Lists(blocks, ToSet(blocks))
          /\ Len(blocks) = Len(req.blocks) + Len(hits) + Len(w)
          /\ ToSet(blocks) = ToSet(req.blocks) \cup ToSet(hits) \cup ToSet(w)
          /\ Len(blocks) <= max_num_blocks_per_req /\ full \in 0 .. Len(blocks)
          /\ full * BlockSize <= Len(req.tokens)
          /\ w \in Seq(1 .. N)
          /\ \A b \in ToSet(w) : pool.ref[b] = 0 /\ b \notin ToSet(hits) /\ b \notin ToSet(req.blocks)
      BY <1>3, <1>9, <1>10, <1>11, <1>12, <1>13, <2>7 DEF blocks
    <2>10. /\ out.request = [req EXCEPT !.blocks = blocks, !.hashes = filed.hashes, !.ncached = full]
           /\ X <= MaxModelLen => X <= Len(blocks) * BlockSize
      BY <1>1, <1>12 DEF blocks
    <2>11. Grown(N, req, hits, n, out, w, filed.hashes)
      <3> HIDE DEF Pools
      <3>1. Grows(N, req, hits, X, out, w, filed.hashes, blocks, c, full)
        BY <1>13, <2>4, <2>8, <2>9, <2>10 DEF Grows
      <3> HIDE DEF X, full, c
      <3> QED BY <1>4, <2>6, <3>1, Zenon DEF Grown, c, X, S
    <2> QED BY <2>11
  <1>15. ASSUME Allocatable(req, hits, n)
         PROVE  filed.pool.ok
    <2>1. /\ pool.ok /\ X <= MaxModelLen /\ X - S >= 0
          /\ c <= Len(held) /\ Len(req.hashes) >= c
          /\ c > 0 => pool.hash[held[c]] # NoHash
          /\ \A k \in c + 1 .. Len(held) : pool.hash[held[k]] = NoHash
      BY <1>15 DEF Allocatable, X, S, c, held
    <2>2. G.ok
      BY <1>4, <1>8, <1>9, <2>1, Constants
    <2>3. full >= 0
      BY <1>8, <2>1
    <2>4. \A k \in 1 .. L : blocks[k] = held[k] /\ held[k] \in 1 .. N /\ held[k] \notin ToSet(w)
      <3>1. \A k \in 1 .. L : blocks[k] = held[k] /\ held[k] \in 1 .. N /\ held[k] \in ToSet(held)
        <4>1. held \in Seq(1 .. N) /\ w \in Seq(1 .. N) /\ L = Len(held)
          BY <1>3, <1>9 DEF L
        <4> QED BY <4>1 DEF ToSet
      <3> QED BY <1>3, <1>10, <3>1
    <2>5. c > 0 => G.hash[blocks[c]] # NoHash
      <3> SUFFICES ASSUME c > 0
                   PROVE  G.hash[blocks[c]] # NoHash
        OBVIOUS
      <3>1. c \in 1 .. L
        BY <1>2, <1>3, <2>1 DEF L
      <3> QED BY <1>5, <1>9, <2>1, <2>4, <3>1
    <2>6. ASSUME NEW k \in c + 1 .. full
          PROVE  G.hash[blocks[k]] = NoHash
      <3>1. k \in Nat /\ k > c /\ k <= L + Len(w) /\ L \in Nat
        BY <1>2, <1>3, <1>8, <1>11, <1>12, SMTT(20)
      <3>2. CASE k <= L
        <4>1. G.hash[held[k]] = pool.hash[held[k]]
          BY <1>2, <1>5, <1>9, <2>4, <3>1, <3>2 DEF L
        <4> QED BY <1>2, <2>1, <2>4, <3>1, <3>2, <4>1 DEF L
      <3>3. CASE k > L
        <4>1. blocks[k] = w[k - L]
          <5>1. held \in Seq(1 .. N) /\ w \in Seq(1 .. N) /\ L = Len(held)
            BY <1>3, <1>9 DEF L
          <5> QED BY <3>1, <3>3, <5>1
        <4>2. w[k - L] \in ToSet(w)
          BY <1>9, <1>11, <3>1, <3>3 DEF ToSet
        <4> QED BY <1>9, <4>1, <4>2
      <3>4. k <= L \/ k > L
        BY <3>1
      <3> QED BY <3>2, <3>3, <3>4
    <2> QED BY <1>13, <2>1, <2>2, <2>3, <2>5, <2>6 DEF Fileable
  <1> QED BY <1>1, <1>14, <1>15 DEF out

-----------------------------------------------------------------------------
(* More loops.                                                              *)

\* Slots: one input after the other.
LEMMA SlotsFunction ==
  ASSUME NEW r, NEW inputs, Len(Images[r]) \in Nat
  PROVE  \E f : /\ f[0] = 0
                /\ \A i \in 1 .. Len(Images[r]) : f[i] = f[i - 1] + (IF i \in inputs THEN Length(r, i) ELSE 0)
                /\ Slots(r, inputs) = f[Len(Images[r])]
  <1> DEFINE N == Len(Images[r])
             Body(f, m) == [i \in 0 .. m |-> IF i = 0 THEN 0
                                             ELSE f[i - 1] + (IF i \in inputs THEN Length(r, i) ELSE 0)]
             G == {m \in 0 .. N : \E f : f = Body(f, m)}
  <1>1. N \in Nat
    OBVIOUS
  <1>2. 0 \in G
    <2> DEFINE f == [i \in 0 .. 0 |-> 0]
    <2>1. f = Body(f, 0)
      OBVIOUS
    <2>2. 0 \in 0 .. N
      BY <1>1
    <2> HIDE DEF f, N
    <2> QED BY <2>1, <2>2
  <1>3. ASSUME NEW m \in 1 .. N, m - 1 \in G
        PROVE  m \in G
    <2> HIDE DEF N
    <2>1. PICK f : f = Body(f, m - 1)
      BY <1>3
    <2> DEFINE g == [i \in 0 .. m |-> IF i = m THEN f[m - 1] + (IF m \in inputs THEN Length(r, m) ELSE 0) ELSE f[i]]
    <2>2. \A i \in 0 .. m - 1 : f[i] = IF i = 0 THEN 0
                                      ELSE f[i - 1] + (IF i \in inputs THEN Length(r, i) ELSE 0)
      BY <2>1
    <2>3. /\ g = [i \in 0 .. m |-> g[i]] /\ \A i \in 0 .. m - 1 : g[i] = f[i]
          /\ g[m] = f[m - 1] + (IF m \in inputs THEN Length(r, m) ELSE 0)
      BY <1>1
    <2> HIDE DEF g
    <2>4. ASSUME NEW i \in 0 .. m
          PROVE  g[i] = IF i = 0 THEN 0 ELSE g[i - 1] + (IF i \in inputs THEN Length(r, i) ELSE 0)
      <3>1. CASE i = m
        BY <1>1, <2>3, <3>1
      <3>2. CASE i # m
        BY <1>1, <2>2, <2>3, <3>2
      <3> QED BY <3>1, <3>2
    <2>5. g = Body(g, m)
      BY <2>3, <2>4
    <2> QED BY <1>1, <2>5, SMTT(20)
  <1>4. N \in G
    <2> HIDE DEF G, N
    <2>1. \A i \in 0 .. N : i \in G
      BY <1>1, <1>2, <1>3, IndexInduction
    <2> QED BY <1>1, <2>1
  <1> DEFINE h == CHOOSE f : f = Body(f, N)
  <1>5. \E f : f = Body(f, N)
    BY <1>4
  <1>6. h = Body(h, N)
    BY <1>5
  <1>7. Slots(r, inputs) = h[N]
    BY DEF Slots
  <1> HIDE DEF h
  <1>8. h[0] = 0 /\ \A i \in 1 .. N : h[i] = h[i - 1] + (IF i \in inputs THEN Length(r, i) ELSE 0)
    BY <1>1, <1>6
  <1> QED BY <1>7, <1>8

\* FreeEncoderInputs: one request after the other.
LEMMA EncoderFunction ==
  ASSUME NEW rs, NEW inputs, Len(rs) \in Nat
  PROVE  \E f : /\ f[0] = encoder
                /\ \A i \in 1 .. Len(rs) : f[i] = free_encoder_inputs(f[i - 1], rs[i], inputs[rs[i]])
                /\ FreeEncoderInputs(rs, inputs) = f[Len(rs)]
  <1> DEFINE N == Len(rs)
             Body(f, m) == [i \in 0 .. m |-> IF i = 0 THEN encoder
                                             ELSE free_encoder_inputs(f[i - 1], rs[i], inputs[rs[i]])]
             G == {m \in 0 .. N : \E f : f = Body(f, m)}
  <1>1. N \in Nat
    OBVIOUS
  <1>2. 0 \in G
    <2> DEFINE f == [i \in 0 .. 0 |-> encoder]
    <2>1. f = Body(f, 0)
      OBVIOUS
    <2>2. 0 \in 0 .. N
      BY <1>1
    <2> HIDE DEF f, N
    <2> QED BY <2>1, <2>2
  <1>3. ASSUME NEW m \in 1 .. N, m - 1 \in G
        PROVE  m \in G
    <2> HIDE DEF N
    <2>1. PICK f : f = Body(f, m - 1)
      BY <1>3
    <2> DEFINE g == [i \in 0 .. m |-> IF i = m THEN free_encoder_inputs(f[m - 1], rs[m], inputs[rs[m]]) ELSE f[i]]
    <2>2. /\ g = [i \in 0 .. m |-> g[i]] /\ \A i \in 0 .. m - 1 : g[i] = f[i]
          /\ g[m] = free_encoder_inputs(f[m - 1], rs[m], inputs[rs[m]])
      BY <1>1
    <2> HIDE DEF g
    <2>3. ASSUME NEW i \in 0 .. m
          PROVE  g[i] = IF i = 0 THEN encoder ELSE free_encoder_inputs(g[i - 1], rs[i], inputs[rs[i]])
      <3>1. CASE i = m
        <4>1. m - 1 \in 0 .. m - 1 /\ m # 0
          BY <1>1
        <4> QED BY <2>2, <3>1, <4>1
      <3>2. CASE i # m
        <4>1. i \in 0 .. m - 1 /\ (i # 0 => i - 1 \in 0 .. m - 1)
          BY <3>2, <1>1
        <4> QED BY <2>1, <2>2, <4>1
      <3> QED BY <3>1, <3>2
    <2>4. g = Body(g, m)
      BY <2>2, <2>3
    <2> QED BY <1>1, <2>4, SMTT(20)
  <1>4. N \in G
    <2> HIDE DEF G, N
    <2> QED BY <1>1, <1>2, <1>3, IndexInduction
  <1> DEFINE h == CHOOSE f : f = Body(f, N)
  <1>5. \E f : f = Body(f, N)
    BY <1>4
  <1>6. h = Body(h, N)
    BY <1>5
  <1>7. FreeEncoderInputs(rs, inputs) = h[N]
    BY DEF FreeEncoderInputs
  <1> HIDE DEF h
  <1>8. h[0] = encoder /\ \A i \in 1 .. N : h[i] = free_encoder_inputs(h[i - 1], rs[i], inputs[rs[i]])
    BY <1>1, <1>6
  <1> QED BY <1>7, <1>8

\* _try_schedule_encoder_inputs: one input after the other.
LEMMA TryFunction ==
  ASSUME NEW r, NEW computed, NEW n, Len(Images[r]) \in Nat
  PROVE  \E f : /\ f[0] = [inputs |-> {}, n |-> n, budget |-> pass.encoder, done |-> FALSE]
                /\ \A i \in 1 .. Len(Images[r]) : f[i] = Consider(f[i - 1], r, i, computed, n)
                /\ _try_schedule_encoder_inputs(r, computed, n) = f[Len(Images[r])]
  <1> DEFINE N == Len(Images[r])
             Body(f, m) == [i \in 0 .. m |-> IF i = 0 THEN [inputs |-> {}, n |-> n, budget |-> pass.encoder, done |-> FALSE]
                                             ELSE Consider(f[i - 1], r, i, computed, n)]
             G == {m \in 0 .. N : \E f : f = Body(f, m)}
  <1>1. N \in Nat
    OBVIOUS
  <1>2. 0 \in G
    <2> DEFINE f == [i \in 0 .. 0 |-> [inputs |-> {}, n |-> n, budget |-> pass.encoder, done |-> FALSE]]
    <2>1. f = Body(f, 0)
      OBVIOUS
    <2>2. 0 \in 0 .. N
      BY <1>1
    <2> HIDE DEF f, N
    <2> QED BY <2>1, <2>2
  <1>3. ASSUME NEW m \in 1 .. N, m - 1 \in G
        PROVE  m \in G
    <2> HIDE DEF N
    <2>1. PICK f : f = Body(f, m - 1)
      BY <1>3
    <2> DEFINE g == [i \in 0 .. m |-> IF i = m THEN Consider(f[m - 1], r, m, computed, n) ELSE f[i]]
    <2>2. /\ g = [i \in 0 .. m |-> g[i]] /\ \A i \in 0 .. m - 1 : g[i] = f[i]
          /\ g[m] = Consider(f[m - 1], r, m, computed, n)
      BY <1>1
    <2> HIDE DEF g
    <2>3. ASSUME NEW i \in 0 .. m
          PROVE  g[i] = IF i = 0 THEN [inputs |-> {}, n |-> n, budget |-> pass.encoder, done |-> FALSE] ELSE Consider(g[i - 1], r, i, computed, n)
      <3>1. CASE i = m
        BY <1>1, <2>2, <3>1
      <3>2. CASE i # m
        BY <1>1, <2>1, <2>2, <3>2
      <3> QED BY <3>1, <3>2
    <2>4. g = Body(g, m)
      BY <2>2, <2>3
    <2> QED BY <1>1, <2>4, SMTT(20)
  <1>4. N \in G
    <2> HIDE DEF G, N
    <2>1. \A i \in 0 .. N : i \in G
      BY <1>1, <1>2, <1>3, IndexInduction
    <2> QED BY <1>1, <2>1
  <1> DEFINE h == CHOOSE f : f = Body(f, N)
  <1>5. \E f : f = Body(f, N)
    BY <1>4
  <1>6. h = Body(h, N)
    BY <1>5
  <1>7. _try_schedule_encoder_inputs(r, computed, n) = h[N]
    BY DEF _try_schedule_encoder_inputs
  <1> HIDE DEF h
  <1>8. h[0] = [inputs |-> {}, n |-> n, budget |-> pass.encoder, done |-> FALSE] /\ \A i \in 1 .. N : h[i] = Consider(h[i - 1], r, i, computed, n)
    <2> DEFINE z == [inputs |-> {}, n |-> n, budget |-> pass.encoder, done |-> FALSE]
    <2>1. h = [i \in 0 .. N |-> IF i = 0 THEN z ELSE Consider(h[i - 1], r, i, computed, n)]
      BY <1>6
    <2> HIDE DEF z
    <2>2. h[0] = z /\ \A i \in 1 .. N : h[i] = Consider(h[i - 1], r, i, computed, n)
      BY <1>1, <2>1
    <2> QED BY <2>2 DEF z
  <1> QED BY <1>7, <1>8

\* FreeRequests: one request after the other.
LEMMA FinishFunction ==
  ASSUME NEW p, NEW rs, Len(rs) \in Nat
  PROVE  \E f : /\ f[0] = p
                /\ \A i \in 1 .. Len(rs) : f[i] = free(f[i - 1], rs[i])
                /\ FreeRequests(p, rs) = f[Len(rs)]
  <1> DEFINE N == Len(rs)
             Body(f, m) == [i \in 0 .. m |-> IF i = 0 THEN p
                                             ELSE free(f[i - 1], rs[i])]
             G == {m \in 0 .. N : \E f : f = Body(f, m)}
  <1>1. N \in Nat
    OBVIOUS
  <1>2. 0 \in G
    <2> DEFINE f == [i \in 0 .. 0 |-> p]
    <2>1. f = Body(f, 0)
      OBVIOUS
    <2>2. 0 \in 0 .. N
      BY <1>1
    <2> HIDE DEF f, N
    <2> QED BY <2>1, <2>2
  <1>3. ASSUME NEW m \in 1 .. N, m - 1 \in G
        PROVE  m \in G
    <2> HIDE DEF N
    <2>1. PICK f : f = Body(f, m - 1)
      BY <1>3
    <2> DEFINE g == [i \in 0 .. m |-> IF i = m THEN free(f[m - 1], rs[m]) ELSE f[i]]
    <2>2. /\ g = [i \in 0 .. m |-> g[i]] /\ \A i \in 0 .. m - 1 : g[i] = f[i]
          /\ g[m] = free(f[m - 1], rs[m])
      BY <1>1
    <2> HIDE DEF g
    <2>3. ASSUME NEW i \in 0 .. m
          PROVE  g[i] = IF i = 0 THEN p ELSE free(g[i - 1], rs[i])
      <3>1. CASE i = m
        <4>1. g[m - 1] = f[m - 1]
          BY <1>1, <2>2
        <4> QED BY <1>1, <2>2, <3>1, <4>1
      <3>2. CASE i # m
        <4>1. i \in 0 .. m - 1 /\ (i # 0 => i - 1 \in 0 .. m - 1)
          BY <3>2, <1>1
        <4> QED BY <2>1, <2>2, <4>1
      <3> QED BY <3>1, <3>2
    <2>4. g = Body(g, m)
      BY <2>2, <2>3
    <2> QED BY <1>1, <2>4, SMTT(20)
  <1>4. N \in G
    <2> HIDE DEF G, N
    <2> QED BY <1>1, <1>2, <1>3, IndexInduction
  <1> DEFINE h == CHOOSE f : f = Body(f, N)
  <1>5. \E f : f = Body(f, N)
    BY <1>4
  <1>6. h = Body(h, N)
    BY <1>5
  <1>7. FreeRequests(p, rs) = h[N]
    BY DEF FreeRequests
  <1> HIDE DEF h
  <1> QED BY <1>1, <1>6, <1>7

-----------------------------------------------------------------------------
(* Least and greatest elements.                                             *)

\* Every non-empty set of naturals has a least element.
LEMMA LeastNatural ==
  ASSUME NEW S \in SUBSET Nat, S # {}
  PROVE  \E m \in S : \A k \in S : m <= k
  <1>1. PICK m \in S : \A k \in S : <<k, m>> \notin OpToRel(<, Nat)
    BY WFMin, NatLessThanWellFounded
  <1>2. \A k \in S : ~ (k < m)
    BY <1>1 DEF OpToRel
  <1> QED BY <1>2

\* Every finite non-empty set has an element that comes first in a total preorder.
LEMMA FirstInPreorder ==
  ASSUME NEW S, IsFiniteSet(S), S # {}, NEW R,
         \A x, y \in S : <<x, y>> \in R \/ <<y, x>> \in R,
         \A x, y, z \in S : <<x, y>> \in R /\ <<y, z>> \in R => <<x, z>> \in R
  PROVE  \E x \in S : \A y \in S : <<x, y>> \in R
  <1> DEFINE First(T, x) == \A y \in T : <<x, y>> \in R
             Bad == {T \in SUBSET S : T # {} /\ ~ \E x \in T : First(T, x)}
             Sizes == {Cardinality(T) : T \in Bad}
  <1> SUFFICES ASSUME S \in Bad
               PROVE  FALSE
    OBVIOUS
  <1>1. Sizes \in SUBSET Nat /\ Sizes # {}
    BY FS_Subset, FS_CardinalityType
  <1>2. PICK m \in Sizes : \A k \in Sizes : m <= k
    BY <1>1, LeastNatural
  <1>3. PICK T \in Bad : Cardinality(T) = m
    BY <1>2
  <1>4. PICK t : t \in T
    BY <1>3
  <1> DEFINE U == T \ {t}
  <1>5. IsFiniteSet(T) /\ Cardinality(U) = Cardinality(T) - 1 /\ Cardinality(T) \in Nat
    BY <1>3, <1>4, FS_RemoveElement, FS_Subset, FS_CardinalityType
  <1>6. U \notin Bad
    <2>1. SUFFICES ASSUME U \in Bad
                   PROVE  FALSE
      OBVIOUS
    <2>2. Cardinality(U) \in Sizes
      BY <2>1
    <2>3. m <= Cardinality(U)
      BY <1>2, <2>2
    <2> QED BY <1>3, <1>5, <2>3
  <1>7. CASE U = {}
    BY <1>3, <1>4, <1>7
  <1>8. CASE U # {}
    BY <1>3, <1>4, <1>6, <1>8
  <1> QED BY <1>7, <1>8

\* Min finds the least element of a finite non-empty set of integers.
LEMMA MinExists ==
  ASSUME NEW S \in SUBSET Int, IsFiniteSet(S), S # {}
  PROVE  Min(S) \in S /\ \A y \in S : Min(S) <= y
  <1> DEFINE R == {p \in Int \X Int : p[1] <= p[2]}
  <1>1. \A x, y \in S : <<x, y>> \in R <=> x <= y
    OBVIOUS
  <1>2. \E x \in S : \A y \in S : <<x, y>> \in R
    <2> HIDE DEF R
    <2>1. ASSUME NEW x \in S, NEW y \in S
          PROVE  <<x, y>> \in R \/ <<y, x>> \in R
      BY <1>1
    <2>2. ASSUME NEW x \in S, NEW y \in S, NEW z \in S, <<x, y>> \in R, <<y, z>> \in R
          PROVE  <<x, z>> \in R
      BY <1>1, <2>2
    <2> QED BY <2>1, <2>2, FirstInPreorder
  <1> QED BY <1>1, <1>2 DEF Min

\* Max finds the greatest element of a finite non-empty set of integers.
LEMMA MaxExists ==
  ASSUME NEW S \in SUBSET Int, IsFiniteSet(S), S # {}
  PROVE  Max(S) \in S /\ \A y \in S : Max(S) >= y
  <1> DEFINE R == {p \in Int \X Int : p[1] >= p[2]}
  <1>1. \A x, y \in S : <<x, y>> \in R <=> x >= y
    OBVIOUS
  <1>2. \E x \in S : \A y \in S : <<x, y>> \in R
    <2> HIDE DEF R
    <2>1. ASSUME NEW x \in S, NEW y \in S
          PROVE  <<x, y>> \in R \/ <<y, x>> \in R
      BY <1>1
    <2>2. ASSUME NEW x \in S, NEW y \in S, NEW z \in S, <<x, y>> \in R, <<y, z>> \in R
          PROVE  <<x, z>> \in R
      BY <1>1, <2>2
    <2> QED BY <2>1, <2>2, FirstInPreorder
  <1> QED BY <1>1, <1>2 DEF Max

\* The members of a sequence.
LEMMA MemberOf ==
  ASSUME NEW S, NEW q \in Seq(S)
  PROVE  \A i \in 1 .. Len(q) : q[i] \in S
  OBVIOUS

\* The inputs of a request.
LEMMA ImageFacts ==
  ASSUME NEW r \in Requests
  PROVE  /\ Len(Images[r]) \in Nat /\ DOMAIN Images[r] = 1 .. Len(Images[r])
         /\ \A i \in 1 .. Len(Images[r]) : /\ Images[r][i].offset \in Nat
                                           /\ Length(r, i) \in Nat
  <1>1. Images[r] \in Seq([offset : Nat, length : Nat \ {0}])
    BY SchedulerAssumption
  <1>2. \A i \in 1 .. Len(Images[r]) : Images[r][i] \in [offset : Nat, length : Nat \ {0}]
    BY <1>1, MemberOf
  <1> QED BY <1>1, <1>2 DEF Length

\* The encoder cache has a size.
LEMMA CacheSize ==
  ASSUME mode \in Modes
  PROVE  encoder_cache_size \in Int
  <1> DEFINE Sizes(r) == {Length(r, i) : i \in DOMAIN Images[r]}
             F == [r \in Requests |-> Sizes(r)]
             All == {Sizes(r) : r \in Requests}
             S == {mode.budget} \cup UNION All
  <1>1. mode.budget \in Nat
    BY MemoryAssumption
  <1>2. ASSUME NEW r \in Requests
        PROVE  Sizes(r) \subseteq Nat /\ IsFiniteSet(Sizes(r))
    <2>1. DOMAIN Images[r] = 1 .. Len(Images[r]) /\ Len(Images[r]) \in Nat
      BY SchedulerAssumption
    <2> DEFINE g == [i \in 1 .. Len(Images[r]) |-> Length(r, i)]
    <2>2. g \in Surjection(1 .. Len(Images[r]), Sizes(r))
      BY <2>1 DEF Surjection
    <2>3. IsFiniteSet(Sizes(r))
      BY <2>1, <2>2, FS_Surjection, FS_Interval
    <2> QED BY <2>3, ImageFacts DEF Length
  <1>3. IsFiniteSet(All)
    <2>1. IsFiniteSet(Requests)
      BY SchedulerAssumption
    <2>2. F \in Surjection(Requests, All)
      BY DEF Surjection
    <2> HIDE DEF F, All
    <2> QED BY <2>1, <2>2, FS_Surjection
  <1>4. IsFiniteSet(UNION All)
    BY <1>2, <1>3, FS_UNION
  <1>5. IsFiniteSet({mode.budget})
    BY FS_Singleton
  <1>6. IsFiniteSet(S) /\ S # {}
    BY <1>4, <1>5, FS_Union
  <1>7. S \in SUBSET Int
    <2> HIDE DEF Sizes
    <2> QED BY <1>1, <1>2
  <1>8. encoder_cache_size = Max(S)
    BY DEF encoder_cache_size
  <1> HIDE DEF S
  <1>9. Max(S) \in S
    BY <1>6, <1>7, MaxExists
  <1> QED BY <1>7, <1>8, <1>9

\* The slots of some inputs.
LEMMA SlotsFacts ==
  ASSUME NEW r \in Requests, NEW inputs
  PROVE  Slots(r, inputs) \in Int
  <1> DEFINE N == Len(Images[r])
  <1>1. N \in Nat /\ \A i \in 1 .. N : Length(r, i) \in Nat
    BY ImageFacts
  <1>2. PICK f : /\ f[0] = 0
                 /\ \A i \in 1 .. Len(Images[r]) : f[i] = f[i - 1] + (IF i \in inputs THEN Length(r, i) ELSE 0)
                 /\ Slots(r, inputs) = f[Len(Images[r])]
    BY <1>1, SlotsFunction
  <1> DEFINE G == {i \in 0 .. N : f[i] \in Int}
  <1>3. 0 \in G
    BY <1>1, <1>2
  <1>4. ASSUME NEW i \in 1 .. N, i - 1 \in G
        PROVE  i \in G
    BY <1>1, <1>2, <1>4
  <1>5. N \in G
    <2> HIDE DEF G, N
    <2> QED BY <1>1, <1>3, <1>4, IndexInduction
  <1> QED BY <1>2, <1>5

\* Some inputs of a request leave the encoder cache.
FreedInputs(enc, r, inputs, s) ==
  s \in Encoders /\ s.cached = [enc.cached EXCEPT ![r] = enc.cached[r] \ inputs]
LEMMA FreeStep ==
  ASSUME NEW enc, enc \in Encoders, NEW r \in Requests, NEW inputs, inputs \in SUBSET Nat
  PROVE  FreedInputs(enc, r, inputs, free_encoder_inputs(enc, r, inputs))
  <1> DEFINE C == enc.cached
             Z == enc.slots
             S == Slots(r, inputs)
             J == inputs
             D == [C EXCEPT ![r] = C[r] \ J]
             u == [enc EXCEPT !.cached[r] = @ \ J]
             s == free_encoder_inputs(enc, r, inputs)
  <1>1. S \in Int
    BY SlotsFacts
  <1>2. C \in [Requests -> SUBSET Nat] /\ Z \in Int /\ enc = [cached |-> C, slots |-> Z]
    BY DEF Encoders
  <1>3. D \in [Requests -> SUBSET Nat]
    BY <1>2
  <1>4. u = [cached |-> D, slots |-> Z]
    BY <1>2
  <1>5. s = [u EXCEPT !.slots = @ + S]
    BY DEF free_encoder_inputs
  <1> HIDE DEF C, Z, S, D, u, s
  <1>6. [u EXCEPT !.slots = @ + S] = [cached |-> D, slots |-> Z + S]
    BY <1>4
  <1>7. Z + S \in Int
    BY <1>1, <1>2
  <1>8. s \in Encoders /\ s.cached = D
    BY <1>3, <1>5, <1>6, <1>7 DEF Encoders
  <1> QED BY <1>8 DEF s, D, C, FreedInputs

\* Some inputs of a request enter the encoder cache.
TakenInputs(enc, r, inputs, s) ==
  s \in Encoders /\ s.cached = [enc.cached EXCEPT ![r] = enc.cached[r] \cup inputs]
LEMMA TakeStep ==
  ASSUME encoder \in Encoders, NEW r \in Requests, NEW inputs, inputs \in SUBSET Nat
  PROVE  TakenInputs(encoder, r, inputs, allocate(r, inputs))
  <1> DEFINE C == encoder.cached
             Z == encoder.slots
             S == Slots(r, inputs)
             J == inputs
             D == [C EXCEPT ![r] = C[r] \cup J]
             u == [encoder EXCEPT !.cached[r] = @ \cup J]
             s == allocate(r, inputs)
  <1>1. S \in Int
    BY SlotsFacts
  <1>2. C \in [Requests -> SUBSET Nat] /\ Z \in Int /\ encoder = [cached |-> C, slots |-> Z]
    BY DEF Encoders
  <1>3. D \in [Requests -> SUBSET Nat]
    BY <1>2
  <1>4. u = [cached |-> D, slots |-> Z]
    <2>1. u = [encoder EXCEPT !.cached = D]
      BY Zenon
    <2> HIDE DEF D, C, Z, u
    <2> QED BY <1>2, <2>1
  <1>5. s = [u EXCEPT !.slots = @ - S]
    BY DEF allocate
  <1> HIDE DEF C, Z, S, D, u, s
  <1>6. [u EXCEPT !.slots = @ - S] = [cached |-> D, slots |-> Z - S]
    BY <1>4
  <1>7. Z - S \in Int
    BY <1>1, <1>2
  <1>8. s \in Encoders /\ s.cached = D
    BY <1>3, <1>5, <1>6, <1>7 DEF Encoders
  <1> QED BY <1>8 DEF s, D, C, TakenInputs

\* Freeing inputs of several requests only takes from what each of them has.
LEMMA EncoderFacts ==
  ASSUME encoder \in Encoders, NEW rs \in Seq(Requests), NEW inputs,
         \A i \in 1 .. Len(rs) : inputs[rs[i]] \in SUBSET Nat
  PROVE  /\ FreeEncoderInputs(rs, inputs) \in Encoders
         /\ \A r \in Requests : FreeEncoderInputs(rs, inputs).cached[r] \subseteq encoder.cached[r]
  <1> DEFINE N == Len(rs)
             Good(e) == e \in Encoders /\ \A r \in Requests : e.cached[r] \subseteq encoder.cached[r]
  <1>1. N \in Nat /\ \A i \in 1 .. N : rs[i] \in Requests
    OBVIOUS
  <1>2. PICK f : /\ f[0] = encoder
                 /\ \A i \in 1 .. Len(rs) : f[i] = free_encoder_inputs(f[i - 1], rs[i], inputs[rs[i]])
                 /\ FreeEncoderInputs(rs, inputs) = f[Len(rs)]
    BY <1>1, EncoderFunction
  <1> DEFINE G == {i \in 0 .. N : Good(f[i])}
  <1>3. 0 \in G
    BY <1>1, <1>2
  <1>4. ASSUME NEW i \in 1 .. N, i - 1 \in G
        PROVE  i \in G
    <2> DEFINE e == f[i - 1]
               r == rs[i]
               I == inputs[rs[i]]
    <2>1. e \in Encoders /\ (\A s \in Requests : e.cached[s] \subseteq encoder.cached[s]) /\ r \in Requests /\ I \in SUBSET Nat
      BY <1>1, <1>4
    <2>2. f[i] = free_encoder_inputs(e, r, I)
      BY <1>2
    <2> HIDE DEF e, r, I
    <2>3. f[i] \in Encoders /\ f[i].cached = [e.cached EXCEPT ![r] = e.cached[r] \ I]
      <3>1. FreedInputs(e, r, I, free_encoder_inputs(e, r, I))
        BY <2>1, FreeStep
      <3> QED BY <2>2, <3>1 DEF FreedInputs
    <2>4. Good(f[i])
      BY <2>1, <2>3 DEF Encoders
    <2> HIDE DEF Good
    <2> QED BY <2>4
  <1>5. N \in G
    <2> HIDE DEF G, N
    <2>1. \A i \in 0 .. N : i \in G
      BY <1>1, <1>3, <1>4, IndexInduction
    <2> QED BY <1>1, <2>1
  <1> QED BY <1>2, <1>5

\* The tokens that the encoder allows are some of the n that are wanted.
LEMMA TryFacts ==
  ASSUME NEW r \in Requests, NEW computed \in Int, NEW n \in Nat, pass.encoder \in Int
  PROVE  LET try == _try_schedule_encoder_inputs(r, computed, n) IN
         try.n \in 0 .. n /\ try.inputs \subseteq DOMAIN Images[r] /\ try.budget \in Int
  <1> DEFINE N == Len(Images[r])
             Tries == [inputs : SUBSET (1 .. N), n : 0 .. n, budget : Int, done : BOOLEAN]
  <1>1. N \in Nat /\ DOMAIN Images[r] = 1 .. N
        /\ \A i \in 1 .. N : Images[r][i].offset \in Nat /\ Length(r, i) \in Nat
    BY ImageFacts
  <1>2. PICK f : /\ f[0] = [inputs |-> {}, n |-> n, budget |-> pass.encoder, done |-> FALSE]
                 /\ \A i \in 1 .. Len(Images[r]) : f[i] = Consider(f[i - 1], r, i, computed, n)
                 /\ _try_schedule_encoder_inputs(r, computed, n) = f[Len(Images[r])]
    BY <1>1, TryFunction
  <1> DEFINE G == {i \in 0 .. N : f[i] \in Tries}
  <1>3. 0 \in G
    <2>1. [inputs |-> {}, n |-> n, budget |-> pass.encoder, done |-> FALSE] \in Tries
      OBVIOUS
    <2> HIDE DEF Tries
    <2> QED BY <1>1, <1>2, <2>1
  <1>4. ASSUME NEW i \in 1 .. N, i - 1 \in G
        PROVE  i \in G
    <2> DEFINE acc == f[i - 1]
               start == Images[r][i].offset
               len == Length(r, i)
               m == IF computed < start THEN start - computed ELSE 0
    <2>1. acc \in Tries
      BY <1>4
    <2>2. f[i] = Consider(acc, r, i, computed, n) /\ start \in Nat /\ len \in Nat
      BY <1>1, <1>2
    <2>3. /\ Consider(acc, r, i, computed, n) \in {acc, [acc EXCEPT !.done = TRUE], [acc EXCEPT !.done = TRUE, !.n = m],
                  [acc EXCEPT !.budget = @ - len, !.inputs = @ \cup {i}]}
          /\ ~ (start < computed + n) => Consider(acc, r, i, computed, n) = [acc EXCEPT !.done = TRUE]
      BY <2>2 DEF Consider
    <2>4. start < computed + n => m \in 0 .. n
      BY <2>2
    <2> HIDE DEF acc, start, len, m
    <2>5. /\ acc.budget \in Int /\ acc.inputs \in SUBSET (1 .. N) /\ acc.budget - len \in Int
          /\ acc.inputs \cup {i} \in SUBSET (1 .. N)
      BY <2>1, <2>2
    <2>6. f[i] \in Tries
      <3>1. CASE f[i] = acc
        BY <2>1, <3>1
      <3>2. CASE f[i] = [acc EXCEPT !.done = TRUE]
        BY <2>1, <3>2
      <3>3. CASE start < computed + n /\ f[i] = [acc EXCEPT !.done = TRUE, !.n = m]
        BY <2>1, <2>4, <3>3
      <3>4. CASE f[i] = [acc EXCEPT !.budget = @ - len, !.inputs = @ \cup {i}]
        BY <2>1, <2>5, <3>4
      <3> QED BY <2>2, <2>3, <3>1, <3>2, <3>3, <3>4
    <2> HIDE DEF Tries
    <2> QED BY <2>6
  <1>5. N \in G
    <2> HIDE DEF G, N
    <2>1. \A i \in 0 .. N : i \in G
      BY <1>1, <1>3, <1>4, IndexInduction
    <2> QED BY <1>1, <2>1
  <1> DEFINE try == _try_schedule_encoder_inputs(r, computed, n)
  <1>6. try \in Tries
    BY <1>2, <1>5
  <1> HIDE DEF try
  <1> QED BY <1>1, <1>6 DEF try

-----------------------------------------------------------------------------
(* The hits of a request.                                                   *)

LEMMA CutSeq ==
  ASSUME NEW S, NEW q \in Seq(S), NEW m \in Nat, m <= Len(q)
  PROVE  /\ SubSeq(q, 1, m) \in Seq(S) /\ Len(SubSeq(q, 1, m)) = m
         /\ \A i \in 1 .. m : SubSeq(q, 1, m)[i] = q[i]
  OBVIOUS

LEMMA HashesFacts ==
  ASSUME NEW r, request[r].tokens \in Words,
         Knowing(request[r].hashes, request[r].tokens, BlockSize)
  PROVE  Knowing(Hashes(r), request[r].tokens, BlockSize) /\ Len(Hashes(r)) \in Nat
  <1> DEFINE t == request[r].tokens
             B == BlockSize
             L == Len(t)
             q == L \div B
             h == [i \in 1 .. q |-> SubSeq(t, 1, i * B)]
  <1>1. B \in Nat \ {0} /\ L \in Nat
    BY Constants DEF Words
  <1>2. CASE request[r].hashes # <<>>
    BY <1>2 DEF Hashes, Knowing
  <1>3. CASE request[r].hashes = <<>>
    <2>1. Hashes(r) = h
      BY <1>3 DEF Hashes, hash_request_tokens
    <2>2. q \in Int /\ q * B <= L /\ L < q * B + B /\ q * B \in Int
      <3>1. L \in Int
        BY <1>1
      <3> HIDE DEF L, B
      <3> QED BY <1>1, <3>1, Division, Zenon
    <2>3. q \in Nat
      <3> SUFFICES ASSUME q <= -1
                   PROVE  FALSE
        BY <2>2
      <3> HIDE DEF q, L, B
      <3>1. (-1) * B = -B
        BY <1>1
      <3> QED BY <1>1, <2>2, <3>1, Times
    <2>4. ASSUME NEW i \in 1 .. q
          PROVE  SubSeq(t, 1, i * B) \in Words
      <3>1. i * B <= q * B /\ i * B \in Nat
        <4> HIDE DEF q, B
        <4> QED BY <1>1, <2>3, Times
      <3>2. i * B <= L
        <4> HIDE DEF q, B, L
        <4> QED BY <1>1, <2>2, <3>1
      <3> QED BY <3>1, <3>2, Cut
    <2> HIDE DEF q
    <2>5. h \in [1 .. q -> Words]
      BY <2>4
    <2>6. h \in Seq(Words) /\ Len(h) = q /\ \A i \in 1 .. q : h[i] = SubSeq(t, 1, i * B)
      <3>1. h \in Seq(Words) /\ Len(h) = q
        BY <2>3, <2>5
      <3> HIDE DEF t, B
      <3> QED BY <3>1
    <2> HIDE DEF h
    <2> QED BY <2>1, <2>2, <2>3, <2>6 DEF Knowing
  <1> QED BY <1>2, <1>3

\* The longest prefix of a sequence of hits.
LEMMA Longest ==
  ASSUME NEW hit, NEW L \in Nat
  PROVE  \E k \in 0 .. L : /\ \A i \in 1 .. k : hit[i] # NoBlock
                           /\ k < L => hit[k + 1] = NoBlock
  <1> DEFINE K == {k \in 0 .. L : k < L => hit[k + 1] = NoBlock}
  <1>1. K \in SUBSET Nat /\ L \in K
    OBVIOUS
  <1>2. PICK m \in K : \A k \in K : m <= k
    BY <1>1, LeastNatural
  <1>3. ASSUME NEW i \in 1 .. m
        PROVE  hit[i] # NoBlock
    BY <1>2
  <1> QED BY <1>2, <1>3

\* These blocks are in the cache under the first hashes of the request.
Hit1(N, r, g) ==
  /\ g \in Seq(1 .. N) /\ Len(g) <= Len(Hashes(r))
  /\ \A i \in 1 .. Len(g) : pool.hash[g[i]] = Hashes(r)[i]

LEMMA ComputedFacts ==
  ASSUME NEW N \in Nat, pool \in Pools(N), Filed(pool), NEW r, Len(Hashes(r)) \in Nat
  PROVE  Hit1(N, r, get_computed_blocks(r))
  <1> DEFINE H == Hashes(r)
             hit == [i \in 1 .. Len(H) |-> get_cached_block(pool, H[i])]
             n == CHOOSE k \in 0 .. Len(hit) :
                    /\ \A i \in 1 .. k : hit[i] # NoBlock
                    /\ k < Len(hit) => hit[k + 1] = NoBlock
  <1>1. Len(hit) = Len(H)
    OBVIOUS
  <1>2. n \in 0 .. Len(H) /\ \A i \in 1 .. n : hit[i] # NoBlock
    BY <1>1, Longest
  <1>3. get_computed_blocks(r) = IF r \in NoHits THEN <<>> ELSE SubSeq(hit, 1, n)
    BY DEF get_computed_blocks
  <1>4. ASSUME NEW i \in 1 .. n
        PROVE  hit[i] \in 1 .. N /\ pool.hash[hit[i]] = H[i]
    <2> DEFINE h == H[i]
               q == pool.cached[h]
    <2>1. i \in 1 .. Len(H)
      BY <1>2
    <2>2. hit[i] = get_cached_block(pool, h) /\ hit[i] # NoBlock
      BY <1>2, <2>1
    <2> HIDE DEF hit, h, n
    <2>3. h \in DOMAIN pool.cached /\ hit[i] = Head(q)
      BY <2>2 DEF get_cached_block
    <2>4. Head(q) \in {b \in DOMAIN pool.hash : pool.hash[b] = h}
      BY <2>3, ListsTail DEF Filed
    <2> HIDE DEF q
    <2> QED BY <2>3, <2>4, PoolFields DEF h
  <1> DEFINE g == SubSeq(hit, 1, n)
  <1>5. /\ g \in Seq(1 .. N) /\ Len(g) = n /\ \A i \in 1 .. n : g[i] = hit[i]
    <2>1. g = [i \in 1 .. n |-> hit[i]]
      BY <1>2
    <2>2. n \in Nat
      BY <1>2
    <2> HIDE DEF n, hit, g, H
    <2> QED BY <1>4, <2>1, <2>2
  <1> HIDE DEF g, n, hit, H
  <1>6. Hit1(N, r, g)
    BY <1>2, <1>4, <1>5 DEF H, Hit1
  <1>7. Hit1(N, r, <<>>)
    BY DEF Hit1
  <1> QED BY <1>3, <1>6, <1>7 DEF g

\* The hits that are used leave at least one token to compute.
Hitting(N, r, hits) ==
  /\ hits \in Seq(1 .. N) /\ Lists(hits, ToSet(hits))
  /\ Len(hits) * BlockSize < Len(request[r].tokens)
  /\ Len(hits) <= Len(Hashes(r))
  /\ \A i \in 1 .. Len(hits) : pool.hash[hits[i]] = SubSeq(request[r].tokens, 1, i * BlockSize)

LEMMA SameMultiple ==
  ASSUME NEW i \in Nat, NEW j \in Nat, NEW B \in Nat \ {0}, i * B = j * B
  PROVE  i = j
  <1>1. i <= j /\ j <= i
    BY Fewer
  <1> QED BY <1>1

LEMMA HitsFacts ==
  ASSUME NEW N \in Nat, pool \in Pools(N), Filed(pool), NEW r, request[r].tokens \in Words,
         Len(request[r].tokens) > 0,
         Knowing(request[r].hashes, request[r].tokens, BlockSize)
  PROVE  Hitting(N, r, Hits(r))
  <1> DEFINE t == request[r].tokens
             B == BlockSize
             L == Len(t)
             H == Hashes(r)
             g == get_computed_blocks(r)
             hits == Hits(r)
  <1>1. B \in Nat \ {0} /\ L \in Nat /\ L > 0
    BY Constants DEF Words
  <1>2. Knowing(H, t, B) /\ Len(H) \in Nat
    BY HashesFacts
  <1>3. /\ Len(H) * B <= L /\ \A i \in 1 .. Len(H) : H[i] = SubSeq(t, 1, i * B)
    BY <1>2 DEF Knowing
  <1>4. /\ g \in Seq(1 .. N) /\ Len(g) <= Len(H) /\ \A i \in 1 .. Len(g) : pool.hash[g[i]] = H[i]
    BY <1>2, ComputedFacts DEF Hit1
  <1>5. hits = IF L = Len(g) * B THEN Front(g) ELSE g
    BY DEF Hits
  <1> HIDE DEF g, hits, H, L, B
  <1>6. Len(g) \in Nat /\ Len(g) * B \in Int /\ Len(g) * B <= L
    <2>1. Len(g) \in Nat
      BY <1>4
    <2>2. Len(g) * B <= Len(H) * B /\ Len(g) * B \in Int /\ Len(H) * B \in Int
      <3>1. Len(g) \in Int /\ Len(H) \in Int /\ Len(g) <= Len(H) /\ B \in Nat
        BY <1>1, <1>2, <1>4, <2>1
      <3> QED BY <3>1, Times, Zenon
    <2> QED BY <1>1, <1>3, <2>1, <2>2
  <1>7. /\ hits \in Seq(1 .. N) /\ Len(hits) <= Len(g) /\ Len(hits) * B < L
        /\ \A i \in 1 .. Len(hits) : hits[i] = g[i]
    <2>1. CASE L = Len(g) * B
      <3>1. Len(g) # 0
        BY <1>1, <2>1
      <3>2. /\ hits \in Seq(1 .. N) /\ Len(hits) = Len(g) - 1
            /\ \A i \in 1 .. Len(hits) : hits[i] = g[i]
        <4> DEFINE m == Len(g) - 1
        <4> HIDE DEF m
        <4>1. hits = SubSeq(g, 1, m) /\ m \in Nat /\ m <= Len(g)
          BY <1>4, <1>5, <1>6, <2>1, <3>1 DEF m, Front
        <4> QED BY <1>4, <1>6, <3>1, <4>1, CutSeq DEF m
      <3> QED BY <1>1, <1>6, <2>1, <3>2
    <2>2. CASE L # Len(g) * B
      <3>1. hits = g
        BY <1>5, <2>2
      <3> DEFINE x == Len(g) * B
      <3>2. x \in Int /\ x <= L /\ x # L
        BY <1>6, <2>2
      <3> HIDE DEF x
      <3>3. x < L
        BY <1>1, <3>2
      <3> QED BY <1>4, <1>6, <3>1, <3>3 DEF x
    <2> QED BY <2>1, <2>2
  <1>8. Len(hits) \in Nat /\ Len(hits) <= Len(H)
    BY <1>2, <1>4, <1>6, <1>7
  <1>9. \A i \in 1 .. Len(hits) : pool.hash[hits[i]] = SubSeq(t, 1, i * B)
    <2> SUFFICES ASSUME NEW i \in 1 .. Len(hits)
                 PROVE  pool.hash[hits[i]] = SubSeq(t, 1, i * B)
      OBVIOUS
    <2>1. i \in 1 .. Len(g) /\ i \in 1 .. Len(H)
      BY <1>2, <1>6, <1>7, <1>8
    <2> QED BY <1>3, <1>4, <1>7, <2>1
  <1>10. ASSUME NEW i \in 1 .. Len(hits), NEW j \in 1 .. Len(hits), hits[i] = hits[j]
         PROVE  i = j
    <2>1. ASSUME NEW k \in 1 .. Len(hits)
          PROVE  k * B \in Nat /\ Len(SubSeq(t, 1, k * B)) = k * B
      <3>1. k * B <= Len(hits) * B /\ k * B \in Nat /\ Len(hits) * B \in Int
        BY <1>1, <1>8, Times
      <3>2. k * B <= L
        BY <1>1, <1>7, <3>1
      <3> QED BY <3>1, <3>2, Cut DEF L
    <2>2. i * B = j * B
      BY <1>9, <1>10, <2>1
    <2>3. i \in Nat /\ j \in Nat
      BY <1>8
    <2> QED BY <1>1, <2>2, <2>3, SameMultiple
  <1> QED BY <1>7, <1>8, <1>9, <1>10 DEF Hitting, hits, L, B, H, ToSet, Lists

-----------------------------------------------------------------------------
(* The users of the blocks.                                                 *)

\* The users are the holders outside R.
Uses(p, N, R) ==
  \A b \in 1 .. N : IsFiniteSet(Holders(b)) /\ p.ref[b] = Cardinality(Holders(b) \ R)

\* One more request lets its blocks go.
LetGo(N, p, s) ==
  /\ s \in Pools(N) /\ Linked(s) /\ Later(p, s)
  /\ s.hash = p.hash /\ s.cached = p.cached /\ s.ok = p.ok
  /\ \A b \in 1 .. N : s.ref[b] <= p.ref[b]

LEMMA FreeOne ==
  ASSUME NEW N \in Nat, NEW p, p \in Pools(N), Linked(p), NEW R, Uses(p, N, R),
         NEW r \in Requests, r \notin R, request[r].blocks \in Seq(1 .. N),
         Lists(request[r].blocks, ToSet(request[r].blocks))
  PROVE  LetGo(N, p, free(p, r)) /\ Uses(free(p, r), N, R \cup {r})
  <1> DEFINE q == request[r].blocks
             v == Reverse(q)
             s == free(p, r)
  <1>1. Lists(v, ToSet(q)) /\ ToSet(v) = ToSet(q)
    BY ListsReverse, ListsFacts
  <1>2. /\ v \in Seq(1 .. N) /\ \A i, j \in 1 .. Len(v) : v[i] = v[j] => i = j
    BY <1>1, ListsFacts DEF ToSet
  <1>3. \A b \in 1 .. N : b \in ToSet(q) <=> r \in Holders(b)
    BY DEF Holders
  <1>4. \A b \in ToSet(q) : b \in 1 .. N
    BY DEF ToSet
  <1>5. p.ref \in [1 .. N -> Nat]
    BY PoolFields
  <1>6. s = free_blocks(p, v)
    BY DEF free
  <1> HIDE DEF q, v, s
  <1>7. ASSUME NEW b \in 1 .. N
        PROVE  LET H == Holders(b) \ R
                   K == Holders(b) \ (R \cup {r})
               IN  /\ IsFiniteSet(H) /\ Cardinality(H) \in Nat
                   /\ b \in ToSet(q) => Cardinality(H) > 0 /\ Cardinality(K) = Cardinality(H) - 1
                   /\ b \notin ToSet(q) => Cardinality(K) = Cardinality(H)
    <2> DEFINE H == Holders(b) \ R
               K == Holders(b) \ (R \cup {r})
    <2>1. IsFiniteSet(Holders(b))
      BY DEF Uses
    <2>2. IsFiniteSet(H)
      BY <2>1, FS_Difference
    <2>3. K = H \ {r} /\ (r \in H <=> b \in ToSet(q))
      BY <1>3
    <2> HIDE DEF H, K
    <2>4. Cardinality(H) \in Nat
      BY <2>2, FS_CardinalityType
    <2>5. Cardinality(K) = IF r \in H THEN Cardinality(H) - 1 ELSE Cardinality(H)
      BY <2>2, <2>3, FS_RemoveElement
    <2>6. r \in H => Cardinality(H) > 0
      BY <2>2, <2>4, FS_EmptySet
    <2> QED BY <2>2, <2>3, <2>4, <2>5, <2>6 DEF H, K
  <1>8. \A b \in ToSet(v) : p.ref[b] > 0
    BY <1>1, <1>4, <1>7 DEF Uses
  <1>9. /\ s \in Pools(N) /\ Linked(s) /\ Later(p, s)
        /\ s.hash = p.hash /\ s.cached = p.cached /\ s.ok = p.ok
        /\ \A b \in 1 .. N : s.ref[b] = IF b \in ToSet(v) THEN p.ref[b] - 1 ELSE p.ref[b]
    BY <1>2, <1>6, <1>8, FreeFacts, ZenonT(40)
  <1>10. \A b \in 1 .. N : s.ref[b] <= p.ref[b]
    <2>1. \A b \in 1 .. N : p.ref[b] \in Nat
      BY <1>5
    <2> QED BY <1>9, <2>1
  <1> QED BY <1>1, <1>7, <1>9, <1>10 DEF LetGo, s, Uses

LEMMA LetGoTransitive ==
  ASSUME NEW N \in Nat, NEW p \in Pools(N), Linked(p), NEW s, NEW t, LetGo(N, p, s), LetGo(N, s, t)
  PROVE  LetGo(N, p, t)
  <1>1. \A b \in 1 .. N : /\ p.ref[b] \in Nat /\ s.ref[b] \in Nat /\ t.ref[b] \in Nat
                          /\ s.ref[b] <= p.ref[b] /\ t.ref[b] <= s.ref[b]
    BY PoolFields DEF LetGo
  <1>2. Later(p, t)
    BY <1>1, LaterTransitive DEF LetGo
  <1> QED BY <1>1, <1>2 DEF LetGo

\* The requests of a queue let their blocks go.
LEMMA FreeAll ==
  ASSUME NEW N \in Nat, pool \in Pools(N), Linked(pool), Uses(pool, N, {}),
         NEW rs, NEW A, A \subseteq Requests, Lists(rs, A),
         \A r \in Requests : /\ request[r].blocks \in Seq(1 .. N)
                             /\ Lists(request[r].blocks, ToSet(request[r].blocks))
  PROVE  LetGo(N, pool, FreeRequests(pool, rs)) /\ Uses(FreeRequests(pool, rs), N, A)
  <1> DEFINE M == Len(rs)
  <1>1. /\ M \in Nat /\ (\A i \in 1 .. M : rs[i] \in A) /\ ToSet(rs) = A
        /\ rs \in Seq(A) /\ \A i, j \in 1 .. Len(rs) : rs[i] = rs[j] => i = j
    BY ListsFacts
  <1>2. PICK f : /\ f[0] = pool
                 /\ \A i \in 1 .. Len(rs) : f[i] = free(f[i - 1], rs[i])
                 /\ FreeRequests(pool, rs) = f[Len(rs)]
    BY <1>1, FinishFunction
  <1>3. /\ Prefix(rs, 0) = {} /\ Prefix(rs, Len(rs)) = ToSet(rs)
        /\ \A i \in 1 .. Len(rs) : /\ Prefix(rs, i) = Prefix(rs, i - 1) \cup {rs[i]}
                                   /\ rs[i] \notin Prefix(rs, i - 1)
    BY <1>1, PrefixFacts
  <1> DEFINE Good(i) == LetGo(N, pool, f[i]) /\ Uses(f[i], N, Prefix(rs, i))
             G == {i \in 0 .. M : Good(i)}
  <1>4. 0 \in G
    <2>1. Later(pool, pool)
      BY SameChain
    <2>2. LetGo(N, pool, pool)
      BY <2>1, PoolFields DEF LetGo
    <2>3. Good(0)
      BY <1>2, <1>3, <2>2
    <2> HIDE DEF Good
    <2> QED BY <1>1, <2>3
  <1>5. ASSUME NEW i \in 1 .. M, i - 1 \in G
        PROVE  i \in G
    <2> DEFINE s == f[i - 1]
               r == rs[i]
    <2>1. LetGo(N, pool, s) /\ Uses(s, N, Prefix(rs, i - 1))
      BY <1>5
    <2>2. f[i] = free(s, r) /\ r \in Requests /\ r \notin Prefix(rs, i - 1)
      BY <1>1, <1>2, <1>3
    <2>3. s \in Pools(N) /\ Linked(s)
      BY <2>1 DEF LetGo
    <2> HIDE DEF s, r
    <2>4. LetGo(N, s, f[i]) /\ Uses(f[i], N, Prefix(rs, i - 1) \cup {r})
      BY <2>1, <2>2, <2>3, FreeOne
    <2>5. Good(i)
      BY <1>3, <2>1, <2>4, LetGoTransitive DEF r
    <2> HIDE DEF Good
    <2> QED BY <2>5
  <1>6. M \in G
    <2> HIDE DEF G, M
    <2>1. \A i \in 0 .. M : i \in G
      BY <1>1, <1>4, <1>5, IndexInduction
    <2> QED BY <1>1, <2>1
  <1> QED BY <1>1, <1>2, <1>3, <1>6

-----------------------------------------------------------------------------
(* The steps that leave the blocks alone.                                   *)

LEMMA ModeFacts ==
  ASSUME mode \in Modes
  PROVE  /\ mode.queue \in Nat \ {0} /\ mode.blocks \in Nat /\ mode.budget \in Nat \ {0}
         /\ mode.spec \in Nat /\ mode.seqs \in Nat \ {0}
         /\ mode.requests \subseteq Requests /\ mode.tokens \subseteq Tokens
         /\ mode.blocks >= max_num_blocks_per_req
  BY MemoryAssumption

LEMMA InvFacts ==
  ASSUME Inv
  PROVE  LET N == mode.blocks IN
         /\ N \in Nat /\ N >= max_num_blocks_per_req
         /\ pool \in Pools(N) /\ Linked(pool) /\ Filed(pool) /\ Uses(pool, N, {})
         /\ request \in [Requests -> RequestType] /\ \A r \in Requests : Sane(mode, request[r])
         /\ \A r \in Requests : /\ request[r].blocks \in Seq(1 .. N)
                                /\ Lists(request[r].blocks, ToSet(request[r].blocks))
  <1>1. DOMAIN pool.ref = 1 .. mode.blocks
    BY PoolFields, ModeFacts DEF Inv, Types
  <1>2. Uses(pool, mode.blocks, {})
    BY <1>1 DEF Inv, Accounted, Uses
  <1> QED BY <1>2, ModeFacts DEF Inv, Types, Accounted, Sane

\* The fields of a pass.
LEMMA PassFacts ==
  ASSUME pass \in Passes
  PROVE  /\ pass.index \in Nat \ {0} /\ pass.budget \in Nat /\ pass.encoder \in Int
         /\ pass.preempted \in BOOLEAN /\ pass.skipped \in Seq(Requests) /\ pass.output \in Outputs
         /\ pass.at \in {"idle", "running", "waiting", "end", "execute"}
  BY DEF Passes

\* A step that leaves the blocks, the requests and the encoder cache alone.
LEMMA Same ==
  ASSUME Inv, UNCHANGED <<mode, pool, encoder, request, kv>>,
         scheduled_req_ids' \subseteq Requests, pass' \in Passes, batches' \in Seq(Outputs), Queued'
  PROVE  Inv' /\ Later(pool, pool')
  <1>1. Later(pool, pool)
    BY SameChain, InvFacts
  <1>2. Types'
    BY DEF Inv, Types
  <1>3. Accounted'
    BY DEF Inv, Accounted, Holders
  <1> QED BY <1>1, <1>2, <1>3 DEF Inv

\* With no output.
LEMMA NewPassFacts ==
  /\ NewPass \in Passes /\ NewPass.skipped = <<>> /\ DOMAIN NewPass.output = {}
  /\ NewPass.budget = 0 /\ ToSet(<<>>) = {} /\ Lists(<<>>, {})
  <1> DEFINE e == [r \in {} |-> <<>>]
  <1>1. e \in Outputs
    BY DEF Outputs
  <1>2. DOMAIN e = {}
    OBVIOUS
  <1> HIDE DEF e
  <1>3. <<>> \in Seq(Requests)
    OBVIOUS
  <1> QED BY <1>1, <1>2, <1>3, ListsEmpty DEF NewPass, e, Passes

LEMMA BeginInv ==
  ASSUME Inv, BeginSchedule
  PROVE  Inv' /\ Later(pool, pool')
  <1>1. /\ pass.at = "idle" /\ MaySchedule
        /\ pass' = [NewPass EXCEPT !.at = "running", !.budget = mode.budget, !.encoder = encoder_cache_size]
        /\ UNCHANGED <<mode, pool, encoder, request, queues, batches, compiled, kv>>
    BY DEF BeginSchedule
  <1>2. mode \in Modes /\ Queued /\ scheduled_req_ids \subseteq Requests /\ batches \in Seq(Outputs)
    BY DEF Inv, Types
  <1>3. Len(batches) < mode.queue
    BY <1>1, <1>2, ModeFacts, CacheSize DEF MaySchedule, Queued
  <1>4. pass.skipped = <<>>
    BY <1>1, <1>2 DEF Queued
  <1>5. Queued'
    BY <1>1, <1>2, <1>3, <1>4, NewPassFacts, ModeFacts, CacheSize DEF Queued, queues, Passes
  <1> QED BY <1>1, <1>2, <1>5, Same, NewPassFacts, ModeFacts, CacheSize DEF queues, Passes

\* Only the index or the phase of the pass changes.
LEMMA MoveOn ==
  ASSUME Inv, NEW i \in Nat \ {0}, NEW at \in {"running", "waiting", "end"},
         pass' = [pass EXCEPT !.index = i, !.at = at],
         pass.at \in {"running", "waiting"}, at = "running" => pass.at = "running",
         UNCHANGED <<mode, pool, encoder, request, queues, batches, compiled, kv>>
  PROVE  Inv' /\ Later(pool, pool')
  <1>1. Queued'
    BY DEF Queued, queues, Inv, Types, Passes
  <1> QED BY <1>1, Same DEF queues, Inv, Types, Passes

LEMMA SkipInv ==
  ASSUME Inv, SkipScheduled \/ SkipNoEncoder
  PROVE  Inv' /\ Later(pool, pool')
  <1>1. pass \in Passes
    BY DEF Inv, Types
  <1>2. pass.index + 1 \in Nat \ {0}
    BY <1>1, PassFacts
  <1>3. pass' = [pass EXCEPT !.index = pass.index + 1, !.at = "running"]
    BY <1>1 DEF Passes, SkipScheduled, SkipNoEncoder, InRunningLoop
  <1> QED BY <1>2, <1>3, MoveOn DEF SkipScheduled, SkipNoEncoder, InRunningLoop

LEMMA EndRunningInv ==
  ASSUME Inv, EndRunning
  PROVE  Inv' /\ Later(pool, pool')
  <1> DEFINE at == IF pass.preempted THEN "end" ELSE "waiting"
  <1>1. /\ pass.at = "running" /\ pass' = [pass EXCEPT !.at = at]
        /\ UNCHANGED <<mode, pool, encoder, request, queues, batches, compiled, kv>>
    BY DEF EndRunning
  <1>2. pass \in Passes /\ at \in {"end", "waiting"}
    BY DEF Inv, Types
  <1>3. pass.index \in Nat \ {0}
    BY <1>2, PassFacts
  <1> HIDE DEF at
  <1>4. pass' = [pass EXCEPT !.index = pass.index, !.at = at]
    BY <1>1, <1>2 DEF Passes
  <1> QED BY <1>1, <1>2, <1>3, <1>4, MoveOn

LEMMA NotReadyInv ==
  ASSUME Inv, SkipNotReady
  PROVE  Inv' /\ Later(pool, pool')
  <1> DEFINE r == Head(waiting)
             W == ToSet(waiting)
             S == ToSet(pass.skipped)
  <1>1. /\ pass.at = "waiting" /\ waiting # <<>> /\ waiting' = Tail(waiting)
        /\ pass' = [pass EXCEPT !.skipped = Append(pass.skipped, r)]
        /\ UNCHANGED <<mode, pool, encoder, request, running, scheduled_req_ids, finished_req_ids,
                       batches, compiled, kv>>
    BY DEF SkipNotReady, InWaitingLoop
  <1>2. Queued /\ pass \in Passes /\ scheduled_req_ids \subseteq Requests /\ batches \in Seq(Outputs)
    BY DEF Inv, Types
  <1>3. /\ Lists(waiting, W) /\ Lists(pass.skipped, S) /\ W \cap S = {}
        /\ W \cup S = {x \in Requests : request[x].status \in Live \ {"running"}}
    BY <1>2 DEF Queued
  <1> DEFINE L == {x \in Requests : request[x].status \in Live \ {"running"}}
             V == Append(pass.skipped, r)
  <1> HIDE DEF W, S
  <1>4. /\ r \in W /\ Lists(Tail(waiting), W \ {r}) /\ ToSet(Tail(waiting)) = W \ {r}
    BY <1>1, <1>3, ListsTail
  <1>5. r \notin S /\ r \in Requests
    BY <1>3, <1>4
  <1>6. /\ Lists(V, S \cup {r}) /\ ToSet(V) = S \cup {r}
    BY <1>3, <1>5, ListsAppend
  <1>7. V \in Seq(Requests)
    BY <1>2, <1>5, PassFacts
  <1> HIDE DEF r, V
  <1>8. /\ pass' \in Passes /\ pass'.at = "waiting" /\ pass'.skipped = V /\ pass'.budget = pass.budget
        /\ pass'.output = pass.output
    BY <1>1, <1>2, <1>7 DEF Passes, V
  <1>9. /\ Lists(waiting', ToSet(waiting')) /\ Lists(pass'.skipped, ToSet(pass'.skipped))
        /\ ToSet(waiting') \cap ToSet(pass'.skipped) = {}
        /\ ToSet(waiting') \cup ToSet(pass'.skipped) = L
    BY <1>1, <1>3, <1>4, <1>6, <1>8
  <1>10. Queued'
    BY <1>1, <1>2, <1>8, <1>9 DEF Queued
  <1> QED BY <1>1, <1>2, <1>8, <1>10, Same

LEMMA EndInv ==
  ASSUME Inv, EndSchedule
  PROVE  Inv' /\ Later(pool, pool')
  <1> DEFINE W == ToSet(waiting)
             S == ToSet(pass.skipped)
             none == DOMAIN pass.output = {}
             at == IF ~none THEN IF mode.queue > 1 THEN "idle" ELSE "execute"
                   ELSE IF batches # <<>> THEN "execute" ELSE "idle"
  <1>1. /\ pass.at \in {"end", "waiting"} /\ waiting' = pass.skipped \o waiting
        /\ pass' = [NewPass EXCEPT !.at = at]
        /\ batches' = IF none THEN batches ELSE Append(batches, pass.output)
        /\ UNCHANGED <<mode, pool, encoder, request, running, scheduled_req_ids, compiled, kv>>
    BY DEF EndSchedule, PutBack
  <1>2. Queued /\ pass \in Passes /\ scheduled_req_ids \subseteq Requests /\ batches \in Seq(Outputs)
        /\ mode \in Modes
    BY DEF Inv, Types
  <1>3. /\ Lists(waiting, W) /\ Lists(pass.skipped, S) /\ W \cap S = {}
        /\ W \cup S = {x \in Requests : request[x].status \in Live \ {"running"}}
    BY <1>2 DEF Queued
  <1>4. Joined(pass.skipped, waiting, S, W)
    BY <1>3, ListsJoin DEF Joins
  <1>5. /\ Lists(waiting', ToSet(waiting')) /\ ToSet(waiting') = W \cup S
    BY <1>1, <1>4 DEF Joined
  <1>6. /\ pass' \in Passes /\ pass'.at = at /\ pass'.skipped = <<>> /\ DOMAIN pass'.output = {}
        /\ pass'.budget = 0 /\ at \in {"idle", "execute"}
    BY <1>1, NewPassFacts DEF Passes
  <1>7. pass.output \in Outputs /\ mode.queue \in Nat \ {0} /\ mode.budget \in Nat
    BY <1>2, PassFacts, ModeFacts
  <1> HIDE DEF none
  <1>8. /\ batches' \in Seq(Outputs) /\ Len(batches') <= mode.queue
        /\ at = "idle" /\ mode.queue = 1 => batches' = <<>>
        /\ at = "execute" => batches' # <<>>
    BY <1>1, <1>2, <1>7 DEF Queued
  <1> HIDE DEF at, W, S
  <1>9. Queued'
    <2>1. /\ Lists(pass'.skipped, ToSet(pass'.skipped)) /\ ToSet(pass'.skipped) = {}
      BY <1>6, NewPassFacts
    <2> QED BY <1>1, <1>2, <1>3, <1>5, <1>6, <1>7, <1>8, <2>1 DEF Queued
  <1> QED BY <1>1, <1>2, <1>6, <1>8, <1>9, Same

LEMMA GrammarInv ==
  ASSUME Inv, NEW r \in Guided, GrammarReady(r)
  PROVE  Inv' /\ Later(pool, pool')
  <1>1. Queued'
    BY DEF Queued, queues, GrammarReady, Inv, Types
  <1> QED BY <1>1, Same DEF queues, GrammarReady, Inv, Types

-----------------------------------------------------------------------------
(* The steps that change the block tables.                                  *)

\* The counts are those of the block tables after the step.
Counts == \A b \in 1 .. mode.blocks : IsFiniteSet(Holders(b)) /\ pool.ref[b] = Cardinality(Holders(b))

\* A request gets the blocks of G.
LEMMA Gained ==
  ASSUME NEW N \in Nat, mode'.blocks = N, pool \in Pools(N), Uses(pool, N, {}),
         NEW r \in Requests, NEW G,
         \A x \in Requests : x # r => request'[x].blocks = request[x].blocks,
         ToSet(request'[r].blocks) = ToSet(request[r].blocks) \cup G,
         G \cap ToSet(request[r].blocks) = {},
         \A b \in 1 .. N : pool'.ref[b] = IF b \in G THEN pool.ref[b] + 1 ELSE pool.ref[b]
  PROVE  Counts'
  <1> SUFFICES ASSUME NEW b \in 1 .. N
               PROVE  IsFiniteSet(Holders(b)') /\ pool'.ref[b] = Cardinality(Holders(b)')
    BY DEF Counts
  <1> DEFINE H == Holders(b)
             K == Holders(b)'
  <1>1. IsFiniteSet(H) /\ pool.ref[b] = Cardinality(H)
    BY DEF Uses
  <1>2. b \in G => r \notin H /\ K = H \cup {r}
    BY DEF Holders
  <1>3. b \notin G => K = H
    BY DEF Holders
  <1> HIDE DEF H, K
  <1>4. b \in G => IsFiniteSet(K) /\ Cardinality(K) = Cardinality(H) + 1
    BY <1>1, <1>2, FS_AddElement
  <1> QED BY <1>1, <1>3, <1>4 DEF K

\* The requests of R have let their blocks go.
LEMMA Released ==
  ASSUME NEW N \in Nat, mode'.blocks = N, NEW s, NEW R, Uses(s, N, R), pool'.ref = s.ref,
         \A x \in Requests : request'[x].blocks = IF x \in R THEN <<>> ELSE request[x].blocks
  PROVE  Counts'
  <1> SUFFICES ASSUME NEW b \in 1 .. N
               PROVE  IsFiniteSet(Holders(b)') /\ pool'.ref[b] = Cardinality(Holders(b)')
    BY DEF Counts
  <1> DEFINE H == Holders(b)
             K == Holders(b)'
  <1>1. IsFiniteSet(H) /\ pool'.ref[b] = Cardinality(H \ R)
    BY DEF Uses
  <1>2. K = H \ R
    BY ListsEmpty DEF Holders
  <1> HIDE DEF H, K
  <1>3. IsFiniteSet(K)
    BY <1>1, <1>2, FS_Difference
  <1> QED BY <1>1, <1>2, <1>3 DEF K

\* A block in a block table has users.
LEMMA Used ==
  ASSUME NEW N \in Nat, pool \in Pools(N), Uses(pool, N, {}), NEW r \in Requests,
         NEW b \in 1 .. N, b \in ToSet(request[r].blocks)
  PROVE  pool.ref[b] > 0
  <1> DEFINE H == Holders(b)
  <1>1. r \in H /\ H \ {} = H
    BY DEF Holders
  <1>2. IsFiniteSet(H) /\ pool.ref[b] = Cardinality(H)
    BY <1>1 DEF Uses
  <1> HIDE DEF H
  <1> QED BY <1>1, <1>2, FS_CardinalityType, FS_EmptySet

\* The invariant after a step.
LEMMA InvNext ==
  ASSUME Inv, mode' = mode, DOMAIN kv' = DOMAIN kv,
         pool' \in Pools(mode.blocks), Linked(pool'), Filed(pool'), Counts',
         encoder' \in Encoders, request' \in [Requests -> RequestType],
         scheduled_req_ids' \subseteq Requests, pass' \in Passes, batches' \in Seq(Outputs),
         Queued', \A r \in Requests : Sane(mode, request'[r])
  PROVE  Inv'
  <1>1. Types'
    BY DEF Inv, Types
  <1>2. Accounted'
    BY InvFacts, PoolFields DEF Accounted, Counts
  <1> QED BY <1>1, <1>2 DEF Inv

\* The entry of a request in an output.
LEMMA WithFacts ==
  ASSUME NEW o \in Outputs, NEW r \in Requests, NEW e \in Entries
  PROVE  /\ With(o, r, e) \in Outputs /\ DOMAIN With(o, r, e) = DOMAIN o \cup {r}
         /\ With(o, r, e)[r] = e /\ \A s \in DOMAIN o : s # r => With(o, r, e)[s] = o[s]
  <1>1. PICK R \in SUBSET Requests : o \in [R -> Entries]
    BY DEF Outputs
  <1>2. With(o, r, e) \in [R \cup {r} -> Entries] /\ R \cup {r} \in SUBSET Requests
    BY <1>1 DEF With
  <1>3. With(o, r, e) \in Outputs
    BY <1>2 DEF Outputs
  <1> QED BY <1>3 DEF With

LEMMA OutputFacts ==
  ASSUME NEW req \in RequestType, NEW start \in Int, NEW n \in Nat, NEW spec \in Words
  PROVE  /\ Output(req, start, n, spec) \in Entries
         /\ req.tokens \o spec \in Words
  BY DEF Output, Entries, RequestType, Words

\* The members of a sequence, as a set.
LEMMA SetOf ==
  ASSUME NEW S, NEW q \in Seq(S)
  PROVE  ToSet(q) \subseteq S
  <1>1. DOMAIN q = 1 .. Len(q)
    OBVIOUS
  <1> QED BY <1>1, MemberOf DEF ToSet

-----------------------------------------------------------------------------
(* A running request is scheduled.                                          *)

Ran == running[pass.index]
RanN == TryRunning(Ran).n

\* What the request at the index of the loop gets.
LEMMA RunFacts ==
  ASSUME Inv, InRunningLoop
  PROVE  /\ Ran \in Requests /\ request[Ran].status = "running"
         /\ pass.index \in DOMAIN running /\ pass.budget \in Nat
         /\ Wanted(request[Ran]) \in Int /\ Wanted(request[Ran]) <= pass.budget
         /\ Wanted(request[Ran]) <= Len(request[Ran].tokens) + Len(request[Ran].spec) - request[Ran].computed
         /\ Wanted(request[Ran]) \in {Len(request[Ran].tokens) + Len(request[Ran].spec) - request[Ran].computed,
                                      pass.budget}
         /\ Wanted(request[Ran]) > 0 =>
              /\ RanN \in 0 .. Wanted(request[Ran]) /\ TryRunning(Ran).inputs \subseteq DOMAIN Images[Ran]
              /\ TryRunning(Ran).budget \in Int
  <1> DEFINE r == Ran
             t == request[r].tokens
             sp == request[r].spec
             x == request[r].computed
             a == Len(t) + Len(sp) - x
             W == Wanted(request[r])
  <1>1. Queued /\ pass \in Passes
    BY DEF Inv, Types
  <1>2. pass.index \in Nat \ {0} /\ pass.budget \in Nat /\ pass.encoder \in Int /\ pass.index <= Len(running)
    BY <1>1, PassFacts DEF InRunningLoop
  <1>3. DOMAIN running = 1 .. Len(running) /\ Len(running) \in Nat
        /\ \A i \in 1 .. Len(running) : running[i] \in {y \in Requests : request[y].status = "running"}
    BY <1>1, ListsFacts DEF Queued
  <1>4. r \in Requests /\ request[r].status = "running"
    BY <1>2, <1>3 DEF Ran
  <1>5. Len(t) \in Nat /\ Len(sp) \in Nat /\ x \in Int
    BY <1>4 DEF RequestType, Words, Inv, Types
  <1>6. a \in Int
    BY <1>5
  <1>7. W = Min({a, pass.budget})
    BY DEF Wanted
  <1>8. W \in {a, pass.budget} /\ W <= a /\ W <= pass.budget
    <2>1. pass.budget \in Int
      BY <1>2
    <2> HIDE DEF a, W
    <2> QED BY <1>6, <1>7, <2>1, MinTwo, Zenon
  <1>9. W \in Int
    BY <1>2, <1>6, <1>8
  <1>10. W > 0 => /\ RanN \in 0 .. W /\ TryRunning(r).inputs \subseteq DOMAIN Images[r]
                  /\ TryRunning(r).budget \in Int
    BY <1>2, <1>4, <1>5, <1>9, TryFacts DEF TryRunning, RanN
  <1> QED BY <1>2, <1>3, <1>4, <1>8, <1>9, <1>10

LEMMA RunAsked ==
  ASSUME Inv, ScheduleRunning, Wanted(request[Ran]) > 0
  PROVE  Asked(mode.blocks, request[Ran], <<>>, RanN) /\ RanN \in Nat \ {0}
  <1> DEFINE r == Ran
             req == request[r]
             N == mode.blocks
             W == Wanted(req)
             n == RanN
  <1>1. InRunningLoop /\ (n = 0 => W = 0) /\ CanAllocate(req, n, <<>>)
    BY DEF ScheduleRunning, Ran, RanN
  <1>2. /\ r \in Requests /\ req.status = "running" /\ W \in Int /\ n \in 0 .. W
        /\ W <= Len(req.tokens) + Len(req.spec) - req.computed
    BY <1>1, RunFacts
  <1>3. n \in Nat \ {0}
    BY <1>1, <1>2 DEF W
  <1>4. /\ req \in RequestType /\ req.blocks \in Seq(1 .. N) /\ Lists(req.blocks, ToSet(req.blocks))
        /\ Knowing(req.hashes, req.tokens, BlockSize) /\ req.ncached \in {None} \cup 0 .. Len(req.blocks)
        /\ req.ncached # None /\ Len(req.blocks) <= max_num_blocks_per_req
        /\ Len(req.tokens) \in 1 .. MaxModelLen
    BY <1>2, InvFacts DEF Sane
  <1>5. \A b \in ToSet(req.blocks) : pool.ref[b] > 0
    BY <1>2, <1>4, Used, InvFacts, SetOf
  <1>6. Known(req, <<>>) = req.ncached /\ req.ncached \in Nat
    BY <1>4 DEF Known
  <1>7. Len(<<>>) = 0 /\ <<>> \in Seq(1 .. N) /\ Lists(<<>>, {}) /\ ToSet(<<>>) = {}
    BY ListsEmpty
  <1>8. Reach(req, <<>>, n) - Len(req.spec) <= Len(req.tokens)
    <2>1. 0 * BlockSize = 0
      BY Constants
    <2> HIDE DEF n, req, W
    <2> QED BY <1>2, <1>3, <1>4, <1>7, <2>1 DEF RequestType, Words, Reach
  <1>9. Len(req.blocks) + 0 <= max_num_blocks_per_req
    BY <1>4
  <1>10. Len(req.tokens) <= MaxModelLen
    BY <1>4
  <1> HIDE DEF req, n, N
  <1>11. Asked(N, req, <<>>, n)
    BY <1>1, <1>3, <1>4, <1>5, <1>6, <1>7, <1>8, <1>9, <1>10 DEF Asked
  <1> QED BY <1>3, <1>11 DEF req, n, N

\* A request that has got its slots.
Slotted(req, s, x, blocks, hashes, full) ==
  [status |-> "running", tokens |-> req.tokens, computed |-> x, spec |-> s,
   blocks |-> blocks, hashes |-> hashes, ncached |-> full]

\* What it was before, with the draft s and x computed tokens.
Growing(m, req, hits, s, x) ==
  /\ m.blocks \in Nat /\ req \in RequestType /\ Len(req.tokens) \in 1 .. MaxModelLen - 1
  /\ s \in Words /\ Len(s) <= m.spec /\ x \in Int
  /\ Known(req, hits) \in Nat /\ Known(req, hits) <= Len(req.hashes)

GrownInto(m, req, hits, n, out, w, hashes, s, x) ==
  LET full == (Reach(req, hits, n) - Len(req.spec)) \div BlockSize
      z == Slotted(req, s, x, req.blocks \o hits \o w, hashes, full)
  IN  /\ Sane(m, z)
      /\ [out.request EXCEPT !.status = "running", !.spec = s, !.computed = x] = z
      /\ out.request.tokens = req.tokens /\ out.request.spec = req.spec
      /\ out.request.status = req.status /\ out.request.computed = req.computed

\* A request with these fields.
Fields(a, t, c, d, blocks, hashes, full) ==
  [status |-> a, tokens |-> t, computed |-> c, spec |-> d,
   blocks |-> blocks, hashes |-> hashes, ncached |-> full]

LEMMA GrownSane ==
  ASSUME NEW m, NEW req, NEW hits, NEW n, NEW out, NEW w, NEW hashes, NEW s, NEW x,
         Growing(m, req, hits, s, x), Grown(m.blocks, req, hits, n, out, w, hashes)
  PROVE  GrownInto(m, req, hits, n, out, w, hashes, s, x)
  <1> DEFINE blocks == req.blocks \o hits \o w
             full == (Reach(req, hits, n) - Len(req.spec)) \div BlockSize
             z == Slotted(req, s, x, blocks, hashes, full)
             c == Known(req, hits)
             X == Reach(req, hits, n)
  <1>1. Grows(m.blocks, req, hits, X, out, w, hashes, blocks, c, full)
    BY DEF Grown
  <1>2. /\ m.blocks \in Nat /\ req \in RequestType /\ Len(req.tokens) \in 1 .. MaxModelLen - 1
        /\ s \in Words /\ Len(s) <= m.spec /\ x \in Int /\ c \in Nat /\ c <= Len(req.hashes)
    BY DEF Growing
  <1> HIDE DEF blocks, full, c, X
  <1>3. /\ blocks \in Seq(1 .. m.blocks) /\ Lists(blocks, ToSet(blocks))
        /\ Len(blocks) <= max_num_blocks_per_req /\ full \in 0 .. Len(blocks)
        /\ out.request = [req EXCEPT !.blocks = blocks, !.hashes = hashes, !.ncached = full]
        /\ Knowing(hashes, req.tokens, BlockSize) /\ Len(hashes) >= Len(req.hashes)
        /\ full # c => Len(hashes) >= full
    BY <1>1 DEF Grows
  <1>4. z \in RequestType
    BY <1>2, <1>3 DEF RequestType, Slotted, Statuses, Live, Knowing
  <1>5. full <= Len(hashes) /\ full # None
    BY <1>2, <1>3 DEF None, Knowing, RequestType
  <1>6. Sane(m, z)
    BY <1>2, <1>3, <1>4, <1>5, Constants DEF Sane, Slotted
  <1>7. [out.request EXCEPT !.status = "running", !.spec = s, !.computed = x] = z
    <2>1. [out.request EXCEPT !.status = "running", !.spec = s, !.computed = x] =
            Fields("running", req.tokens, x, s, blocks, hashes, full)
      <3> DEFINE o == out.request
      <3>1. o = Fields(req.status, req.tokens, req.computed, req.spec, blocks, hashes, full)
        BY <1>2, <1>3 DEF Fields, RequestType
      <3> HIDE DEF o
      <3>2. [o EXCEPT !.status = "running", !.spec = s, !.computed = x] =
              Fields("running", req.tokens, x, s, blocks, hashes, full)
        <4> DEFINE g == [o EXCEPT !.status = "running"]
                   h == [g EXCEPT !.spec = s]
                   k == [h EXCEPT !.computed = x]
        <4>1. g = Fields("running", req.tokens, req.computed, req.spec, blocks, hashes, full)
          BY <3>1 DEF Fields
        <4> HIDE DEF g
        <4>2. h = Fields("running", req.tokens, req.computed, s, blocks, hashes, full)
          BY <4>1 DEF Fields
        <4> HIDE DEF h
        <4>3. k = [o EXCEPT !.status = "running", !.spec = s, !.computed = x]
          BY DEF k, h, g
        <4> QED BY <4>2, <4>3 DEF Fields
      <3> QED BY <3>2 DEF o
    <2> QED BY <2>1 DEF Slotted, Fields
  <1> QED BY <1>2, <1>3, <1>6, <1>7 DEF blocks, full, X, GrownInto, RequestType

RanFits == RanN + request[Ran].computed - Len(request[Ran].tokens)
RanSpec == IF RanFits > 0 THEN SubSeq(request[Ran].spec, 1, RanFits) ELSE <<>>
RanKeeps == IF RanFits > 0 THEN RanSpec ELSE request[Ran].spec
RanOut == allocate_slots(request[Ran], RanN, <<>>)
RanFull == (Reach(request[Ran], <<>>, RanN) - Len(request[Ran].spec)) \div BlockSize

\* The step of a running request that gets its slots, with the new blocks w.
RunStep(w, hashes) ==
  LET r == Ran
      req == request[r]
      z == Slotted(req, RanKeeps, req.computed, req.blocks \o w, hashes, RanFull)
  IN  /\ r \in Requests /\ req.status = "running" /\ r \notin scheduled_req_ids
      /\ Wanted(req) > 0 /\ RanN \in Nat \ {0} /\ RanN <= pass.budget
      /\ RanFits <= Len(req.spec) /\ RanSpec \in Words /\ Len(RanSpec) <= Len(req.spec)
      /\ Reach(req, <<>>, RanN) = req.computed + RanN
      /\ Asked(mode.blocks, req, <<>>, RanN)
      /\ req.blocks \o <<>> = req.blocks
      /\ Grown(mode.blocks, req, <<>>, RanN, RanOut, w, hashes)
      /\ Sane(mode, z)
      /\ pool' = RanOut.pool
      /\ request' = [request EXCEPT ![r] = z]
      /\ encoder' = allocate(r, TryRunning(r).inputs)
      /\ scheduled_req_ids' = scheduled_req_ids \cup {r}
      /\ pass' = [pass EXCEPT !.index = @ + 1, !.budget = @ - RanN, !.encoder = TryRunning(r).budget,
                    !.output = With(@, r, Output(z, req.computed, RanN, RanSpec))]
      /\ InRunningLoop
      /\ UNCHANGED <<mode, waiting, running, finished_req_ids, batches, compiled, kv>>

LEMMA RunDone ==
  ASSUME Inv, ScheduleRunning, pool'.ok
  PROVE  \E w, hashes : RunStep(w, hashes)
  <1> DEFINE r == Ran
             req == request[r]
             n == RanN
             W == Wanted(req)
             N == mode.blocks
             q == [RanOut.request EXCEPT !.spec = IF RanFits > 0 THEN RanSpec ELSE RanOut.request.spec]
  <1>1. /\ InRunningLoop /\ r \notin scheduled_req_ids
        /\ pool' = IF W > 0 THEN RanOut.pool ELSE [pool EXCEPT !.ok = FALSE]
        /\ encoder' = allocate(r, TryRunning(r).inputs)
        /\ request' = [request EXCEPT ![r] = q]
        /\ scheduled_req_ids' = scheduled_req_ids \cup {r}
        /\ pass' = [pass EXCEPT !.index = @ + 1, !.budget = @ - n, !.encoder = TryRunning(r).budget,
                      !.output = With(@, r, Output(q, q.computed, n, RanSpec))]
        /\ UNCHANGED <<mode, waiting, running, finished_req_ids, batches, compiled, kv>>
    BY DEF ScheduleRunning, Ran, RanN, RanOut, RanSpec, RanFits
  <1>2. N \in Nat /\ pool \in Pools(N) /\ Linked(pool) /\ Filed(pool)
    BY InvFacts
  <1>3. W > 0 /\ RanOut.pool.ok /\ pool' = RanOut.pool
    BY <1>1, <1>2 DEF Pools
  <1>4. Asked(N, req, <<>>, n) /\ n \in Nat \ {0}
    BY <1>3, RunAsked
  <1>5. PICK w, hashes : Grown(N, req, <<>>, n, RanOut, w, hashes)
    BY <1>2, <1>3, <1>4, AllocateFacts DEF RanOut
  <1>6. /\ r \in Requests /\ req.status = "running" /\ W \in Int /\ n \in 0 .. W /\ W <= pass.budget
        /\ W <= Len(req.tokens) + Len(req.spec) - req.computed /\ pass.budget \in Nat
    BY <1>1, <1>3, RunFacts
  <1>7. Sane(mode, req)
    BY <1>6 DEF Inv
  <1>8. /\ req \in RequestType /\ Len(req.tokens) \in 1 .. MaxModelLen /\ Len(req.tokens) < MaxModelLen
        /\ Len(req.spec) <= mode.spec /\ req.ncached \in {None} \cup 0 .. Len(req.blocks)
        /\ req.ncached # None /\ req.ncached <= Len(req.hashes)
    BY <1>6, <1>7 DEF Sane, Live
  <1>9. /\ req.computed \in Int /\ Len(req.spec) \in Nat /\ Len(req.tokens) \in Nat /\ req.spec \in Words
        /\ Len(req.blocks) \in Nat /\ req.blocks \in Seq(Nat)
    BY <1>8 DEF RequestType, Words
  <1>10. RanFits = n + req.computed - Len(req.tokens)
    BY DEF RanFits
  <1> HIDE DEF n, W
  <1>11. RanFits <= Len(req.spec) /\ RanFits \in Int
    <2> HIDE DEF req
    <2> QED BY <1>6, <1>9, <1>10
  <1>12. RanSpec \in Words /\ Len(RanSpec) <= Len(req.spec) /\ (RanFits <= 0 => RanSpec = <<>>)
    BY <1>9, <1>11, Cut DEF RanSpec, Words
  <1>13. RanKeeps \in Words /\ Len(RanKeeps) <= mode.spec
    BY <1>8, <1>9, <1>12, ModeFacts DEF Inv, Types, Words, RanKeeps, req
  <1>14. Known(req, <<>>) = req.ncached /\ req.ncached \in Nat
    BY <1>8, <1>9 DEF Known
  <1>15. Growing(mode, req, <<>>, RanKeeps, req.computed)
    BY <1>2, <1>8, <1>9, <1>13, <1>14, Constants DEF Growing, N
  <1>16. req.blocks \o <<>> = req.blocks
    BY <1>9, ConcatEmpty
  <1>17. Reach(req, <<>>, n) = req.computed + n
    BY <1>4, <1>9, Constants DEF Reach
  <1> DEFINE full == (Reach(req, <<>>, n) - Len(req.spec)) \div BlockSize
             z == Slotted(req, RanKeeps, req.computed, req.blocks \o <<>> \o w, hashes, full)
             o == RanOut.request
  <1>18. /\ Sane(mode, z)
         /\ [o EXCEPT !.status = "running", !.spec = RanKeeps, !.computed = req.computed] = z
         /\ o.tokens = req.tokens /\ o.spec = req.spec
         /\ o.status = req.status /\ o.computed = req.computed
    <2> HIDE DEF req
    <2>1. GrownInto(mode, req, <<>>, n, RanOut, w, hashes, RanKeeps, req.computed)
      BY <1>5, <1>15, GrownSane
    <2> QED BY <2>1 DEF GrownInto, full, z, o
  <1>19. q = z /\ q.computed = req.computed
    <2> DEFINE k == RanKeeps
    <2>1. q = [o EXCEPT !.spec = k]
      BY <1>18 DEF RanKeeps
    <2>2. [o EXCEPT !.spec = k] =
            [o EXCEPT !.status = "running", !.spec = k, !.computed = req.computed]
      BY <1>5, <1>6, <1>8, <1>18 DEF RequestType, Grown, Grows
    <2>3. z.computed = req.computed
      BY DEF Slotted
    <2>4. z = [o EXCEPT !.status = "running", !.spec = k, !.computed = req.computed]
      BY <1>18
    <2> HIDE DEF q, z, k, req, o
    <2> QED BY <2>1, <2>2, <2>3, <2>4
  <1>20. n <= pass.budget
    BY <1>4, <1>6
  <1> WITNESS w, hashes
  <1>21. full = RanFull
    BY DEF RanFull, n
  <1> DEFINE y == Slotted(req, RanKeeps, req.computed, req.blocks \o w, hashes, RanFull)
  <1>22. /\ pass' = [pass EXCEPT !.index = @ + 1, !.budget = @ - n, !.encoder = TryRunning(r).budget,
                      !.output = With(@, r, Output(y, req.computed, n, RanSpec))]
         /\ request' = [request EXCEPT ![r] = y] /\ Sane(mode, y)
    BY <1>1, <1>16, <1>18, <1>19, <1>21 DEF y
  <1> HIDE DEF y, q, z, req, r, full
  <1>23. /\ r \in Requests /\ req.status = "running" /\ r \notin scheduled_req_ids
      /\ Wanted(req) > 0 /\ n \in Nat \ {0} /\ n <= pass.budget
      /\ RanFits <= Len(req.spec) /\ RanSpec \in Words /\ Len(RanSpec) <= Len(req.spec)
      /\ Reach(req, <<>>, n) = req.computed + n
      /\ Asked(mode.blocks, req, <<>>, n)
      /\ req.blocks \o <<>> = req.blocks
      /\ Grown(mode.blocks, req, <<>>, n, RanOut, w, hashes)
      /\ Sane(mode, y)
      /\ pool' = RanOut.pool
      /\ request' = [request EXCEPT ![r] = y]
      /\ encoder' = allocate(r, TryRunning(r).inputs)
      /\ scheduled_req_ids' = scheduled_req_ids \cup {r}
      /\ pass' = [pass EXCEPT !.index = @ + 1, !.budget = @ - n, !.encoder = TryRunning(r).budget,
                    !.output = With(@, r, Output(y, req.computed, n, RanSpec))]
      /\ InRunningLoop
      /\ UNCHANGED <<mode, waiting, running, finished_req_ids, batches, compiled, kv>>
    BY <1>1, <1>3, <1>4, <1>5, <1>6, <1>11, <1>12, <1>16, <1>17, <1>20, <1>22 DEF W
  <1> QED BY <1>23, Zenon DEF RunStep, r, req, n, y

\* Slots for a request, whether it was running or not: what the pool gives.
SlotsGiven(r, req, hits, w, blocks) ==
  /\ r \in Requests
  /\ pool' \in Pools(mode.blocks) /\ Linked(pool') /\ Later(pool, pool') /\ Filed(pool')
  /\ ToSet(blocks) = ToSet(req.blocks) \cup (ToSet(w) \cup ToSet(hits))
  /\ (ToSet(w) \cup ToSet(hits)) \cap ToSet(req.blocks) = {}
  /\ \A b \in 1 .. mode.blocks :
       pool'.ref[b] = IF b \in ToSet(w) \cup ToSet(hits) THEN pool.ref[b] + 1 ELSE pool.ref[b]

LEMMA GrownGiven ==
  ASSUME NEW r \in Requests, NEW req, NEW hits, NEW n, NEW out, NEW w, NEW hashes,
         Grown(mode.blocks, req, hits, n, out, w, hashes), pool' = out.pool,
         ToSet(req.blocks) \cap ToSet(hits) = {}
  PROVE  SlotsGiven(r, req, hits, w, req.blocks \o hits \o w)
  <1> DEFINE N == mode.blocks
             blocks == req.blocks \o hits \o w
             X == Reach(req, hits, n)
             c == Known(req, hits)
             full == (X - Len(req.spec)) \div BlockSize
  <1>1. Grows(N, req, hits, X, out, w, hashes, blocks, c, full)
    BY DEF Grown
  <1> HIDE DEF N, blocks, X, c, full
  <1> QED BY <1>1 DEF SlotsGiven, N, blocks, Grows

\* ... and what follows for the counts.
LEMMA GivenCounts ==
  ASSUME Inv, NEW r \in Requests, NEW hits, NEW w, NEW z,
         SlotsGiven(r, request[r], hits, w, z.blocks), request' = [request EXCEPT ![r] = z], mode' = mode
  PROVE  Counts'
  <1> DEFINE N == mode.blocks
             G == ToSet(w) \cup ToSet(hits)
  <1>1. /\ ToSet(z.blocks) = ToSet(request[r].blocks) \cup G
        /\ G \cap ToSet(request[r].blocks) = {}
        /\ \A b \in 1 .. N : pool'.ref[b] = IF b \in G THEN pool.ref[b] + 1 ELSE pool.ref[b]
    BY DEF SlotsGiven
  <1>2. request'[r] = z /\ \A x \in Requests : x # r => request'[x] = request[x]
    BY InvFacts
  <1>3. mode'.blocks = N
    OBVIOUS
  <1> HIDE DEF N, G
  <1>4. ToSet(request'[r].blocks) = ToSet(request[r].blocks) \cup G
    BY <1>1, <1>2
  <1>5. \A x \in Requests : x # r => request'[x].blocks = request[x].blocks
    BY <1>2
  <1>6. Counts'
    BY <1>3, <1>1, <1>4, <1>5, Gained, InvFacts
  <1> QED BY <1>6 DEF N

LEMMA RunInv ==
  ASSUME Inv, NEW w, NEW hashes, RunStep(w, hashes)
  PROVE  Inv' /\ Later(pool, pool')
  <1> DEFINE r == Ran
             req == request[r]
             N == mode.blocks
             z == Slotted(req, RanKeeps, req.computed, req.blocks \o w, hashes, RanFull)
             try == TryRunning(r)
             e == Output(z, req.computed, RanN, RanSpec)
  <1>1. /\ r \in Requests /\ req.status = "running" /\ RanN \in Nat \ {0} /\ RanN <= pass.budget
        /\ Wanted(req) > 0 /\ RanSpec \in Words
        /\ req.blocks \o <<>> = req.blocks
        /\ Grown(N, req, <<>>, RanN, RanOut, w, hashes)
        /\ Sane(mode, z)
        /\ pool' = RanOut.pool
        /\ request' = [request EXCEPT ![r] = z]
        /\ encoder' = allocate(r, try.inputs)
        /\ scheduled_req_ids' = scheduled_req_ids \cup {r}
        /\ pass' = [pass EXCEPT !.index = @ + 1, !.budget = @ - RanN, !.encoder = try.budget,
                      !.output = With(@, r, e)]
        /\ InRunningLoop
        /\ UNCHANGED <<mode, waiting, running, finished_req_ids, batches, compiled, kv>>
    BY DEF RunStep
  <1>2. try.inputs \subseteq DOMAIN Images[r] /\ try.budget \in Int
    BY <1>1, RunFacts
  <1>3. z.blocks = req.blocks \o <<>> \o w /\ z.status = "running" /\ z \in RequestType
    BY <1>1 DEF Slotted, Sane
  <1>4. ToSet(<<>>) = {}
    BY ListsEmpty
  <1>5. Counts'
    <2>1. SlotsGiven(r, request[r], <<>>, w, z.blocks) /\ request' = [request EXCEPT ![r] = z]
      BY <1>1, <1>3, <1>4, GrownGiven DEF N
    <2> HIDE DEF r, z
    <2> QED BY <1>1, <2>1, GivenCounts
  <1>6. pool' \in Pools(N) /\ Linked(pool') /\ Later(pool, pool') /\ Filed(pool')
    BY <1>1, <1>4, GrownGiven DEF SlotsGiven, N
  <1>7. /\ Queued /\ pass \in Passes /\ scheduled_req_ids \subseteq Requests /\ batches \in Seq(Outputs)
        /\ encoder \in Encoders /\ request \in [Requests -> RequestType] /\ mode \in Modes
    BY DEF Inv, Types
  <1>8. req.computed \in Int
    BY <1>1, <1>7 DEF RequestType
  <1> HIDE DEF z, req, try, r
  <1>9. e \in Entries
    BY <1>1, <1>3, <1>8, OutputFacts
  <1> HIDE DEF e
  <1>10. /\ pass' \in Passes /\ pass'.at = "running" /\ pass'.skipped = pass.skipped
         /\ pass'.budget <= pass.budget
    <2> DEFINE i == pass.index + 1
               b == pass.budget - RanN
               o == With(pass.output, r, e)
    <2>1. i \in Nat \ {0} /\ b \in Nat /\ b <= pass.budget
      BY <1>1, <1>7, PassFacts
    <2>2. pass' = [pass EXCEPT !.index = i, !.budget = b, !.encoder = try.budget, !.output = o]
      BY <1>1
    <2>3. pass.at = "running" /\ o \in Outputs
      BY <1>1, <1>7, <1>9, PassFacts, WithFacts DEF InRunningLoop
    <2> HIDE DEF i, b, o
    <2> QED BY <1>2, <1>7, <2>1, <2>2, <2>3 DEF Passes
  <1>11. encoder' \in Encoders /\ encoder'.cached = [encoder.cached EXCEPT ![r] = encoder.cached[r] \cup try.inputs]
    BY <1>1, <1>2, <1>7, ImageFacts, TakeStep DEF TakenInputs
  <1>12. \A x \in Requests : encoder'.cached[x] \subseteq DOMAIN Images[x]
    BY <1>1, <1>2, <1>7, <1>11 DEF Encoders, Queued
  <1>13. \A x \in Requests : request'[x].status = request[x].status /\ Sane(mode, request'[x])
    BY <1>1, <1>3, <1>7 DEF Inv, req
  <1>14. request' \in [Requests -> RequestType]
    BY <1>1, <1>3, <1>7
  <1>15. Queued'
    <2>1. {x \in Requests : request'[x].status = "running"} = {x \in Requests : request[x].status = "running"}
      BY <1>13
    <2>2. pass'.budget <= mode.budget
      BY <1>7, <1>10, PassFacts, ModeFacts DEF Passes, Queued
    <2>3. pass.at = "running"
      BY <1>1 DEF InRunningLoop
    <2> QED BY <1>1, <1>7, <1>10, <1>12, <1>13, <2>1, <2>2, <2>3 DEF Queued
  <1>16. scheduled_req_ids' \subseteq Requests
    BY <1>1, <1>7
  <1>17. Inv'
    BY <1>1, <1>5, <1>6, <1>7, <1>10, <1>11, <1>13, <1>14, <1>15, <1>16, InvNext DEF N
  <1> QED BY <1>6, <1>17

\* A request without blocks.
LEMMA EmptySane ==
  ASSUME NEW m, NEW z \in RequestType, z.blocks = <<>>, z.ncached = None, z.computed = 0,
         z.status # "running", Len(z.tokens) \in 1 .. MaxModelLen,
         z.status \in Live \cup {"new"} => Len(z.tokens) < MaxModelLen,
         Knowing(z.hashes, z.tokens, BlockSize), Len(z.spec) <= m.spec
  PROVE  Sane(m, z)
  <1>1. <<>> \in Seq(1 .. m.blocks) /\ Lists(<<>>, ToSet(<<>>)) /\ Len(<<>>) <= max_num_blocks_per_req
    <2>1. Lists(<<>>, ToSet(<<>>))
      BY ListsEmpty
    <2> QED BY <2>1, Constants
  <1> QED BY <1>1 DEF Sane

LEMMA FieldsType ==
  ASSUME NEW a \in Statuses, NEW t \in Words, NEW c \in Int, NEW d \in Words, NEW blocks \in Seq(Nat),
         NEW hashes \in Seq(Words), NEW full \in Int
  PROVE  Fields(a, t, c, d, blocks, hashes, full) \in RequestType
  BY DEF Fields, RequestType

LEMMA RequestFields ==
  ASSUME NEW req, req \in RequestType
  PROVE  /\ req.status \in Statuses /\ req.tokens \in Words /\ req.computed \in Int /\ req.spec \in Words
         /\ req.blocks \in Seq(Nat) /\ req.hashes \in Seq(Words) /\ req.ncached \in Int
         /\ req = Fields(req.status, req.tokens, req.computed, req.spec, req.blocks, req.hashes, req.ncached)
         /\ Len(req.tokens) \in Nat /\ Len(req.spec) \in Nat /\ Len(req.blocks) \in Nat /\ Len(req.hashes) \in Nat
  <1> QED BY DEF Words, RequestType, Fields

LEMMA FreedFacts ==
  ASSUME NEW req, req \in RequestType
  PROVE  Freed(req) = Fields(req.status, req.tokens, req.computed, req.spec, <<>>, req.hashes, None)
  <1> DEFINE f == Fields(req.status, req.tokens, req.computed, req.spec, req.blocks, req.hashes, req.ncached)
  <1>1. req = f
    BY RequestFields
  <1> DEFINE g == [f EXCEPT !.blocks = <<>>]
  <1>2. g = Fields(req.status, req.tokens, req.computed, req.spec, <<>>, req.hashes, req.ncached)
    BY DEF Fields
  <1> HIDE DEF g, f
  <1>3. [g EXCEPT !.ncached = None] =
          Fields(req.status, req.tokens, req.computed, req.spec, <<>>, req.hashes, None)
    BY <1>2 DEF Fields
  <1> QED BY <1>1, <1>3 DEF Freed, g

LEMMA PreemptedFacts ==
  ASSUME NEW req, req \in RequestType
  PROVE  LET z == Preempted(req) IN
         /\ z \in RequestType /\ z.status = "preempted" /\ z.tokens = req.tokens /\ z.computed = 0
         /\ z.spec = req.spec /\ z.blocks = <<>> /\ z.hashes = req.hashes /\ z.ncached = None
  <1> DEFINE f == Freed(req)
             a == "preempted"
             z == Fields(a, req.tokens, 0, req.spec, <<>>, req.hashes, None)
  <1>1. f = Fields(req.status, req.tokens, req.computed, req.spec, <<>>, req.hashes, None)
    BY FreedFacts
  <1>2. Preempted(req) = [f EXCEPT !.status = "preempted", !.computed = 0]
    BY DEF Preempted
  <1> HIDE DEF f
  <1>3. Preempted(req) = z
    BY <1>1, <1>2 DEF Fields
  <1>4. a \in Statuses /\ 0 \in Int /\ <<>> \in Seq(Nat) /\ None \in Int
    BY DEF Statuses, Live, None
  <1>5. /\ z.status = "preempted" /\ z.tokens = req.tokens /\ z.computed = 0
        /\ z.spec = req.spec /\ z.blocks = <<>> /\ z.hashes = req.hashes /\ z.ncached = None
    BY DEF Fields
  <1> HIDE DEF a
  <1>6. z \in RequestType
    BY <1>4, RequestFields, FieldsType
  <1> HIDE DEF z
  <1> QED BY <1>3, <1>5, <1>6

LEMMA FinishedFacts ==
  ASSUME NEW req, req \in RequestType
  PROVE  LET z == Finished(req) IN
         /\ z \in RequestType /\ z.status = "finished" /\ z.tokens = req.tokens /\ z.computed = 0
         /\ z.spec = <<>> /\ z.blocks = <<>> /\ z.hashes = <<>> /\ z.ncached = None
  <1> DEFINE f == Freed(req)
             a == "finished"
             z == Fields(a, req.tokens, 0, <<>>, <<>>, <<>>, None)
  <1>1. f = Fields(req.status, req.tokens, req.computed, req.spec, <<>>, req.hashes, None)
    BY FreedFacts
  <1>2. Finished(req) = [f EXCEPT !.status = "finished", !.hashes = <<>>, !.spec = <<>>, !.computed = 0]
    BY DEF Finished
  <1> HIDE DEF f
  <1>3. Finished(req) = z
    BY <1>1, <1>2 DEF Fields
  <1>4. a \in Statuses /\ 0 \in Int /\ <<>> \in Seq(Nat) /\ None \in Int /\ <<>> \in Words /\ <<>> \in Seq(Words)
    BY DEF Statuses, Live, None, Words
  <1>5. /\ z.status = "finished" /\ z.tokens = req.tokens /\ z.computed = 0
        /\ z.spec = <<>> /\ z.blocks = <<>> /\ z.hashes = <<>> /\ z.ncached = None
    BY DEF Fields
  <1> HIDE DEF a
  <1>6. z \in RequestType
    BY <1>4, RequestFields, FieldsType
  <1> HIDE DEF z
  <1> QED BY <1>3, <1>5, <1>6

LEMMA FinishedSane ==
  ASSUME NEW m, m.spec \in Nat, NEW req, req \in RequestType, Len(req.tokens) \in 1 .. MaxModelLen
  PROVE  Sane(m, Finished(req))
  <1> DEFINE z == Finished(req)
  <1>1. /\ z \in RequestType /\ z.status = "finished" /\ z.tokens = req.tokens /\ z.computed = 0
        /\ z.spec = <<>> /\ z.blocks = <<>> /\ z.hashes = <<>> /\ z.ncached = None
    BY FinishedFacts
  <1>2. Knowing(<<>>, req.tokens, BlockSize)
    BY Constants DEF Knowing
  <1>3. "finished" \notin Live \cup {"new"} /\ Len(<<>>) <= m.spec
    BY DEF Live
  <1> HIDE DEF z
  <1>4. Sane(m, z)
    BY <1>1, <1>2, <1>3, EmptySane
  <1> QED BY <1>4 DEF z

\* What a preemption does.
PreemptStep(v, z) ==
  /\ running # <<>> /\ v = Last(running) /\ v \in Requests /\ request[v].status = "running"
  /\ z = Preempted(request[v]) /\ z \in RequestType /\ z.status = "preempted"
  /\ LetGo(mode.blocks, pool, pool') /\ Uses(pool', mode.blocks, {v})
  /\ request' = [request EXCEPT ![v] = z]
  /\ pass' = [pass EXCEPT !.preempted = TRUE]
  /\ UNCHANGED <<mode, encoder, scheduled_req_ids, finished_req_ids, batches, compiled, kv>>

LEMMA PreemptFacts ==
  ASSUME Inv, Preempt
  PROVE  PreemptStep(Last(running), Preempted(request[Last(running)]))
  <1> DEFINE v == Last(running)
             N == mode.blocks
             A == {x \in Requests : request[x].status = "running"}
  <1>1. /\ InRunningLoop /\ pool' = free(pool, v)
        /\ request' = [request EXCEPT ![v] = Preempted(request[v])]
        /\ pass' = [pass EXCEPT !.preempted = TRUE]
        /\ UNCHANGED <<mode, encoder, scheduled_req_ids, finished_req_ids, batches, compiled, kv>>
    BY DEF Preempt
  <1>2. Lists(running, A)
    BY DEF Inv, Queued
  <1>3. running # <<>>
    BY <1>1, RunFacts
  <1> HIDE DEF A
  <1>4. v \in A
    BY <1>2, <1>3, ListsFront
  <1>5. {} \cup {v} = {v} /\ v \notin {}
    OBVIOUS
  <1>6. LetGo(N, pool, free(pool, v)) /\ Uses(free(pool, v), N, {} \cup {v})
    BY <1>4, <1>5, FreeOne, InvFacts DEF A
  <1>7. Preempted(request[v]) \in RequestType /\ Preempted(request[v]).status = "preempted"
    BY <1>4, PreemptedFacts, InvFacts DEF A
  <1> HIDE DEF v
  <1>8. LetGo(N, pool, pool') /\ Uses(pool', N, {v})
    BY <1>1, <1>5, <1>6
  <1> QED BY <1>1, <1>3, <1>4, <1>7, <1>8 DEF PreemptStep, v, A

LEMMA PreemptInv ==
  ASSUME Inv, Preempt
  PROVE  Inv' /\ Later(pool, pool')
  <1> DEFINE v == Last(running)
             z == Preempted(request[v])
             N == mode.blocks
             A == {x \in Requests : request[x].status = "running"}
             L == {x \in Requests : request[x].status \in Live \ {"running"}}
             W == ToSet(waiting)
  <1>1. /\ running # <<>> /\ v \in Requests /\ request[v].status = "running"
        /\ z \in RequestType /\ z.status = "preempted"
        /\ LetGo(N, pool, pool') /\ Uses(pool', N, {v})
        /\ request' = [request EXCEPT ![v] = z]
        /\ pass' = [pass EXCEPT !.preempted = TRUE]
        /\ UNCHANGED <<mode, encoder, scheduled_req_ids, finished_req_ids, batches, compiled, kv>>
    BY PreemptFacts DEF PreemptStep
  <1>2. pass.at = "running" /\ running' = Front(running) /\ waiting' = <<v>> \o waiting
    BY DEF Preempt, InRunningLoop
  <1>3. /\ Queued /\ pass \in Passes /\ scheduled_req_ids \subseteq Requests /\ batches \in Seq(Outputs)
        /\ encoder \in Encoders /\ request \in [Requests -> RequestType] /\ mode \in Modes
    BY DEF Inv, Types
  <1>4. /\ z.tokens = request[v].tokens /\ z.computed = 0 /\ z.spec = request[v].spec
        /\ z.blocks = <<>> /\ z.hashes = request[v].hashes /\ z.ncached = None
    BY <1>1, <1>3, PreemptedFacts
  <1> HIDE DEF v, z
  <1>5. Sane(mode, z)
    BY <1>1, <1>4, EmptySane DEF Inv, Live, Sane
  <1>6. Filed(pool')
    BY <1>1, InvFacts DEF Filed, LetGo
  <1>7. Counts'
    BY <1>1, <1>3, <1>4, Released, InvFacts
  <1>8. pass' \in Passes /\ pass'.at = "running" /\ pass'.skipped = pass.skipped /\ pass'.budget = pass.budget
    BY <1>1, <1>2, <1>3 DEF Passes
  <1>9. /\ Lists(running, A) /\ Lists(waiting, W) /\ pass.skipped = <<>>
        /\ W \cup ToSet(pass.skipped) = L /\ Len(running) <= mode.seqs /\ mode.seqs \in Nat
    BY <1>2, <1>3, ModeFacts DEF Queued
  <1>10. {x \in Requests : request'[x].status = "running"} = A \ {v}
    BY <1>1, <1>3
  <1>11. {x \in Requests : request'[x].status \in Live \ {"running"}} = L \cup {v}
    BY <1>1, <1>3 DEF Live
  <1>12. v \notin W /\ W = L
    BY <1>1, <1>9, ListsEmpty
  <1> HIDE DEF A, L, W
  <1>13. Lists(running', A \ {v}) /\ Len(running') <= mode.seqs
    BY <1>1, <1>2, <1>9, ListsFront, ListsFacts DEF v
  <1>14. Lists(waiting', ToSet(waiting')) /\ ToSet(waiting') = L \cup {v}
    <2>1. Lists(<<v>>, {v})
      BY DEF Lists
    <2>2. Joined(<<v>>, waiting, {v}, W)
      BY <1>9, <1>12, <2>1, ListsJoin DEF Joins
    <2> QED BY <1>2, <1>12, <2>2 DEF Joined
  <1>15. Queued'
    <2>1. /\ pass'.skipped = <<>> /\ Lists(pass'.skipped, ToSet(pass'.skipped))
          /\ ToSet(waiting') \cap ToSet(pass'.skipped) = {}
          /\ ToSet(waiting') \cup ToSet(pass'.skipped) = L \cup {v}
      BY <1>8, <1>9, <1>14, ListsEmpty
    <2>2. /\ pass.budget <= mode.budget /\ (\A x \in Requests : encoder.cached[x] \subseteq DOMAIN Images[x])
          /\ Len(batches) <= mode.queue /\ Len(batches) < mode.queue
      BY <1>2, <1>3 DEF Queued
    <2> QED BY <1>1, <1>8, <1>10, <1>11, <1>13, <1>14, <2>1, <2>2 DEF Queued
  <1>16. Inv'
    BY <1>1, <1>3, <1>5, <1>6, <1>7, <1>8, <1>15, InvNext DEF N, LetGo, Inv
  <1> QED BY <1>1, <1>16 DEF LetGo

-----------------------------------------------------------------------------
(* The head of the waiting queue is admitted, or not.                       *)

Adm == Head(waiting)
AdmHits == Hits(Adm)
AdmStart == Len(AdmHits) * BlockSize
AdmWant == Min({Len(request[Adm].tokens) - AdmStart, pass.budget})
AdmTry == _try_schedule_encoder_inputs(Adm, AdmStart, AdmWant)
AdmStatus == IF request[Adm].status = "waiting_for_fsm" THEN "waiting" ELSE request[Adm].status
AdmHashed == [request[Adm] EXCEPT !.hashes = Hashes(Adm), !.status = AdmStatus]
AdmOut == allocate_slots(AdmHashed, AdmTry.n, AdmHits)
AdmFull == (Reach(AdmHashed, AdmHits, AdmTry.n) - Len(AdmHashed.spec)) \div BlockSize

AdmitFacts0 ==
  LET req == request[Adm]
      N == mode.blocks
  IN  /\ waiting # <<>> /\ Adm \in Requests /\ req.status \in Live \ {"running"}
      /\ Adm \in ToSet(waiting)
      /\ req.blocks = <<>> /\ req.ncached = None /\ req.computed = 0
      /\ Hitting(N, Adm, AdmHits) /\ AdmStart \in Nat /\ AdmStart < Len(req.tokens)
      /\ Len(AdmHits) \in Nat /\ Len(AdmHits) <= max_num_blocks_per_req
      /\ AdmTry.n \in Nat /\ AdmTry.n <= pass.budget /\ AdmStart + AdmTry.n <= Len(req.tokens)
      /\ AdmTry.inputs \subseteq DOMAIN Images[Adm] /\ AdmTry.budget \in Int
      /\ AdmHashed = Fields(AdmStatus, req.tokens, 0, req.spec, <<>>, Hashes(Adm), None)
      /\ AdmHashed \in RequestType /\ Sane(mode, AdmHashed) /\ AdmStatus \in Live \ {"running"}
      /\ AdmStatus = IF req.status = "waiting_for_fsm" THEN "waiting" ELSE req.status
      /\ Knowing(Hashes(Adm), req.tokens, BlockSize) /\ Len(Hashes(Adm)) \in Nat

LEMMA AdmitFacts ==
  ASSUME Inv, InWaitingLoop
  PROVE  AdmitFacts0
  <1> DEFINE r == Adm
             req == request[r]
             N == mode.blocks
             L == {x \in Requests : request[x].status \in Live \ {"running"}}
             H == Hashes(r)
  <1>1. /\ Queued /\ pass \in Passes /\ waiting # <<>> /\ pass.budget > 0
    BY DEF Inv, Types, InWaitingLoop
  <1>2. r \in ToSet(waiting)
    BY <1>1, ListsTail DEF Adm, Queued
  <1>3. r \in Requests /\ req.status \in Live \ {"running"}
    BY <1>1, <1>2 DEF Queued
  <1>4. /\ req \in RequestType /\ Len(req.tokens) \in 1 .. MaxModelLen /\ Len(req.tokens) < MaxModelLen
        /\ Knowing(req.hashes, req.tokens, BlockSize) /\ Len(req.spec) <= mode.spec
        /\ req.blocks = <<>> /\ req.ncached = None /\ req.computed = 0
    BY <1>3, InvFacts DEF Sane
  <1>5. /\ req.tokens \in Words /\ req.spec \in Words /\ Len(req.tokens) \in Nat /\ Len(req.tokens) > 0
        /\ req = Fields(req.status, req.tokens, req.computed, req.spec, req.blocks, req.hashes, req.ncached)
    BY <1>4, RequestFields
  <1>6. Hitting(N, r, AdmHits)
    BY <1>3, <1>4, <1>5, HitsFacts, InvFacts DEF AdmHits
  <1>7. Knowing(H, req.tokens, BlockSize) /\ Len(H) \in Nat
    BY <1>4, <1>5, HashesFacts
  <1>8. /\ AdmHits \in Seq(1 .. N) /\ Len(AdmHits) \in Nat
        /\ AdmStart < Len(req.tokens)
    BY <1>6 DEF Hitting, AdmStart
  <1>9. AdmStart \in Nat
    BY <1>8, Constants DEF AdmStart
  <1>10. Len(AdmHits) <= max_num_blocks_per_req
    BY <1>4, <1>5, <1>8, <1>9, Constants DEF AdmStart
  <1> DEFINE a == Len(req.tokens) - AdmStart
  <1>11. a \in Int /\ a > 0 /\ pass.budget \in Int /\ pass.budget \in Nat /\ pass.encoder \in Int
    BY <1>1, <1>5, <1>8, <1>9, PassFacts
  <1>12. AdmWant = Min({a, pass.budget})
    BY DEF AdmWant
  <1> HIDE DEF a
  <1>13. AdmWant \in {a, pass.budget} /\ AdmWant <= a /\ AdmWant <= pass.budget
    BY <1>11, <1>12, MinTwo, Zenon
  <1>14. AdmWant \in Nat
    BY <1>1, <1>11, <1>13
  <1>15. /\ AdmTry.n \in 0 .. AdmWant /\ AdmTry.inputs \subseteq DOMAIN Images[r]
         /\ AdmTry.budget \in Int
    BY <1>3, <1>9, <1>11, <1>14, TryFacts DEF AdmTry
  <1>16. AdmTry.n \in Nat /\ AdmTry.n <= pass.budget /\ AdmStart + AdmTry.n <= Len(req.tokens)
    BY <1>5, <1>9, <1>11, <1>13, <1>14, <1>15 DEF a
  <1>17. AdmStatus \in Live \ {"running"} /\ AdmStatus \in Statuses
    BY <1>3 DEF AdmStatus, Live, Statuses
  <1>18. AdmHashed = Fields(AdmStatus, req.tokens, 0, req.spec, <<>>, H, None)
    <2>1. AdmHashed = [req EXCEPT !.hashes = H, !.status = AdmStatus]
      BY DEF AdmHashed
    <2> HIDE DEF req, H
    <2> DEFINE g == [req EXCEPT !.hashes = H]
    <2>2. g = Fields(req.status, req.tokens, 0, req.spec, <<>>, H, None)
      BY <1>4, <1>5 DEF Fields
    <2>3. AdmHashed = [g EXCEPT !.status = AdmStatus]
      BY <2>1
    <2> HIDE DEF g
    <2> QED BY <2>2, <2>3 DEF Fields
  <1>19. AdmHashed \in RequestType
    <2>1. 0 \in Int /\ <<>> \in Seq(Nat) /\ None \in Int /\ H \in Seq(Words)
      BY <1>7 DEF None, Knowing
    <2> HIDE DEF H, req
    <2> QED BY <1>5, <1>17, <1>18, <2>1, FieldsType
  <1>20. Sane(mode, AdmHashed)
    BY <1>4, <1>7, <1>17, <1>18, <1>19, EmptySane DEF Fields
  <1>21. AdmStatus = IF req.status = "waiting_for_fsm" THEN "waiting" ELSE req.status
    BY DEF AdmStatus
  <1> QED BY <1>1, <1>2, <1>3, <1>4, <1>6, <1>7, <1>8, <1>9, <1>10, <1>15, <1>16, <1>17, <1>18, <1>19, <1>20, <1>21
        DEF AdmitFacts0

LEMMA AdmitAsked ==
  ASSUME Inv, AdmitFacts0, CanAllocate(AdmHashed, AdmTry.n, AdmHits)
  PROVE  /\ Asked(mode.blocks, AdmHashed, AdmHits, AdmTry.n) /\ Known(AdmHashed, AdmHits) = Len(AdmHits)
         /\ Reach(AdmHashed, AdmHits, AdmTry.n) = AdmStart + AdmTry.n
         /\ AdmHashed.blocks \o AdmHits = AdmHits
  <1> DEFINE req == request[Adm]
             z == AdmHashed
             N == mode.blocks
             n == AdmTry.n
  <1>1. /\ Hitting(N, Adm, AdmHits) /\ Len(AdmHits) \in Nat /\ Len(AdmHits) <= max_num_blocks_per_req
        /\ AdmStart \in Nat /\ n \in Nat /\ AdmStart + n <= Len(req.tokens)
        /\ z = Fields(AdmStatus, req.tokens, 0, req.spec, <<>>, Hashes(Adm), None)
        /\ z \in RequestType /\ Sane(mode, z)
    BY DEF AdmitFacts0
  <1>2. /\ z.tokens = req.tokens /\ z.computed = 0 /\ z.spec = req.spec /\ z.blocks = <<>> /\ z.ncached = None
    BY <1>1 DEF Fields
  <1> HIDE DEF z, req, n
  <1>3. Known(z, AdmHits) = Len(AdmHits)
    BY <1>2 DEF Known
  <1>4. Reach(z, AdmHits, n) = AdmStart + n
    BY <1>1, <1>2 DEF Reach, AdmStart
  <1>5. Reach(z, AdmHits, n) - Len(z.spec) <= Len(z.tokens)
    BY <1>1, <1>2, <1>4, RequestFields
  <1>6. /\ z.blocks \in Seq(1 .. N) /\ Lists(z.blocks, ToSet(z.blocks)) /\ ToSet(z.blocks) = {}
        /\ Len(z.blocks) = 0
    <2>1. <<>> \in Seq(1 .. N) /\ Len(<<>>) = 0
      OBVIOUS
    <2> QED BY <1>2, <2>1, ListsEmpty
  <1>7. Len(z.blocks) + Len(AdmHits) <= max_num_blocks_per_req /\ Len(z.tokens) <= MaxModelLen
    BY <1>1, <1>6 DEF Sane
  <1>8. Known(z, AdmHits) \in Nat
    BY <1>1, <1>3
  <1>9. CanAllocate(z, n, AdmHits)
    BY DEF z, n
  <1>10. Asked(N, z, AdmHits, n)
    BY <1>1, <1>5, <1>6, <1>7, <1>8, <1>9 DEF Asked, Hitting, Sane
  <1>11. z.blocks \o AdmHits = AdmHits
    BY <1>1, <1>2 DEF Hitting
  <1> QED BY <1>3, <1>4, <1>10, <1>11 DEF z, n

\* The request is admitted, with the new blocks w.
AdmReq(w, hashes) ==
  Slotted(AdmHashed, AdmHashed.spec, AdmStart, AdmHits \o w, hashes, AdmFull)
AdmitStep(w, hashes) ==
  LET r == Adm
      z == AdmReq(w, hashes)
  IN  /\ AdmitFacts0 /\ AdmTry.n # 0
      /\ Asked(mode.blocks, AdmHashed, AdmHits, AdmTry.n) /\ Known(AdmHashed, AdmHits) = Len(AdmHits)
      /\ Reach(AdmHashed, AdmHits, AdmTry.n) = AdmStart + AdmTry.n
      /\ Grown(mode.blocks, AdmHashed, AdmHits, AdmTry.n, AdmOut, w, hashes)
      /\ AdmHashed.blocks \o AdmHits = AdmHits
      /\ Sane(mode, z)
      /\ pool' = AdmOut.pool
      /\ request' = [request EXCEPT ![r] = z]
      /\ encoder' = allocate(r, AdmTry.inputs)
      /\ waiting' = Tail(waiting)
      /\ running' = Append(running, r)
      /\ scheduled_req_ids' = scheduled_req_ids \cup {r}
      /\ pass' = [pass EXCEPT !.budget = @ - AdmTry.n, !.encoder = AdmTry.budget,
                    !.output = With(@, r, Output(z, AdmStart, AdmTry.n, <<>>))]
      /\ InWaitingLoop
      /\ UNCHANGED <<mode, finished_req_ids, batches, compiled, kv>>

\* It is not.
StayStep ==
  /\ AdmitFacts0 /\ InWaitingLoop
  /\ request' = [request EXCEPT ![Adm] = AdmHashed]
  /\ pass' = [pass EXCEPT !.at = "end"]
  /\ UNCHANGED <<mode, pool, encoder, waiting, running, scheduled_req_ids, finished_req_ids,
                 batches, compiled, kv>>

\* The action, with the names above.
AdmAction ==
  LET done == [AdmOut.request EXCEPT !.status = "running", !.computed = AdmStart]
  IN  \/ /\ AdmTry.n # 0 /\ CanAllocate(AdmHashed, AdmTry.n, AdmHits)
         /\ pool' = AdmOut.pool
         /\ request' = [request EXCEPT ![Adm] = done]
         /\ encoder' = allocate(Adm, AdmTry.inputs)
         /\ waiting' = Tail(waiting)
         /\ running' = Append(running, Adm)
         /\ scheduled_req_ids' = scheduled_req_ids \cup {Adm}
         /\ pass' = [pass EXCEPT !.budget = @ - AdmTry.n, !.encoder = AdmTry.budget,
                       !.output = With(@, Adm, Output(done, AdmStart, AdmTry.n, <<>>))]
         /\ InWaitingLoop
         /\ UNCHANGED <<mode, finished_req_ids, batches, compiled, kv>>
      \/ /\ InWaitingLoop
         /\ request' = [request EXCEPT ![Adm] = AdmHashed]
         /\ pass' = [pass EXCEPT !.at = "end"]
         /\ UNCHANGED <<mode, pool, encoder, waiting, running, scheduled_req_ids, finished_req_ids,
                        batches, compiled, kv>>

LEMMA AdmitAction ==
  ASSUME ScheduleWaiting
  PROVE  AdmAction /\ InWaitingLoop /\ ~NotReady(Adm)
  BY DEF ScheduleWaiting, AdmAction, Adm, AdmHits, AdmStart, AdmWant, AdmTry, AdmStatus, AdmHashed, AdmOut

LEMMA AdmitDone ==
  ASSUME Inv, ScheduleWaiting, pool'.ok
  PROVE  StayStep \/ \E w, hashes : AdmitStep(w, hashes)
  <1> DEFINE r == Adm
             req == AdmHashed
             n == AdmTry.n
             N == mode.blocks
             hits == AdmHits
             q == [AdmOut.request EXCEPT !.status = "running", !.computed = AdmStart]
  <1>1. AdmAction /\ InWaitingLoop /\ AdmitFacts0
    BY AdmitAction, AdmitFacts
  <1>2. CASE /\ InWaitingLoop
             /\ request' = [request EXCEPT ![Adm] = AdmHashed]
             /\ pass' = [pass EXCEPT !.at = "end"]
             /\ UNCHANGED <<mode, pool, encoder, waiting, running, scheduled_req_ids, finished_req_ids,
                            batches, compiled, kv>>
    BY <1>1, <1>2 DEF StayStep
  <1>3. CASE /\ AdmTry.n # 0 /\ CanAllocate(AdmHashed, AdmTry.n, AdmHits)
             /\ pool' = AdmOut.pool
             /\ request' = [request EXCEPT ![Adm] = q]
             /\ encoder' = allocate(Adm, AdmTry.inputs)
             /\ waiting' = Tail(waiting)
             /\ running' = Append(running, Adm)
             /\ scheduled_req_ids' = scheduled_req_ids \cup {Adm}
             /\ pass' = [pass EXCEPT !.budget = @ - AdmTry.n, !.encoder = AdmTry.budget,
                           !.output = With(@, Adm, Output(q, AdmStart, AdmTry.n, <<>>))]
             /\ InWaitingLoop
             /\ UNCHANGED <<mode, finished_req_ids, batches, compiled, kv>>
    <2>1. N \in Nat /\ pool \in Pools(N) /\ Linked(pool) /\ Filed(pool)
      BY InvFacts
    <2>2. /\ Asked(N, req, hits, n) /\ Known(req, hits) = Len(hits)
          /\ Reach(req, hits, n) = AdmStart + n /\ req.blocks \o hits = hits
      BY <1>1, <1>3, AdmitAsked
    <2>3. PICK w, hashes : Grown(N, req, hits, n, AdmOut, w, hashes)
      BY <1>3, <2>1, <2>2, AllocateFacts DEF AdmOut
    <2>4. /\ req \in RequestType /\ Sane(mode, req) /\ AdmStatus \in Live \ {"running"}
          /\ req = Fields(AdmStatus, request[Adm].tokens, 0, request[Adm].spec, <<>>, Hashes(Adm), None)
          /\ Len(hits) \in Nat /\ AdmStart \in Nat /\ Hitting(N, Adm, hits)
      BY <1>1 DEF AdmitFacts0
    <2>5. Len(hits) <= Len(req.hashes)
      BY <2>4 DEF Hitting, Fields
    <2>6. Growing(mode, req, hits, req.spec, AdmStart)
      BY <2>1, <2>2, <2>4, <2>5, Constants, RequestFields DEF Sane, Fields, Growing
    <2> DEFINE full == (Reach(req, hits, n) - Len(req.spec)) \div BlockSize
               z == Slotted(req, req.spec, AdmStart, req.blocks \o hits \o w, hashes, full)
               o == AdmOut.request
    <2>7. /\ Sane(mode, z)
          /\ [o EXCEPT !.status = "running", !.spec = req.spec, !.computed = AdmStart] = z
          /\ o.spec = req.spec
      <3> HIDE DEF req, hits, n
      <3>1. GrownInto(mode, req, hits, n, AdmOut, w, hashes, req.spec, AdmStart)
        BY <2>3, <2>6, GrownSane
      <3> QED BY <3>1 DEF GrownInto, full, z, o
    <2>8. q = z
      <3>1. o.spec = req.spec
        BY <2>7
      <3> HIDE DEF o, req, z
      <3>2. [o EXCEPT !.status = "running", !.computed = AdmStart] =
              [o EXCEPT !.status = "running", !.spec = req.spec, !.computed = AdmStart]
        BY <2>3, <2>4, <3>1 DEF RequestType, Grown, Grows
      <3> QED BY <2>7, <3>2 DEF o
    <2>9. AdmitStep(w, hashes)
      BY <1>1, <1>3, <2>2, <2>3, <2>7, <2>8 DEF AdmitStep, AdmReq, AdmFull
    <2> QED BY <2>9
  <1> QED BY <1>1, <1>2, <1>3, Zenon DEF AdmAction, q

LEMMA StayInv ==
  ASSUME Inv, StayStep
  PROVE  Inv' /\ Later(pool, pool')
  <1> DEFINE r == Adm
             z == AdmHashed
             N == mode.blocks
  <1>1. /\ pass.at = "waiting" /\ request' = [request EXCEPT ![r] = z]
        /\ pass' = [pass EXCEPT !.at = "end"] /\ AdmitFacts0
        /\ UNCHANGED <<mode, pool, encoder, waiting, running, scheduled_req_ids, finished_req_ids,
                       batches, compiled, kv>>
    BY DEF StayStep, InWaitingLoop
  <1>2. /\ r \in Requests /\ z \in RequestType /\ Sane(mode, z) /\ request[r].blocks = <<>>
        /\ request[r].status \in Live \ {"running"} /\ AdmStatus \in Live \ {"running"}
        /\ z = Fields(AdmStatus, request[r].tokens, 0, request[r].spec, <<>>, Hashes(r), None)
    BY <1>1 DEF AdmitFacts0
  <1> HIDE DEF z, r
  <1>3. /\ Queued /\ pass \in Passes /\ scheduled_req_ids \subseteq Requests /\ batches \in Seq(Outputs)
        /\ encoder \in Encoders /\ request \in [Requests -> RequestType] /\ mode \in Modes
    BY DEF Inv, Types
  <1>4. \A x \in Requests : /\ request'[x].blocks = request[x].blocks
                            /\ request'[x].status = "running" <=> request[x].status = "running"
                            /\ request'[x].status \in Live \ {"running"} <=> request[x].status \in Live \ {"running"}
    BY <1>1, <1>2, <1>3 DEF Fields
  <1>5. Counts'
    BY <1>1, <1>4, Released, InvFacts
  <1>6. Later(pool, pool)
    BY SameChain, InvFacts
  <1>7. /\ pass' \in Passes /\ pass'.at = "end" /\ pass'.skipped = pass.skipped /\ pass'.budget = pass.budget
    BY <1>1, <1>3 DEF Passes
  <1>8. Queued'
    BY <1>1, <1>3, <1>4, <1>7 DEF Queued
  <1>9. Inv'
    BY <1>1, <1>2, <1>3, <1>5, <1>7, <1>8, InvNext, InvFacts DEF Inv
  <1> QED BY <1>1, <1>6, <1>9

LEMMA AdmitInv ==
  ASSUME Inv, NEW w, NEW hashes, AdmitStep(w, hashes)
  PROVE  Inv' /\ Later(pool, pool')
  <1> DEFINE r == Adm
             req == AdmHashed
             N == mode.blocks
             z == AdmReq(w, hashes)
             try == AdmTry
             n == AdmTry.n
             e == Output(z, AdmStart, n, <<>>)
             A == {x \in Requests : request[x].status = "running"}
             L == {x \in Requests : request[x].status \in Live \ {"running"}}
             W == ToSet(waiting)
             S == ToSet(pass.skipped)
  <1>1. /\ AdmitFacts0 /\ n # 0
        /\ Asked(N, req, AdmHits, n)
        /\ Grown(N, req, AdmHits, n, AdmOut, w, hashes)
        /\ req.blocks \o AdmHits = AdmHits
        /\ Sane(mode, z)
        /\ pool' = AdmOut.pool
        /\ request' = [request EXCEPT ![r] = z]
        /\ encoder' = allocate(r, try.inputs)
        /\ waiting' = Tail(waiting)
        /\ running' = Append(running, r)
        /\ scheduled_req_ids' = scheduled_req_ids \cup {r}
        /\ pass' = [pass EXCEPT !.budget = @ - n, !.encoder = try.budget, !.output = With(@, r, e)]
        /\ InWaitingLoop
        /\ UNCHANGED <<mode, finished_req_ids, batches, compiled, kv>>
    BY DEF AdmitStep
  <1>2. /\ r \in Requests /\ request[r].status \in Live \ {"running"} /\ r \in W /\ waiting # <<>>
        /\ request[r].blocks = <<>> /\ AdmStart \in Nat /\ n \in Nat /\ n <= pass.budget
        /\ try.inputs \subseteq DOMAIN Images[r] /\ try.budget \in Int
        /\ req = Fields(AdmStatus, request[r].tokens, 0, request[r].spec, <<>>, Hashes(r), None)
    BY <1>1 DEF AdmitFacts0
  <1>3. z.blocks = AdmHits \o w /\ z.status = "running" /\ z \in RequestType
    BY <1>1 DEF Slotted, Sane, AdmReq
  <1>4. SlotsGiven(r, req, AdmHits, w, req.blocks \o AdmHits \o w)
    BY <1>1, <1>2, GrownGiven, ListsEmpty DEF N, Fields
  <1> HIDE DEF z, req, n, try
  <1>5. Counts'
    <2>1. SlotsGiven(r, request[r], AdmHits, w, z.blocks) /\ request' = [request EXCEPT ![r] = z] /\ mode' = mode
      BY <1>1, <1>2, <1>3, <1>4, ListsEmpty DEF SlotsGiven, Fields
    <2> HIDE DEF r
    <2> QED BY <1>2, <2>1, GivenCounts
  <1>6. pool' \in Pools(N) /\ Linked(pool') /\ Later(pool, pool') /\ Filed(pool')
    BY <1>4 DEF SlotsGiven
  <1>7. /\ Queued /\ pass \in Passes /\ scheduled_req_ids \subseteq Requests /\ batches \in Seq(Outputs)
        /\ encoder \in Encoders /\ request \in [Requests -> RequestType] /\ mode \in Modes
    BY DEF Inv, Types
  <1> HIDE DEF r
  <1>8. e \in Entries
    <2>1. <<>> \in Words /\ AdmStart \in Int
      BY <1>2 DEF Words
    <2> QED BY <1>2, <1>3, <2>1, OutputFacts
  <1> HIDE DEF e
  <1>9. /\ pass' \in Passes /\ pass'.at = "waiting" /\ pass'.skipped = pass.skipped
        /\ pass'.budget <= pass.budget /\ pass'.budget \in Nat
    <2> DEFINE b == pass.budget - n
               o == With(pass.output, r, e)
    <2>1. pass.budget \in Nat
      BY <1>7, PassFacts
    <2>2. b \in Nat /\ b <= pass.budget
      BY <1>2, <2>1
    <2>3. pass' = [pass EXCEPT !.budget = b, !.encoder = try.budget, !.output = o]
      BY <1>1
    <2>4. pass.at = "waiting" /\ o \in Outputs
      BY <1>1, <1>2, <1>7, <1>8, PassFacts, WithFacts DEF InWaitingLoop
    <2> HIDE DEF b, o
    <2> QED BY <1>2, <1>7, <2>2, <2>3, <2>4 DEF Passes
  <1>10. encoder' \in Encoders /\ encoder'.cached = [encoder.cached EXCEPT ![r] = encoder.cached[r] \cup try.inputs]
    <2>1. try.inputs \in SUBSET Nat
      BY <1>2, ImageFacts
    <2> QED BY <1>1, <1>2, <1>7, <2>1, TakeStep DEF TakenInputs
  <1>11. \A x \in Requests : encoder'.cached[x] \subseteq DOMAIN Images[x]
    BY <1>2, <1>7, <1>10 DEF Encoders, Queued
  <1>12. request' \in [Requests -> RequestType] /\ \A x \in Requests : Sane(mode, request'[x])
    BY <1>1, <1>2, <1>3, <1>7 DEF Inv
  <1>13. /\ Lists(running, A) /\ Lists(waiting, W) /\ Lists(pass.skipped, S) /\ W \cap S = {} /\ W \cup S = L
         /\ Len(running) <= mode.seqs /\ mode.seqs \in Nat /\ Len(running) # mode.seqs
    BY <1>1, <1>7, ModeFacts DEF Queued, InWaitingLoop
  <1>14. {x \in Requests : request'[x].status = "running"} = A \cup {r}
    BY <1>1, <1>2, <1>3, <1>7
  <1>15. {x \in Requests : request'[x].status \in Live \ {"running"}} = L \ {r}
    BY <1>1, <1>3, <1>7
  <1>16. r \notin A /\ r \notin S
    BY <1>2, <1>13
  <1> HIDE DEF A, L, W, S
  <1>17. Lists(running', A \cup {r}) /\ Len(running') <= mode.seqs
    <2>1. Lists(Append(running, r), A \cup {r})
      BY <1>13, <1>16, ListsAppend
    <2> QED BY <1>1, <1>13, <2>1, ListsFacts
  <1>18. Lists(waiting', ToSet(waiting')) /\ ToSet(waiting') = W \ {r}
    <2>1. Lists(Tail(waiting), W \ {r}) /\ ToSet(Tail(waiting)) = W \ {r}
      BY <1>2, <1>13, ListsTail DEF r, Adm
    <2> QED BY <1>1, <2>1
  <1>19. Queued'
    <2>1. /\ Lists(pass'.skipped, ToSet(pass'.skipped)) /\ ToSet(pass'.skipped) = S
          /\ ToSet(waiting') \cap ToSet(pass'.skipped) = {}
          /\ ToSet(waiting') \cup ToSet(pass'.skipped) = L \ {r}
      BY <1>9, <1>13, <1>16, <1>18 DEF S
    <2>2. pass'.budget <= mode.budget
      BY <1>7, <1>9, PassFacts, ModeFacts DEF Queued
    <2>3. Len(batches) <= mode.queue /\ Len(batches) < mode.queue
      BY <1>1, <1>7 DEF InWaitingLoop, Queued
    <2> QED BY <1>1, <1>9, <1>11, <1>14, <1>15, <1>17, <1>18, <2>1, <2>2, <2>3 DEF Queued
  <1>20. scheduled_req_ids' \subseteq Requests
    BY <1>1, <1>2, <1>7
  <1>21. Inv'
    BY <1>1, <1>5, <1>6, <1>7, <1>9, <1>10, <1>12, <1>19, <1>20, InvNext DEF N
  <1> QED BY <1>6, <1>21

-----------------------------------------------------------------------------
(* The requests of the clients.                                             *)

LEMMA AddInv ==
  ASSUME Inv, NEW r \in Requests, add_request(r)
  PROVE  Inv' /\ Later(pool, pool')
  <1> DEFINE a == IF r \in Guided THEN "waiting_for_fsm" ELSE "waiting"
             z == [request[r] EXCEPT !.status = a]
             N == mode.blocks
             A == {x \in Requests : request[x].status = "running"}
             L == {x \in Requests : request[x].status \in Live \ {"running"}}
             W == ToSet(waiting)
  <1>1. /\ pass.at = "idle" /\ request[r].status = "new" /\ waiting' = Append(waiting, r)
        /\ request' = [request EXCEPT ![r].status = a]
        /\ UNCHANGED <<mode, pool, encoder, running, scheduled_req_ids, finished_req_ids, pass,
                       batches, compiled, kv>>
    BY DEF add_request
  <1>2. /\ Queued /\ pass \in Passes /\ scheduled_req_ids \subseteq Requests /\ batches \in Seq(Outputs)
        /\ encoder \in Encoders /\ request \in [Requests -> RequestType] /\ mode \in Modes
    BY DEF Inv, Types
  <1>3. request' = [request EXCEPT ![r] = z]
    BY <1>1, <1>2
  <1>4. a \in Live \ {"running"} /\ a \in Statuses
    BY DEF Live, Statuses
  <1> HIDE DEF a
  <1>5. /\ z \in RequestType /\ z.status = a /\ z.tokens = request[r].tokens
        /\ z.computed = request[r].computed /\ z.spec = request[r].spec
        /\ z.blocks = request[r].blocks /\ z.hashes = request[r].hashes /\ z.ncached = request[r].ncached
    BY <1>2, <1>4 DEF RequestType
  <1> HIDE DEF z
  <1>6. Sane(mode, request[r])
    BY DEF Inv
  <1>7. Sane(mode, z)
    BY <1>1, <1>4, <1>5, <1>6, EmptySane DEF Sane
  <1>8. request' \in [Requests -> RequestType] /\ \A x \in Requests : Sane(mode, request'[x])
    BY <1>2, <1>3, <1>5, <1>7 DEF Inv
  <1>9. N \in Nat /\ pool \in Pools(N) /\ Linked(pool) /\ Filed(pool) /\ Uses(pool, N, {})
    BY InvFacts
  <1>10. Counts'
    BY <1>1, <1>2, <1>3, <1>5, <1>9, Released
  <1>11. Later(pool, pool)
    BY <1>9, SameChain
  <1>12. {x \in Requests : request'[x].status = "running"} = A
    BY <1>1, <1>2, <1>3, <1>4, <1>5
  <1>13. {x \in Requests : request'[x].status \in Live \ {"running"}} = L \cup {r}
    BY <1>2, <1>3, <1>4, <1>5
  <1>14. /\ Lists(running, A) /\ Lists(waiting, W) /\ pass.skipped = <<>> /\ W \cup ToSet(pass.skipped) = L
    BY <1>1, <1>2 DEF Queued
  <1>15. W = L /\ r \notin L
    BY <1>1, <1>14, ListsEmpty DEF Live
  <1> HIDE DEF A, L, W
  <1>16. Lists(waiting', ToSet(waiting')) /\ ToSet(waiting') = L \cup {r}
    <2>1. Lists(waiting, L) /\ r \notin L
      BY <1>14, <1>15
    <2>2. Lists(Append(waiting, r), L \cup {r}) /\ ToSet(Append(waiting, r)) = L \cup {r}
      BY <2>1, ListsAppend
    <2> QED BY <1>1, <2>2
  <1>17. Queued'
    BY <1>1, <1>2, <1>12, <1>13, <1>14, <1>16, ListsEmpty DEF Queued
  <1>18. Inv'
    BY <1>1, <1>2, <1>8, <1>9, <1>10, <1>17, InvNext
  <1> QED BY <1>1, <1>11, <1>18

LEMMA ResetInv ==
  ASSUME Inv, ResetPrefixCache
  PROVE  Inv' /\ Later(pool, pool')
  <1> DEFINE N == mode.blocks
             e == [h \in {} |-> <<>>]
             g == [b \in DOMAIN pool.hash |-> NoHash]
  <1>1. /\ pool' = [pool EXCEPT !.cached = e, !.hash = g]
        /\ UNCHANGED <<mode, encoder, request, queues, pass, batches, compiled, kv>>
    BY DEF ResetPrefixCache, reset_prefix_cache
  <1>2. N \in Nat /\ pool \in Pools(N) /\ Linked(pool) /\ Filed(pool) /\ Uses(pool, N, {})
    BY InvFacts
  <1>3. DOMAIN pool.hash = 1 .. N
    BY <1>2, PoolFields
  <1>4. NoHash \in Words
    BY DEF NoHash, Words
  <1>5. g \in [1 .. N -> Words] /\ \A b \in 1 .. N : g[b] = NoHash
    BY <1>3, <1>4
  <1>6. e \in Caches(N) /\ DOMAIN e = {}
    BY DEF Caches
  <1> HIDE DEF e, g
  <1>7. /\ pool' \in Pools(N) /\ pool'.hash = g /\ pool'.cached = e /\ pool'.ref = pool.ref
        /\ pool'.num = pool.num /\ pool'.head = pool.head /\ pool'.tail = pool.tail
        /\ pool'.next = pool.next /\ pool'.prev = pool.prev /\ pool'.ok = pool.ok
    BY <1>1, <1>2, <1>5, <1>6 DEF Pools
  <1>8. Linked(pool') /\ Later(pool, pool')
    BY <1>2, <1>7, SameChain
  <1>9. Filed(pool')
    BY <1>5, <1>6, <1>7 DEF Filed
  <1>10. Counts'
    BY <1>1, <1>2, <1>7, Released
  <1>11. Inv'
    BY <1>1, <1>7, <1>8, <1>9, <1>10, InvNext DEF queues, Inv, Types, Queued
  <1> QED BY <1>8, <1>11

\* An abort lets the blocks go.
AbortStep(r) ==
  /\ r \in Requests /\ request[r].status \in Live
  /\ LetGo(mode.blocks, pool, pool') /\ Uses(pool', mode.blocks, {r})
  /\ request' = [request EXCEPT ![r] = Finished(request[r])]
  /\ pass.at = "idle" /\ UNCHANGED <<mode, pass, batches, compiled, kv>>

LEMMA AbortFacts ==
  ASSUME Inv, NEW r \in Requests, abort_request(r)
  PROVE  AbortStep(r)
  <1> DEFINE N == mode.blocks
  <1>1. LetGo(N, pool, free(pool, r)) /\ Uses(free(pool, r), N, {} \cup {r})
    BY FreeOne, InvFacts
  <1>2. LetGo(N, pool, pool') /\ Uses(pool', N, {r})
    BY <1>1 DEF abort_request
  <1> QED BY <1>2 DEF AbortStep, abort_request

LEMMA AbortInv ==
  ASSUME Inv, NEW r \in Requests, abort_request(r)
  PROVE  Inv' /\ Later(pool, pool')
  <1> DEFINE z == Finished(request[r])
             N == mode.blocks
             A == {x \in Requests : request[x].status = "running"}
             L == {x \in Requests : request[x].status \in Live \ {"running"}}
             W == ToSet(waiting)
             T == Requests \ {r}
  <1>1. /\ pass.at = "idle" /\ request[r].status \in Live
        /\ running' = Keep(running, T) /\ waiting' = Keep(waiting, T)
        /\ encoder' = free_encoder_inputs(encoder, r, encoder.cached[r])
        /\ scheduled_req_ids' \subseteq scheduled_req_ids
    BY DEF abort_request
  <1>2. /\ LetGo(N, pool, pool') /\ Uses(pool', N, {r}) /\ request' = [request EXCEPT ![r] = z]
        /\ UNCHANGED <<mode, pass, batches, compiled, kv>>
    BY AbortFacts DEF AbortStep
  <1>3. /\ Queued /\ pass \in Passes /\ scheduled_req_ids \subseteq Requests /\ batches \in Seq(Outputs)
        /\ encoder \in Encoders /\ request \in [Requests -> RequestType] /\ mode \in Modes
        /\ mode.spec \in Nat /\ mode.seqs \in Nat
    BY ModeFacts DEF Inv, Types
  <1>4. z \in RequestType /\ z.status = "finished" /\ z.blocks = <<>>
    BY <1>3, FinishedFacts
  <1>5. Sane(mode, z)
    BY <1>3, FinishedSane DEF Inv, Sane
  <1> HIDE DEF z
  <1>6. request' \in [Requests -> RequestType] /\ \A x \in Requests : Sane(mode, request'[x])
    BY <1>2, <1>3, <1>4, <1>5 DEF Inv
  <1>7. /\ pool' \in Pools(N) /\ Linked(pool') /\ Later(pool, pool')
        /\ pool'.hash = pool.hash /\ pool'.cached = pool.cached
    BY <1>2 DEF LetGo
  <1>8. Filed(pool')
    BY <1>7, InvFacts DEF Filed
  <1>9. Counts'
    BY <1>2, <1>3, <1>4, Released, InvFacts
  <1>10. encoder' \in Encoders /\ \A x \in Requests : encoder'.cached[x] \subseteq encoder.cached[x]
    <2>1. encoder' \in Encoders /\ encoder'.cached = [encoder.cached EXCEPT ![r] = encoder.cached[r] \ encoder.cached[r]]
      BY <1>1, <1>3, FreeStep DEF FreedInputs, Encoders
    <2> QED BY <1>3, <2>1 DEF Encoders
  <1>11. /\ Lists(running, A) /\ Lists(waiting, W) /\ pass.skipped = <<>> /\ W \cup ToSet(pass.skipped) = L
         /\ Len(running) <= mode.seqs
    BY <1>1, <1>3 DEF Queued
  <1>12. {x \in Requests : request'[x].status = "running"} = A \cap T
    BY <1>2, <1>3, <1>4
  <1>13. {x \in Requests : request'[x].status \in Live \ {"running"}} = L \cap T
    BY <1>2, <1>3, <1>4 DEF Live
  <1>14. W = L /\ A \cap T \subseteq A
    BY <1>11, ListsEmpty
  <1> HIDE DEF A, L, W, T
  <1>15. Lists(running', A \cap T) /\ Lists(waiting', ToSet(waiting')) /\ ToSet(waiting') = L \cap T
    <2>1. Lists(Keep(waiting, T), L \cap T) /\ ToSet(Keep(waiting, T)) = L \cap T
      BY <1>11, <1>14, ListsKeep
    <2>2. Lists(Keep(running, T), A \cap T)
      BY <1>11, <1>14, ListsKeep
    <2> QED BY <1>1, <2>1, <2>2
  <1>16. Len(running') <= mode.seqs
    <2>1. Cardinality(A \cap T) <= Cardinality(A)
      BY <1>11, <1>14, <1>15, FS_Subset, ListsLen, ListsFacts
    <2> QED BY <1>3, <1>11, <1>15, <2>1, ListsLen, ListsFacts
  <1>17. Queued'
    <2>1. /\ pass'.skipped = <<>> /\ Lists(pass'.skipped, ToSet(pass'.skipped))
          /\ ToSet(waiting') \cap ToSet(pass'.skipped) = {}
          /\ ToSet(waiting') \cup ToSet(pass'.skipped) = L \cap T
      BY <1>2, <1>11, <1>15, ListsEmpty
    <2> QED BY <1>2, <1>3, <1>10, <1>12, <1>13, <1>15, <1>16, <2>1 DEF Queued
  <1>18. scheduled_req_ids' \subseteq Requests
    BY <1>1, <1>3
  <1>19. Inv'
    BY <1>2, <1>3, <1>6, <1>7, <1>8, <1>9, <1>10, <1>17, <1>18, InvNext DEF N
  <1> QED BY <1>7, <1>19

-----------------------------------------------------------------------------
(* The results of a batch.                                                  *)

LEMMA ConcatFacts ==
  ASSUME NEW S, NEW q \in Seq(S), NEW p \in Seq(S)
  PROVE  /\ q \o p \in Seq(S) /\ Len(q \o p) = Len(q) + Len(p)
         /\ Len(q) \in Nat /\ Len(p) \in Nat
         /\ \A i \in 1 .. Len(q) : (q \o p)[i] = q[i]
         /\ \A i \in 1 .. Len(p) : (q \o p)[Len(q) + i] = p[i]
  OBVIOUS

\* The beginnings of a longer word.
LEMMA SameStart ==
  ASSUME NEW q \in Words, NEW p \in Words, NEW m \in Nat, m <= Len(q)
  PROVE  SubSeq(q \o p, 1, m) = SubSeq(q, 1, m)
  <1>1. Len(q) \in Nat /\ Len(q \o p) = Len(q) + Len(p) /\ q \o p \in Words /\ Len(p) \in Nat
        /\ \A i \in 1 .. Len(q) : (q \o p)[i] = q[i]
    BY ConcatFacts DEF Words
  <1>2. m <= Len(q \o p)
    BY <1>1
  <1> DEFINE u == SubSeq(q \o p, 1, m)
             v == SubSeq(q, 1, m)
  <1>3. u \in Words /\ Len(u) = m /\ \A i \in 1 .. m : u[i] = (q \o p)[i]
    BY <1>1, <1>2, Cut
  <1>4. v \in Words /\ Len(v) = m /\ \A i \in 1 .. m : v[i] = q[i]
    BY <1>1, Cut
  <1> HIDE DEF u, v
  <1>5. \A i \in 1 .. m : u[i] = v[i]
    BY <1>1, <1>3, <1>4
  <1>6. u = v
    BY <1>3, <1>4, <1>5 DEF Words
  <1> QED BY <1>6 DEF u, v

\* The known hashes are those of a longer word, too.
LEMMA StillKnowing ==
  ASSUME NEW hashes, NEW q \in Words, NEW p \in Words, Knowing(hashes, q, BlockSize)
  PROVE  Knowing(hashes, q \o p, BlockSize)
  <1> DEFINE B == BlockSize
             n == Len(hashes)
  <1>1. /\ hashes \in Seq(Words) /\ n * B <= Len(q) /\ \A i \in 1 .. n : hashes[i] = SubSeq(q, 1, i * B)
    BY DEF Knowing
  <1>2. Len(q) \in Nat /\ Len(q \o p) = Len(q) + Len(p) /\ Len(p) \in Nat
    BY ConcatFacts DEF Words
  <1>3. n \in Nat /\ B \in Nat
    BY <1>1, Constants
  <1>4. n * B \in Int
    BY <1>3
  <1>5. n * B <= Len(q \o p)
    BY <1>1, <1>2, <1>4
  <1>6. ASSUME NEW i \in 1 .. n
        PROVE  hashes[i] = SubSeq(q \o p, 1, i * B)
    <2>1. i * B <= n * B /\ i * B \in Int /\ n * B \in Int
      BY <1>3, Times
    <2>2. i * B \in Nat
      BY <1>3
    <2> DEFINE m == i * B
    <2>3. m \in Nat /\ m <= Len(q)
      BY <1>1, <1>2, <2>1, <2>2
    <2> HIDE DEF m
    <2> QED BY <1>1, <2>3, SameStart DEF m
  <1> QED BY <1>1, <1>5, <1>6 DEF Knowing

\* What a batch may generate.
Generated(out, g) ==
  /\ g.tokens \in Words /\ g.spec \in Words /\ Len(g.spec) <= mode.spec
  /\ g.accepted \in 0 .. Len(out.spec)
  /\ out.start + out.n < Len(out.tokens) => g.tokens = <<>> /\ g.accepted = 0 /\ g.spec = <<>>
  /\ ~(out.start + out.n < Len(out.tokens)) =>
       \E t \in Tokens \cup {EOS} : g.tokens = SubSeq(out.spec, 1, g.accepted) \o <<t>>

LEMMA GeneratedFacts ==
  ASSUME mode \in Modes, NEW out \in Entries, NEW g \in Generations(out)
  PROVE  Generated(out, g)
  <1>1. mode.spec \in Nat /\ mode.tokens \subseteq Tokens
    BY ModeFacts
  <1>2. out.spec \in Words /\ Len(out.spec) \in Nat
    BY DEF Entries, Words
  <1>3. CASE out.start + out.n < Len(out.tokens)
    <2>1. <<>> \in Words /\ Len(<<>>) = 0
      BY DEF Words
    <2> QED BY <1>1, <1>2, <1>3, <2>1 DEF Generated, Generations
  <1>4. CASE ~(out.start + out.n < Len(out.tokens))
    <2> DEFINE K == 0 .. Len(out.spec)
               T == mode.tokens \cup {EOS}
               D == UNION {[1 .. i -> mode.tokens] : i \in 0 .. mode.spec}
    <2>1. g \in {[tokens |-> SubSeq(out.spec, 1, s.accepted) \o <<s.token>>, spec |-> s.spec,
                  accepted |-> s.accepted] : s \in [accepted : K, token : T, spec : D]}
      BY <1>4 DEF Generations
    <2> HIDE DEF K, T, D
    <2>2. PICK k \in K, t \in T, d \in D :
            g = [tokens |-> SubSeq(out.spec, 1, k) \o <<t>>, spec |-> d, accepted |-> k]
      BY <2>1
    <2> USE DEF K, T, D
    <2>3. PICK i \in 0 .. mode.spec : d \in [1 .. i -> mode.tokens]
      OBVIOUS
    <2>4. d \in Words /\ Len(d) <= mode.spec
      BY <1>1, <2>3 DEF Words
    <2>5. t \in Tokens \cup {EOS}
      BY <1>1
    <2>6. SubSeq(out.spec, 1, k) \o <<t>> \in Words
      BY <1>2, <2>5, Cut DEF Words
    <2>7. /\ g.tokens = SubSeq(out.spec, 1, k) \o <<t>> /\ g.spec = d /\ g.accepted = k
      BY <2>2
    <2> QED BY <1>4, <2>4, <2>5, <2>6, <2>7 DEF Generated
  <1> QED BY <1>3, <1>4

\* The tokens of a request, with as many of the new ones as it takes to stop.
Extends(r, generated, k) ==
  LET t == request[r].tokens \o SubSeq(generated, 1, k)
  IN  /\ k \in 0 .. Len(generated)
      /\ Extended(r, generated) = t /\ t \in Words /\ Len(t) = Len(request[r].tokens) + k
      /\ Len(t) <= MaxModelLen
      /\ k # Len(generated) => _check_stop(r, t)
      /\ Len(generated) > 0 => k > 0

LEMMA ExtendFacts ==
  ASSUME NEW r, request[r].tokens \in Words, Len(request[r].tokens) < MaxModelLen,
         NEW generated \in Words
  PROVE  \E k : Extends(r, generated, k)
  <1> DEFINE q == request[r].tokens
             n == Len(generated)
             upto(k) == q \o SubSeq(generated, 1, k)
             stops == {k \in 1 .. n : _check_stop(r, upto(k))}
             k0 == IF stops = {} THEN n ELSE Min(stops)
  <1>1. n \in Nat /\ Len(q) \in Nat /\ MaxModelLen \in Nat
    BY Constants DEF Words
  <1>2. \A k \in 0 .. n : upto(k) \in Words /\ Len(upto(k)) = Len(q) + k
    <2> SUFFICES ASSUME NEW k \in 0 .. n
                 PROVE  upto(k) \in Words /\ Len(upto(k)) = Len(q) + k
      OBVIOUS
    <2> DEFINE s == SubSeq(generated, 1, k)
    <2>1. s \in Words /\ Len(s) = k
      BY <1>1, Cut
    <2> HIDE DEF s, q
    <2>2. q \o s \in Words /\ Len(q \o s) = Len(q) + Len(s)
      BY <2>1, ConcatFacts DEF Words, q
    <2> QED BY <2>1, <2>2 DEF s
  <1>3. Extended(r, generated) = upto(k0)
    BY DEF Extended
  <1>4. \A k \in 0 .. n : k \notin stops => Len(q) + k < MaxModelLen
    <2> SUFFICES ASSUME NEW k \in 0 .. n, k \notin stops
                 PROVE  Len(q) + k < MaxModelLen
      OBVIOUS
    <2>1. CASE k = 0
      BY <1>1, <2>1
    <2>2. CASE k # 0
      <3>1. k \in 1 .. n
        BY <1>1, <2>2
      <3> HIDE DEF q, n, upto
      <3> QED BY <1>1, <1>2, <3>1 DEF _check_stop
    <2> QED BY <2>1, <2>2
  <1>5. CASE stops = {}
    <2>1. k0 = n /\ n \in 0 .. n
      BY <1>1, <1>5
    <2>2. Len(upto(n)) <= MaxModelLen
      <3> HIDE DEF upto, q, n
      <3> QED BY <1>1, <1>2, <1>4, <1>5, <2>1
    <2> HIDE DEF stops, k0
    <2>3. Extends(r, generated, n)
      BY <1>1, <1>2, <1>3, <2>1, <2>2 DEF Extends
    <2> QED BY <2>3
  <1>6. CASE stops # {}
    <2> DEFINE k == Min(stops)
    <2>1. stops \in SUBSET Int /\ stops \subseteq 1 .. n
      BY <1>1
    <2>2. IsFiniteSet(stops)
      <3>1. IsFiniteSet(1 .. n)
        BY <1>1, FS_Interval
      <3> QED BY <2>1, <3>1, FS_Subset
    <2>3. k \in stops /\ \A y \in stops : k <= y
      BY <1>6, <2>1, <2>2, MinExists
    <2>4. k0 = k
      BY <1>6
    <2> HIDE DEF k, k0
    <2>5. k - 1 \in 0 .. n /\ k - 1 \notin stops
      BY <1>1, <2>3
    <2>6. Len(q) + (k - 1) < MaxModelLen
      BY <1>4, <2>5
    <2>7. Len(q) + k <= MaxModelLen /\ k \in 0 .. n
      BY <1>1, <2>3, <2>6
    <2>8. upto(k) \in Words /\ Len(upto(k)) = Len(q) + k
      BY <1>2, <2>7
    <2>9. Extends(r, generated, k)
      BY <1>1, <1>3, <2>3, <2>4, <2>7, <2>8 DEF Extends
    <2> QED BY <2>9
  <1> QED BY <1>5, <1>6

\* A running request after its results have been applied.
AppliedTo(r, out, g, z) ==
  LET req == request[r]
      c == req.computed + out.n - (Len(out.spec) - g.accepted)
  IN  /\ z \in RequestType /\ z.status = "running" /\ z.computed = c /\ c \in Int /\ z.spec = g.spec
      /\ z.blocks = req.blocks /\ z.hashes = req.hashes /\ z.ncached = req.ncached
      /\ Len(z.tokens) \in 1 .. MaxModelLen /\ Len(z.tokens) >= Len(req.tokens)
      /\ \E s \in Words : z.tokens = req.tokens \o s
      /\ c < Len(req.tokens) => z.tokens = req.tokens
      /\ c >= Len(req.tokens) =>
           \E k : Extends(r, g.tokens, k) /\ z.tokens = req.tokens \o SubSeq(g.tokens, 1, k)
      /\ ~Stopped(r, z) => Sane(mode, z)

LEMMA AppliedFacts ==
  ASSUME Inv, NEW r \in Requests, request[r].status = "running", NEW out \in Entries,
         NEW g, Generated(out, g)
  PROVE  AppliedTo(r, out, g, Applied(r, out, g))
  <1> DEFINE req == request[r]
             c == req.computed + out.n - (Len(out.spec) - g.accepted)
             z == Applied(r, out, g)
             t == IF c >= Len(req.tokens) THEN Extended(r, g.tokens) ELSE req.tokens
  <1>1. /\ req.tokens \in Words /\ req.computed \in Int /\ Len(req.tokens) \in Nat
        /\ req = Fields(req.status, req.tokens, req.computed, req.spec, req.blocks, req.hashes, req.ncached)
        /\ req.blocks \in Seq(Nat) /\ req.hashes \in Seq(Words) /\ req.ncached \in Int /\ req.status \in Statuses
    BY RequestFields DEF Inv, Sane
  <1>2. /\ Len(req.tokens) \in 1 .. MaxModelLen /\ Len(req.tokens) < MaxModelLen
        /\ Knowing(req.hashes, req.tokens, BlockSize)
    BY DEF Sane, Live, Inv
  <1>3. /\ g.tokens \in Words /\ g.spec \in Words /\ Len(g.spec) <= mode.spec
        /\ g.accepted \in 0 .. Len(out.spec)
    BY DEF Generated
  <1>4. out.n \in Nat /\ Len(out.spec) \in Nat
    BY DEF Entries, Words
  <1>5. c \in Int
    BY <1>1, <1>3, <1>4
  <1>6. z = [req EXCEPT !.computed = c, !.spec = g.spec, !.tokens = t]
    BY DEF Applied
  <1> HIDE DEF z, req, c, t
  <1>7. z = Fields("running", t, c, g.spec, req.blocks, req.hashes, req.ncached)
    BY <1>1, <1>6 DEF req, Fields
  <1>8. PICK k : Extends(r, g.tokens, k)
    BY <1>1, <1>2, <1>3, ExtendFacts DEF req
  <1> DEFINE s == SubSeq(g.tokens, 1, k)
  <1>9. /\ k \in 0 .. Len(g.tokens) /\ Extended(r, g.tokens) = req.tokens \o s
        /\ req.tokens \o s \in Words /\ Len(req.tokens \o s) = Len(req.tokens) + k
        /\ Len(req.tokens \o s) <= MaxModelLen
    BY <1>8 DEF Extends, req
  <1>10. s \in Words /\ k \in Nat
    BY <1>3, <1>9, Cut DEF Words
  <1> HIDE DEF s
  <1>11. /\ t \in Words /\ Len(t) \in 1 .. MaxModelLen /\ Len(t) >= Len(req.tokens)
         /\ Knowing(req.hashes, t, BlockSize)
         /\ \E y \in Words : t = req.tokens \o y
    <2>1. CASE c >= Len(req.tokens)
      <3>1. t = req.tokens \o s
        BY <1>9, <2>1 DEF t
      <3>2. Len(t) \in 1 .. MaxModelLen /\ Len(t) >= Len(req.tokens)
        BY <1>1, <1>2, <1>9, <1>10, <3>1, Constants
      <3> QED BY <1>1, <1>2, <1>9, <1>10, <3>1, <3>2, StillKnowing
    <2>2. CASE ~(c >= Len(req.tokens))
      <3>1. t = req.tokens
        BY <2>2 DEF t
      <3>2. t = req.tokens \o <<>> /\ <<>> \in Words
        BY <1>1, <3>1, ConcatEmpty DEF Words
      <3>3. Len(t) >= Len(req.tokens)
        BY <1>1, <3>1
      <3> QED BY <1>1, <1>2, <3>1, <3>2, <3>3
    <2> QED BY <2>1, <2>2
  <1>12. /\ z.status = "running" /\ z.computed = c /\ z.spec = g.spec /\ z.tokens = t
         /\ z.blocks = req.blocks /\ z.hashes = req.hashes /\ z.ncached = req.ncached
    BY <1>7 DEF Fields
  <1>13. z \in RequestType
    BY <1>1, <1>3, <1>5, <1>7, <1>11, <1>12, FieldsType DEF req
  <1>14. c < Len(req.tokens) => z.tokens = req.tokens
    BY <1>1, <1>5, <1>12 DEF t
  <1>15. ~Stopped(r, z) => Sane(mode, z)
    <2> SUFFICES ASSUME ~Stopped(r, z)
                 PROVE  Sane(mode, z)
      OBVIOUS
    <2>1. Len(t) < MaxModelLen
      <3>1. ~(Len(t) > Len(req.tokens)) \/ ~(Len(t) >= MaxModelLen)
        BY <1>12 DEF Stopped, _check_stop, req
      <3>2. MaxModelLen \in Nat
        BY Constants
      <3> QED BY <1>1, <1>2, <1>11, <3>1, <3>2
    <2> QED BY <1>3, <1>11, <1>12, <1>13, <2>1 DEF Sane, req, Inv
  <1> QED BY <1>5, <1>8, <1>9, <1>11, <1>12, <1>13, <1>14, <1>15 DEF AppliedTo, z, req, c, t, s

UpdBatch == Head(batches)
UpdLive == Keep(running, DOMAIN UpdBatch)
UpdSet == ToSet(UpdLive)

\* A batch has been executed, with the results `generated' and the requests `after'.
UpdateStep(generated, after, stopped) ==
  /\ batches # <<>> /\ UpdBatch \in Outputs /\ UpdSet \subseteq Requests
  /\ Lists(UpdLive, UpdSet)
  /\ UpdSet = {r \in Requests : request[r].status = "running"} \cap DOMAIN UpdBatch
  /\ \A r \in UpdSet : /\ UpdBatch[r] \in Entries /\ Generated(UpdBatch[r], generated[r])
                       /\ after[r] = Applied(r, UpdBatch[r], generated[r])
                       /\ AppliedTo(r, UpdBatch[r], generated[r], after[r])
  /\ stopped = {r \in UpdSet : Stopped(r, after[r])}
  /\ LetGo(mode.blocks, pool, FreeRequests(pool, Keep(UpdLive, stopped)))
  /\ Uses(FreeRequests(pool, Keep(UpdLive, stopped)), mode.blocks, stopped)
  /\ pool' = [FreeRequests(pool, Keep(UpdLive, stopped)) EXCEPT
                !.ok = @ /\ UpdSet \subseteq scheduled_req_ids
                         /\ \A r \in UpdSet : UpdBatch[r].spec = <<>> =>
                              after[r].computed <= Len(request[r].tokens)]
  /\ request' = [r \in Requests |->
                   IF r \notin UpdSet THEN request[r]
                   ELSE IF r \in stopped THEN Finished(after[r]) ELSE after[r]]
  /\ encoder' = FreeEncoderInputs(UpdLive, [r \in UpdSet |-> Passed(r, after[r])])
  /\ running' = Keep(running, ToSet(running) \ stopped)
  /\ finished_req_ids' = finished_req_ids \cup stopped
  /\ scheduled_req_ids' = scheduled_req_ids \ UpdSet
  /\ kv' = Executed(kv, UpdBatch)
  /\ batches' = Tail(batches)
  /\ pass' = NewPass /\ pass.at \in {"idle", "execute"}
  /\ UNCHANGED <<mode, waiting, compiled>>

\* The action, with the names above.
UpdAction ==
  \E generated \in [UpdSet -> UNION {Generations(UpdBatch[r]) : r \in UpdSet}] :
    LET after == [r \in UpdSet |-> Applied(r, UpdBatch[r], generated[r])]
        stops == Keep(UpdLive, {r \in UpdSet : Stopped(r, after[r])})
    IN  /\ \A r \in UpdSet : generated[r] \in Generations(UpdBatch[r])
        /\ request' = [r \in Requests |->
             IF r \notin UpdSet THEN request[r]
             ELSE IF Stopped(r, after[r]) THEN Finished(after[r]) ELSE after[r]]
        /\ pool' = [FreeRequests(pool, stops) EXCEPT
             !.ok = @ /\ UpdSet \subseteq scheduled_req_ids
                      /\ \A r \in UpdSet : UpdBatch[r].spec = <<>> =>
                           after[r].computed <= Len(request[r].tokens)]
        /\ encoder' = FreeEncoderInputs(UpdLive, [r \in UpdSet |-> Passed(r, after[r])])
        /\ running' = Keep(running, ToSet(running) \ ToSet(stops))
        /\ finished_req_ids' = finished_req_ids \cup ToSet(stops)

LEMMA UpdateAction ==
  ASSUME Update
  PROVE  /\ UpdAction
         /\ pass.at \in {"idle", "execute"} /\ batches # <<>>
         /\ scheduled_req_ids' = scheduled_req_ids \ UpdSet
         /\ kv' = Executed(kv, UpdBatch) /\ batches' = Tail(batches) /\ pass' = NewPass
         /\ UNCHANGED <<mode, waiting, compiled>>
  BY Zenon DEF Update, UpdAction, UpdBatch, UpdLive, UpdSet

LEMMA UpdateFacts ==
  ASSUME Inv, Update
  PROVE  \E generated, after, stopped : UpdateStep(generated, after, stopped)
  <1> DEFINE N == mode.blocks
             A == {r \in Requests : request[r].status = "running"}
  <1>1. /\ UpdAction
        /\ pass.at \in {"idle", "execute"} /\ batches # <<>>
        /\ scheduled_req_ids' = scheduled_req_ids \ UpdSet
        /\ kv' = Executed(kv, UpdBatch) /\ batches' = Tail(batches) /\ pass' = NewPass
        /\ UNCHANGED <<mode, waiting, compiled>>
    BY UpdateAction
  <1>2. batches \in Seq(Outputs) /\ Lists(running, A) /\ mode \in Modes
    BY DEF Inv, Types, Queued
  <1>3. UpdBatch \in Outputs
    BY <1>1, <1>2 DEF UpdBatch
  <1> HIDE DEF A
  <1>4. UpdSet = A \cap DOMAIN UpdBatch /\ Lists(UpdLive, UpdSet)
    <2> DEFINE D == DOMAIN UpdBatch
    <2> HIDE DEF D
    <2>1. Lists(Keep(running, D), A \cap D) /\ ToSet(Keep(running, D)) = A \cap D
      BY <1>2, ListsKeep
    <2> QED BY <2>1 DEF UpdSet, UpdLive, D
  <1>5. UpdSet \subseteq Requests /\ \A r \in UpdSet : request[r].status = "running"
    BY <1>4 DEF A
  <1>6. \A r \in UpdSet : UpdBatch[r] \in Entries
    BY <1>3, <1>4 DEF Outputs
  <1>7. PICK generated : 
          LET after == [r \in UpdSet |-> Applied(r, UpdBatch[r], generated[r])]
              stops == Keep(UpdLive, {r \in UpdSet : Stopped(r, after[r])})
          IN  /\ \A r \in UpdSet : generated[r] \in Generations(UpdBatch[r])
              /\ request' = [r \in Requests |->
                   IF r \notin UpdSet THEN request[r]
                   ELSE IF Stopped(r, after[r]) THEN Finished(after[r]) ELSE after[r]]
              /\ pool' = [FreeRequests(pool, stops) EXCEPT
                   !.ok = @ /\ UpdSet \subseteq scheduled_req_ids
                            /\ \A r \in UpdSet : UpdBatch[r].spec = <<>> =>
                                 after[r].computed <= Len(request[r].tokens)]
              /\ encoder' = FreeEncoderInputs(UpdLive, [r \in UpdSet |-> Passed(r, after[r])])
              /\ running' = Keep(running, ToSet(running) \ ToSet(stops))
              /\ finished_req_ids' = finished_req_ids \cup ToSet(stops)
    BY <1>1, Zenon DEF UpdAction
  <1> DEFINE after == [r \in UpdSet |-> Applied(r, UpdBatch[r], generated[r])]
             stopped == {r \in UpdSet : Stopped(r, after[r])}
             stops == Keep(UpdLive, stopped)
  <1>8. Lists(stops, stopped) /\ ToSet(stops) = stopped
    <2>1. UpdSet \cap stopped = stopped
      OBVIOUS
    <2>2. Lists(stops, UpdSet \cap stopped) /\ ToSet(stops) = UpdSet \cap stopped
      <3> HIDE DEF stopped
      <3> QED BY <1>4, ListsKeep
    <2> HIDE DEF stopped
    <2> QED BY <2>1, <2>2
  <1>9. /\ \A r \in UpdSet : generated[r] \in Generations(UpdBatch[r])
        /\ request' = [r \in Requests |->
             IF r \notin UpdSet THEN request[r]
             ELSE IF Stopped(r, after[r]) THEN Finished(after[r]) ELSE after[r]]
        /\ pool' = [FreeRequests(pool, stops) EXCEPT
             !.ok = @ /\ UpdSet \subseteq scheduled_req_ids
                      /\ \A r \in UpdSet : UpdBatch[r].spec = <<>> =>
                           after[r].computed <= Len(request[r].tokens)]
        /\ encoder' = FreeEncoderInputs(UpdLive, [r \in UpdSet |-> Passed(r, after[r])])
        /\ running' = Keep(running, ToSet(running) \ ToSet(stops))
        /\ finished_req_ids' = finished_req_ids \cup ToSet(stops)
    BY <1>7, Zenon
  <1>10. \A r \in UpdSet : after[r] = Applied(r, UpdBatch[r], generated[r])
    OBVIOUS
  <1>11. \A r \in UpdSet : Generated(UpdBatch[r], generated[r])
    BY <1>2, <1>6, <1>9, GeneratedFacts
  <1>12. \A r \in UpdSet : r \in stopped <=> Stopped(r, after[r])
    OBVIOUS
  <1>13. stopped = {r \in UpdSet : Stopped(r, after[r])} /\ stopped \subseteq Requests
    BY <1>5
  <1> HIDE DEF after, stopped
  <1>14. \A r \in UpdSet : AppliedTo(r, UpdBatch[r], generated[r], after[r])
    BY <1>5, <1>6, <1>10, <1>11, AppliedFacts
  <1>15. LetGo(N, pool, FreeRequests(pool, stops)) /\ Uses(FreeRequests(pool, stops), N, stopped)
    BY <1>8, <1>13, InvFacts, FreeAll
  <1>16. /\ request' = [r \in Requests |->
                   IF r \notin UpdSet THEN request[r]
                   ELSE IF r \in stopped THEN Finished(after[r]) ELSE after[r]]
    BY <1>9, <1>12
  <1>17. UpdateStep(generated, after, stopped)
    BY <1>1, <1>3, <1>4, <1>5, <1>6, <1>8, <1>9, <1>10, <1>11, <1>13, <1>14, <1>15, <1>16 DEF UpdateStep, A
  <1> QED BY <1>17

LEMMA UpdateInv ==
  ASSUME Inv, NEW generated, NEW after, NEW stopped, UpdateStep(generated, after, stopped)
  PROVE  Inv' /\ Later(pool, pool')
  <1> DEFINE N == mode.blocks
             f == FreeRequests(pool, Keep(UpdLive, stopped))
             A == {x \in Requests : request[x].status = "running"}
             L == {x \in Requests : request[x].status \in Live \ {"running"}}
             ok == /\ f.ok /\ UpdSet \subseteq scheduled_req_ids
                   /\ \A r \in UpdSet : UpdBatch[r].spec = <<>> =>
                        after[r].computed <= Len(request[r].tokens)
  <1>1. /\ batches # <<>> /\ UpdSet \subseteq Requests /\ Lists(UpdLive, UpdSet)
        /\ UpdSet = A \cap DOMAIN UpdBatch
        /\ \A r \in UpdSet : AppliedTo(r, UpdBatch[r], generated[r], after[r])
        /\ stopped = {r \in UpdSet : Stopped(r, after[r])}
        /\ LetGo(N, pool, f) /\ Uses(f, N, stopped)
        /\ pool' = [f EXCEPT !.ok = ok]
        /\ request' = [r \in Requests |->
                         IF r \notin UpdSet THEN request[r]
                         ELSE IF r \in stopped THEN Finished(after[r]) ELSE after[r]]
        /\ encoder' = FreeEncoderInputs(UpdLive, [r \in UpdSet |-> Passed(r, after[r])])
        /\ running' = Keep(running, ToSet(running) \ stopped)
        /\ scheduled_req_ids' = scheduled_req_ids \ UpdSet
        /\ kv' = Executed(kv, UpdBatch) /\ batches' = Tail(batches)
        /\ pass' = NewPass /\ pass.at \in {"idle", "execute"}
        /\ UNCHANGED <<mode, waiting, compiled>>
    BY Zenon DEF UpdateStep
  <1>2. /\ Queued /\ pass \in Passes /\ scheduled_req_ids \subseteq Requests /\ batches \in Seq(Outputs)
        /\ encoder \in Encoders /\ request \in [Requests -> RequestType] /\ mode \in Modes
        /\ \A x \in Requests : Sane(mode, request[x])
    BY DEF Inv, Types
  <1>3. /\ mode.spec \in Nat /\ mode.seqs \in Nat /\ mode.queue \in Nat \ {0} /\ mode.budget \in Nat
    BY <1>2, ModeFacts
  <1>4. N \in Nat /\ pool \in Pools(N) /\ Linked(pool) /\ Filed(pool)
    BY InvFacts
  <1>5. ok \in BOOLEAN
    BY <1>1, <1>4, PoolFields DEF LetGo
  <1> HIDE DEF f, ok
  <1>6. f \in Pools(N) /\ Linked(f) /\ Later(pool, f) /\ f.hash = pool.hash /\ f.cached = pool.cached
    BY <1>1 DEF LetGo
  <1>7. /\ pool' \in Pools(N) /\ pool'.hash = f.hash /\ pool'.cached = f.cached /\ pool'.ref = f.ref
        /\ pool'.num = f.num /\ pool'.head = f.head /\ pool'.tail = f.tail
        /\ pool'.next = f.next /\ pool'.prev = f.prev /\ pool'.ok = ok
    BY <1>1, <1>5, <1>6 DEF Pools
  <1>8. Linked(pool') /\ FreeList(pool') = FreeList(f)
    BY <1>4, <1>6, <1>7, SameChain
  <1>9. Later(pool, pool')
    BY <1>6, <1>8 DEF Later
  <1>10. Filed(pool')
    <2>1. pool'.hash = pool.hash /\ pool'.cached = pool.cached
      BY <1>6, <1>7
    <2>2. Filed(pool)
      BY <1>4
    <2> QED BY ONLY <2>1, <2>2 DEF Filed
  <1>11. \A r \in UpdSet : /\ r \in Requests /\ request[r].status = "running"
                           /\ after[r] \in RequestType /\ after[r].status = "running"
                           /\ after[r].blocks = request[r].blocks /\ Len(after[r].tokens) \in 1 .. MaxModelLen
                           /\ r \notin stopped => Sane(mode, after[r])
    BY <1>1 DEF AppliedTo
  <1>12. \A r \in UpdSet : /\ Finished(after[r]) \in RequestType /\ Finished(after[r]).status = "finished"
                           /\ Finished(after[r]).blocks = <<>> /\ Sane(mode, Finished(after[r]))
    BY <1>3, <1>11, FinishedFacts, FinishedSane
  <1>13. request' \in [Requests -> RequestType] /\ \A x \in Requests : Sane(mode, request'[x])
    BY <1>1, <1>2, <1>11, <1>12
  <1>14. Counts'
    BY <1>1, <1>4, <1>7, <1>11, <1>12, Released
  <1>15. encoder' \in Encoders /\ \A x \in Requests : encoder'.cached[x] \subseteq encoder.cached[x]
    <2> DEFINE inputs == [r \in UpdSet |-> Passed(r, after[r])]
    <2>1. UpdLive \in Seq(Requests)
      BY <1>1, ListsFacts
    <2>2. \A r \in UpdSet : inputs[r] \in SUBSET Nat
      BY <1>1, <1>2 DEF Passed, Encoders
    <2> HIDE DEF inputs
    <2>3. \A i \in 1 .. Len(UpdLive) : inputs[UpdLive[i]] \in SUBSET Nat
      BY <1>1, <2>2, ListsFacts
    <2> QED BY <1>1, <1>2, <2>1, <2>3, EncoderFacts DEF inputs
  <1>16. {x \in Requests : request'[x].status = "running"} = A \ stopped
    BY <1>1, <1>11, <1>12
  <1>17. {x \in Requests : request'[x].status \in Live \ {"running"}} = L
    BY <1>1, <1>11, <1>12 DEF Live
  <1>18. Lists(running, A) /\ Len(running) <= mode.seqs /\ pass.skipped = <<>>
    BY <1>1, <1>2 DEF Queued
  <1> HIDE DEF A
  <1>19. Lists(running', A \ stopped) /\ Len(running') <= mode.seqs
    <2>1. ToSet(running) = A
      BY <1>18, ListsFacts
    <2>2. Lists(running', A \ stopped)
      BY <1>1, <1>18, <2>1, ListsKeep
    <2>3. Cardinality(A \ stopped) <= Cardinality(A)
      BY <1>18, <2>2, FS_Subset, ListsLen, ListsFacts
    <2> QED BY <1>3, <1>18, <2>2, <2>3, ListsLen, ListsFacts
  <1>20. /\ batches' \in Seq(Outputs) /\ Len(batches') <= mode.queue
         /\ mode.queue = 1 => batches' = <<>>
    BY <1>1, <1>2, <1>3 DEF Queued
  <1>21. /\ NewPass \in Passes /\ NewPass.skipped = <<>> /\ DOMAIN NewPass.output = {}
         /\ NewPass.budget = 0 /\ ToSet(<<>>) = {} /\ Lists(<<>>, {}) /\ NewPass.at = "idle"
    BY NewPassFacts DEF NewPass
  <1>22. Queued'
    <2>1. /\ Lists(waiting, ToSet(waiting)) /\ ToSet(waiting) \cup ToSet(<<>>) = L
          /\ \A x \in Requests : encoder.cached[x] \subseteq DOMAIN Images[x]
      BY <1>2, <1>18 DEF Queued
    <2> HIDE DEF L
    <2>2. /\ pass'.at = "idle" /\ pass'.skipped = <<>> /\ DOMAIN pass'.output = {}
          /\ pass'.budget = 0 /\ mode' = mode /\ waiting' = waiting
      BY <1>1, <1>21
    <2>3. /\ Lists(waiting', ToSet(waiting')) /\ Lists(pass'.skipped, ToSet(pass'.skipped))
          /\ ToSet(waiting') \cap ToSet(pass'.skipped) = {}
          /\ ToSet(waiting') \cup ToSet(pass'.skipped) =
               {x \in Requests : request'[x].status \in Live \ {"running"}}
      BY <1>17, <1>21, <2>1, <2>2
    <2>4. pass'.budget <= mode'.budget /\ Len(running') <= mode'.seqs
      BY <1>3, <1>19, <2>2
    <2>5. Len(batches') <= mode'.queue /\ (mode'.queue = 1 => batches' = <<>>)
      BY <1>20, <2>2
    <2> QED BY <1>15, <1>16, <1>19, <2>1, <2>2, <2>3, <2>4, <2>5 DEF Queued
  <1>23. DOMAIN kv' = DOMAIN kv
    BY <1>1 DEF Executed
  <1>24. scheduled_req_ids' \subseteq Requests
    BY <1>1, <1>2
  <1>25. Inv'
    BY <1>1, <1>7, <1>8, <1>10, <1>13, <1>14, <1>15, <1>20, <1>21, <1>22, <1>23, <1>24, InvNext DEF N
  <1> QED BY <1>9, <1>25

-----------------------------------------------------------------------------
(* In every mode: the invariant, while no assertion has failed.             *)

\* A new pool has all its blocks in the free queue.
LEMMA NewPoolFacts ==
  ASSUME NEW n \in Nat \ {0}
  PROVE  NewPool(n) \in Pools(n) /\ Linked(NewPool(n)) /\ Filed(NewPool(n))
  <1> DEFINE p == NewPool(n)
             q == [i \in 1 .. n |-> i]
             c == [h \in {} |-> <<>>]
  <1>1. c \in Caches(n) /\ DOMAIN c = {}
    BY CachesFacts
  <1>2. NoHash \in Words
    BY DEF NoHash, Words
  <1> HIDE DEF c
  <1>3. p = [ref |-> [b \in 1 .. n |-> 0], hash |-> [b \in 1 .. n |-> NoHash],
             cached |-> c, head |-> 1, tail |-> n, num |-> n,
             prev |-> [b \in 1 .. n |-> b - 1],
             next |-> [b \in 1 .. n |-> IF b < n THEN b + 1 ELSE NoBlock], ok |-> TRUE]
    BY DEF NewPool, c
  <1> HIDE DEF p
  <1>4. p \in Pools(n)
    BY <1>1, <1>2, <1>3 DEF Pools, NoBlock
  <1>5. Linking(n, p, q)
    BY <1>3 DEF Linking, NoBlock
  <1>6. Linked(p)
    BY <1>4, <1>5, ChainIntro, WalkChain DEF Linked
  <1>7. Filed(p)
    BY <1>1, <1>3 DEF Filed, NoHash
  <1> QED BY <1>4, <1>6, <1>7 DEF p

LEMMA InitInv ==
  ASSUME Init
  PROVE  Inv
  <1> DEFINE N == mode.blocks
  <1>1. mode \in Modes /\ mode.queue \in Nat \ {0} /\ mode.spec \in Nat /\ mode.seqs \in Nat \ {0}
        /\ mode.budget \in Nat \ {0} /\ N \in Nat /\ N >= max_num_blocks_per_req
    BY ModeFacts DEF Init
  <1>2. N \in Nat \ {0}
    BY <1>1, Constants
  <1>3. pool \in Pools(N) /\ Linked(pool) /\ Filed(pool)
    BY <1>2, NewPoolFacts DEF Init, NewPool
  <1>4. encoder \in Encoders /\ encoder.cached = [r \in Requests |-> {}]
    BY <1>1, CacheSize DEF Init, Encoders
  <1>5. \A r \in Requests : /\ request[r] = Fields("new", Prompt[r], 0, <<>>, <<>>, <<>>, None)
                            /\ Prompt[r] \in Words /\ Len(Prompt[r]) \in 1 .. MaxModelLen - 1
    BY SchedulerAssumption DEF Words, Init, Fields
  <1>6. \A r \in Requests : /\ request[r] \in RequestType /\ request[r].status = "new"
                            /\ request[r].blocks = <<>> /\ Sane(mode, request[r])
    <2> SUFFICES ASSUME NEW r \in Requests
                 PROVE  /\ request[r] \in RequestType /\ request[r].status = "new"
                        /\ request[r].blocks = <<>> /\ Sane(mode, request[r])
      OBVIOUS
    <2> DEFINE z == Fields("new", Prompt[r], 0, <<>>, <<>>, <<>>, None)
    <2>1. z \in RequestType
      <3>1. "new" \in Statuses /\ None \in Int /\ <<>> \in Words /\ <<>> \in Seq(Nat) /\ <<>> \in Seq(Words)
        BY DEF Statuses, None, Words
      <3>2. Prompt[r] \in Words /\ 0 \in Int
        BY <1>5
      <3> QED BY <3>1, <3>2, FieldsType, Zenon
    <2>2. /\ z.status = "new" /\ z.blocks = <<>> /\ z.ncached = None /\ z.computed = 0
          /\ z.tokens = Prompt[r] /\ z.hashes = <<>> /\ z.spec = <<>>
      BY DEF Fields
    <2> HIDE DEF z
    <2>3. Knowing(<<>>, Prompt[r], BlockSize)
      BY <1>5, Constants DEF Knowing, Words
    <2>4. Len(Prompt[r]) \in 1 .. MaxModelLen /\ Len(Prompt[r]) < MaxModelLen
      BY <1>5, Constants
    <2>5. Sane(mode, z)
      BY <1>1, <2>1, <2>2, <2>3, <2>4, EmptySane
    <2> QED BY <1>5, <2>1, <2>2, <2>5 DEF z
  <1>7. \A b \in 1 .. N : IsFiniteSet(Holders(b)) /\ pool.ref[b] = Cardinality(Holders(b))
    BY <1>6, ListsEmpty, FS_EmptySet DEF Holders, Init, NewPool
  <1>8. /\ pass = NewPass /\ batches = <<>> /\ waiting = <<>> /\ running = <<>>
        /\ scheduled_req_ids = {}
    BY DEF Init
  <1>9. Types
    BY <1>1, <1>3, <1>4, <1>6, <1>8, NewPassFacts DEF Types, Init, NewPool
  <1>10. Queued
    <2>1. /\ pass.skipped = <<>> /\ DOMAIN pass.output = {} /\ pass.budget = 0
          /\ pass.at = "idle" /\ ToSet(<<>>) = {} /\ Lists(<<>>, {})
      BY <1>8, NewPassFacts DEF NewPass
    <2>2. Lists(running, {r \in Requests : request[r].status = "running"})
      BY <1>6, <1>8, <2>1
    <2>3. Len(running) <= mode.seqs /\ pass.budget <= mode.budget /\ Len(batches) <= mode.queue
      BY <1>1, <1>8, <2>1
    <2> QED BY <1>4, <1>6, <1>8, <2>1, <2>2, <2>3 DEF Queued, Live
  <1>11. Accounted
    BY <1>3, <1>7, PoolFields, <1>2 DEF Accounted
  <1> QED BY <1>3, <1>6, <1>9, <1>10, <1>11 DEF Inv

\* One step, unless it fails an assertion.
LEMMA StepInv ==
  ASSUME Inv, Next, pool'.ok
  PROVE  Inv' /\ Later(pool, pool')
  <1>1. CASE BeginSchedule
    BY <1>1, BeginInv
  <1>2. CASE SkipScheduled \/ SkipNoEncoder
    BY <1>2, SkipInv
  <1>3. CASE ScheduleRunning
    BY <1>3, RunDone, RunInv
  <1>4. CASE Preempt
    BY <1>4, PreemptInv
  <1>5. CASE EndRunning
    BY <1>5, EndRunningInv
  <1>6. CASE SkipNotReady
    BY <1>6, NotReadyInv
  <1>7. CASE ScheduleWaiting
    BY <1>7, StayInv, AdmitInv, AdmitDone
  <1>8. CASE EndSchedule
    BY <1>8, EndInv
  <1>9. CASE Update
    BY <1>9, UpdateFacts, UpdateInv
  <1>10. CASE Client
    BY <1>10, ModeFacts, AddInv, AbortInv, ResetInv DEF Inv, Types, Client
  <1>11. ASSUME NEW r \in Guided, GrammarReady(r) PROVE Inv' /\ Later(pool, pool')
    BY <1>11, GrammarInv
  <1> QED BY <1>1, <1>2, <1>3, <1>4, <1>5, <1>6, <1>7, <1>8, <1>9, <1>10, <1>11 DEF Next, Step

\* Nothing changes.
LEMMA StutterInv ==
  ASSUME Inv, UNCHANGED vars
  PROVE  Inv'
  <1> QED BY DEF Inv, Types, Queued, Accounted, Holders, vars, queues

\* The invariant for the induction: it may fail once an assertion has failed, which is
\* where the engine stops.
IndInv == pool.ok => Inv

LEMMA IndInvNext ==
  ASSUME IndInv, [Next]_vars
  PROVE  IndInv' /\ (pool'.ok /\ pool' # pool => Later(pool, pool'))
  <1> SUFFICES ASSUME pool'.ok
               PROVE  Inv' /\ (pool' # pool => Later(pool, pool'))
    BY DEF IndInv
  <1>1. CASE UNCHANGED vars
    BY <1>1, StutterInv DEF vars, IndInv
  <1>2. CASE Next
    BY <1>2, StepInv DEF Next, Step, Client, GrammarReady, IndInv
  <1> QED BY <1>1, <1>2

\* What the invariant says of the pool is that its parts agree.
LEMMA InvAccounts ==
  ASSUME Inv
  PROVE  BlocksAccounted
  <1> DEFINE N == mode.blocks
             q == FreeList(pool)
  <1>1. N \in Nat /\ pool \in Pools(N) /\ Chain(pool, q) /\ Filed(pool) /\ Uses(pool, N, {})
    BY InvFacts DEF Linked
  <1> HIDE DEF q
  <1>2. /\ DOMAIN pool.ref = 1 .. N /\ DOMAIN pool.hash = 1 .. N
    BY <1>1, PoolFields
  <1>3. /\ q \in Seq(1 .. N) /\ Len(q) \in Nat /\ pool.num = Len(q)
        /\ ToSet(q) = {b \in 1 .. N : pool.ref[b] = 0}
        /\ \A i \in 1 .. Len(q) : /\ pool.next[q[i]] = IF i < Len(q) THEN q[i + 1] ELSE NoBlock
                                  /\ pool.prev[q[i]] = IF i > 1 THEN q[i - 1] ELSE NoBlock
        /\ pool.head = (IF Len(q) = 0 THEN NoBlock ELSE q[1])
        /\ pool.tail = (IF Len(q) = 0 THEN NoBlock ELSE q[Len(q)])
    BY <1>1, ChainFacts
  <1>4. ToSet(q) = {b \in DOMAIN pool.ref : Holders(b) = {}}
    BY <1>2, <1>3, FS_EmptySet DEF Inv, Accounted
  <1>5. Cardinality(ToSet(q)) = pool.num
    BY <1>1, <1>2, <1>3, ListsLen DEF Chain
  <1>6. \A i \in 1 .. Len(q) - 1 : pool.prev[q[i + 1]] = q[i]
    BY <1>3, SMTT(60)
  <1>7. pool.num > 0 => pool.tail = Last(q) /\ pool.prev[pool.head] = NoBlock
    BY <1>3 DEF Last
  <1>8. \A h \in DOMAIN pool.cached : ToSet(pool.cached[h]) = {b \in 1 .. N : pool.hash[b] = h}
    BY <1>1, <1>2, ListsFacts DEF Filed
  <1>9. \A b \in DOMAIN pool.ref :
          /\ pool.ref[b] = Cardinality(Holders(b))
          /\ \A h \in DOMAIN pool.cached : (b \in ToSet(pool.cached[h])) <=> (pool.hash[b] = h)
    BY <1>2, <1>8, FS_EmptySet DEF Inv, Accounted
  <1> HIDE DEF N
  <1> QED BY <1>3, <1>4, <1>5, <1>6, <1>7, <1>9 DEF BlocksAccounted, Holders, q

\* In every mode, with any number of batches in flight and drafts of any length: as long
\* as no assertion of the code has failed, the free queue, its links and its count, the
\* reference counts, the block tables and the cache tell the same story.
THEOREM AccountedUntilFailure == Spec => [](pool.ok => BlocksAccounted)
  <1>1. Init => IndInv
    BY InitInv DEF IndInv
  <1> QED BY <1>1, IndInvNext, InvAccounts, PTL DEF Spec, IndInv

\* In every mode: a step that fails no assertion takes blocks from the free queue anywhere
\* and puts blocks only behind those that stay, so that the queue is the eviction order.
THEOREM FreedLastUntilFailure == Spec => [][pool'.ok => Later(pool, pool')]_pool
  <1>1. Init => IndInv
    BY InitInv DEF IndInv
  <1>2. IndInv /\ [Next]_vars => [pool'.ok => Later(pool, pool')]_pool
    BY IndInvNext
  <1> QED BY <1>1, <1>2, IndInvNext, PTL DEF Spec

-----------------------------------------------------------------------------
(* At most two batches in flight, and drafts of at most one token.          *)

Tame == \A m \in Modes : m.queue <= 2 /\ m.spec <= 1

\* Request r has the entry out in a batch that is not applied yet.
Entry(r, out) ==
  \/ r \in DOMAIN pass.output /\ out = pass.output[r]
  \/ \E i \in DOMAIN batches : r \in DOMAIN batches[i] /\ out = batches[i][r]

\* A running request and its entry.
Agrees(req, out) ==
  /\ out.start = req.computed /\ out.start >= 0
  /\ out.n > 0 /\ Len(out.spec) <= out.n
  /\ out.blocks = req.blocks
  /\ out.tokens = req.tokens \o out.spec
  /\ out.start + out.n - Len(out.spec) <= Len(req.tokens)
  /\ out.spec # <<>> => out.start + out.n = Len(out.tokens)
  /\ req.ncached * BlockSize <= out.start + out.n - Len(out.spec)
  /\ out.start + out.n <= Len(req.blocks) * BlockSize

\* A running request that is not in flight.
Settled(req) ==
  /\ req.computed \in 0 .. Len(req.tokens) - 1
  /\ req.ncached * BlockSize <= req.computed
  /\ req.computed <= Len(req.blocks) * BlockSize

\* A running request is in at most one batch; one that was preempted is only in the
\* oldest, which is applied before the next pass.
Flights ==
  /\ \A r \in DOMAIN pass.output :
       /\ request[r].status = "running"
       /\ \A i \in DOMAIN batches : r \notin DOMAIN batches[i]
       /\ pass.at = "running" => \E k \in 1 .. pass.index - 1 : k \in DOMAIN running /\ running[k] = r
  /\ \A i \in DOMAIN batches : \A r \in DOMAIN batches[i] :
       /\ request[r].status # "new"
       /\ request[r].status = "running" => \A j \in DOMAIN batches : r \in DOMAIN batches[j] => i = j
       /\ request[r].status \in Live \ {"running"} =>
            /\ i = 1
            /\ \/ pass.at = "execute" \/ Len(batches) = 2
               \/ pass.preempted /\ pass.at \in {"running", "end"}
  /\ pass.at = "execute" => Len(batches) = 1
  /\ pass.at \in {"idle", "execute", "waiting"} => ~pass.preempted

Steady(r) ==
  /\ r \in scheduled_req_ids <=> \E out : Entry(r, out)
  /\ \A out : Entry(r, out) => Agrees(request[r], out)
  /\ r \notin scheduled_req_ids => Settled(request[r])

\* The blocks of a request carry the hashes of its tokens, and those that do not
\* are its own.
Marked(req, hash) ==
  \A i \in 1 .. Len(req.blocks) :
    IF i <= req.ncached
    THEN i * BlockSize <= Len(req.tokens) /\ hash[req.blocks[i]] = SubSeq(req.tokens, 1, i * BlockSize)
    ELSE hash[req.blocks[i]] = NoHash
Exclusive(r) ==
  \A i \in 1 .. Len(request[r].blocks) :
    i > request[r].ncached => Holders(request[r].blocks[i]) = {r}

\* The device memory after the first i batches, and after everything that is scheduled.
Memory(i) ==
  IF i = 0 THEN kv
  ELSE IF i = 1 THEN Executed(kv, batches[1]) ELSE Executed(Executed(kv, batches[1]), batches[2])
Final == Executed(Memory(Len(batches)), pass.output)

\* In this memory, the first n tokens have been computed, each from those before it.
Holds(memory, blocks, tokens, n) ==
  \A p \in 1 .. n : memory[Slot(blocks, p)[1]][Slot(blocks, p)[2]] = SubSeq(tokens, 1, p)

\* What the entries that are in flight find when they are executed.
Past ==
  \A i \in DOMAIN batches : \A r \in DOMAIN batches[i] :
    Holds(Memory(i), batches[i][r].blocks, batches[i][r].tokens, batches[i][r].start + batches[i][r].n)

\* What a running request finds when everything has been executed.
Present(r) ==
  /\ \A out : Entry(r, out) => Holds(Final, out.blocks, out.tokens, out.start + out.n)
  /\ r \notin scheduled_req_ids =>
       Holds(Final, request[r].blocks, request[r].tokens, request[r].computed)

\* A block that carries a hash has the tokens that it stands for, then.
Filled(memory, b, h) ==
  \A i \in 1 .. BlockSize : memory[b][i] = SubSeq(h, 1, Len(h) - BlockSize + i)
Cached == \A b \in 1 .. mode.blocks : pool.hash[b] # NoHash => Filled(Final, b, pool.hash[b])

Runs(r) == Steady(r) /\ Marked(request[r], pool.hash) /\ Exclusive(r) /\ Present(r)

TameInv ==
  /\ pool.ok
  /\ Flights
  /\ \A r \in Requests : request[r].status = "running" => Runs(r)
  /\ Past
  /\ Cached

-----------------------------------------------------------------------------
(* Slots.                                                                   *)

\* The block and the place in the block of position p.
Index(p) == (p - 1) \div BlockSize + 1
Offset(p) == ((p - 1) % BlockSize) + 1

LEMMA SlotIs ==
  ASSUME NEW blocks, NEW p
  PROVE  /\ Slot(blocks, p) = <<blocks[Index(p)], Offset(p)>>
         /\ Slot(blocks, p)[1] = blocks[Index(p)] /\ Slot(blocks, p)[2] = Offset(p)
  BY DEF Slot, Index, Offset

LEMMA IndexFacts ==
  ASSUME NEW p \in Nat \ {0}
  PROVE  /\ Index(p) \in Nat \ {0} /\ Offset(p) \in 1 .. BlockSize
         /\ p = (Index(p) - 1) * BlockSize + Offset(p)
         /\ (Index(p) - 1) * BlockSize \in Nat
         /\ Index(p) * BlockSize = (Index(p) - 1) * BlockSize + BlockSize
  <1> DEFINE k == (p - 1) \div BlockSize
             j == (p - 1) % BlockSize
  <1>1. BlockSize \in Nat \ {0}
    BY Constants
  <1>2. /\ k \in Int /\ j \in 0 .. BlockSize - 1 /\ p - 1 = k * BlockSize + j
        /\ k * BlockSize \in Int /\ k * BlockSize <= p - 1 /\ p - 1 < k * BlockSize + BlockSize
    BY <1>1, Division
  <1> HIDE DEF k, j
  <1>3. k >= 0
    BY <1>1, <1>2, Fewer
  <1>4. (k + 1) - 1 = k
    BY <1>2
  <1>5. (k + 1) * BlockSize = k * BlockSize + BlockSize
    BY <1>1, <1>2
  <1>6. p = k * BlockSize + (j + 1)
    BY <1>2
  <1> QED BY <1>1, <1>2, <1>3, <1>4, <1>5, <1>6, Times DEF Index, Offset

\* A position is in the first m blocks if it is at most m blocks far.
LEMMA IndexWithin ==
  ASSUME NEW p \in Nat \ {0}, NEW m \in Nat
  PROVE  m * BlockSize \in Nat /\ (p <= m * BlockSize <=> Index(p) <= m)
  <1> DEFINE k == Index(p)
             x == (k - 1) * BlockSize
             y == k * BlockSize
             z == m * BlockSize
  <1>1. BlockSize \in Nat \ {0}
    BY Constants
  <1>2. k \in Nat \ {0} /\ x \in Nat /\ p = x + Offset(p) /\ Offset(p) \in 1 .. BlockSize /\ y = x + BlockSize
    BY IndexFacts
  <1> HIDE DEF k
  <1>3. z \in Nat
    BY <1>1
  <1>4. ASSUME k <= m PROVE p <= z
    BY <1>1, <1>2, <1>3, <1>4, Times
  <1>5. ASSUME p <= z PROVE k <= m
    BY <1>1, <1>2, <1>3, <1>5, Fewer
  <1> QED BY <1>3, <1>4, <1>5 DEF k

\* The position of a place in a block.
LEMMA PositionFacts ==
  ASSUME NEW k \in Nat \ {0}, NEW j \in 1 .. BlockSize
  PROVE  LET p == (k - 1) * BlockSize + j IN
         /\ p \in Nat \ {0} /\ Index(p) = k /\ Offset(p) = j
         /\ p <= k * BlockSize /\ p = k * BlockSize - BlockSize + j
  <1> DEFINE x == (k - 1) * BlockSize
             p == x + j
  <1>1. BlockSize \in Nat \ {0}
    BY Constants
  <1>2. x \in Nat /\ k * BlockSize = x + BlockSize
    BY <1>1
  <1>3. p \in Nat \ {0}
    BY <1>1, <1>2
  <1> DEFINE i == Index(p)
             o == Offset(p)
             y == (i - 1) * BlockSize
  <1>4. y \in Nat /\ o \in 1 .. BlockSize /\ x + j = y + o /\ i \in Nat \ {0}
    BY <1>3, IndexFacts
  <1> HIDE DEF i, o
  <1>5. i - 1 <= k - 1
    BY <1>1, <1>2, <1>4, Fewer
  <1>6. k - 1 <= i - 1
    BY <1>1, <1>2, <1>4, Fewer
  <1>7. i = k
    BY <1>4, <1>5, <1>6
  <1>8. x = y
    BY <1>7
  <1>9. o = j
    BY <1>1, <1>2, <1>4, <1>8
  <1> QED BY <1>1, <1>2, <1>3, <1>7, <1>9 DEF i, o

\* The positions of a block table without repetitions have different slots.
LEMMA SlotInjective ==
  ASSUME NEW A, NEW blocks \in Seq(A), \A i, j \in 1 .. Len(blocks) : blocks[i] = blocks[j] => i = j,
         NEW p \in Nat \ {0}, NEW q \in Nat \ {0},
         p <= Len(blocks) * BlockSize, q <= Len(blocks) * BlockSize,
         Slot(blocks, p) = Slot(blocks, q)
  PROVE  p = q
  <1>1. Index(p) \in 1 .. Len(blocks) /\ Index(q) \in 1 .. Len(blocks)
    <2>1. Index(p) <= Len(blocks) /\ Index(q) <= Len(blocks) /\ Index(p) \in Nat \ {0} /\ Index(q) \in Nat \ {0}
      BY IndexWithin, IndexFacts
    <2> QED BY <2>1
  <1>2. Index(p) = Index(q)
    BY <1>1, SlotIs
  <1> QED BY <1>2, SlotIs, IndexFacts

-----------------------------------------------------------------------------
(* The device memory.                                                       *)

Pick(S) == CHOOSE x \in S : TRUE

LEMMA PickFacts ==
  /\ \A S : S # {} => Pick(S) \in S
  /\ \A x : Pick({x}) = x
  <1> QED BY DEF Pick

\* What is in a slot once a batch has been executed.
Value(m, o, b, i) ==
  IF Writers(o, <<b, i>>) = {} THEN m[b][i] ELSE Written(o[Pick(Writers(o, <<b, i>>))], <<b, i>>)
LEMMA ExecutedAt ==
  ASSUME NEW m, NEW o, NEW b \in DOMAIN m, NEW i \in 1 .. BlockSize
  PROVE  Executed(m, o)[b][i] = Value(m, o, b, i)
  BY DEF Executed, Value, Pick

LEMMA ExecutedDomain ==
  ASSUME NEW m, NEW o
  PROVE  DOMAIN Executed(m, o) = DOMAIN m
  BY DEF Executed

\* Nothing is executed.
LEMMA ExecutedNothing ==
  ASSUME NEW m, NEW o, DOMAIN o = {}, NEW b \in DOMAIN m, NEW i \in 1 .. BlockSize
  PROVE  Executed(m, o)[b][i] = m[b][i]
  <1>1. Writers(o, <<b, i>>) = {}
    BY DEF Writers
  <1> QED BY <1>1, ExecutedAt DEF Value

\* One more entry in the batch, that does not write here.
Adds(m, o, r, e, b, i) ==
  /\ o \in Outputs /\ r \in Requests /\ r \notin DOMAIN o /\ e \in Entries
  /\ b \in DOMAIN m /\ i \in 1 .. BlockSize

LEMMA ExecutedBeside ==
  ASSUME NEW m, NEW o, NEW r, NEW e, NEW b, NEW i, Adds(m, o, r, e, b, i), Writes(e, <<b, i>>) = {}
  PROVE  Executed(m, With(o, r, e))[b][i] = Executed(m, o)[b][i]
  <1> DEFINE u == With(o, r, e)
             s == <<b, i>>
  <1>1. DOMAIN u = DOMAIN o \cup {r} /\ u[r] = e /\ \A x \in DOMAIN o : x # r => u[x] = o[x]
    BY WithFacts, ZenonT(40) DEF Adds
  <1> HIDE DEF u, s
  <1>2. \A x \in DOMAIN o : u[x] = o[x]
    BY <1>1 DEF Adds
  <1>3. Writers(o, s) # {} => u[Pick(Writers(o, s))] = o[Pick(Writers(o, s))]
    BY <1>2, PickFacts DEF Writers
  <1>4. Value(m, u, b, i) = Value(m, o, b, i)
    BY <1>1, <1>2, <1>3 DEF Value, s, Writers
  <1> QED BY <1>4, ExecutedAt DEF u, Adds

\* One more entry in the batch, that writes here and is alone.
AddsHere(m, o, r, e, b, i, p) ==
  /\ Adds(m, o, r, e, b, i) /\ Writes(e, <<b, i>>) = {p}
  /\ \A x \in DOMAIN o : Writes(o[x], <<b, i>>) = {}
LEMMA ExecutedHere ==
  ASSUME NEW m, NEW o, NEW r, NEW e, NEW b, NEW i, NEW p, AddsHere(m, o, r, e, b, i, p)
  PROVE  Executed(m, With(o, r, e))[b][i] = SubSeq(e.tokens, 1, p)
  <1> DEFINE u == With(o, r, e)
             s == <<b, i>>
  <1>1. /\ o \in Outputs /\ r \in Requests /\ r \notin DOMAIN o /\ e \in Entries
        /\ b \in DOMAIN m /\ i \in 1 .. BlockSize /\ Writes(e, <<b, i>>) = {p}
        /\ \A x \in DOMAIN o : Writes(o[x], <<b, i>>) = {}
    BY DEF Adds, AddsHere
  <1>2. DOMAIN u = DOMAIN o \cup {r} /\ u[r] = e /\ \A x \in DOMAIN o : x # r => u[x] = o[x]
    BY <1>1, WithFacts
  <1> HIDE DEF u, s
  <1>3. Writers(u, s) = {r}
    BY <1>1, <1>2 DEF Writers, s
  <1>4. Value(m, u, b, i) = Written(e, s)
    BY <1>1, <1>2, <1>3, PickFacts DEF Value, s
  <1> QED BY <1>1, <1>3, <1>4, ExecutedAt, PickFacts DEF u, Written, Pick, s

\* Where an entry writes: in the blocks from a certain one on, and every position once.
Table(blocks, N) ==
  /\ blocks \in Seq(1 .. N) /\ \A i, j \in 1 .. Len(blocks) : blocks[i] = blocks[j] => i = j

WritesIn(e, blocks, c, N) ==
  /\ N \in Nat /\ e \in Entries /\ Table(blocks, N) /\ e.blocks = blocks
  /\ c \in Nat /\ c * BlockSize <= e.start
  /\ e.start >= 0 /\ e.start + e.n <= Len(e.blocks) * BlockSize
WritesAre(e, blocks, c) ==
  /\ \A p \in e.start + 1 .. e.start + e.n :
       /\ p \in Nat \ {0} /\ Index(p) \in c + 1 .. Len(blocks)
       /\ Writes(e, Slot(blocks, p)) = {p}
  /\ \A b, i : Writes(e, <<b, i>>) # {} => \E k \in c + 1 .. Len(blocks) : b = blocks[k]
  /\ \A p \in 1 .. e.start : Writes(e, Slot(blocks, p)) = {}

LEMMA WritesFacts ==
  ASSUME NEW e, NEW blocks, NEW c, NEW N, WritesIn(e, blocks, c, N)
  PROVE  WritesAre(e, blocks, c)
  <1>1. /\ N \in Nat /\ e \in Entries /\ Table(e.blocks, N) /\ e.blocks = blocks
        /\ c \in Nat /\ c * BlockSize <= e.start
        /\ e.start >= 0 /\ e.start + e.n <= Len(e.blocks) * BlockSize
    BY DEF WritesIn
  <1>2. e.start \in Nat /\ e.n \in Nat /\ Len(e.blocks) \in Nat
    BY <1>1 DEF Entries, Table
  <1>3. ASSUME NEW p \in 1 .. e.start + e.n
        PROVE  /\ p \in Nat \ {0} /\ Index(p) \in 1 .. Len(e.blocks) /\ p <= Len(e.blocks) * BlockSize
               /\ p > e.start => Index(p) \in c + 1 .. Len(e.blocks)
    <2>1. p \in Nat \ {0} /\ p <= e.start + e.n
      BY <1>2
    <2>2. /\ Len(e.blocks) * BlockSize \in Nat /\ (p <= Len(e.blocks) * BlockSize <=> Index(p) <= Len(e.blocks))
      BY <1>2, <2>1, IndexWithin
    <2>3. c * BlockSize \in Nat /\ (p <= c * BlockSize <=> Index(p) <= c)
      BY <1>1, <2>1, IndexWithin
    <2>4. Index(p) \in Nat \ {0}
      BY <2>1, IndexFacts
    <2>5. p <= Len(e.blocks) * BlockSize
      BY <1>1, <1>2, <2>1, <2>2
    <2>6. p > e.start => ~(p <= c * BlockSize)
      BY <1>1, <1>2, <2>1, <2>3
    <2> QED BY <1>1, <1>2, <2>1, <2>2, <2>3, <2>4, <2>5, <2>6
  <1>4. ASSUME NEW p \in 1 .. e.start + e.n, NEW q \in 1 .. e.start + e.n, Slot(e.blocks, p) = Slot(e.blocks, q)
        PROVE  p = q
    BY <1>1, <1>3, <1>4, SlotInjective DEF Table
  <1>5. \A p \in e.start + 1 .. e.start + e.n : p \in 1 .. e.start + e.n /\ p > e.start
    BY <1>2
  <1>6. \A p \in e.start + 1 .. e.start + e.n : Writes(e, Slot(e.blocks, p)) = {p}
    BY <1>4, <1>5 DEF Writes
  <1>7. \A p \in 1 .. e.start : Writes(e, Slot(e.blocks, p)) = {}
    BY <1>2, <1>4, <1>5 DEF Writes
  <1>8. ASSUME NEW b, NEW i, Writes(e, <<b, i>>) # {}
        PROVE  \E k \in c + 1 .. Len(e.blocks) : b = e.blocks[k]
    BY <1>3, <1>5, <1>8, SlotIs DEF Writes
  <1> QED BY <1>1, <1>3, <1>5, <1>6, <1>7, <1>8 DEF WritesAre

\* The same in another memory.
HoldsIn(u, m, blocks, tokens, n) ==
  /\ Len(blocks) \in Nat /\ n \in Int /\ n <= Len(blocks) * BlockSize /\ Holds(m, blocks, tokens, n)
  /\ \A k \in 1 .. Len(blocks) : \A i \in 1 .. BlockSize : u[blocks[k]][i] = m[blocks[k]][i]

LEMMA HoldsSame ==
  ASSUME NEW u, NEW m, NEW blocks, NEW tokens, NEW n, HoldsIn(u, m, blocks, tokens, n)
  PROVE  Holds(u, blocks, tokens, n)
  <1>1. /\ Len(blocks) \in Nat /\ n \in Int /\ n <= Len(blocks) * BlockSize /\ Holds(m, blocks, tokens, n)
        /\ \A k \in 1 .. Len(blocks) : \A i \in 1 .. BlockSize : u[blocks[k]][i] = m[blocks[k]][i]
    BY DEF HoldsIn
  <1> SUFFICES ASSUME NEW p \in 1 .. n
               PROVE  u[Slot(blocks, p)[1]][Slot(blocks, p)[2]] = SubSeq(tokens, 1, p)
    BY DEF Holds
  <1>2. p \in Nat \ {0} /\ p <= n /\ Len(blocks) \in Nat
    BY <1>1
  <1>3. Index(p) \in Nat \ {0} /\ Offset(p) \in 1 .. BlockSize
    BY <1>2, IndexFacts
  <1>4. p <= Len(blocks) * BlockSize
    BY <1>1, <1>2, IndexWithin
  <1>5. Index(p) \in 1 .. Len(blocks)
    BY <1>2, <1>3, <1>4, IndexWithin
  <1> QED BY <1>1, <1>3, <1>5, SlotIs DEF Holds

\* Fewer tokens.
LEMMA HoldsLess ==
  ASSUME NEW m, NEW blocks, NEW tokens, NEW t, NEW n \in Int, NEW k \in Int, k <= n,
         Holds(m, blocks, tokens, n), \A p \in 1 .. k : SubSeq(t, 1, p) = SubSeq(tokens, 1, p)
  PROVE  Holds(m, blocks, t, k)
  <1>1. \A p \in 1 .. k : p \in 1 .. n
    OBVIOUS
  <1> QED BY <1>1 DEF Holds

\* The beginning of a beginning.
LEMMA CutCut ==
  ASSUME NEW t \in Words, NEW m \in Nat, NEW p \in Nat, p <= m, m <= Len(t)
  PROVE  SubSeq(SubSeq(t, 1, m), 1, p) = SubSeq(t, 1, p)
  <1> DEFINE u == SubSeq(t, 1, m)
             x == SubSeq(u, 1, p)
             y == SubSeq(t, 1, p)
  <1>1. u \in Words /\ Len(u) = m /\ \A i \in 1 .. m : u[i] = t[i]
    BY Cut
  <1> HIDE DEF u
  <1>2. p <= Len(t) /\ p <= Len(u)
    BY <1>1 DEF Words
  <1>3. x \in Words /\ Len(x) = p /\ \A i \in 1 .. p : x[i] = u[i]
    BY <1>1, <1>2, Cut
  <1>4. y \in Words /\ Len(y) = p /\ \A i \in 1 .. p : y[i] = t[i]
    BY <1>2, Cut
  <1> HIDE DEF x, y
  <1>5. \A i \in 1 .. p : x[i] = y[i]
    BY <1>1, <1>3, <1>4
  <1>6. x = y
    BY <1>3, <1>4, <1>5 DEF Words
  <1> QED BY <1>6 DEF x, y, u

-----------------------------------------------------------------------------
(* A request has got its slots.                                             *)

Base == Memory(Len(batches))
SameMemory(u, m, N) == \A b \in 1 .. N : \A i \in 1 .. BlockSize : u[b][i] = m[b][i]

LEMMA BaseDomain ==
  ASSUME Inv
  PROVE  DOMAIN Base = 1 .. mode.blocks /\ Final = Executed(Base, pass.output)
         /\ DOMAIN Final = 1 .. mode.blocks
  <1> QED BY ExecutedDomain DEF Final, Base, Memory, Inv, Types

\* The members of a queue.
LEMMA Members ==
  ASSUME NEW A, NEW q \in Seq(A)
  PROVE  ToSet(q) = {q[k] : k \in 1 .. Len(q)}
  BY DEF ToSet

\* The blocks of a request.
LEMMA TableFacts ==
  ASSUME Inv, NEW r \in Requests
  PROVE  /\ Table(request[r].blocks, mode.blocks) /\ Len(request[r].blocks) \in Nat
         /\ request[r] \in RequestType
         /\ ToSet(request[r].blocks) = {request[r].blocks[i] : i \in 1 .. Len(request[r].blocks)}
         /\ \A i \in 1 .. Len(request[r].blocks) :
              request[r].blocks[i] \in 1 .. mode.blocks /\ r \in Holders(request[r].blocks[i])
  <1> DEFINE q == request[r].blocks
  <1>1. q \in Seq(1 .. mode.blocks) /\ Lists(q, ToSet(q)) /\ request[r] \in RequestType
    BY InvFacts
  <1> HIDE DEF q
  <1>2. \A i \in 1 .. Len(q) : q[i] \in 1 .. mode.blocks
    BY <1>1, MemberOf
  <1>3. Table(q, mode.blocks) /\ Len(q) \in Nat
    BY <1>1, ListsFacts DEF Table
  <1> QED BY <1>1, <1>2, <1>3, ListsFacts DEF q, ToSet, Holders

\* Request r had the blocks of `held', the first c of which carry its hashes; it gets w
\* too, and the entry e.
Given(r, held, w, c, z, e) ==
  LET N == mode.blocks
  IN  /\ r \in Requests /\ r \notin DOMAIN pass.output
      /\ \A i \in DOMAIN batches : r \notin DOMAIN batches[i]
      /\ e \in Entries /\ z \in RequestType /\ z.status = "running"
      /\ held \in Seq(1 .. N) /\ w \in Seq(1 .. N) /\ z.blocks = held \o w /\ Table(z.blocks, N)
      /\ c \in 0 .. Len(held) /\ z.ncached \in c .. Len(z.blocks)
      /\ z.ncached * BlockSize <= Len(z.tokens)
      /\ Agrees(z, e)
      /\ \A i \in 1 .. c : pool.hash[held[i]] = SubSeq(z.tokens, 1, i * BlockSize)
      /\ \A i \in c + 1 .. Len(held) : pool.hash[held[i]] = NoHash /\ Holders(held[i]) = {r}
      /\ \A b \in ToSet(w) : Holders(b) = {}
      /\ ToSet(request[r].blocks) \subseteq ToSet(held)
      /\ \A b \in ToSet(held) : b \notin ToSet(request[r].blocks) => pool.hash[b] # NoHash
      /\ \A k \in c + 1 .. z.ncached : pool'.hash[z.blocks[k]] = SubSeq(z.tokens, 1, k * BlockSize)
      /\ \A b \in 1 .. N : b \notin {z.blocks[k] : k \in c + 1 .. z.ncached} =>
           pool'.hash[b] = IF b \in ToSet(w) THEN NoHash ELSE pool.hash[b]
      /\ c * BlockSize <= e.start /\ e.start <= Len(held) * BlockSize
      /\ Holds(Final, held, z.tokens, e.start)
      /\ request' = [request EXCEPT ![r] = z] /\ pass'.output = With(pass.output, r, e)
      /\ scheduled_req_ids' = scheduled_req_ids \cup {r} /\ UNCHANGED <<mode, batches, kv>>

\* The blocks of the table from number c + 1 on are the request's own.
Fresh(b, z, c) == \E k \in c + 1 .. Len(z.blocks) : b = z.blocks[k]

LEMMA GivenFresh ==
  ASSUME Inv, NEW r, NEW held, NEW w, NEW c, NEW z, NEW e, Given(r, held, w, c, z, e)
  PROVE  /\ \A k \in 1 .. Len(z.blocks) :
              z.blocks[k] = IF k <= Len(held) THEN held[k] ELSE w[k - Len(held)]
         /\ Len(z.blocks) = Len(held) + Len(w) /\ Len(held) \in Nat /\ Len(w) \in Nat
         /\ ToSet(z.blocks) = ToSet(held) \cup ToSet(w)
         /\ ToSet(w) = {w[k] : k \in 1 .. Len(w)}
         /\ ToSet(held) = {held[k] : k \in 1 .. Len(held)}
         /\ \A b : Fresh(b, z, c) => /\ Holders(b) \subseteq {r}
                                     /\ b \in ToSet(w) \/ pool.hash[b] = NoHash
  <1>1. held \in Seq(1 .. mode.blocks) /\ w \in Seq(1 .. mode.blocks) /\ z.blocks = held \o w
        /\ c \in 0 .. Len(held)
    BY DEF Given
  <1>2. Len(held) \in Nat /\ Len(w) \in Nat /\ Len(z.blocks) = Len(held) + Len(w)
    BY <1>1
  <1>3. \A k \in 1 .. Len(z.blocks) :
              z.blocks[k] = IF k <= Len(held) THEN held[k] ELSE w[k - Len(held)]
    BY <1>1, <1>2
  <1>4. /\ ToSet(w) = {w[k] : k \in 1 .. Len(w)} /\ ToSet(held) = {held[k] : k \in 1 .. Len(held)}
        /\ ToSet(z.blocks) = {z.blocks[k] : k \in 1 .. Len(z.blocks)}
    <2>1. z.blocks \in Seq(1 .. mode.blocks)
      BY <1>1
    <2> QED BY <1>1, <2>1, Members
  <1>5. ToSet(z.blocks) = ToSet(held) \cup ToSet(w)
    <2>1. ASSUME NEW k \in 1 .. Len(w)
          PROVE  Len(held) + k \in 1 .. Len(z.blocks) /\ z.blocks[Len(held) + k] = w[k]
      BY <1>2, <1>3
    <2>2. \A k \in 1 .. Len(z.blocks) : z.blocks[k] \in ToSet(held) \cup ToSet(w)
      BY <1>2, <1>3, <1>4
    <2>3. \A k \in 1 .. Len(held) : held[k] \in ToSet(z.blocks)
      BY <1>2, <1>3, <1>4
    <2> QED BY <1>4, <2>1, <2>2, <2>3
  <1>6. ASSUME NEW b, Fresh(b, z, c)
        PROVE  Holders(b) \subseteq {r} /\ (b \in ToSet(w) \/ pool.hash[b] = NoHash)
    <2>1. PICK k \in c + 1 .. Len(z.blocks) : b = z.blocks[k]
      BY <1>6 DEF Fresh
    <2>2. CASE k <= Len(held)
      <3>1. k \in c + 1 .. Len(held) /\ b = held[k]
        BY <1>1, <1>2, <1>3, <2>1, <2>2
      <3> QED BY <3>1 DEF Given
    <2>3. CASE ~(k <= Len(held))
      <3>1. b \in ToSet(w)
        BY <1>1, <1>2, <1>3, <1>4, <2>1, <2>3
      <3> QED BY <3>1 DEF Given
    <2> QED BY <2>2, <2>3
  <1> QED BY <1>2, <1>3, <1>4, <1>5, <1>6

\* The entries of running requests write into blocks that they hold.
LEMMA EntryWrites ==
  ASSUME Inv, NEW q \in Requests, NEW out \in Entries, Agrees(request[q], out), NEW b, NEW i,
         Writes(out, <<b, i>>) # {}
  PROVE  q \in Holders(b)
  <1>1. Table(out.blocks, mode.blocks) /\ mode.blocks \in Nat
    BY TableFacts, InvFacts DEF Agrees
  <1>2. out.start >= 0 /\ out.start + out.n <= Len(out.blocks) * BlockSize /\ out.blocks = request[q].blocks
    BY DEF Agrees
  <1>3. 0 * BlockSize <= out.start /\ 0 \in Nat
    BY <1>2, Constants DEF Entries
  <1>4. \E k \in 0 + 1 .. Len(out.blocks) : b = out.blocks[k]
    <2>1. WritesAre(out, out.blocks, 0)
      BY <1>1, <1>2, <1>3, WritesFacts DEF WritesIn
    <2> QED BY <2>1 DEF WritesAre
  <1>5. PICK k \in 1 .. Len(request[q].blocks) : b = request[q].blocks[k]
    BY <1>2, <1>4
  <1> QED BY <1>5, TableFacts

LEMMA OutputEntries ==
  ASSUME NEW o \in Outputs
  PROVE  DOMAIN o \subseteq Requests /\ \A r \in DOMAIN o : o[r] \in Entries
  BY DEF Outputs

\* The device memory changes in the request's own blocks only.
LEMMA GivenElsewhere ==
  ASSUME Inv, NEW r, NEW held, NEW w, NEW c, NEW z, NEW e, Given(r, held, w, c, z, e),
         NEW b \in 1 .. mode.blocks, NEW i \in 1 .. BlockSize, Writes(e, <<b, i>>) = {}
  PROVE  Final'[b][i] = Final[b][i]
  <1>1. pass.output \in Outputs
    BY PassFacts DEF Inv, Types
  <1>2. Adds(Base, pass.output, r, e, b, i)
    BY <1>1, BaseDomain DEF Adds, Given
  <1>3. Executed(Base, With(pass.output, r, e))[b][i] = Executed(Base, pass.output)[b][i]
    BY <1>2, ExecutedBeside
  <1> QED BY <1>3, BaseDomain DEF Given, Final, Base, Memory

\* Where its entry writes.
LEMMA GivenWrites ==
  ASSUME Inv, NEW r, NEW held, NEW w, NEW c, NEW z, NEW e, Given(r, held, w, c, z, e)
  PROVE  /\ e \in Entries /\ e.blocks = z.blocks /\ e.start \in Nat /\ e.n \in Nat
         /\ WritesAre(e, z.blocks, c)
  <1>1. e.blocks = z.blocks /\ e.start >= 0 /\ e.start + e.n <= Len(e.blocks) * BlockSize
    BY DEF Agrees, Given
  <1>2. WritesIn(e, z.blocks, c, mode.blocks)
    BY <1>1, InvFacts DEF WritesIn, Given
  <1>3. WritesAre(e, z.blocks, c)
    BY <1>2, WritesFacts
  <1> QED BY <1>1, <1>3 DEF Entries, Given

LEMMA GivenSame ==
  ASSUME Inv, NEW r, NEW held, NEW w, NEW c, NEW z, NEW e, Given(r, held, w, c, z, e),
         NEW b \in 1 .. mode.blocks, ~Fresh(b, z, c)
  PROVE  \A i \in 1 .. BlockSize : Final'[b][i] = Final[b][i]
  <1> SUFFICES ASSUME NEW i \in 1 .. BlockSize PROVE Final'[b][i] = Final[b][i]
    OBVIOUS
  <1>1. WritesAre(e, z.blocks, c)
    BY GivenWrites
  <1>2. Writes(e, <<b, i>>) = {}
    BY <1>1 DEF WritesAre, Fresh
  <1> QED BY <1>2, GivenElsewhere

\* Its own tokens are all there then.
LEMMA GivenHolds ==
  ASSUME Inv, \A q \in DOMAIN pass.output : Agrees(request[q], pass.output[q]),
         NEW r, NEW held, NEW w, NEW c, NEW z, NEW e, Given(r, held, w, c, z, e)
  PROVE  Holds(Final', z.blocks, e.tokens, e.start + e.n)
  <1> DEFINE N == mode.blocks
  <1>1. /\ e \in Entries /\ e.start \in Nat /\ e.n \in Nat
        /\ \A p \in e.start + 1 .. e.start + e.n :
              /\ p \in Nat \ {0} /\ Index(p) \in c + 1 .. Len(z.blocks)
              /\ Writes(e, Slot(z.blocks, p)) = {p}
        /\ \A p \in 1 .. e.start : Writes(e, Slot(z.blocks, p)) = {}
    BY GivenWrites DEF WritesAre
  <1>2. /\ \A k \in 1 .. Len(z.blocks) : z.blocks[k] = IF k <= Len(held) THEN held[k] ELSE w[k - Len(held)]
        /\ Len(z.blocks) = Len(held) + Len(w) /\ Len(held) \in Nat /\ Len(w) \in Nat
        /\ \A b : Fresh(b, z, c) => Holders(b) \subseteq {r}
    BY GivenFresh
  <1>3. /\ r \in Requests /\ r \notin DOMAIN pass.output /\ z \in RequestType
        /\ Table(z.blocks, N) /\ c \in 0 .. Len(held) /\ Agrees(z, e)
        /\ e.start <= Len(held) * BlockSize /\ Holds(Final, held, z.tokens, e.start)
    BY DEF Given
  <1>4. pass.output \in Outputs /\ DOMAIN pass.output \subseteq Requests
        /\ \A q \in DOMAIN pass.output : pass.output[q] \in Entries
    BY PassFacts, OutputEntries DEF Inv, Types
  <1>5. z.blocks \in Seq(1 .. N) /\ \A k \in 1 .. Len(z.blocks) : z.blocks[k] \in 1 .. N
    BY <1>3, MemberOf DEF Table
  <1> SUFFICES ASSUME NEW p \in 1 .. e.start + e.n
               PROVE  Final'[Slot(z.blocks, p)[1]][Slot(z.blocks, p)[2]] = SubSeq(e.tokens, 1, p)
    BY DEF Holds
  <1> DEFINE b == z.blocks[Index(p)]
             i == Offset(p)
  <1>6. p \in Nat \ {0}
    BY <1>1
  <1>7. Slot(z.blocks, p) = <<b, i>> /\ Slot(z.blocks, p)[1] = b /\ Slot(z.blocks, p)[2] = i
    BY SlotIs
  <1>8. i \in 1 .. BlockSize /\ Index(p) \in Nat \ {0}
    BY <1>6, IndexFacts
  <1>9. CASE p <= e.start
    <2>1. p \in 1 .. e.start
      BY <1>1, <1>6, <1>9
    <2>2. Len(held) * BlockSize \in Nat /\ (p <= Len(held) * BlockSize <=> Index(p) <= Len(held))
      BY <1>2, <1>6, IndexWithin
    <2>3. p <= Len(held) * BlockSize
      BY <1>1, <1>3, <1>6, <1>9, <2>2
    <2>4. Index(p) \in 1 .. Len(z.blocks) /\ b = held[Index(p)] /\ b \in 1 .. N
      BY <1>2, <1>5, <1>8, <2>2, <2>3
    <2>5. Writes(e, <<b, i>>) = {}
      BY <1>1, <1>7, <2>1
    <2>6. Final[b][i] = SubSeq(z.tokens, 1, p)
      BY <1>3, <2>1, <2>4, SlotIs DEF Holds
    <2>7. SubSeq(e.tokens, 1, p) = SubSeq(z.tokens, 1, p)
      <3>1. p \in Nat /\ p <= Len(z.tokens)
        BY <1>1, <1>3, <1>6, <1>9 DEF Words, RequestType, Entries, Agrees
      <3> QED BY <1>1, <1>3, <3>1, SameStart DEF RequestType, Entries, Agrees, Words
    <2> QED BY <1>7, <1>8, <2>4, <2>5, <2>6, <2>7, GivenElsewhere
  <1>10. CASE ~(p <= e.start)
    <2>1. Index(p) \in c + 1 .. Len(z.blocks) /\ Writes(e, <<b, i>>) = {p}
      BY <1>1, <1>7, <1>10
    <2>2. Fresh(b, z, c) /\ b \in 1 .. N
      BY <1>2, <1>3, <1>5, <1>8, <2>1 DEF Fresh
    <2>3. \A q \in DOMAIN pass.output : Writes(pass.output[q], <<b, i>>) = {}
      BY <1>2, <1>3, <1>4, <2>2, EntryWrites
    <2>4. DOMAIN Base = 1 .. N
      BY BaseDomain
    <2>5. Executed(Base, With(pass.output, r, e))[b][i] = SubSeq(e.tokens, 1, p)
      <3> HIDE DEF b, i
      <3>1. AddsHere(Base, pass.output, r, e, b, i, p)
        BY <1>1, <1>3, <1>4, <1>8, <2>1, <2>2, <2>3, <2>4 DEF AddsHere, Adds
      <3> QED BY <3>1, ExecutedHere
    <2> QED BY <1>7, <2>5 DEF Given, Final, Base, Memory
  <1> QED BY <1>9, <1>10

LEMMA OutputAgrees ==
  ASSUME Inv, TameInv
  PROVE  \A q \in DOMAIN pass.output : Agrees(request[q], pass.output[q])
  <1> SUFFICES ASSUME NEW q \in DOMAIN pass.output PROVE Agrees(request[q], pass.output[q])
    OBVIOUS
  <1>1. q \in Requests
    BY PassFacts, OutputEntries DEF Inv, Types
  <1>2. Steady(q)
    BY <1>1 DEF TameInv, Runs, Flights
  <1>3. Entry(q, pass.output[q])
    BY DEF Entry
  <1> QED BY <1>2, <1>3 DEF Steady

\* The request itself.
LEMMA GivenOwn ==
  ASSUME Inv, TameInv, NEW r, NEW held, NEW w, NEW c, NEW z, NEW e, Given(r, held, w, c, z, e)
  PROVE  Runs(r)'
  <1> DEFINE N == mode.blocks
             B == BlockSize
             full == z.ncached
  <1>1. /\ r \in Requests /\ r \notin DOMAIN pass.output
        /\ \A i \in DOMAIN batches : r \notin DOMAIN batches[i]
        /\ e \in Entries /\ Table(z.blocks, N) /\ c \in 0 .. Len(held)
        /\ full \in c .. Len(z.blocks) /\ full * B <= Len(z.tokens) /\ Agrees(z, e)
        /\ \A i \in 1 .. c : pool.hash[held[i]] = SubSeq(z.tokens, 1, i * B)
        /\ \A b \in ToSet(w) : Holders(b) = {}
        /\ \A k \in c + 1 .. full : pool'.hash[z.blocks[k]] = SubSeq(z.tokens, 1, k * B)
        /\ \A b \in 1 .. N : b \notin {z.blocks[k] : k \in c + 1 .. full} =>
             pool'.hash[b] = IF b \in ToSet(w) THEN NoHash ELSE pool.hash[b]
        /\ request' = [request EXCEPT ![r] = z] /\ pass'.output = With(pass.output, r, e)
        /\ scheduled_req_ids' = scheduled_req_ids \cup {r} /\ batches' = batches
        /\ z \in RequestType
    BY DEF Given
  <1>2. /\ \A k \in 1 .. Len(z.blocks) : z.blocks[k] = IF k <= Len(held) THEN held[k] ELSE w[k - Len(held)]
        /\ Len(z.blocks) = Len(held) + Len(w) /\ Len(held) \in Nat /\ Len(w) \in Nat
        /\ ToSet(w) = {w[k] : k \in 1 .. Len(w)} /\ ToSet(z.blocks) = ToSet(held) \cup ToSet(w)
        /\ \A b : Fresh(b, z, c) => /\ Holders(b) \subseteq {r}
                                    /\ b \in ToSet(w) \/ pool.hash[b] = NoHash
    BY GivenFresh
  <1>3. request \in [Requests -> RequestType] /\ B \in Nat \ {0}
    BY Constants DEF Inv, Types
  <1>4. request'[r] = z /\ \A q \in Requests : q # r => request'[q] = request[q]
    BY <1>1, <1>3
  <1>5. \A out : Entry(r, out)' <=> out = e
    <2>1. pass.output \in Outputs
      BY PassFacts DEF Inv, Types
    <2>2. r \in DOMAIN With(pass.output, r, e) /\ With(pass.output, r, e)[r] = e
      <3>1. r \in Requests /\ e \in Entries
        BY <1>1
      <3>2. DOMAIN With(pass.output, r, e) = DOMAIN pass.output \cup {r} /\ With(pass.output, r, e)[r] = e
        BY <2>1, <3>1, WithFacts, Zenon
      <3> QED BY <3>2
    <2> QED BY <1>1, <2>2 DEF Entry
  <1>6. Steady(r)'
    BY <1>1, <1>4, <1>5 DEF Steady
  <1>7. \A k, l \in 1 .. Len(z.blocks) : z.blocks[k] = z.blocks[l] => k = l
    BY <1>1 DEF Table
  <1>8. \A k \in 1 .. Len(z.blocks) : z.blocks[k] \in 1 .. N
    BY <1>1, MemberOf DEF Table
  <1>9. c \in Nat /\ full \in Nat /\ Len(z.blocks) \in Nat /\ full <= Len(z.blocks) /\ c <= full /\ c <= Len(held)
    BY <1>1, <1>2
  <1>10. Marked(z, pool'.hash)
    <2> SUFFICES ASSUME NEW i \in 1 .. Len(z.blocks)
                 PROVE  /\ i <= full => /\ i * B <= Len(z.tokens)
                                        /\ pool'.hash[z.blocks[i]] = SubSeq(z.tokens, 1, i * B)
                        /\ ~(i <= full) => pool'.hash[z.blocks[i]] = NoHash
      BY DEF Marked
    <2>1. ASSUME i <= full PROVE i * B <= Len(z.tokens)
      <3>1. i * B <= full * B /\ i * B \in Int /\ full * B \in Int
        BY <1>3, <1>9, <2>1, Times
      <3> DEFINE x == i * B
                 y == full * B
      <3>2. x <= y /\ x \in Int /\ y \in Int /\ y <= Len(z.tokens) /\ Len(z.tokens) \in Int
        BY <1>1, <3>1 DEF RequestType, Words
      <3> HIDE DEF x, y
      <3>3. x <= Len(z.tokens)
        BY <3>2
      <3> QED BY <3>3 DEF x
    <2>2. CASE i <= c
      <3>1. z.blocks[i] \notin {z.blocks[k] : k \in c + 1 .. full}
        BY <1>7, <1>9, <2>2
      <3>2. z.blocks[i] \notin ToSet(w)
        <4> SUFFICES ASSUME NEW k \in 1 .. Len(w), z.blocks[i] = w[k] PROVE FALSE
          BY <1>2
        <4>1. /\ Len(held) + k \in 1 .. Len(z.blocks) /\ ~(Len(held) + k <= Len(held))
              /\ Len(held) + k - Len(held) = k /\ Len(held) + k # i
          BY <1>2, <1>9, <2>2
        <4>2. z.blocks[Len(held) + k] = w[k]
          BY <1>2, <4>1
        <4> QED BY <1>7, <4>1, <4>2
      <3>3. pool'.hash[z.blocks[i]] = pool.hash[held[i]]
        <4>1. pool'.hash[z.blocks[i]] = pool.hash[z.blocks[i]]
          BY <1>1, <1>8, <3>1, <3>2
        <4> QED BY <1>2, <1>9, <2>2, <4>1
      <3> QED BY <1>1, <1>2, <1>9, <2>1, <2>2, <3>3
    <2>3. CASE i \in c + 1 .. full
      BY <1>1, <1>9, <2>1, <2>3
    <2>4. CASE ~(i <= full)
      <3>1. z.blocks[i] \notin {z.blocks[k] : k \in c + 1 .. full}
        BY <1>7, <1>9, <2>4
      <3>2. Fresh(z.blocks[i], z, c)
        BY <1>9, <2>4 DEF Fresh
      <3>3. pool'.hash[z.blocks[i]] = NoHash
        BY <1>1, <1>2, <1>8, <3>1, <3>2
      <3> QED BY <2>4, <3>3
    <2> QED BY <1>9, <2>2, <2>3, <2>4
  <1>11. Exclusive(r)'
    <2> SUFFICES ASSUME NEW i \in 1 .. Len(z.blocks), i > full
                 PROVE  (Holders(z.blocks[i]))' = {r}
      BY <1>4 DEF Exclusive, Holders
    <2>1. Fresh(z.blocks[i], z, c)
      BY <1>9 DEF Fresh
    <2>2. z.blocks[i] \in ToSet(z.blocks)
      BY <1>1, Members DEF Table
    <2> QED BY <1>1, <1>2, <1>4, <2>1, <2>2 DEF Holders
  <1>12. Present(r)'
    <2>1. e.blocks = z.blocks
      BY <1>1 DEF Agrees
    <2> QED BY <1>1, <1>5, <2>1, OutputAgrees, GivenHolds DEF Present
  <1> QED BY <1>4, <1>6, <1>10, <1>11, <1>12 DEF Runs, Marked

\* The entries of a running request, and what they find.
LEMMA EntryFacts ==
  ASSUME Inv, NEW q \in Requests, Steady(q), NEW out, Entry(q, out)
  PROVE  /\ out \in Entries /\ Agrees(request[q], out) /\ out.blocks = request[q].blocks
         /\ out.start + out.n \in Int /\ out.start + out.n <= Len(request[q].blocks) * BlockSize
  <1>1. Agrees(request[q], out)
    BY DEF Steady
  <1>2. out \in Entries
    BY PassFacts, OutputEntries DEF Inv, Types, Entry
  <1> QED BY <1>1, <1>2 DEF Agrees, Entries

\* A running request that the step leaves alone, and finds the same in its blocks.
Undisturbed(q) ==
  /\ q \in Requests /\ request[q].status = "running" /\ request'[q] = request[q]
  /\ \A out : Entry(q, out)' <=> Entry(q, out)
  /\ q \in scheduled_req_ids' <=> q \in scheduled_req_ids
  /\ \A k \in 1 .. Len(request[q].blocks) :
       LET b == request[q].blocks[k]
       IN  /\ pool'.hash[b] = pool.hash[b]
           /\ k > request[q].ncached => Holders(b)' \subseteq Holders(b)
           /\ \A i \in 1 .. BlockSize : Final'[b][i] = Final[b][i]

LEMMA StillRuns ==
  ASSUME Inv, NEW q, Undisturbed(q), Runs(q)
  PROVE  Runs(q)'
  <1> DEFINE N == mode.blocks
             Q == request[q].blocks
  <1>1. /\ q \in Requests /\ request'[q] = request[q]
        /\ \A out : Entry(q, out)' <=> Entry(q, out)
        /\ q \in scheduled_req_ids' <=> q \in scheduled_req_ids
        /\ \A k \in 1 .. Len(Q) : /\ pool'.hash[Q[k]] = pool.hash[Q[k]]
                                  /\ k > request[q].ncached => Holders(Q[k])' \subseteq Holders(Q[k])
                                  /\ \A i \in 1 .. BlockSize : Final'[Q[k]][i] = Final[Q[k]][i]
    BY DEF Undisturbed
  <1>2. Steady(q) /\ Marked(request[q], pool.hash) /\ Exclusive(q) /\ Present(q)
    BY DEF Runs
  <1>3. N \in Nat /\ Q \in Seq(1 .. N) /\ \A k \in 1 .. Len(Q) : Q[k] \in ToSet(Q)
    BY <1>1, InvFacts, TableFacts, Members DEF Table
  <1>4. Steady(q)'
    BY <1>1, <1>2 DEF Steady
  <1>5. Exclusive(q)'
    BY <1>1, <1>2, <1>3 DEF Exclusive, Holders
  <1> DEFINE u == Final'
             m == Final
  <1>6. \A k \in 1 .. Len(Q) : \A i \in 1 .. BlockSize : u[Q[k]][i] = m[Q[k]][i]
    BY <1>1
  <1>7. ASSUME NEW out, Entry(q, out) PROVE Holds(u, out.blocks, out.tokens, out.start + out.n)
    <2>1. out.blocks = Q /\ out.start + out.n \in Int /\ out.start + out.n <= Len(Q) * BlockSize
      BY <1>1, <1>2, <1>7, EntryFacts
    <2>2. Holds(m, Q, out.tokens, out.start + out.n)
      BY <1>2, <1>7, <2>1 DEF Present
    <2> HIDE DEF u, m, Q
    <2>3. HoldsIn(u, m, Q, out.tokens, out.start + out.n)
      BY <1>3, <1>6, <2>1, <2>2 DEF HoldsIn
    <2> QED BY <2>1, <2>3, HoldsSame
  <1>8. ASSUME q \notin scheduled_req_ids PROVE Holds(u, Q, request[q].tokens, request[q].computed)
    <2>1. Holds(m, Q, request[q].tokens, request[q].computed)
      BY <1>2, <1>8 DEF Present
    <2>2. request[q].computed \in Int /\ request[q].computed <= Len(Q) * BlockSize
      BY <1>1, <1>2, <1>8, TableFacts DEF Steady, Settled, RequestType
    <2> HIDE DEF u, m, Q
    <2>3. HoldsIn(u, m, Q, request[q].tokens, request[q].computed)
      BY <1>3, <1>6, <2>1, <2>2 DEF HoldsIn
    <2> QED BY <2>3, HoldsSame
  <1>9. Present(q)'
    BY <1>1, <1>7, <1>8 DEF Present
  <1> QED BY <1>1, <1>2, <1>4, <1>5, <1>9 DEF Runs, Marked

\* The other running requests.
LEMMA GivenOthers ==
  ASSUME Inv, TameInv, NEW r, NEW held, NEW w, NEW c, NEW z, NEW e, Given(r, held, w, c, z, e),
         NEW q \in Requests, q # r, request[q].status = "running"
  PROVE  Runs(q)'
  <1> DEFINE N == mode.blocks
             Q == request[q].blocks
             full == z.ncached
  <1>1. /\ r \in Requests /\ r \notin DOMAIN pass.output /\ e \in Entries /\ c \in 0 .. Len(held)
        /\ full \in c .. Len(z.blocks)
        /\ \A b \in ToSet(w) : Holders(b) = {}
        /\ \A b \in ToSet(held) : b \notin ToSet(request[r].blocks) => pool.hash[b] # NoHash
        /\ \A b \in 1 .. N : b \notin {z.blocks[k] : k \in c + 1 .. full} =>
             pool'.hash[b] = IF b \in ToSet(w) THEN NoHash ELSE pool.hash[b]
        /\ request' = [request EXCEPT ![r] = z] /\ pass'.output = With(pass.output, r, e)
        /\ scheduled_req_ids' = scheduled_req_ids \cup {r} /\ batches' = batches
    BY DEF Given
  <1>2. /\ Len(z.blocks) = Len(held) + Len(w) /\ Len(held) \in Nat /\ Len(w) \in Nat
        /\ ToSet(z.blocks) = ToSet(held) \cup ToSet(w)
        /\ \A b : Fresh(b, z, c) => Holders(b) \subseteq {r}
    BY GivenFresh
  <1>3. request'[r] = z /\ \A x \in Requests : x # r => request'[x] = request[x]
    BY <1>1 DEF Inv, Types
  <1>4. Runs(q)
    BY DEF TameInv
  <1>5. \A out : Entry(q, out)' <=> Entry(q, out)
    <2>1. pass.output \in Outputs
      BY PassFacts DEF Inv, Types
    <2>2. /\ DOMAIN With(pass.output, r, e) = DOMAIN pass.output \cup {r}
          /\ \A s \in DOMAIN pass.output : s # r => With(pass.output, r, e)[s] = pass.output[s]
      <3>1. r \in Requests /\ e \in Entries
        BY <1>1
      <3> QED BY <2>1, <3>1, WithFacts, ZenonT(40)
    <2> QED BY <1>1, <2>2 DEF Entry
  <1>6. ASSUME NEW k \in 1 .. Len(Q)
        PROVE  /\ pool'.hash[Q[k]] = pool.hash[Q[k]]
               /\ k > request[q].ncached => Holders(Q[k])' \subseteq Holders(Q[k])
               /\ \A i \in 1 .. BlockSize : Final'[Q[k]][i] = Final[Q[k]][i]
    <2>1. PICK b : b = Q[k]
      OBVIOUS
    <2>2. b \in 1 .. N /\ q \in Holders(b)
      BY <2>1, TableFacts
    <2>3. ~Fresh(b, z, c) /\ b \notin ToSet(w)
      BY <1>1, <1>2, <2>2
    <2>4. pool'.hash[b] = pool.hash[b]
      BY <1>1, <1>2, <2>2, <2>3 DEF Fresh
    <2>5. ASSUME k > request[q].ncached PROVE Holders(b)' \subseteq Holders(b)
      <3>1. Holders(b) = {q}
        BY <1>4, <2>1, <2>5 DEF Runs, Exclusive
      <3>2. pool.hash[b] = NoHash
        BY <1>4, <2>1, <2>5, RequestFields DEF Inv, Types, Runs, Marked
      <3> SUFFICES ASSUME NEW x \in Requests, b \in ToSet(request'[x].blocks)
                   PROVE  b \in ToSet(request[x].blocks)
        BY DEF Holders
      <3> QED BY <1>1, <1>2, <1>3, <2>3, <3>1, <3>2 DEF Holders
    <2>6. request'[q].blocks[k] = b
      BY <1>3, <2>1
    <2> QED BY <2>1, <2>2, <2>3, <2>4, <2>5, <2>6, GivenSame DEF Holders
  <1>7. Undisturbed(q)
    BY <1>1, <1>3, <1>5, <1>6 DEF Undisturbed
  <1> QED BY <1>4, <1>7, StillRuns

\* The blocks in the cache.
LEMMA GivenCached ==
  ASSUME Inv, TameInv, NEW r, NEW held, NEW w, NEW c, NEW z, NEW e, Given(r, held, w, c, z, e)
  PROVE  Cached'
  <1> DEFINE N == mode.blocks
             B == BlockSize
             full == z.ncached
  <1>1. /\ Table(z.blocks, N) /\ c \in 0 .. Len(held) /\ full \in c .. Len(z.blocks)
        /\ full * B <= Len(z.tokens) /\ Agrees(z, e) /\ z \in RequestType /\ e \in Entries
        /\ \A k \in c + 1 .. full : pool'.hash[z.blocks[k]] = SubSeq(z.tokens, 1, k * B)
        /\ \A b \in 1 .. N : b \notin {z.blocks[k] : k \in c + 1 .. full} =>
             pool'.hash[b] = IF b \in ToSet(w) THEN NoHash ELSE pool.hash[b]
        /\ mode' = mode
    BY DEF Given
  <1>2. /\ Len(z.blocks) = Len(held) + Len(w) /\ Len(held) \in Nat /\ Len(w) \in Nat
        /\ \A b : Fresh(b, z, c) => b \in ToSet(w) \/ pool.hash[b] = NoHash
    BY GivenFresh
  <1>3. Holds(Final', z.blocks, e.tokens, e.start + e.n)
    BY OutputAgrees, GivenHolds
  <1>4. B \in Nat \ {0}
    BY Constants
  <1>5. /\ z.tokens \in Words /\ e.spec \in Words /\ e.tokens = z.tokens \o e.spec
        /\ full * B <= e.start + e.n /\ e.start \in Int /\ e.n \in Nat /\ Len(z.tokens) \in Nat
    <2>1. Len(e.spec) \in Nat /\ Len(z.tokens) \in Nat
      BY <1>1 DEF Words, RequestType, Entries
    <2>2. full * B \in Int
      BY <1>1, <1>2, <1>4
    <2> DEFINE x == full * B
    <2>3. x <= e.start + e.n
      BY <1>1, <2>1, <2>2 DEF x, RequestType, Entries, Agrees
    <2> QED BY <1>1, <2>1, <2>3 DEF RequestType, Entries, Agrees
  <1> SUFFICES ASSUME NEW b \in 1 .. N, pool'.hash[b] # NoHash
               PROVE  Filled(Final', b, pool'.hash[b])
    BY <1>1 DEF Cached
  <1>6. CASE \E k \in c + 1 .. full : b = z.blocks[k]
    <2>1. PICK k \in c + 1 .. full : b = z.blocks[k]
      BY <1>6
    <2>2. k \in Nat \ {0} /\ k <= full /\ full \in Nat
      BY <1>1, <1>2
    <2> DEFINE x == k * B
               y == full * B
               h == SubSeq(z.tokens, 1, x)
    <2>3. x \in Nat /\ y \in Nat /\ x <= y /\ y <= e.start + e.n /\ y <= Len(z.tokens)
      <3>1. x <= y
        BY <1>4, <2>2, Times
      <3> QED BY <1>1, <1>4, <1>5, <2>2, <3>1
    <2>4. pool'.hash[b] = h
      BY <1>1, <2>1
    <2>5. Len(h) = x
      BY <1>5, <2>3, Cut
    <2> SUFFICES ASSUME NEW i \in 1 .. B
                 PROVE  Final'[b][i] = SubSeq(h, 1, x - B + i)
      BY <2>4, <2>5 DEF Filled
    <2> DEFINE p == (k - 1) * B + i
    <2>6. p \in Nat \ {0} /\ Index(p) = k /\ Offset(p) = i /\ p <= x /\ p = x - B + i
      BY <2>2, PositionFacts
    <2> HIDE DEF x, y, p
    <2>7. p \in 1 .. e.start + e.n /\ p <= Len(z.tokens) /\ x <= Len(z.tokens)
      BY <1>5, <2>3, <2>6
    <2>8. SubSeq(e.tokens, 1, p) = SubSeq(z.tokens, 1, p)
      <3>1. p \in Nat
        BY <2>6
      <3> QED BY <1>5, <2>7, <3>1, SameStart
    <2>9. SubSeq(h, 1, p) = SubSeq(z.tokens, 1, p)
      BY <1>5, <2>3, <2>6, <2>7, CutCut
    <2> HIDE DEF h
    <2> QED BY <1>3, <2>1, <2>6, <2>7, <2>8, <2>9, SlotIs DEF Holds
  <1>7. CASE ~\E k \in c + 1 .. full : b = z.blocks[k]
    <2>1. ~Fresh(b, z, c)
      BY <1>1, <1>2, <1>7
    <2>2. Filled(Final, b, pool.hash[b])
      BY <1>1, <1>7 DEF TameInv, Cached
    <2> QED BY <1>1, <1>7, <2>1, <2>2, GivenSame DEF Filled
  <1> QED BY <1>6, <1>7

\* The batches in flight are the same.
LEMMA SamePast ==
  ASSUME Past, UNCHANGED <<batches, kv>>
  PROVE  Past'
  BY DEF Past, Memory

LEMMA GivenAll ==
  ASSUME Inv, TameInv, NEW r, NEW held, NEW w, NEW c, NEW z, NEW e, Given(r, held, w, c, z, e)
  PROVE  Past' /\ Cached' /\ \A q \in Requests : request'[q].status = "running" => Runs(q)'
  <1>1. Past'
    BY SamePast DEF TameInv, Given
  <1>2. Cached'
    BY GivenCached
  <1>3. ASSUME NEW q \in Requests, request'[q].status = "running" PROVE Runs(q)'
    BY <1>3, GivenOwn, GivenOthers DEF Given, Inv, Types
  <1> QED BY <1>1, <1>2, <1>3

-----------------------------------------------------------------------------
(* The steps that give no slots.                                            *)

\* Nobody is disturbed who still runs.
Calm ==
  /\ pool'.ok /\ pool'.hash = pool.hash /\ mode' = mode
  /\ \A q \in Requests : request'[q].status = "running" =>
       /\ request[q].status = "running" /\ request'[q] = request[q]
       /\ q \in scheduled_req_ids' <=> q \in scheduled_req_ids
       /\ \A out : Entry(q, out)' <=> Entry(q, out)
  /\ \A q \in Requests : request'[q].blocks = request[q].blocks \/ request'[q].blocks = <<>>
  /\ SameMemory(Final', Final, mode.blocks)

LEMMA CalmTame ==
  ASSUME Inv, TameInv, Calm, Past', Flights'
  PROVE  TameInv'
  <1>1. ASSUME NEW q \in Requests, request'[q].status = "running" PROVE Runs(q)'
    BY <1>1, TableFacts, StillRuns, ListsEmpty DEF Calm, SameMemory, Holders, Undisturbed, TameInv
  <1>2. Cached'
    BY DEF Calm, TameInv, Cached, Filled, SameMemory
  <1> QED BY <1>1, <1>2 DEF TameInv, Calm

\* No entry, and nothing in the memory, changes.
LEMMA SameEntries ==
  ASSUME UNCHANGED <<batches, kv>>, pass'.output = pass.output
  PROVE  Final' = Final /\ \A q, out : Entry(q, out)' <=> Entry(q, out)
  BY DEF Final, Memory, Entry

\* Only the pass and the queues change.
LEMMA PassTame ==
  ASSUME Inv, TameInv, UNCHANGED <<mode, pool, request, scheduled_req_ids, batches, kv>>,
         pass'.output = pass.output, Flights'
  PROVE  TameInv'
  <1>1. Past'
    BY SamePast DEF TameInv
  <1>2. Calm
    BY SameEntries DEF Calm, SameMemory, TameInv
  <1> QED BY <1>1, <1>2, CalmTame

LEMMA SkipTame ==
  ASSUME Inv, TameInv, SkipScheduled \/ SkipNoEncoder
  PROVE  TameInv'
  <1>1. pass \in Passes /\ pass.index \in Nat
    BY PassFacts DEF Inv, Types
  <1>2. Flights'
    BY <1>1 DEF TameInv, Flights, SkipScheduled, SkipNoEncoder, InRunningLoop, queues, Passes
  <1> QED BY <1>1, <1>2, PassTame DEF SkipScheduled, SkipNoEncoder, InRunningLoop, queues, Passes

LEMMA EndRunningTame ==
  ASSUME Inv, TameInv, EndRunning
  PROVE  TameInv'
  <1>1. pass \in Passes
    BY DEF Inv, Types
  <1>2. Flights'
    BY <1>1 DEF TameInv, Flights, EndRunning, queues, Passes
  <1> QED BY <1>1, <1>2, PassTame DEF EndRunning, queues, Passes

LEMMA NotReadyTame ==
  ASSUME Inv, TameInv, SkipNotReady
  PROVE  TameInv'
  <1>1. pass \in Passes
    BY DEF Inv, Types
  <1>2. Flights'
    BY <1>1 DEF TameInv, Flights, SkipNotReady, InWaitingLoop, Passes
  <1> QED BY <1>1, <1>2, PassTame DEF SkipNotReady, InWaitingLoop, Passes

LEMMA GrammarTame ==
  ASSUME Inv, TameInv, NEW r, GrammarReady(r)
  PROVE  TameInv'
  <1> QED BY PassTame DEF GrammarReady, queues, TameInv, Flights

\* Executing nothing.
LEMMA NothingMore ==
  ASSUME Inv, UNCHANGED <<batches, kv>>, DOMAIN pass.output = {}, DOMAIN pass'.output = {}
  PROVE  /\ SameMemory(Final', Final, mode.blocks)
         /\ \A q, out : Entry(q, out)' <=> Entry(q, out)
  <1>1. Final' = Executed(Base, pass'.output) /\ Final = Executed(Base, pass.output)
        /\ DOMAIN Base = 1 .. mode.blocks
    BY BaseDomain DEF Final, Base, Memory
  <1>2. SameMemory(Final', Final, mode.blocks)
    <2>1. PICK o1, o2, m : o1 = pass'.output /\ o2 = pass.output /\ m = Base
      OBVIOUS
    <2>2. DOMAIN o1 = {} /\ DOMAIN o2 = {}
      BY <2>1
    <2>3. ASSUME NEW b \in DOMAIN m, NEW i \in 1 .. BlockSize
          PROVE  Executed(m, o1)[b][i] = m[b][i] /\ Executed(m, o2)[b][i] = m[b][i]
      BY <2>2, <2>3, ExecutedNothing
    <2> QED BY <1>1, <2>1, <2>3 DEF SameMemory
  <1> QED BY <1>2 DEF Entry

LEMMA BeginTame ==
  ASSUME Inv, TameInv, BeginSchedule
  PROVE  TameInv'
  <1>1. /\ pass.at = "idle"
        /\ pass' = [NewPass EXCEPT !.at = "running", !.budget = mode.budget, !.encoder = encoder_cache_size]
        /\ UNCHANGED <<mode, pool, request, running, scheduled_req_ids, batches, kv>>
    BY DEF BeginSchedule, queues
  <1>2. Flights'
    BY <1>1 DEF TameInv, Flights, NewPass
  <1>3. SameMemory(Final', Final, mode.blocks) /\ \A q, out : Entry(q, out)' <=> Entry(q, out)
    BY <1>1, NothingMore DEF Inv, Queued, NewPass
  <1>4. Calm
    BY <1>1, <1>3 DEF Calm, TameInv
  <1>5. Past'
    BY <1>1, SamePast DEF TameInv
  <1> QED BY <1>2, <1>4, <1>5, CalmTame

LEMMA AddTame ==
  ASSUME Inv, TameInv, NEW r \in Requests, add_request(r)
  PROVE  TameInv'
  <1>1. /\ pass.at = "idle" /\ request[r].status = "new"
        /\ request' = [request EXCEPT ![r].status = IF r \in Guided THEN "waiting_for_fsm" ELSE "waiting"]
        /\ UNCHANGED <<mode, pool, running, scheduled_req_ids, batches, kv, pass>>
    BY DEF add_request
  <1>2. \A i \in DOMAIN batches : r \notin DOMAIN batches[i]
    BY <1>1, OutputEntries DEF Flights, Inv, Types, TameInv
  <1>3. DOMAIN pass.output = {}
    BY <1>1 DEF Inv, Queued
  <1>4. Flights'
    BY <1>1, <1>2, <1>3, OutputEntries DEF Flights, Inv, Types, TameInv, RequestType
  <1>5. Calm
    BY <1>1, SameEntries DEF Calm, SameMemory, TameInv, RequestType, Inv, Types
  <1>6. Past'
    BY <1>1, SamePast DEF TameInv
  <1> QED BY <1>4, <1>5, <1>6, CalmTame

LEMMA StayTame ==
  ASSUME Inv, TameInv, StayStep
  PROVE  TameInv'
  <1>1. /\ AdmitFacts0 /\ pass.at = "waiting"
        /\ request' = [request EXCEPT ![Adm] = AdmHashed]
        /\ pass' = [pass EXCEPT !.at = "end"]
        /\ UNCHANGED <<mode, pool, running, scheduled_req_ids, batches, kv>>
    BY DEF StayStep, InWaitingLoop
  <1> HIDE DEF Adm, AdmHashed
  <1>2. /\ \A q \in Requests : q # Adm => request'[q] = request[q]
        /\ request'[Adm] = AdmHashed
    BY <1>1 DEF Inv, Types, AdmitFacts0, Fields
  <1>3. pass'.at = "end" /\ pass'.output = pass.output /\ pass'.preempted = pass.preempted
    BY <1>1 DEF Passes, Inv, Types
  <1>4. Flights'
    BY <1>1, <1>2, <1>3, PassFacts, OutputEntries DEF Live, Flights, Inv, Types, TameInv,
      AdmitFacts0, Fields
  <1>5. Calm
    BY <1>1, <1>2, <1>3, SameEntries DEF Calm, SameMemory, TameInv, AdmitFacts0, Fields
  <1>6. Past'
    BY <1>1, SamePast DEF TameInv
  <1> QED BY <1>4, <1>5, <1>6, CalmTame

\* At most one batch is being executed while the next one is scheduled.
LEMMA FewBatches ==
  ASSUME Tame, Inv
  PROVE  /\ batches \in Seq(Outputs) /\ Len(batches) \in 0 .. 2 /\ DOMAIN batches = 1 .. Len(batches)
         /\ mode.queue \in 1 .. 2 /\ mode.spec \in 0 .. 1
         /\ pass.at \in {"running", "waiting", "end"} => Len(batches) < mode.queue /\ Len(batches) \in 0 .. 1
         /\ \A i \in DOMAIN batches : DOMAIN batches[i] \subseteq Requests
         /\ pass.output \in Outputs /\ DOMAIN pass.output \subseteq Requests
  <1>1. /\ mode \in Modes /\ batches \in Seq(Outputs) /\ Queued /\ mode.queue \in Nat \ {0} /\ mode.spec \in Nat
        /\ pass.output \in Outputs
    BY ModeFacts, PassFacts DEF Inv, Types
  <1>2. Len(batches) \in Nat /\ DOMAIN batches = 1 .. Len(batches) /\ \A i \in DOMAIN batches : batches[i] \in Outputs
    BY <1>1
  <1>3. Len(batches) <= mode.queue /\ (pass.at \in {"running", "waiting", "end"} => Len(batches) < mode.queue)
    BY <1>1 DEF Queued
  <1> QED BY <1>1, <1>2, <1>3, OutputEntries DEF Tame

LEMMA PreemptTame ==
  ASSUME Tame, Inv, TameInv, Preempt
  PROVE  TameInv'
  <1> DEFINE v == Last(running)
             z == Preempted(request[v])
             n == Len(running)
  <1>1. /\ running # <<>> /\ v \in Requests /\ request[v].status = "running"
        /\ z \in RequestType /\ z.status = "preempted"
        /\ LetGo(mode.blocks, pool, pool')
        /\ request' = [request EXCEPT ![v] = z]
        /\ pass' = [pass EXCEPT !.preempted = TRUE]
        /\ UNCHANGED <<mode, scheduled_req_ids, batches, kv>>
    BY PreemptFacts DEF PreemptStep
  <1>2. pass.at = "running" /\ running' = Front(running) /\ pass.index <= n
    BY DEF Preempt, InRunningLoop
  <1>3. request \in [Requests -> RequestType] /\ pass \in Passes /\ pass.index \in Nat \ {0}
    BY PassFacts DEF Inv, Types
  <1>4. z.blocks = <<>>
    BY <1>1, <1>3, PreemptedFacts
  <1>5. /\ n \in Nat /\ DOMAIN running = 1 .. n /\ v = running[n]
        /\ \A i, j \in 1 .. n : running[i] = running[j] => i = j
        /\ Len(running') = n - 1 /\ DOMAIN running' = 1 .. n - 1
        /\ \A i \in 1 .. n - 1 : running'[i] = running[i]
    <2>1. n \in Nat /\ DOMAIN running = 1 .. n /\ \A i, j \in 1 .. n : running[i] = running[j] => i = j
      BY ListsFacts DEF Inv, Queued
    <2>2. running \in Seq({x \in Requests : request[x].status = "running"})
      BY DEF Lists, Inv, Queued
    <2> QED BY <1>1, <1>2, <2>1, <2>2 DEF Front, Last
  <1> HIDE DEF v, z, n
  <1>6. /\ Flights /\ DOMAIN pass.output \subseteq Requests /\ \A i \in DOMAIN batches : DOMAIN batches[i] \subseteq Requests
        /\ Len(batches) \in 0 .. 1 /\ DOMAIN batches = 1 .. Len(batches)
    BY <1>2, FewBatches DEF TameInv
  <1>7. ASSUME NEW q \in DOMAIN pass.output
        PROVE  q # v /\ \E k \in 1 .. pass'.index - 1 : k \in DOMAIN running' /\ running'[k] = q
    BY <1>1, <1>2, <1>3, <1>5, <1>6, <1>7 DEF Flights, Passes
  <1>8. Flights'
    BY <1>1, <1>2, <1>3, <1>4, <1>6, <1>7 DEF Flights, Passes
  <1>9. Final' = Final /\ \A q, out : Entry(q, out)' <=> Entry(q, out)
    BY <1>1, <1>2, <1>3, SameEntries DEF Passes
  <1>10. Calm
    BY <1>1, <1>3, <1>4, <1>9 DEF LetGo, TameInv, Calm, SameMemory
  <1>11. Past'
    BY <1>1, SamePast DEF TameInv
  <1> QED BY <1>8, <1>10, <1>11, CalmTame

LEMMA AbortTame ==
  ASSUME Tame, Inv, TameInv, NEW r \in Requests, abort_request(r)
  PROVE  TameInv'
  <1> DEFINE z == Finished(request[r])
  <1>1. /\ LetGo(mode.blocks, pool, pool') /\ request' = [request EXCEPT ![r] = z]
        /\ pass.at = "idle" /\ UNCHANGED <<mode, pass, batches, kv>>
    BY AbortFacts DEF AbortStep
  <1>2. z.status = "finished" /\ z.blocks = <<>>
    BY FinishedFacts DEF Inv, Types
  <1> HIDE DEF z
  <1>3. /\ \A q \in Requests : q # r => request'[q] = request[q]
        /\ request'[r].status = "finished" /\ request'[r].blocks = <<>>
    BY <1>1, <1>2 DEF Inv, Types
  <1>4. Flights'
    BY <1>1, <1>3, FewBatches DEF TameInv, Live, Flights, Inv, Queued
  <1>5. Calm
    BY <1>1, <1>3, SameEntries DEF LetGo, TameInv, Calm, SameMemory, abort_request
  <1>6. Past'
    BY <1>1, SamePast DEF TameInv
  <1> QED BY <1>4, <1>5, <1>6, CalmTame

LEMMA ResetTame ==
  ASSUME Inv, TameInv, ResetPrefixCache
  PROVE  TameInv'
  <1> DEFINE N == mode.blocks
             F == {b \in DOMAIN pool.ref : pool.ref[b] = 0}
  <1>1. /\ pool' = reset_prefix_cache(pool) /\ pool.num = N
        /\ UNCHANGED <<mode, request, running, scheduled_req_ids, pass, batches, kv>>
    BY DEF ResetPrefixCache, queues
  <1>2. N \in Nat /\ pool \in Pools(N) /\ Linked(pool) /\ Uses(pool, N, {})
    BY InvFacts
  <1>3. F = 1 .. N
    <2>1. Cardinality(F) = N
      BY <1>1, <1>2, ListsLen DEF Linked, Chain
    <2>2. IsFiniteSet(1 .. N) /\ Cardinality(1 .. N) = N
      BY <1>2, FS_Interval
    <2>3. F \subseteq 1 .. N
      BY <1>2, PoolFields
    <2> HIDE DEF F
    <2> QED BY <2>1, <2>2, <2>3, FS_Subset
  <1>4. ASSUME NEW b \in 1 .. N PROVE Holders(b) = {}
    BY <1>2, <1>3, <1>4, FS_EmptySet DEF Uses
  <1>5. ASSUME NEW q \in Requests PROVE Len(request[q].blocks) = 0
    BY <1>4, TableFacts DEF N
  <1>6. pool'.ok = pool.ok /\ \A b \in 1 .. N : pool'.hash[b] = NoHash
    BY <1>1, <1>2, PoolFields DEF reset_prefix_cache, Pools
  <1>7. ASSUME NEW q \in Requests, request'[q].status = "running" PROVE Runs(q)'
    BY <1>1, <1>5, <1>7, SameEntries DEF TameInv, Runs, Steady, Present, Marked, Exclusive
  <1>8. Cached'
    BY <1>1, <1>6 DEF Cached
  <1> QED BY <1>1, <1>6, <1>7, <1>8, SamePast DEF TameInv, Flights

\* The end of a pass: its output is one more batch.
LEMMA EndTame ==
  ASSUME Tame, Inv, TameInv, EndSchedule
  PROVE  TameInv'
  <1> DEFINE none == DOMAIN pass.output = {}
             at == IF ~none THEN IF mode.queue > 1 THEN "idle" ELSE "execute"
                   ELSE IF batches # <<>> THEN "execute" ELSE "idle"
             o == pass.output
  <1>1. PICK n : n = Len(batches)
    OBVIOUS
  <1>2. /\ pass.at \in {"end", "waiting"} /\ pass' = [NewPass EXCEPT !.at = at]
        /\ batches' = IF none THEN batches ELSE Append(batches, o)
        /\ UNCHANGED <<mode, pool, request, running, scheduled_req_ids, kv>>
    BY DEF EndSchedule
  <1>3. /\ batches \in Seq(Outputs) /\ n \in 0 .. 1 /\ DOMAIN batches = 1 .. n /\ n < mode.queue
        /\ mode.queue \in 1 .. 2 /\ o \in Outputs
        /\ batches = <<>> <=> n = 0
    BY <1>1, <1>2, FewBatches
  <1>4. pass'.at = at /\ DOMAIN pass'.output = {} /\ pass'.preempted = FALSE /\ at \in {"idle", "execute"}
    BY <1>2 DEF NewPass
  <1>5. Flights
    BY DEF TameInv
  <1>6. CASE none
    <2>1. batches' = batches /\ (n = 1 => at = "execute") /\ (at = "execute" => n = 1)
      BY <1>2, <1>3, <1>6
    <2>2. Calm
      BY <1>2, <1>4, <1>6, <2>1, NothingMore DEF Calm, TameInv
    <2>3. Past'
      BY <1>2, <2>1, SamePast DEF TameInv
    <2> HIDE DEF at
    <2>4. Flights'
      BY <1>1, <1>2, <1>3, <1>4, <1>5, <2>1 DEF Flights
    <2> QED BY <2>2, <2>3, <2>4, CalmTame
  <1>7. CASE ~none
    <2>1. /\ batches' = Append(batches, o) /\ Len(batches') = n + 1 /\ DOMAIN batches' = 1 .. n + 1
          /\ batches'[n + 1] = o /\ \A i \in 1 .. n : batches'[i] = batches[i]
      BY <1>2, <1>3, <1>7
    <2>2. at = "execute" => n = 0
      BY <1>3, <1>7
    <2> HIDE DEF none, at, o
    <2>3. Memory(n + 1)' = Final
      BY <1>1, <1>2, <1>3, <2>1 DEF Memory, Final, o
    <2>4. SameMemory(Final', Final, mode.blocks)
      <3>1. PICK m, w : m = Final /\ w = pass'.output
        OBVIOUS
      <3>2. DOMAIN m = 1 .. mode.blocks /\ DOMAIN w = {}
        BY <1>4, <3>1, BaseDomain
      <3>3. ASSUME NEW b \in 1 .. mode.blocks, NEW i \in 1 .. BlockSize
            PROVE  Executed(m, w)[b][i] = m[b][i]
        <4>1. b \in DOMAIN m
          BY <3>2, <3>3
        <4> QED BY <3>2, <3>3, <4>1, ExecutedNothing
      <3> QED BY <2>1, <2>3, <3>1, <3>3 DEF SameMemory, Final
    <2>5. ASSUME NEW q, NEW out PROVE Entry(q, out)' <=> Entry(q, out)
      BY <1>3, <1>4, <2>1 DEF Entry, o
    <2>6. Calm
      BY <1>2, <2>4, <2>5 DEF Calm, TameInv
    <2>7. Past'
      BY <1>2, <1>3, <1>5, <2>1, <2>3, OutputEntries DEF TameInv, Past, Flights, o, Runs, Entry,
        Present, Memory
    <2>8. Flights'
      BY <1>2, <1>3, <1>4, <1>5, <2>1, <2>2 DEF Flights, o, Live
    <2> QED BY <2>6, <2>7, <2>8, CalmTame
  <1> QED BY <1>6, <1>7

-----------------------------------------------------------------------------
(* A running request is scheduled.                                          *)

\* No assertion fails when it gets its slots.
RanReady ==
  LET req == request[Ran]
  IN  /\ InRunningLoop /\ Ran \in Requests /\ req.status = "running" /\ Ran \notin scheduled_req_ids
      /\ Runs(Ran) /\ Settled(req) /\ Wanted(req) > 0 /\ RanN \in Nat \ {0}
      /\ Len(req.spec) \in 0 .. 1 /\ Len(req.tokens) \in Nat /\ Len(req.tokens) < MaxModelLen
      /\ req.computed \in Nat /\ req.computed + RanN <= Len(req.tokens) + Len(req.spec)
      /\ req.computed + RanN <= MaxModelLen
      /\ Len(req.blocks) \in Nat /\ req.ncached \in 0 .. Len(req.blocks) /\ req.ncached <= Len(req.hashes)
      /\ req.tokens \in Words /\ req \in RequestType /\ req.spec \in Words
      /\ Known(req, <<>>) = req.ncached /\ req.blocks \o <<>> = req.blocks
      /\ Reach(req, <<>>, RanN) = req.computed + RanN

LEMMA RunReady ==
  ASSUME Tame, Inv, TameInv, ScheduleRunning
  PROVE  RanReady
  <1> DEFINE req == request[Ran]
             n == RanN
             W == Wanted(req)
             t == Len(req.tokens)
             s == Len(req.spec)
             x == req.computed
             a == t + s - x
  <1>1. InRunningLoop /\ Ran \notin scheduled_req_ids /\ (n = 0 => W = 0)
    BY DEF ScheduleRunning, Ran, RanN
  <1>2. /\ Ran \in Requests /\ req.status = "running" /\ W \in Int /\ W <= a
        /\ W \in {a, pass.budget} /\ pass.budget \in Nat /\ (W > 0 => n \in 0 .. W)
    BY <1>1, RunFacts
  <1>3. Runs(Ran) /\ Settled(req)
    BY <1>1, <1>2 DEF TameInv, Runs, Steady
  <1>4. Sane(mode, req) /\ mode.spec \in 0 .. 1
    BY <1>2, FewBatches DEF Inv
  <1>5. /\ req \in RequestType /\ Len(req.tokens) \in 1 .. MaxModelLen /\ Len(req.tokens) < MaxModelLen
        /\ Len(req.spec) <= mode.spec /\ req.ncached \in {None} \cup 0 .. Len(req.blocks)
        /\ req.ncached # None /\ req.ncached <= Len(req.hashes)
    BY <1>2, <1>4 DEF Sane, Live
  <1>6. /\ req.computed \in Int /\ Len(req.spec) \in Nat /\ Len(req.tokens) \in Nat /\ req.spec \in Words
        /\ Len(req.blocks) \in Nat /\ req.blocks \in Seq(Nat) /\ req.tokens \in Words
    BY <1>5 DEF RequestType, Words
  <1> HIDE DEF req, n, W
  <1>7. s \in 0 .. 1 /\ x \in Nat /\ a > 0 /\ a \in Int
    <2>1. s \in Nat /\ t \in Nat /\ x \in 0 .. t - 1 /\ s <= mode.spec
      BY <1>3, <1>5, <1>6 DEF Settled
    <2> HIDE DEF s, t, x
    <2> QED BY <1>4, <2>1
  <1>8. W > 0
    BY <1>1, <1>2, <1>7 DEF InRunningLoop
  <1>9. n \in Nat \ {0} /\ n <= a
    BY <1>1, <1>2, <1>7, <1>8
  <1>10. req.computed + n <= Len(req.tokens) + Len(req.spec) /\ req.computed + n <= MaxModelLen
    <2>1. MaxModelLen \in Nat
      BY Constants
    <2>2. s \in 0 .. 1 /\ x \in Nat /\ t \in Nat /\ t < MaxModelLen /\ n \in Nat /\ n <= t + s - x
      BY <1>5, <1>6, <1>7, <1>9
    <2> HIDE DEF s, t, x
    <2>3. x + n <= t + s /\ x + n <= MaxModelLen
      BY <2>1, <2>2
    <2> QED BY <2>3 DEF s, t, x
  <1>11. req.ncached \in 0 .. Len(req.blocks)
    BY <1>5
  <1>12. Known(req, <<>>) = req.ncached /\ req.blocks \o <<>> = req.blocks
    BY <1>5, <1>6, ConcatEmpty DEF Known
  <1>13. Reach(req, <<>>, n) = req.computed + n
    BY <1>6, <1>9, Constants DEF Reach
  <1> QED BY <1>1, <1>2, <1>3, <1>5, <1>6, <1>7, <1>8, <1>9, <1>10, <1>11, <1>12, <1>13 DEF RanReady, req, n, W

LEMMA RunOk ==
  ASSUME Tame, Inv, TameInv, ScheduleRunning
  PROVE  pool'.ok
  <1> DEFINE req == request[Ran]
             n == RanN
             N == mode.blocks
             c == req.ncached
  <1>1. RanReady
    BY RunReady
  <1>2. Asked(N, req, <<>>, n)
    BY <1>1, RunAsked DEF RanReady
  <1>3. pool' = RanOut.pool /\ RanOut = allocate_slots(req, n, <<>>)
    BY <1>1 DEF ScheduleRunning, Ran, RanN, RanOut, RanReady
  <1>4. /\ Marked(req, pool.hash) /\ Known(req, <<>>) = c /\ req.blocks \o <<>> = req.blocks
        /\ c \in 0 .. Len(req.blocks) /\ Len(req.blocks) \in Nat /\ c <= Len(req.hashes) /\ req.tokens \in Words
        /\ Reach(req, <<>>, n) = req.computed + n /\ req.computed \in Nat /\ n \in Nat \ {0}
        /\ req.computed + n <= MaxModelLen /\ Len(req.spec) \in 0 .. 1 /\ Len(req.tokens) \in Nat
        /\ req \in RequestType
    BY <1>1 DEF RanReady, Runs
  <1> HIDE DEF req, n, N
  <1>5. c > 0 => pool.hash[req.blocks[c]] # NoHash
    <2> SUFFICES ASSUME c > 0 PROVE pool.hash[req.blocks[c]] # NoHash
      OBVIOUS
    <2> DEFINE x == c * BlockSize
    <2>1. x \in Nat \ {0}
      BY <1>4, Constants
    <2>2. x <= Len(req.tokens) /\ pool.hash[req.blocks[c]] = SubSeq(req.tokens, 1, x)
      BY <1>4 DEF Marked
    <2> HIDE DEF x
    <2>3. Len(SubSeq(req.tokens, 1, x)) = x
      BY <1>4, <2>1, <2>2, Cut
    <2> QED BY <2>1, <2>2, <2>3 DEF NoHash
  <1>6. req.computed + n - Len(req.spec) >= 0
    <2> DEFINE x == req.computed
               s == Len(req.spec)
    <2>1. x \in Nat /\ s \in 0 .. 1 /\ n \in Nat \ {0}
      BY <1>4
    <2> HIDE DEF x, s
    <2>2. x + n - s >= 0
      BY <2>1
    <2> QED BY <2>2 DEF x, s
  <1>7. Allocatable(req, <<>>, n)
    BY <1>4, <1>5, <1>6 DEF Allocatable, TameInv, Marked, RequestType
  <1>8. RanOut.pool.ok
    BY <1>2, <1>3, <1>7, AllocateFacts, InvFacts DEF N
  <1> QED BY <1>3, <1>8

\* A request that gets its slots, and its entry.
RanReq(w, hashes) ==
  Slotted(request[Ran], RanKeeps, request[Ran].computed, request[Ran].blocks \o w, hashes, RanFull)
RanEntry(w, hashes) == Output(RanReq(w, hashes), request[Ran].computed, RanN, RanSpec)

RanMakes(w, hashes) ==
  LET req == request[Ran]
      N == mode.blocks
      z == RanReq(w, hashes)
      c == req.ncached
  IN  /\ pool' \in Pools(N) /\ w \in Seq(1 .. N) /\ z.blocks = req.blocks \o w /\ Table(z.blocks, N)
      /\ z.status = "running" /\ z \in RequestType /\ z.tokens = req.tokens /\ z.computed = req.computed
      /\ z.ncached = RanFull /\ RanFull \in 0 .. Len(z.blocks) /\ RanFull * BlockSize <= Len(req.tokens)
      /\ \A b \in ToSet(w) : Holders(b) = {}
      /\ \A k \in c + 1 .. RanFull : pool'.hash[z.blocks[k]] = SubSeq(z.tokens, 1, k * BlockSize)
      /\ \A b \in 1 .. N : b \notin {z.blocks[k] : k \in c + 1 .. RanFull} =>
           pool'.hash[b] = IF b \in ToSet(w) THEN NoHash ELSE pool.hash[b]
      /\ req.computed + RanN <= Len(z.blocks) * BlockSize

\* A block that nobody uses has no holder.
LEMMA NobodyHolds ==
  ASSUME Inv, NEW b \in 1 .. mode.blocks, pool.ref[b] = 0
  PROVE  Holders(b) = {}
  <1>1. Uses(pool, mode.blocks, {})
    BY InvFacts
  <1> QED BY <1>1, FS_EmptySet DEF Uses

LEMMA RunMakes ==
  ASSUME Tame, Inv, TameInv, RanReady, NEW w, NEW hashes, RunStep(w, hashes)
  PROVE  RanMakes(w, hashes)
  <1> DEFINE req == request[Ran]
             N == mode.blocks
             z == RanReq(w, hashes)
             c == req.ncached
             B == BlockSize
             X == Reach(req, <<>>, RanN)
             blocks == req.blocks \o w
  <1>1. /\ req.blocks \o <<>> = req.blocks /\ Known(req, <<>>) = c /\ X = req.computed + RanN
        /\ req.computed + RanN <= MaxModelLen
    BY DEF RanReady
  <1>2. RanFull = (X - Len(req.spec)) \div B
    BY DEF RanFull
  <1>3. Grows(N, req, <<>>, X, RanOut, w, hashes, blocks, c, RanFull)
    BY <1>1, <1>2 DEF Grown, RunStep, RanReq
  <1> HIDE DEF X
  <1>4. /\ RanOut.pool \in Pools(N) /\ blocks \in Seq(1 .. N) /\ Lists(blocks, ToSet(blocks))
        /\ RanFull \in 0 .. Len(blocks) /\ RanFull * B <= Len(req.tokens)
        /\ w \in Seq(1 .. N)
        /\ \A b \in ToSet(w) : pool.ref[b] = 0
        /\ \A k \in c + 1 .. RanFull : RanOut.pool.hash[blocks[k]] = SubSeq(req.tokens, 1, k * B)
        /\ \A b \in 1 .. N : b \notin {blocks[k] : k \in c + 1 .. RanFull} =>
             RanOut.pool.hash[b] = IF b \in ToSet(w) THEN NoHash ELSE pool.hash[b]
        /\ X <= MaxModelLen => X <= Len(blocks) * B
    BY <1>3 DEF Grows
  <1>5. z \in RequestType
    BY DEF Sane, RunStep, RanReq
  <1>6. \A b \in ToSet(w) : Holders(b) = {}
    BY <1>4, SetOf, NobodyHolds
  <1>7. Table(blocks, N)
    BY <1>4, ListsFacts DEF Table
  <1>8. req.computed + RanN <= Len(blocks) * B
    BY <1>1, <1>4
  <1> HIDE DEF z, blocks, req
  <1> QED BY <1>4, <1>5, <1>6, <1>7, <1>8 DEF RanMakes, z, blocks, req, RunStep, RanReq, Slotted

LEMMA RanAgrees ==
  ASSUME Tame, RanReady, NEW w, NEW hashes, RunStep(w, hashes), RanMakes(w, hashes)
  PROVE  /\ Agrees(RanReq(w, hashes), RanEntry(w, hashes)) /\ RanEntry(w, hashes) \in Entries
         /\ RanEntry(w, hashes).start = request[Ran].computed
         /\ request[Ran].ncached <= RanFull
  <1> DEFINE req == request[Ran]
             z == RanReq(w, hashes)
             e == RanEntry(w, hashes)
             n == RanN
             x == req.computed
             s == Len(req.spec)
             t == Len(req.tokens)
             f == RanFits
             u == Len(RanSpec)
             L == RanFull * BlockSize
             c == req.ncached
             y == c * BlockSize
             M == Len(z.blocks) * BlockSize
  <1>1. /\ z.blocks \in Seq(Nat) /\ z.tokens = req.tokens /\ z.computed = x /\ z.ncached = RanFull
        /\ RanFull \in 0 .. Len(z.blocks) /\ x + n <= M /\ z \in RequestType
    BY DEF RanMakes, RequestType
  <1>2. /\ req.tokens \in Words /\ req.spec \in Words /\ t \in Nat /\ s \in 0 .. 1 /\ x \in Nat /\ n \in Nat \ {0}
        /\ x + n <= t + s /\ Settled(req) /\ c \in 0 .. Len(req.blocks) /\ Len(req.blocks) \in Nat
        /\ Reach(req, <<>>, n) = x + n
    BY DEF RanReady
  <1>3. RanSpec \in Words /\ f = n + x - t /\ RanSpec = IF f > 0 THEN SubSeq(req.spec, 1, f) ELSE <<>>
    BY DEF RunStep, RanFits, RanSpec
  <1>4. f \in Int /\ f <= s
    <2> HIDE DEF f, s, t, x, n
    <2> QED BY <1>2, <1>3
  <1>5. u = IF f > 0 THEN f ELSE 0
    BY <1>2, <1>3, <1>4, Cut
  <1>6. /\ u \in Nat /\ u <= s /\ u <= n /\ x + n - u <= t /\ (RanSpec # <<>> => x + n = t + u)
    <2>1. RanSpec # <<>> => u > 0
      BY <1>3 DEF Words
    <2> HIDE DEF f, s, t, x, n, u
    <2> QED BY <1>2, <1>3, <1>4, <1>5, <2>1
  <1>7. L \in Nat /\ L <= x + n - s /\ x + n - s < L + BlockSize
    <2>1. RanFull = (x + n - s) \div BlockSize
      BY <1>2 DEF RanFull
    <2>2. x + n - s \in Int
      BY <1>2
    <2>3. BlockSize \in Nat \ {0}
      BY Constants
    <2>4. RanFull \in Nat
      BY <1>1
    <2>5. L \in Nat
      BY <2>3, <2>4
    <2> QED BY <2>1, <2>2, <2>3, <2>5, Division
  <1>8. y \in Nat /\ y <= x
    BY <1>2, Constants DEF Settled
  <1>9. c <= RanFull
    <2>1. y < L + BlockSize
      <3> HIDE DEF y, L, x, n, s
      <3> QED BY <1>2, <1>7, <1>8, Constants
    <2> HIDE DEF c
    <2> QED BY <1>1, <1>2, <2>1, Fewer, Constants
  <1>10. L <= x + n - u
    <2> HIDE DEF L, x, n, s, u
    <2> QED BY <1>2, <1>6, <1>7
  <1>11. Len(z.tokens \o RanSpec) = t + u /\ z.tokens \o RanSpec \in Words
    BY <1>1, <1>2, <1>3 DEF Words
  <1>12. e \in Entries
    BY <1>1, <1>2, <1>3, <1>11 DEF Entries, RanEntry, Output
  <1>13. Agrees(z, e)
    BY <1>1, <1>2, <1>6, <1>10, <1>11 DEF Agrees, RanEntry, Output
  <1> QED BY <1>9, <1>12, <1>13 DEF RanEntry, Output

\* A request that is not scheduled has no entry.
LEMMA NoEntry ==
  ASSUME NEW r, Steady(r), r \notin scheduled_req_ids
  PROVE  r \notin DOMAIN pass.output /\ \A i \in DOMAIN batches : r \notin DOMAIN batches[i]
  <1>1. \A out : ~Entry(r, out)
    BY DEF Steady
  <1>2. r \notin DOMAIN pass.output
    BY <1>1 DEF Entry
  <1>3. ASSUME NEW i \in DOMAIN batches, r \in DOMAIN batches[i] PROVE FALSE
    BY <1>1, <1>3 DEF Entry
  <1> QED BY <1>2, <1>3

LEMMA RunGiven ==
  ASSUME Tame, Inv, TameInv, RanReady, NEW w, NEW hashes, RunStep(w, hashes)
  PROVE  /\ Given(Ran, request[Ran].blocks, w, request[Ran].ncached, RanReq(w, hashes), RanEntry(w, hashes))
         /\ RanReq(w, hashes).status = "running" /\ RanEntry(w, hashes) \in Entries
  <1> DEFINE r == Ran
             req == request[r]
             N == mode.blocks
             held == req.blocks
             c == req.ncached
             z == RanReq(w, hashes)
             e == RanEntry(w, hashes)
  <1>1. /\ r \in Requests /\ r \notin scheduled_req_ids /\ Steady(r) /\ Marked(req, pool.hash) /\ Exclusive(r)
        /\ Present(r) /\ Settled(req) /\ c \in 0 .. Len(held) /\ Len(held) \in Nat
    BY DEF RanReady, Runs
  <1>2. RanMakes(w, hashes)
    BY RunMakes
  <1>3. /\ w \in Seq(1 .. N) /\ z.blocks = held \o w /\ Table(z.blocks, N)
        /\ z.status = "running" /\ z \in RequestType /\ z.tokens = req.tokens
        /\ z.ncached = RanFull /\ RanFull \in 0 .. Len(z.blocks) /\ RanFull * BlockSize <= Len(req.tokens)
        /\ \A b \in ToSet(w) : Holders(b) = {}
        /\ \A k \in c + 1 .. RanFull : pool'.hash[z.blocks[k]] = SubSeq(z.tokens, 1, k * BlockSize)
        /\ \A b \in 1 .. N : b \notin {z.blocks[k] : k \in c + 1 .. RanFull} =>
             pool'.hash[b] = IF b \in ToSet(w) THEN NoHash ELSE pool.hash[b]
    BY <1>2 DEF RanMakes
  <1>4. Agrees(z, e) /\ e \in Entries /\ e.start = req.computed /\ c <= RanFull
    BY <1>2, RanAgrees
  <1>5. /\ request' = [request EXCEPT ![r] = z] /\ scheduled_req_ids' = scheduled_req_ids \cup {r}
        /\ UNCHANGED <<mode, batches, kv>>
        /\ pass' = [pass EXCEPT !.index = @ + 1, !.budget = @ - RanN, !.encoder = TryRunning(r).budget,
                    !.output = With(@, r, e)]
    BY DEF RunStep, RanReq, RanEntry
  <1>6. r \notin DOMAIN pass.output /\ \A i \in DOMAIN batches : r \notin DOMAIN batches[i]
    BY <1>1, NoEntry
  <1>7. pass'.output = With(pass.output, r, e)
    BY <1>5 DEF Inv, Types, Passes
  <1>8. held \in Seq(1 .. N)
    BY <1>1, TableFacts DEF Table
  <1>9. /\ \A i \in 1 .. c : pool.hash[held[i]] = SubSeq(z.tokens, 1, i * BlockSize)
        /\ \A i \in c + 1 .. Len(held) : pool.hash[held[i]] = NoHash /\ Holders(held[i]) = {r}
    <2>1. /\ \A i \in 1 .. c : i \in 1 .. Len(held) /\ i <= c
          /\ \A i \in c + 1 .. Len(held) : i \in 1 .. Len(held) /\ ~(i <= c) /\ i > c
      BY <1>1
    <2>2. \A i \in c + 1 .. Len(held) : pool.hash[held[i]] = NoHash
      BY <1>1, <2>1 DEF Marked
    <2>3. \A i \in c + 1 .. Len(held) : Holders(held[i]) = {r}
      BY <1>1, <2>1 DEF Exclusive
    <2> QED BY <1>1, <1>3, <2>1, <2>2, <2>3 DEF Marked
  <1>10. c * BlockSize <= e.start /\ e.start <= Len(held) * BlockSize
    BY <1>1, <1>4 DEF Settled
  <1>11. Holds(Final, held, z.tokens, e.start)
    BY <1>1, <1>3, <1>4 DEF Present
  <1>12. z.ncached \in c .. Len(z.blocks)
    BY <1>1, <1>3, <1>4
  <1>13. z.ncached * BlockSize <= Len(z.tokens)
    BY <1>3
  <1>14. held = request[r].blocks
    OBVIOUS
  <1> HIDE DEF r, held, z, e, c
  <1>15. Given(r, held, w, c, z, e)
    BY <1>1, <1>3, <1>4, <1>5, <1>6, <1>7, <1>8, <1>9, <1>10, <1>11, <1>12, <1>13, <1>14 DEF Given
  <1> QED BY <1>3, <1>4, <1>15 DEF r, held, z, e, c

LEMMA RunTame ==
  ASSUME Tame, Inv, TameInv, ScheduleRunning
  PROVE  TameInv'
  <1>1. pool'.ok /\ RanReady
    BY RunOk, RunReady
  <1>2. PICK w, hashes : RunStep(w, hashes)
    BY <1>1, RunDone
  <1> DEFINE r == Ran
             z == RanReq(w, hashes)
             e == RanEntry(w, hashes)
  <1>3. Given(r, request[r].blocks, w, request[r].ncached, z, e) /\ z.status = "running" /\ e \in Entries
    BY <1>1, <1>2, RunGiven
  <1>4. /\ r \in Requests /\ r \notin DOMAIN pass.output /\ \A i \in DOMAIN batches : r \notin DOMAIN batches[i]
        /\ request' = [request EXCEPT ![r] = z] /\ pass'.output = With(pass.output, r, e)
        /\ batches' = batches
    BY <1>3 DEF Given
  <1>5. /\ pass' = [pass EXCEPT !.index = @ + 1, !.budget = @ - RanN, !.encoder = TryRunning(r).budget,
                    !.output = With(@, r, e)]
        /\ running' = running
    BY <1>2 DEF RunStep, RanReq, RanEntry
  <1>6. /\ request \in [Requests -> RequestType] /\ pass \in Passes /\ pass.index \in Nat \ {0}
        /\ pass.output \in Outputs
    BY PassFacts DEF Inv, Types
  <1> HIDE DEF z, e
  <1>7. pass'.at = pass.at /\ pass'.index = pass.index + 1 /\ pass'.preempted = pass.preempted
    BY <1>5, <1>6 DEF Passes
  <1>8. DOMAIN pass'.output = DOMAIN pass.output \cup {r}
    <2>1. DOMAIN With(pass.output, r, e) = DOMAIN pass.output \cup {r}
      <3>1. r \in Requests /\ e \in Entries /\ pass.output \in Outputs
        BY <1>3, <1>4, <1>6
      <3> HIDE DEF r
      <3> QED BY <3>1, WithFacts, Zenon
    <2> QED BY <1>4, <2>1
  <1>9. \A q \in Requests : request'[q].status = request[q].status
    BY <1>1, <1>3, <1>4, <1>6 DEF RanReady, InRunningLoop, Ran
  <1>10. Flights'
    <2>1. pass.index \in 1 .. pass'.index - 1 /\ pass.index \in DOMAIN running
      <3>1. pass.index \in DOMAIN running
        BY <1>1, RunFacts DEF RanReady
      <3> QED BY <1>6, <1>7, <3>1
    <2>2. \A k \in 1 .. pass.index - 1 : k \in 1 .. pass'.index - 1
      BY <1>6, <1>7
    <2>3. ASSUME NEW q \in DOMAIN pass'.output
          PROVE  /\ request'[q].status = "running"
                 /\ \A i \in DOMAIN batches' : q \notin DOMAIN batches'[i]
                 /\ \E k \in 1 .. pass'.index - 1 : k \in DOMAIN running' /\ running'[k] = q
      BY <1>1, <1>4, <1>5, <1>8, <1>9, <2>1, <2>2, FewBatches DEF Flights, TameInv, RanReady,
        InRunningLoop, Ran
    <2>4. \A i \in DOMAIN batches' : \A q \in DOMAIN batches'[i] :
       /\ request'[q].status # "new"
       /\ request'[q].status = "running" => \A j \in DOMAIN batches' : q \in DOMAIN batches'[j] => i = j
       /\ request'[q].status \in Live \ {"running"} =>
            /\ i = 1
            /\ \/ pass'.at = "execute" \/ Len(batches') = 2
               \/ pass'.preempted /\ pass'.at \in {"running", "end"}
      BY <1>4, <1>7, <1>9, FewBatches DEF Flights, TameInv
    <2> QED BY <1>1, <1>7, <2>3, <2>4 DEF Flights, RanReady, InRunningLoop, Ran
  <1> QED BY <1>1, <1>3, <1>10, GivenAll DEF TameInv

-----------------------------------------------------------------------------
(* A waiting request is admitted.                                           *)

AdmReady ==
  LET req == request[Adm]
  IN  /\ InWaitingLoop /\ AdmitFacts0 /\ AdmTry.n \in Nat \ {0}
      /\ Asked(mode.blocks, AdmHashed, AdmHits, AdmTry.n) /\ Known(AdmHashed, AdmHits) = Len(AdmHits)
      /\ Reach(AdmHashed, AdmHits, AdmTry.n) = AdmStart + AdmTry.n
      /\ AdmHashed.blocks \o AdmHits = AdmHits
      /\ AdmStart \in Nat /\ Len(AdmHits) \in Nat /\ AdmHits \in Seq(1 .. mode.blocks)
      /\ Len(req.tokens) \in Nat /\ Len(req.tokens) <= MaxModelLen /\ req.tokens \in Words
      /\ AdmStart + AdmTry.n <= Len(req.tokens) /\ Len(req.spec) \in 0 .. 1
      /\ AdmHashed.tokens = req.tokens /\ AdmHashed.spec = req.spec /\ AdmHashed.hashes = Hashes(Adm)
      /\ \A i \in 1 .. Len(AdmHits) :
           /\ pool.hash[AdmHits[i]] = SubSeq(req.tokens, 1, i * BlockSize) /\ pool.hash[AdmHits[i]] # NoHash
           /\ i * BlockSize \in Nat \ {0} /\ i * BlockSize <= Len(req.tokens)
           /\ AdmHits[i] \in 1 .. mode.blocks

LEMMA AdmitReady ==
  ASSUME Tame, Inv, InWaitingLoop, AdmTry.n # 0, CanAllocate(AdmHashed, AdmTry.n, AdmHits)
  PROVE  AdmReady
  <1> DEFINE req == request[Adm]
             n == AdmTry.n
             K == Len(AdmHits)
             t == Len(req.tokens)
  <1>1. AdmitFacts0
    BY AdmitFacts
  <1>2. /\ Adm \in Requests /\ Hitting(mode.blocks, Adm, AdmHits) /\ AdmStart \in Nat /\ K \in Nat
        /\ n \in Nat /\ AdmStart + n <= t
        /\ AdmHashed = Fields(AdmStatus, req.tokens, 0, req.spec, <<>>, Hashes(Adm), None)
    BY <1>1 DEF AdmitFacts0
  <1>3. Sane(mode, req) /\ mode.spec \in 0 .. 1
    BY <1>2, FewBatches DEF Inv
  <1>4. /\ req \in RequestType /\ t \in 1 .. MaxModelLen /\ Len(req.spec) <= mode.spec
    BY <1>3 DEF Sane
  <1>5. req.tokens \in Words /\ Len(req.spec) \in Nat /\ t \in Nat
    BY <1>4, RequestFields
  <1>6. AdmHits \in Seq(1 .. mode.blocks) /\ K * BlockSize < t
        /\ \A i \in 1 .. K : pool.hash[AdmHits[i]] = SubSeq(req.tokens, 1, i * BlockSize)
    BY <1>2 DEF Hitting
  <1>7. ASSUME NEW i \in 1 .. K
        PROVE  /\ pool.hash[AdmHits[i]] # NoHash /\ i * BlockSize \in Nat \ {0} /\ i * BlockSize <= t
               /\ AdmHits[i] \in 1 .. mode.blocks
    <2> DEFINE x == i * BlockSize
               y == K * BlockSize
    <2>1. x \in Nat \ {0} /\ y \in Nat /\ x <= y
      BY <1>2, Times, Constants
    <2>2. AdmHits[i] \in 1 .. mode.blocks
      BY <1>6, <1>7, MemberOf
    <2>3. y < t /\ pool.hash[AdmHits[i]] = SubSeq(req.tokens, 1, x)
      BY <1>6, <1>7
    <2> HIDE DEF x, y, t, K
    <2>4. x <= t
      BY <1>5, <2>1, <2>3
    <2>5. Len(SubSeq(req.tokens, 1, x)) = x
      BY <1>5, <2>1, <2>4, Cut DEF t
    <2>6. pool.hash[AdmHits[i]] # NoHash
      <3>1. Len(NoHash) = 0
        BY DEF NoHash
      <3>2. PICK h : h = pool.hash[AdmHits[i]]
        OBVIOUS
      <3> QED BY <2>1, <2>3, <2>5, <3>1, <3>2
    <2> QED BY <2>1, <2>2, <2>4, <2>6 DEF x
  <1>8. n \in Nat \ {0} /\ t <= MaxModelLen /\ Len(req.spec) \in 0 .. 1
    <2>1. n # 0
      OBVIOUS
    <2> DEFINE s == Len(req.spec)
    <2>2. s \in Nat /\ s <= mode.spec
      BY <1>4, <1>5
    <2> HIDE DEF s, n, t
    <2>3. n \in Nat \ {0} /\ t <= MaxModelLen /\ s \in 0 .. 1
      BY <1>2, <1>3, <1>4, <2>1, <2>2
    <2> QED BY <2>3 DEF s
  <1> QED BY <1>1, <1>2, <1>5, <1>6, <1>7, <1>8, AdmitAsked DEF AdmReady, Fields

LEMMA AdmitOk ==
  ASSUME Tame, Inv, TameInv, ScheduleWaiting
  PROVE  pool'.ok
  <1>1. AdmAction /\ InWaitingLoop
    BY AdmitAction
  <1>2. CASE UNCHANGED pool
    BY <1>2 DEF TameInv
  <1>3. CASE AdmTry.n # 0 /\ CanAllocate(AdmHashed, AdmTry.n, AdmHits) /\ pool' = AdmOut.pool
    <2> DEFINE req == AdmHashed
               hits == AdmHits
               n == AdmTry.n
               N == mode.blocks
               x == AdmStart
               s == Len(req.spec)
               t == Len(req.tokens)
    <2>1. AdmReady
      BY <1>1, <1>3, AdmitReady
    <2>2. /\ Asked(N, req, hits, n) /\ Known(req, hits) = Len(hits) /\ Reach(req, hits, n) = x + n
          /\ req.blocks \o hits = hits /\ n \in Nat \ {0} /\ x \in Nat /\ Len(hits) \in Nat
          /\ t \in Nat /\ t <= MaxModelLen /\ x + n <= t /\ s \in 0 .. 1 /\ req.hashes = Hashes(Adm)
          /\ \A i \in 1 .. Len(hits) : pool.hash[hits[i]] # NoHash
      BY <2>1 DEF AdmReady
    <2>3. Len(hits) <= Len(req.hashes) /\ Len(req.hashes) \in Nat
      BY <2>1, <2>2 DEF AdmReady, AdmitFacts0, Hitting
    <2>4. x + n <= MaxModelLen /\ x + n - s >= 0
      <3> HIDE DEF x, n, s, t
      <3> QED BY <2>2, Constants
    <2> HIDE DEF req, hits, n
    <2>5. Len(hits) > 0 => Len(hits) \in 1 .. Len(hits)
      BY <2>2
    <2>6. Allocatable(req, hits, n)
      BY <2>2, <2>3, <2>4, <2>5 DEF Allocatable, TameInv
    <2>7. N \in Nat /\ pool \in Pools(N) /\ Linked(pool) /\ Filed(pool)
      BY InvFacts
    <2> HIDE DEF N
    <2>8. AdmOut.pool.ok
      BY <2>2, <2>6, <2>7, AllocateFacts DEF AdmOut, req, hits, n
    <2> QED BY <1>3, <2>8
  <1> QED BY <1>1, <1>2, <1>3 DEF AdmAction

\* The hits hold what their hashes say.
LEMMA AdmitHolds ==
  ASSUME Inv, TameInv, AdmReady
  PROVE  Holds(Final, AdmHits, request[Adm].tokens, AdmStart)
  <1> DEFINE t == request[Adm].tokens
             K == Len(AdmHits)
  <1> SUFFICES ASSUME NEW p \in 1 .. AdmStart
               PROVE  Final[Slot(AdmHits, p)[1]][Slot(AdmHits, p)[2]] = SubSeq(t, 1, p)
    BY DEF Holds
  <1>1. /\ K \in Nat /\ AdmStart = K * BlockSize /\ AdmStart \in Nat /\ t \in Words
        /\ \A i \in 1 .. K :
           /\ pool.hash[AdmHits[i]] = SubSeq(t, 1, i * BlockSize) /\ pool.hash[AdmHits[i]] # NoHash
           /\ i * BlockSize \in Nat \ {0} /\ i * BlockSize <= Len(t)
           /\ AdmHits[i] \in 1 .. mode.blocks
    BY DEF AdmReady, AdmStart
  <1>2. p \in Nat \ {0} /\ p <= K * BlockSize
    BY <1>1
  <1> DEFINE i == Index(p)
             o == Offset(p)
             x == i * BlockSize
  <1>3. /\ i \in Nat \ {0} /\ o \in 1 .. BlockSize /\ p = (i - 1) * BlockSize + o
        /\ x = (i - 1) * BlockSize + BlockSize /\ (i - 1) * BlockSize \in Nat
    BY <1>2, IndexFacts
  <1>4. i \in 1 .. K
    BY <1>1, <1>2, <1>3, IndexWithin
  <1>5. Slot(AdmHits, p)[1] = AdmHits[i] /\ Slot(AdmHits, p)[2] = o
    BY SlotIs
  <1> HIDE DEF i, o
  <1>6. x - BlockSize + o = p /\ p <= x
    BY <1>3, Constants
  <1> DEFINE b == AdmHits[i]
             h == SubSeq(t, 1, x)
  <1>7. Filled(Final, b, h)
    BY <1>1, <1>4 DEF TameInv, Cached
  <1>8. Len(h) = x
    BY <1>1, <1>4, Cut
  <1>9. Final[b][o] = SubSeq(h, 1, p)
    BY <1>3, <1>6, <1>7, <1>8 DEF Filled
  <1>10. SubSeq(h, 1, p) = SubSeq(t, 1, p)
    BY <1>1, <1>2, <1>4, <1>6, CutCut
  <1> QED BY <1>5, <1>9, <1>10

AdmEntry(w, hashes) == Output(AdmReq(w, hashes), AdmStart, AdmTry.n, <<>>)

AdmMakes(w, hashes) ==
  LET req == request[Adm]
      N == mode.blocks
      z == AdmReq(w, hashes)
      c == Len(AdmHits)
  IN  /\ pool' \in Pools(N) /\ w \in Seq(1 .. N) /\ z.blocks = AdmHits \o w /\ Table(z.blocks, N)
      /\ z.status = "running" /\ z \in RequestType /\ z.tokens = req.tokens /\ z.computed = AdmStart
      /\ z.ncached = AdmFull /\ AdmFull \in 0 .. Len(z.blocks) /\ AdmFull * BlockSize <= Len(req.tokens)
      /\ \A b \in ToSet(w) : Holders(b) = {}
      /\ \A k \in c + 1 .. AdmFull : pool'.hash[z.blocks[k]] = SubSeq(z.tokens, 1, k * BlockSize)
      /\ \A b \in 1 .. N : b \notin {z.blocks[k] : k \in c + 1 .. AdmFull} =>
           pool'.hash[b] = IF b \in ToSet(w) THEN NoHash ELSE pool.hash[b]
      /\ AdmStart + AdmTry.n <= Len(z.blocks) * BlockSize

LEMMA AdmitMakes ==
  ASSUME Tame, Inv, TameInv, AdmReady, NEW w, NEW hashes, AdmitStep(w, hashes)
  PROVE  AdmMakes(w, hashes)
  <1> DEFINE req == AdmHashed
             N == mode.blocks
             z == AdmReq(w, hashes)
             c == Len(AdmHits)
             B == BlockSize
             n == AdmTry.n
             X == Reach(req, AdmHits, n)
             blocks == AdmHits \o w
  <1>1. /\ req.blocks \o AdmHits = AdmHits /\ Known(req, AdmHits) = c /\ X = AdmStart + n
        /\ AdmStart + n <= Len(req.tokens) /\ Len(req.tokens) <= MaxModelLen /\ Len(req.tokens) \in Nat
        /\ AdmStart \in Nat /\ n \in Nat /\ req.tokens = request[Adm].tokens
    BY DEF AdmReady
  <1>2. Grows(N, req, AdmHits, X, AdmOut, w, hashes, blocks, c, AdmFull)
    BY <1>1 DEF Grown, AdmitStep, AdmFull
  <1> HIDE DEF X
  <1>3. /\ AdmOut.pool \in Pools(N) /\ blocks \in Seq(1 .. N) /\ Lists(blocks, ToSet(blocks))
        /\ AdmFull \in 0 .. Len(blocks) /\ AdmFull * B <= Len(req.tokens)
        /\ w \in Seq(1 .. N)
        /\ \A b \in ToSet(w) : pool.ref[b] = 0
        /\ \A k \in c + 1 .. AdmFull : AdmOut.pool.hash[blocks[k]] = SubSeq(req.tokens, 1, k * B)
        /\ \A b \in 1 .. N : b \notin {blocks[k] : k \in c + 1 .. AdmFull} =>
             AdmOut.pool.hash[b] = IF b \in ToSet(w) THEN NoHash ELSE pool.hash[b]
        /\ X <= MaxModelLen => X <= Len(blocks) * B
    BY <1>2 DEF Grows
  <1>4. /\ z.blocks = blocks /\ z.status = "running" /\ z.tokens = req.tokens /\ z.computed = AdmStart
        /\ z.ncached = AdmFull
    BY DEF AdmReq, Slotted
  <1>5. z \in RequestType
    BY DEF Sane, AdmitStep
  <1>6. \A b \in ToSet(w) : Holders(b) = {}
    BY <1>3, SetOf, NobodyHolds
  <1>7. Table(blocks, N)
    BY <1>3, ListsFacts DEF Table
  <1>8. AdmStart + n <= Len(blocks) * B
    <2>1. AdmStart + n <= MaxModelLen
      BY <1>1, Constants
    <2> QED BY <1>1, <1>3, <2>1
  <1> HIDE DEF z, blocks, req
  <1> QED BY <1>1, <1>3, <1>4, <1>5, <1>6, <1>7, <1>8 DEF AdmMakes, z, blocks, AdmitStep

LEMMA AdmAgrees ==
  ASSUME Tame, AdmReady, NEW w, NEW hashes, AdmMakes(w, hashes)
  PROVE  /\ Agrees(AdmReq(w, hashes), AdmEntry(w, hashes)) /\ AdmEntry(w, hashes) \in Entries
         /\ AdmEntry(w, hashes).start = AdmStart
         /\ Len(AdmHits) <= AdmFull
  <1> DEFINE req == request[Adm]
             z == AdmReq(w, hashes)
             e == AdmEntry(w, hashes)
             n == AdmTry.n
             x == AdmStart
             s == Len(req.spec)
             t == Len(req.tokens)
             L == AdmFull * BlockSize
             c == Len(AdmHits)
             M == Len(z.blocks) * BlockSize
  <1>1. /\ e.start = x /\ e.n = n /\ e.spec = <<>> /\ e.blocks = z.blocks /\ e.tokens = z.tokens \o <<>>
        /\ e = [start |-> x, n |-> n, spec |-> <<>>, blocks |-> z.blocks, tokens |-> z.tokens \o <<>>]
    BY DEF AdmEntry, Output
  <1>2. /\ z.blocks \in Seq(Nat) /\ z.tokens = req.tokens /\ z.computed = x /\ z.ncached = AdmFull
        /\ AdmFull \in 0 .. Len(z.blocks) /\ x + n <= M /\ z \in RequestType
    BY DEF AdmMakes, RequestType
  <1>3. /\ req.tokens \in Words /\ t \in Nat /\ s \in 0 .. 1 /\ x \in Nat /\ n \in Nat \ {0}
        /\ x + n <= t /\ c \in Nat /\ Reach(AdmHashed, AdmHits, n) = x + n /\ AdmHashed.spec = req.spec
    BY DEF AdmReady
  <1>4. L \in Nat /\ L <= x + n - s /\ x + n - s < L + BlockSize
    <2>1. AdmFull = (x + n - s) \div BlockSize
      BY <1>3 DEF AdmFull
    <2>2. x + n - s \in Int
      BY <1>3
    <2>3. BlockSize \in Nat \ {0}
      BY Constants
    <2>4. AdmFull \in Nat
      BY <1>2
    <2>5. L \in Nat
      BY <2>3, <2>4
    <2> QED BY <2>1, <2>2, <2>3, <2>5, Division
  <1>5. c <= AdmFull
    <2>1. x = c * BlockSize
      BY DEF AdmStart
    <2>2. x < L + BlockSize
      <3> HIDE DEF L, x, n, s
      <3> QED BY <1>3, <1>4, Constants
    <2> HIDE DEF c
    <2> QED BY <1>2, <1>3, <2>1, <2>2, Fewer, Constants
  <1>6. L <= x + n
    BY <1>3, <1>4
  <1>7. e \in Entries
    BY <1>1, <1>2, <1>3, ConcatEmpty DEF Words, Entries
  <1>8. Agrees(z, e)
    BY <1>1, <1>2, <1>3, <1>6 DEF Agrees
  <1> QED BY <1>1, <1>5, <1>7, <1>8

LEMMA AdmitGiven ==
  ASSUME Tame, Inv, TameInv, AdmReady, NEW w, NEW hashes, AdmitStep(w, hashes)
  PROVE  /\ Given(Adm, AdmHits, w, Len(AdmHits), AdmReq(w, hashes), AdmEntry(w, hashes))
         /\ AdmReq(w, hashes).status = "running" /\ AdmEntry(w, hashes) \in Entries
  <1> DEFINE r == Adm
             req == request[r]
             N == mode.blocks
             held == AdmHits
             c == Len(AdmHits)
             z == AdmReq(w, hashes)
             e == AdmEntry(w, hashes)
  <1>1. /\ r \in Requests /\ req.status \in Live \ {"running"} /\ req.blocks = <<>> /\ pass.at = "waiting"
        /\ c \in Nat /\ held \in Seq(1 .. N) /\ AdmStart = c * BlockSize /\ AdmStart \in Nat
        /\ \A i \in 1 .. c : pool.hash[held[i]] = SubSeq(req.tokens, 1, i * BlockSize) /\ pool.hash[held[i]] # NoHash
    BY DEF AdmReady, AdmitFacts0, InWaitingLoop, AdmStart
  <1>2. AdmMakes(w, hashes)
    BY AdmitMakes
  <1>3. /\ w \in Seq(1 .. N) /\ z.blocks = held \o w /\ Table(z.blocks, N)
        /\ z.status = "running" /\ z \in RequestType /\ z.tokens = req.tokens
        /\ z.ncached = AdmFull /\ AdmFull \in 0 .. Len(z.blocks) /\ AdmFull * BlockSize <= Len(req.tokens)
        /\ \A b \in ToSet(w) : Holders(b) = {}
        /\ \A k \in c + 1 .. AdmFull : pool'.hash[z.blocks[k]] = SubSeq(z.tokens, 1, k * BlockSize)
        /\ \A b \in 1 .. N : b \notin {z.blocks[k] : k \in c + 1 .. AdmFull} =>
             pool'.hash[b] = IF b \in ToSet(w) THEN NoHash ELSE pool.hash[b]
    BY <1>2 DEF AdmMakes
  <1>4. Agrees(z, e) /\ e \in Entries /\ e.start = AdmStart /\ c <= AdmFull
    BY <1>2, AdmAgrees
  <1>5. /\ request' = [request EXCEPT ![r] = z] /\ scheduled_req_ids' = scheduled_req_ids \cup {r}
        /\ UNCHANGED <<mode, batches, kv>>
        /\ pass' = [pass EXCEPT !.budget = @ - AdmTry.n, !.encoder = AdmTry.budget, !.output = With(@, r, e)]
    BY DEF AdmitStep, AdmEntry
  <1>6. r \notin DOMAIN pass.output /\ \A i \in DOMAIN batches : r \notin DOMAIN batches[i]
    <2>1. Flights /\ Len(batches) \in 0 .. 1
      BY <1>1, FewBatches DEF TameInv
    <2>2. Len(batches) # 2
      BY <2>1
    <2>3. ASSUME NEW i \in DOMAIN batches, r \in DOMAIN batches[i] PROVE FALSE
      BY <1>1, <2>1, <2>2, <2>3 DEF Flights
    <2> QED BY <1>1, <2>1, <2>3 DEF Flights
  <1>7. pass'.output = With(pass.output, r, e)
    BY <1>5 DEF Inv, Types, Passes
  <1>8. /\ \A i \in 1 .. c : pool.hash[held[i]] = SubSeq(z.tokens, 1, i * BlockSize)
        /\ \A i \in c + 1 .. Len(held) : pool.hash[held[i]] = NoHash /\ Holders(held[i]) = {r}
    BY <1>1, <1>3
  <1>9. c * BlockSize <= e.start /\ e.start <= Len(held) * BlockSize
    BY <1>1, <1>4
  <1>10. Holds(Final, held, z.tokens, e.start)
    BY <1>3, <1>4, AdmitHolds
  <1>11. z.ncached \in c .. Len(z.blocks) /\ c \in 0 .. Len(held)
    BY <1>1, <1>3, <1>4
  <1>12. z.ncached * BlockSize <= Len(z.tokens)
    BY <1>3
  <1>13. ToSet(request[r].blocks) \subseteq ToSet(held)
    BY <1>1, ListsEmpty
  <1>14. \A b \in ToSet(held) : pool.hash[b] # NoHash
    BY <1>1, Members
  <1> HIDE DEF r, held, z, e, c
  <1>15. Given(r, held, w, c, z, e)
    BY <1>1, <1>3, <1>4, <1>5, <1>6, <1>7, <1>8, <1>9, <1>10, <1>11, <1>12, <1>13, <1>14 DEF Given
  <1> QED BY <1>3, <1>4, <1>15 DEF r, held, z, e, c

LEMMA AdmitTame ==
  ASSUME Tame, Inv, TameInv, ScheduleWaiting
  PROVE  TameInv'
  <1>1. pool'.ok
    BY AdmitOk
  <1>2. CASE StayStep
    BY <1>2, StayTame
  <1>3. ASSUME NEW w, NEW hashes, AdmitStep(w, hashes) PROVE TameInv'
    <2> DEFINE r == Adm
               z == AdmReq(w, hashes)
               e == AdmEntry(w, hashes)
    <2>1. AdmReady
      BY <1>3, AdmitReady DEF AdmitStep, Asked
    <2>2. Given(r, AdmHits, w, Len(AdmHits), z, e) /\ z.status = "running" /\ e \in Entries
      BY <1>3, <2>1, AdmitGiven
    <2>3. /\ r \in Requests /\ r \notin DOMAIN pass.output /\ \A i \in DOMAIN batches : r \notin DOMAIN batches[i]
          /\ request' = [request EXCEPT ![r] = z] /\ pass'.output = With(pass.output, r, e)
          /\ batches' = batches
      BY <2>2 DEF Given
    <2>4. /\ request \in [Requests -> RequestType] /\ pass \in Passes /\ pass.output \in Outputs
      BY PassFacts DEF Inv, Types
    <2> HIDE DEF r, z, e
    <2>5. DOMAIN pass'.output = DOMAIN pass.output \cup {r}
      <3>1. DOMAIN With(pass.output, r, e) = DOMAIN pass.output \cup {r}
        BY <2>2, <2>3, <2>4, WithFacts, Zenon
      <3> QED BY <2>3, <3>1
    <2>6. request'[r].status = "running" /\ \A q \in Requests : q # r => request'[q] = request[q]
      BY <2>2, <2>3, <2>4
    <2>7. Flights'
      BY <1>3, <2>3, <2>4, <2>5, <2>6, FewBatches DEF TameInv, Flights, AdmitStep, AdmEntry,
        InWaitingLoop, Passes
    <2> QED BY <1>1, <2>2, <2>7, GivenAll DEF TameInv
  <1> QED BY <1>1, <1>2, <1>3, AdmitDone

-----------------------------------------------------------------------------
(* The results of a batch are applied.                                      *)

\* A request r with the entry out of a batch, the results g, and the request z after them.
Answers(r, out, g, z) ==
  /\ r \in Requests /\ request[r].status = "running" /\ out \in Entries
  /\ Agrees(request[r], out) /\ Generated(out, g) /\ AppliedTo(r, out, g, z)

\* The numbers.
Numbers(r, out, g, z) ==
  LET req == request[r]
      t == Len(req.tokens)
      x == out.start
      n == out.n
      s == Len(out.spec)
      a == g.accepted
  IN  /\ t \in Nat /\ x \in Nat /\ n \in Nat /\ s \in Nat /\ a \in 0 .. s /\ s <= n
      /\ z.computed = x + n - (s - a) /\ Len(out.tokens) = t + s
      /\ x + n - s <= t /\ (s # 0 => x + n = t + s)
      /\ req.tokens \in Words /\ out.spec \in Words /\ z.tokens \in Words /\ out.tokens = req.tokens \o out.spec
      /\ Len(z.tokens) \in Nat

LEMMA NumberFacts ==
  ASSUME Inv, NEW r, NEW out, NEW g, NEW z, Answers(r, out, g, z)
  PROVE  Numbers(r, out, g, z)
  <1> DEFINE req == request[r]
             t == Len(req.tokens)
             x == out.start
             n == out.n
             s == Len(out.spec)
             a == g.accepted
  <1>1. /\ r \in Requests /\ out \in Entries /\ Agrees(req, out) /\ Generated(out, g) /\ AppliedTo(r, out, g, z)
    BY DEF Answers
  <1>2. req \in RequestType
    BY <1>1 DEF Inv, Types
  <1>3. req.tokens \in Words /\ t \in Nat
    BY <1>2, RequestFields
  <1>4. out.spec \in Words /\ s \in Nat /\ x \in Int /\ n \in Nat
    BY <1>1 DEF Entries, Words
  <1>5. /\ x = req.computed /\ x >= 0 /\ s <= n /\ out.tokens = req.tokens \o out.spec
        /\ x + n - s <= t /\ (out.spec # <<>> => x + n = Len(out.tokens))
    BY <1>1 DEF Agrees
  <1>6. z \in RequestType /\ z.computed = x + n - (s - a)
    BY <1>1, <1>5 DEF AppliedTo
  <1>7. z.tokens \in Words /\ Len(z.tokens) \in Nat
    BY <1>6, RequestFields
  <1>8. a \in 0 .. s
    BY <1>1 DEF Generated
  <1>9. Len(out.tokens) = t + s
    BY <1>3, <1>4, <1>5, ConcatFacts DEF Words
  <1>10. s # 0 => x + n = t + s
    <2>1. s # 0 => out.spec # <<>>
      BY <1>4
    <2> QED BY <1>5, <1>9, <2>1
  <1>11. x \in Nat
    BY <1>4, <1>5
  <1> QED BY <1>3, <1>4, <1>5, <1>6, <1>7, <1>8, <1>9, <1>10, <1>11 DEF Numbers

\* Without a draft, no more than the known tokens are computed.
LEMMA AnswerSound ==
  ASSUME Inv, NEW r, NEW out, NEW g, NEW z, Answers(r, out, g, z), out.spec = <<>>
  PROVE  z.computed <= Len(request[r].tokens)
  <1> DEFINE t == Len(request[r].tokens)
             x == out.start
             n == out.n
             s == Len(out.spec)
             a == g.accepted
             c == z.computed
  <1>1. t \in Nat /\ x \in Nat /\ n \in Nat /\ a \in 0 .. s /\ c = x + n - (s - a) /\ x + n - s <= t
    BY NumberFacts DEF Numbers
  <1>2. s = 0
    OBVIOUS
  <1> HIDE DEF t, x, n, s, a, c
  <1>3. c <= t
    BY <1>1, <1>2
  <1> QED BY <1>3 DEF c, t

\* What is left of the tokens that were computed.
Follows(out, z) ==
  /\ z.computed \in Nat /\ z.computed <= out.start + out.n /\ z.computed < Len(z.tokens)
  /\ out.start + out.n - Len(out.spec) <= z.computed
  /\ \A p \in 1 .. z.computed : SubSeq(z.tokens, 1, p) = SubSeq(out.tokens, 1, p)

\* The prompt is not computed yet.
LEMMA AnswerEarly ==
  ASSUME Inv, NEW r, NEW out, NEW g, NEW z, Answers(r, out, g, z), out.start + out.n < Len(out.tokens)
  PROVE  Follows(out, z)
  <1> DEFINE q == request[r].tokens
             t == Len(q)
             x == out.start
             n == out.n
             s == Len(out.spec)
             a == g.accepted
             c == z.computed
  <1>1. /\ t \in Nat /\ x \in Nat /\ n \in Nat /\ s \in Nat /\ a \in 0 .. s /\ c = x + n - (s - a)
        /\ Len(out.tokens) = t + s /\ (s # 0 => x + n = t + s)
        /\ q \in Words /\ out.spec \in Words /\ out.tokens = q \o out.spec
    BY NumberFacts DEF Numbers
  <1>2. x + n < Len(out.tokens)
    OBVIOUS
  <1>3. c \in Nat /\ c = x + n /\ c < t /\ x + n - s <= c
    <2> HIDE DEF q, t, x, n, s, a, c
    <2> QED BY <1>1, <1>2
  <1>4. z.tokens = q
    BY <1>3 DEF Answers, AppliedTo
  <1>5. ASSUME NEW p \in 1 .. c PROVE SubSeq(z.tokens, 1, p) = SubSeq(out.tokens, 1, p)
    <2>1. p \in Nat /\ p <= t
      BY <1>1, <1>3
    <2>2. SubSeq(q \o out.spec, 1, p) = SubSeq(q, 1, p)
      BY <1>1, <2>1, SameStart DEF q
    <2> QED BY <1>1, <1>4, <2>2
  <1>6. c <= x + n /\ c < Len(z.tokens)
    BY <1>1, <1>3, <1>4
  <1> QED BY <1>3, <1>5, <1>6 DEF Follows

\* Two words with the same beginning.
LEMMA SameCut ==
  ASSUME NEW u \in Words, NEW v \in Words, NEW p \in Nat, p <= Len(u), p <= Len(v),
         \A i \in 1 .. p : u[i] = v[i]
  PROVE  SubSeq(u, 1, p) = SubSeq(v, 1, p)
  <1> DEFINE x == SubSeq(u, 1, p)
             y == SubSeq(v, 1, p)
  <1>1. x \in Words /\ Len(x) = p /\ \A i \in 1 .. p : x[i] = u[i]
    BY Cut
  <1>2. y \in Words /\ Len(y) = p /\ \A i \in 1 .. p : y[i] = v[i]
    BY Cut
  <1> HIDE DEF x, y
  <1>3. \A i \in 1 .. p : x[i] = y[i]
    BY <1>1, <1>2
  <1>4. x = y
    BY <1>1, <1>2, <1>3 DEF Words
  <1> QED BY <1>4 DEF x, y

LEMMA WordConcat ==
  ASSUME NEW q \in Words, NEW p \in Words
  PROVE  /\ q \o p \in Words /\ Len(q \o p) = Len(q) + Len(p)
         /\ \A i \in 1 .. Len(q) : (q \o p)[i] = q[i]
         /\ \A i \in 1 .. Len(p) : (q \o p)[Len(q) + i] = p[i]
  BY ConcatFacts DEF Words

\* What a word and a longer draft have in common.
LEMMA SameDraft ==
  ASSUME NEW q \in Words, NEW d \in Words, NEW tok \in Tokens \cup {EOS}, NEW a \in 0 .. Len(d)
  PROVE  LET w == SubSeq(d, 1, a) \o <<tok>>
         IN  /\ w \in Words /\ Len(w) = a + 1
             /\ \A p \in 1 .. Len(q) + a : SubSeq(q \o w, 1, p) = SubSeq(q \o d, 1, p)
  <1> DEFINE s == SubSeq(d, 1, a)
             e == <<tok>>
             w == s \o e
  <1>1. Len(d) \in Nat /\ Len(q) \in Nat /\ a \in Nat /\ a <= Len(d)
    BY DEF Words
  <1>2. s \in Words /\ Len(s) = a /\ \A i \in 1 .. a : s[i] = d[i]
    BY <1>1, Cut
  <1>3. e \in Words /\ Len(e) = 1
    BY DEF Words
  <1> HIDE DEF s, e
  <1>4. w \in Words /\ Len(w) = a + 1 /\ \A i \in 1 .. a : w[i] = s[i]
    <2>1. /\ w \in Words /\ Len(w) = Len(s) + Len(e)
          /\ \A i \in 1 .. Len(s) : w[i] = s[i]
      BY <1>2, <1>3, WordConcat, Zenon
    <2> HIDE DEF w
    <2> QED BY <1>2, <1>3, <2>1
  <1> HIDE DEF w
  <1> DEFINE u == q \o w
             v == q \o d
             t == Len(q)
  <1>5. /\ u \in Words /\ Len(u) = t + Len(w) /\ \A i \in 1 .. t : u[i] = q[i]
        /\ \A i \in 1 .. Len(w) : u[t + i] = w[i]
    BY <1>4, WordConcat
  <1>6. /\ v \in Words /\ Len(v) = t + Len(d) /\ \A i \in 1 .. t : v[i] = q[i]
        /\ \A i \in 1 .. Len(d) : v[t + i] = d[i]
    BY WordConcat
  <1> HIDE DEF u, v, t
  <1>7. t \in Nat
    BY <1>1 DEF t
  <1>8. ASSUME NEW p \in 1 .. t + a PROVE SubSeq(u, 1, p) = SubSeq(v, 1, p)
    <2>1. p \in Nat /\ p <= Len(u) /\ p <= Len(v)
      BY <1>1, <1>4, <1>5, <1>6, <1>7
    <2>2. ASSUME NEW i \in 1 .. p PROVE u[i] = v[i]
      <3>1. CASE i <= t
        BY <1>5, <1>6, <1>7, <2>1, <3>1
      <3>2. CASE ~(i <= t)
        <4> DEFINE j == i - t
        <4>1. j \in 1 .. a /\ i = t + j /\ j \in 1 .. Len(w) /\ j \in 1 .. Len(d)
          BY <1>1, <1>4, <1>7, <2>1, <3>2
        <4> HIDE DEF j
        <4> QED BY <1>2, <1>4, <1>5, <1>6, <4>1
      <3> QED BY <3>1, <3>2
    <2> QED BY <1>5, <1>6, <2>1, <2>2, SameCut
  <1> QED BY <1>4, <1>8 DEF w, s, e, u, v, t

\* The prompt is computed: the accepted part of the draft stays, and one more token.
LEMMA AnswerLate ==
  ASSUME Inv, NEW r, NEW out, NEW g, NEW z, Answers(r, out, g, z), ~(out.start + out.n < Len(out.tokens)),
         ~Stopped(r, z)
  PROVE  Follows(out, z)
  <1> DEFINE q == request[r].tokens
             t == Len(q)
             x == out.start
             n == out.n
             s == Len(out.spec)
             a == g.accepted
             c == z.computed
  <1>1. /\ t \in Nat /\ x \in Nat /\ n \in Nat /\ s \in Nat /\ a \in 0 .. s /\ c = x + n - (s - a)
        /\ Len(out.tokens) = t + s /\ x + n - s <= t
        /\ q \in Words /\ out.spec \in Words /\ out.tokens = q \o out.spec
    BY NumberFacts DEF Numbers
  <1>2. ~(x + n < Len(out.tokens))
    OBVIOUS
  <1>3. c \in Nat /\ c = t + a /\ c <= x + n /\ x + n - s <= c /\ c >= t
    <2> HIDE DEF q, t, x, n, s, a, c
    <2> QED BY <1>1, <1>2
  <1>4. PICK k : Extends(r, g.tokens, k) /\ z.tokens = q \o SubSeq(g.tokens, 1, k)
    BY <1>3 DEF Answers, AppliedTo
  <1>5. PICK tok \in Tokens \cup {EOS} : g.tokens = SubSeq(out.spec, 1, a) \o <<tok>>
    BY <1>2 DEF Answers, Generated
  <1>6. /\ g.tokens \in Words /\ Len(g.tokens) = a + 1
        /\ \A p \in 1 .. t + a : SubSeq(q \o g.tokens, 1, p) = SubSeq(q \o out.spec, 1, p)
    <2> DEFINE w == SubSeq(out.spec, 1, a) \o <<tok>>
    <2> HIDE DEF q, a
    <2>1. /\ w \in Words /\ Len(w) = a + 1
          /\ \A p \in 1 .. Len(q) + a : SubSeq(q \o w, 1, p) = SubSeq(q \o out.spec, 1, p)
      BY <1>1, SameDraft
    <2> HIDE DEF w
    <2>2. g.tokens = w
      BY <1>5 DEF w
    <2> QED BY <2>1, <2>2
  <1>7. k \in 0 .. a + 1 /\ Len(z.tokens) = t + k /\ (k # a + 1 => _check_stop(r, z.tokens)) /\ k > 0
    <2>1. Len(g.tokens) > 0
      BY <1>1, <1>6
    <2> QED BY <1>4, <1>6, <2>1 DEF Extends
  <1>8. k = a + 1
    <2>1. Len(z.tokens) > t
      BY <1>1, <1>7
    <2> QED BY <1>7, <2>1 DEF Stopped
  <1>9. z.tokens = q \o g.tokens
    <2>1. SubSeq(g.tokens, 1, Len(g.tokens)) = g.tokens
      BY <1>6 DEF Words
    <2> QED BY <1>4, <1>6, <1>8, <2>1
  <1>10. c < Len(z.tokens)
    <2> HIDE DEF t, a, s, c
    <2> QED BY <1>1, <1>3, <1>7, <1>8
  <1> QED BY <1>1, <1>3, <1>6, <1>9, <1>10 DEF Follows

\* The request is settled, and its blocks carry the same hashes.
LEMMA AnswerSettled ==
  ASSUME Inv, NEW r, NEW out, NEW g, NEW z, Answers(r, out, g, z), Follows(out, z)
  PROVE  Settled(z)
  <1> DEFINE B == BlockSize
             req == request[r]
             i == req.ncached * B
             j == Len(req.blocks) * B
             x == out.start
             n == out.n
             s == Len(out.spec)
             c == z.computed
  <1>1. c \in Nat /\ c <= x + n /\ c < Len(z.tokens) /\ x + n - s <= c
    BY DEF Follows
  <1>2. i <= x + n - s /\ x + n <= j
    BY DEF Answers, Agrees
  <1>3. Len(z.tokens) \in Nat /\ x \in Int /\ n \in Int /\ s \in Nat
    <2>1. Numbers(r, out, g, z)
      BY NumberFacts
    <2>2. Len(z.tokens) \in Nat /\ x \in Nat /\ n \in Nat /\ s \in Nat
      BY <2>1 DEF Numbers
    <2> HIDE DEF x, n, s
    <2> QED BY <2>2
  <1>4. i \in Int /\ j \in Int
    BY Constants, RequestFields DEF Answers, Inv, Types
  <1> HIDE DEF i, j, x, n, s, c
  <1>5. c \in 0 .. Len(z.tokens) - 1 /\ i <= c /\ c <= j
    BY <1>1, <1>2, <1>3, <1>4
  <1> QED BY <1>5 DEF Settled, i, j, c, Answers, AppliedTo

LEMMA AnswerMarked ==
  ASSUME Inv, NEW r, NEW out, NEW g, NEW z, Answers(r, out, g, z), NEW hash, Marked(request[r], hash)
  PROVE  Marked(z, hash)
  <1> DEFINE B == BlockSize
             req == request[r]
  <1>1. z.blocks = req.blocks /\ z.ncached = req.ncached
    BY DEF Answers, AppliedTo
  <1>2. PICK s \in Words : z.tokens = req.tokens \o s
    BY DEF Answers, AppliedTo
  <1>3. req \in RequestType /\ req.tokens \in Words /\ req.ncached \in Int /\ Len(req.blocks) \in Nat /\ B \in Nat
    BY Constants, RequestFields DEF Answers, Inv, Types
  <1> HIDE DEF req
  <1>4. ASSUME NEW i \in 1 .. Len(req.blocks), i <= req.ncached
        PROVE  i * B <= Len(z.tokens) /\ hash[req.blocks[i]] = SubSeq(z.tokens, 1, i * B)
    BY <1>2, <1>3, <1>4, ConcatFacts, SameStart, SMTT(60) DEF Marked, req, Words
  <1>5. ASSUME NEW i \in 1 .. Len(req.blocks), ~(i <= req.ncached)
        PROVE  hash[req.blocks[i]] = NoHash
    BY <1>5 DEF Marked, req
  <1> QED BY <1>1, <1>4, <1>5 DEF Marked

\* Nothing is scheduled, before and after the step.
LEMMA SameBase ==
  ASSUME Inv, Base' = Base, DOMAIN pass.output = {}, DOMAIN pass'.output = {}
  PROVE  SameMemory(Final', Final, mode.blocks)
  <1>1. PICK o1, o2, m : o1 = pass'.output /\ o2 = pass.output /\ m = Base
    OBVIOUS
  <1>2. DOMAIN o1 = {} /\ DOMAIN o2 = {}
    BY <1>1
  <1>3. ASSUME NEW b \in DOMAIN m, NEW i \in 1 .. BlockSize
        PROVE  Executed(m, o1)[b][i] = m[b][i] /\ Executed(m, o2)[b][i] = m[b][i]
    BY <1>2, <1>3, ExecutedNothing
  <1> QED BY <1>1, <1>3, BaseDomain DEF SameMemory, Final, Base

\* The oldest batch has been executed, and nothing else.
UpdMoves ==
  /\ DOMAIN pass.output = {} /\ DOMAIN pass'.output = {} /\ pass'.at = "idle" /\ pass'.preempted = FALSE
  /\ DOMAIN batches' \subseteq {1} /\ 1 \in DOMAIN batches /\ UpdBatch = batches[1]
  /\ 1 \in DOMAIN batches' => 2 \in DOMAIN batches /\ batches'[1] = batches[2] /\ Memory(1)' = Memory(2)
  /\ SameMemory(Final', Final, mode.blocks)
  /\ \A q, out : Entry(q, out) <=> (q \in DOMAIN UpdBatch /\ out = UpdBatch[q]) \/ Entry(q, out)'
  /\ \A q, out : Entry(q, out)' => 2 \in DOMAIN batches /\ q \in DOMAIN batches[2]

LEMMA UpdateMoves ==
  ASSUME Tame, Inv, NEW generated, NEW after, NEW stopped, UpdateStep(generated, after, stopped)
  PROVE  UpdMoves
  <1>1. PICK n : n = Len(batches)
    OBVIOUS
  <1>2. /\ batches # <<>> /\ batches' = Tail(batches) /\ kv' = Executed(kv, UpdBatch)
        /\ pass' = NewPass /\ pass.at \in {"idle", "execute"} /\ mode' = mode
    BY DEF UpdateStep
  <1>3. DOMAIN pass.output = {}
    BY <1>2 DEF Inv, Queued
  <1>4. DOMAIN pass'.output = {} /\ pass'.at = "idle" /\ pass'.preempted = FALSE
    BY <1>2 DEF NewPass
  <1>5. batches \in Seq(Outputs) /\ n \in 0 .. 2 /\ DOMAIN batches = 1 .. n
    BY <1>1, FewBatches
  <1>6. /\ n \in 1 .. 2 /\ UpdBatch = batches[1] /\ Len(batches') = n - 1 /\ DOMAIN batches' = 1 .. n - 1
        /\ n = 2 => batches'[1] = batches[2]
    BY <1>1, <1>2, <1>5 DEF UpdBatch
  <1>7. CASE n = 1
    BY <1>1, <1>2, <1>3, <1>4, <1>5, <1>6, <1>7, SameBase DEF Base, Memory, Entry, UpdMoves
  <1>8. CASE n = 2
    BY <1>1, <1>2, <1>3, <1>4, <1>5, <1>6, <1>8, SameBase DEF Memory, Base, Entry, UpdMoves
  <1> QED BY <1>6, <1>7, <1>8

\* A request of the batch, before and after its results.
LEMMA UpdateAnswers ==
  ASSUME Tame, Inv, TameInv, NEW generated, NEW after, NEW stopped, UpdateStep(generated, after, stopped),
         NEW q \in UpdSet
  PROVE  /\ Answers(q, UpdBatch[q], generated[q], after[q]) /\ Runs(q) /\ Entry(q, UpdBatch[q])
         /\ q \in scheduled_req_ids /\ \A out : ~Entry(q, out)'
  <1>1. UpdMoves
    BY UpdateMoves
  <1>2. /\ q \in Requests /\ request[q].status = "running" /\ q \in DOMAIN UpdBatch
        /\ UpdBatch[q] \in Entries /\ Generated(UpdBatch[q], generated[q])
        /\ AppliedTo(q, UpdBatch[q], generated[q], after[q])
    BY DEF UpdateStep
  <1>3. Runs(q)
    BY <1>2 DEF TameInv
  <1>4. ASSUME NEW out, Entry(q, out)' PROVE FALSE
    BY <1>1, <1>2, <1>4 DEF UpdMoves, TameInv, Flights
  <1> QED BY <1>1, <1>2, <1>3, <1>4 DEF Answers, Runs, Steady, UpdMoves

\* No assertion fails.
LEMMA UpdateOk ==
  ASSUME Tame, Inv, TameInv, NEW generated, NEW after, NEW stopped, UpdateStep(generated, after, stopped)
  PROVE  pool'.ok /\ pool'.hash = pool.hash
  <1> DEFINE f == FreeRequests(pool, Keep(UpdLive, stopped))
             ok == f.ok /\ UpdSet \subseteq scheduled_req_ids
                   /\ \A r \in UpdSet : UpdBatch[r].spec = <<>> =>
                        after[r].computed <= Len(request[r].tokens)
  <1>1. LetGo(mode.blocks, pool, f) /\ pool' = [f EXCEPT !.ok = ok]
    BY DEF UpdateStep
  <1>2. ok
    BY <1>1, UpdateAnswers, AnswerSound DEF LetGo, TameInv
  <1> HIDE DEF f, ok
  <1> QED BY <1>1, <1>2 DEF Pools, LetGo

\* The blocks of the requests.
LEMMA UpdateHolders ==
  ASSUME Inv, NEW generated, NEW after, NEW stopped, UpdateStep(generated, after, stopped)
  PROVE  /\ \A b : Holders(b)' \subseteq Holders(b)
         /\ \A q \in Requests : q \notin UpdSet => request'[q] = request[q]
         /\ \A q \in stopped : request'[q].status = "finished"
         /\ \A q \in UpdSet : q \notin stopped => request'[q] = after[q] /\ after[q].blocks = request[q].blocks
  <1>1. \A r \in UpdSet : Finished(after[r]).status = "finished" /\ Finished(after[r]).blocks = <<>>
    BY FinishedFacts DEF AppliedTo, UpdateStep
  <1>2. \A q \in Requests : request'[q].blocks = request[q].blocks \/ request'[q].blocks = <<>>
    BY <1>1 DEF UpdateStep, AppliedTo
  <1>3. ToSet(<<>>) = {}
    BY ListsEmpty
  <1>4. \A b : Holders(b)' \subseteq Holders(b)
    BY <1>2, <1>3 DEF Holders
  <1> QED BY <1>1, <1>4 DEF UpdateStep, AppliedTo

\* A request that goes on.
LEMMA UpdateRuns ==
  ASSUME Tame, Inv, TameInv, NEW generated, NEW after, NEW stopped, UpdateStep(generated, after, stopped),
         NEW q \in UpdSet, q \notin stopped
  PROVE  Runs(q)'
  <1> DEFINE N == mode.blocks
             out == UpdBatch[q]
             z == after[q]
             Q == request[q].blocks
  <1>1. /\ Answers(q, out, generated[q], z) /\ Runs(q) /\ Entry(q, out) /\ \A x : ~Entry(q, x)'
    BY UpdateAnswers
  <1>2. /\ \A b : Holders(b)' \subseteq Holders(b)
        /\ request'[q] = z /\ z.blocks = Q
    BY UpdateHolders
  <1>3. /\ SameMemory(Final', Final, N) /\ pool'.hash = pool.hash /\ q \in Requests
        /\ q \notin scheduled_req_ids' /\ ~Stopped(q, z)
    BY UpdateMoves, UpdateOk DEF UpdMoves, UpdateStep
  <1> HIDE DEF out, z
  <1>4. Follows(out, z)
    BY <1>1, <1>3, AnswerEarly, AnswerLate
  <1>5. Settled(z)
    BY <1>1, <1>4, AnswerSettled
  <1>6. /\ Len(Q) \in Nat /\ \A i \in 1 .. Len(Q) : Q[i] \in 1 .. N /\ q \in Holders(Q[i])
        /\ \A i \in 1 .. Len(Q) : Q[i] \in ToSet(Q)
    BY <1>3, TableFacts DEF Holders
  <1>7. Exclusive(q)'
    BY <1>1, <1>2, <1>3, <1>6 DEF Answers, AppliedTo, Exclusive, Holders, Runs
  <1>8. Holds(Final', Q, z.tokens, z.computed)
    <2> DEFINE c == z.computed
               x == out.start + out.n
               u == Final'
               m == Final
    <2>1. /\ out.blocks = Q /\ x \in Int
      BY <1>1, <1>3, EntryFacts DEF Runs
    <2>2. Holds(m, Q, out.tokens, x)
      BY <1>1, <2>1 DEF Runs, Present
    <2>3. c \in Int /\ c <= x /\ \A p \in 1 .. c : SubSeq(z.tokens, 1, p) = SubSeq(out.tokens, 1, p)
      BY <1>4 DEF Follows
    <2>4. c <= Len(Q) * BlockSize
      BY <1>2, <1>5 DEF Settled
    <2> HIDE DEF c, x, u, m, Q
    <2>5. Holds(m, Q, z.tokens, c)
      BY <2>1, <2>2, <2>3, HoldsLess
    <2>6. HoldsIn(u, m, Q, z.tokens, c)
      BY <1>3, <1>6, <2>3, <2>4, <2>5 DEF HoldsIn, SameMemory, u, m
    <2>7. Holds(u, Q, z.tokens, c)
      BY <2>6, HoldsSame
    <2> QED BY <2>7 DEF u, c
  <1>9. Steady(q)'
    BY <1>1, <1>2, <1>3, <1>5 DEF Steady
  <1>10. Present(q)'
    BY <1>1, <1>2, <1>8 DEF Present
  <1> QED BY <1>1, <1>2, <1>3, <1>7, <1>9, <1>10, AnswerMarked DEF Runs

LEMMA UpdateTame ==
  ASSUME Tame, Inv, TameInv, Update
  PROVE  TameInv'
  <1>1. PICK generated, after, stopped : UpdateStep(generated, after, stopped)
    BY UpdateFacts
  <1>2. UpdMoves
    BY <1>1, UpdateMoves
  <1>3. pool'.ok /\ pool'.hash = pool.hash
    BY <1>1, UpdateOk
  <1>4. /\ \A b : Holders(b)' \subseteq Holders(b)
        /\ \A q \in Requests : q \notin UpdSet => request'[q] = request[q]
        /\ \A q \in stopped : request'[q].status = "finished"
        /\ \A q \in UpdSet : q \notin stopped => request'[q] = after[q]
    BY <1>1, UpdateHolders
  <1>5. /\ UpdSet = {r \in Requests : request[r].status = "running"} \cap DOMAIN UpdBatch
        /\ scheduled_req_ids' = scheduled_req_ids \ UpdSet /\ mode' = mode
        /\ \A r \in UpdSet : after[r].status = "running"
    BY <1>1 DEF UpdateStep, AppliedTo
  <1>6. Flights /\ Past /\ Cached /\ \A q \in Requests : request[q].status = "running" => Runs(q)
    BY DEF TameInv
  <1>7. ASSUME NEW q \in Requests, request'[q].status = "running" PROVE Runs(q)'
    <2>1. CASE q \in UpdSet
      BY <1>1, <1>4, <1>7, <2>1, UpdateRuns
    <2>2. CASE q \notin UpdSet
      <3>1. request[q].status = "running" /\ request'[q] = request[q] /\ q \notin DOMAIN UpdBatch
        BY <1>4, <1>5, <1>7, <2>2
      <3>2. \A k \in 1 .. Len(request[q].blocks) : \A i \in 1 .. BlockSize :
              Final'[request[q].blocks[k]][i] = Final[request[q].blocks[k]][i]
        BY <1>2, TableFacts DEF UpdMoves, SameMemory
      <3>3. ASSUME NEW k \in 1 .. Len(request[q].blocks)
            PROVE  Holders(request[q].blocks[k])' \subseteq Holders(request[q].blocks[k])
        BY <1>4, <3>1 DEF Holders
      <3>4. Undisturbed(q)
        BY <1>2, <1>3, <1>5, <2>2, <3>1, <3>2, <3>3 DEF Undisturbed, UpdMoves
      <3> QED BY <1>6, <3>1, <3>4, StillRuns
    <2> QED BY <2>1, <2>2
  <1>8. Cached'
    BY <1>2, <1>3, <1>5, <1>6 DEF Cached, UpdMoves, SameMemory, Filled
  <1>9. Past'
    BY <1>2, <1>6 DEF UpdMoves, Past
  <1>10. Flights'
    BY <1>2, <1>4, <1>5, <1>6, FewBatches DEF UpdMoves, Flights, Live
  <1> QED BY <1>3, <1>7, <1>8, <1>9, <1>10 DEF TameInv

-----------------------------------------------------------------------------
(* At most two batches in flight, drafts of at most one token: no assertion *)
(* fails, and every batch finds what it attends to.                         *)

LEMMA InitTame ==
  ASSUME Init
  PROVE  TameInv
  <1>1. /\ pool = NewPool(mode.blocks) /\ pass = NewPass /\ batches = <<>>
        /\ \A r \in Requests : request[r].status = "new"
    BY DEF Init
  <1>2. DOMAIN batches = {}
    BY <1>1
  <1>3. Flights
    BY <1>1, <1>2 DEF Flights, NewPass
  <1>4. Past
    BY <1>2 DEF Past
  <1>5. Cached
    BY <1>1 DEF Cached, NewPool
  <1> QED BY <1>1, <1>3, <1>4, <1>5 DEF TameInv, NewPool

LEMMA TameNext ==
  ASSUME Tame, Inv, TameInv, Next
  PROVE  TameInv'
  <1>1. CASE BeginSchedule
    BY <1>1, BeginTame
  <1>2. CASE SkipScheduled \/ SkipNoEncoder
    BY <1>2, SkipTame
  <1>3. CASE ScheduleRunning
    BY <1>3, RunTame
  <1>4. CASE Preempt
    BY <1>4, PreemptTame
  <1>5. CASE EndRunning
    BY <1>5, EndRunningTame
  <1>6. CASE SkipNotReady
    BY <1>6, NotReadyTame
  <1>7. CASE ScheduleWaiting
    BY <1>7, AdmitTame
  <1>8. CASE EndSchedule
    BY <1>8, EndTame
  <1>9. CASE Update
    BY <1>9, UpdateTame
  <1>10. CASE Client
    BY <1>10, ModeFacts, AddTame, AbortTame, ResetTame DEF Inv, Types, Client
  <1>11. ASSUME NEW r \in Guided, GrammarReady(r) PROVE TameInv'
    BY <1>11, GrammarTame
  <1> QED BY <1>1, <1>2, <1>3, <1>4, <1>5, <1>6, <1>7, <1>8, <1>9, <1>10, <1>11 DEF Next, Step

LEMMA StutterTame ==
  ASSUME Inv, TameInv, UNCHANGED vars
  PROVE  TameInv'
  <1>1. Calm
    BY SameEntries DEF Calm, SameMemory, TameInv, vars, queues
  <1>2. Past' /\ Flights'
    BY SamePast DEF TameInv, Flights, vars, queues
  <1> QED BY <1>1, <1>2, CalmTame

\* The invariant for the induction, and what a step does to the free queue.
Sound == Inv /\ TameInv

LEMMA SoundNext ==
  ASSUME Tame, Sound, [Next]_vars
  PROVE  Sound' /\ (pool' # pool => Later(pool, pool'))
  <1>1. CASE UNCHANGED vars
    BY <1>1, StutterInv, StutterTame DEF vars, Sound
  <1>2. CASE Next
    BY <1>2, TameNext, StepInv DEF Sound, TameInv
  <1> QED BY <1>1, <1>2

LEMMA SoundTypes ==
  ASSUME Sound
  PROVE  TypeOK
  <1>1. Types /\ Queued /\ \A r \in Requests : Sane(mode, request[r])
    BY DEF Sound, Inv
  <1>2. ASSUME NEW r \in Requests
        PROVE  /\ request[r].status \in Live \cup {"new", "finished"}
               /\ request[r].tokens \in Seq(Tokens \cup {EOS}) /\ Len(request[r].tokens) <= MaxModelLen
               /\ request[r].computed \in 0 .. Len(request[r].tokens)
               /\ request[r].ncached \in {None} \cup 0 .. Len(request[r].blocks)
               /\ Len(request[r].blocks) <= max_num_blocks_per_req
    <2> DEFINE req == request[r]
               t == Len(req.tokens)
    <2>1. Sane(mode, req) /\ req \in RequestType
      BY <1>1 DEF Sane
    <2>2. req.status \in Statuses /\ req.tokens \in Words /\ req.computed \in Int /\ t \in Nat
      BY <2>1, RequestFields
    <2>3. req.computed \in 0 .. t
      <3>1. CASE req.status # "running"
        BY <2>1, <2>2, <3>1 DEF Sane
      <3>2. CASE req.status = "running" /\ r \notin scheduled_req_ids
        BY <2>2, <3>2 DEF Sound, TameInv, Runs, Steady, Settled
      <3>3. CASE req.status = "running" /\ r \in scheduled_req_ids
        <4>1. Runs(r)
          BY <3>3 DEF Sound, TameInv
        <4>2. PICK out : Entry(r, out)
          BY <3>3, <4>1 DEF Runs, Steady
        <4>3. Agrees(req, out) /\ out \in Entries
          BY <4>1, <4>2, EntryFacts DEF Runs, Sound
        <4> DEFINE x == out.start
                   n == out.n
                   s == Len(out.spec)
                   c == req.computed
        <4>4. x = c /\ x >= 0 /\ s <= n /\ x + n - s <= t
          BY <4>3 DEF Agrees
        <4>5. x \in Int /\ n \in Nat /\ s \in Nat
          BY <4>3 DEF Entries, Words
        <4> HIDE DEF x, n, s, c, t
        <4>6. c \in 0 .. t
          BY <2>2, <4>4, <4>5
        <4> QED BY <4>6 DEF c
      <3> QED BY <3>1, <3>2, <3>3
    <2> QED BY <2>1, <2>2, <2>3, Constants DEF Sane, Statuses, Words
  <1>3. pass.budget \in 0 .. mode.budget
    BY <1>1, PassFacts, ModeFacts DEF Types, Queued
  <1>4. encoder.slots \in Int
    BY <1>1 DEF Types, Encoders
  <1> QED BY <1>1, <1>2, <1>3, <1>4, ListsFacts DEF TypeOK, Queued, Types

LEMMA SoundContext ==
  ASSUME Sound
  PROVE  ContextIntact
  <1> SUFFICES ASSUME batches # <<>>
               PROVE  \A r \in DOMAIN Head(batches) :
                        Holds(Executed(kv, Head(batches)), Head(batches)[r].blocks, Head(batches)[r].tokens,
                              Head(batches)[r].start + Head(batches)[r].n)
    BY DEF ContextIntact, Holds
  <1>1. Memory(1) = Executed(kv, batches[1])
    BY DEF Memory
  <1> QED BY <1>1 DEF Past, Sound, TameInv, Inv, Types

\* While at most two batches are in flight and a draft has at most one token, no assertion
\* of allocate_slots, of schedule() or of update_from_output fails.
THEOREM NoAssertionFails == Tame => (Spec => []AssertionsHold)
  <1> SUFFICES ASSUME Tame PROVE Spec => []AssertionsHold
    OBVIOUS
  <1>1. Init => Sound
    BY InitInv, InitTame DEF Sound
  <1>2. Sound => AssertionsHold
    BY DEF Sound, TameInv, AssertionsHold
  <1> QED BY <1>1, <1>2, SoundNext, PTL DEF Spec

\* Then a request never counts more computed tokens than it has, its block table stays
\* within its width, and the queues and the requests agree on who waits and who runs.
THEOREM RequestsTyped == Tame => (Spec => []TypeOK)
  <1> SUFFICES ASSUME Tame PROVE Spec => []TypeOK
    OBVIOUS
  <1>1. Init => Sound
    BY InitInv, InitTame DEF Sound
  <1>2. Sound => TypeOK
    BY SoundTypes
  <1> QED BY <1>1, <1>2, SoundNext, PTL DEF Spec

\* The free queue, its links and its count, the reference counts, the block tables and the
\* cache tell the same story in every state.
THEOREM PoolAccounted == Tame => (Spec => []BlocksAccounted)
  <1> SUFFICES ASSUME Tame PROVE Spec => []BlocksAccounted
    OBVIOUS
  <1>1. Init => Sound
    BY InitInv, InitTame DEF Sound
  <1>2. Sound => BlocksAccounted
    BY InvAccounts DEF Sound
  <1> QED BY <1>1, <1>2, SoundNext, PTL DEF Spec

\* Every batch finds in the blocks of each of its requests what was computed from that
\* request's own tokens, although blocks are shared, filed before they are computed, and
\* taken from requests that are preempted or aborted while a batch is in flight.
THEOREM ContextKept == Tame => (Spec => []ContextIntact)
  <1> SUFFICES ASSUME Tame PROVE Spec => []ContextIntact
    OBVIOUS
  <1>1. Init => Sound
    BY InitInv, InitTame DEF Sound
  <1>2. Sound => ContextIntact
    BY SoundContext
  <1> QED BY <1>1, <1>2, SoundNext, PTL DEF Spec

\* Blocks enter the free queue only behind those that stay in it.
THEOREM FreedLast == Tame => (Spec => FreedGoLast)
  <1> SUFFICES ASSUME Tame PROVE Spec => FreedGoLast
    OBVIOUS
  <1>1. Init => Sound
    BY InitInv, InitTame DEF Sound
  <1>2. Sound /\ [Next]_vars => [Later(pool, pool')]_pool
    BY SoundNext
  <1> QED BY <1>1, <1>2, SoundNext, PTL DEF Spec, FreedGoLast, Later

=============================================================================
