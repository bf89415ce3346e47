----------------------- MODULE PrefixScheduling_proofs -----------------------
(***************************************************************************)
(* Proofs about PrefixScheduling, for every set of requests, prompts,      *)
(* device size and configuration: what can_allocate and can_append_slots   *)
(* let through finds its blocks, blocks are never overcommitted, and what  *)
(* a request skips stays in place until its batch runs.                    *)
(*                                                                         *)
(* The queues are sequences, but the arguments are about the sets of their *)
(* members: Lists(q, A) says that q has the members of A, each once, and   *)
(* there is one lemma for each operation on a queue.  What the recursive   *)
(* functions of the model compute is proved by induction over the set of   *)
(* the indices for which it holds.                                         *)
(***************************************************************************)
EXTENDS PrefixScheduling, FiniteSetTheorems, WellFoundedInduction, TLAPS

\* The queue q has the members of A, each once.
Lists(q, A) ==
  /\ q \in Seq(A)
  /\ \A i, j \in DOMAIN q : q[i] = q[j] => i = j
  /\ \A x \in A : \E i \in DOMAIN q : q[i] = x

\* The request whose table is being allocated.
Admitted == IF phase = "allocate" THEN {current} ELSE {}
Scheduled == ToSet(running) \cup ToSet(queue)

\* Every request is in one place.
InOnePlace ==
  /\ Lists(waiting, ToSet(waiting)) /\ Lists(running, ToSet(running))
  /\ Lists(preempted, ToSet(preempted)) /\ Lists(queue, ToSet(queue))
  /\ ToSet(waiting) \cap (Scheduled \cup ToSet(preempted) \cup Admitted) = {}
  /\ ToSet(preempted) \cap (Scheduled \cup Admitted) = {}
  /\ ToSet(running) \cap (ToSet(queue) \cup Admitted) = {}
  /\ ToSet(queue) \cap Admitted = {}
  /\ phase = "idle" => queue = <<>> /\ preempted = <<>>

\* A request that is scheduled has the blocks of its prompt, and one that is not has none.
Tables ==
  /\ phase = "allocate" =>
       /\ current \in Requests
       /\ Len(table[current]) < Len(Prompt[current])
  /\ \A s \in Requests :
       /\ s \in Scheduled => table[s] = Prompt[s]
       /\ s \in Scheduled \cup Admitted => memo[s] # None
       /\ s \notin Scheduled \cup Admitted => table[s] = <<>>
       /\ memo[s] # None => memo[s] <= Len(Prompt[s])

\* The blocks that can_allocate has counted for the rest of a prompt are there.
Reserved ==
  /\ IsFiniteSet(Active) /\ IsFiniteSet(resident)
  /\ phase = "allocate" =>
       NumUsed + (Len(Prompt[current]) - Len(table[current])) <= NumBlocks

\* A batch is admitted block by block, after the decodes of its pass or without any.
InPass ==
  /\ phase \in {"idle", "running"} => touched = {} /\ current_ok = {}
  /\ phase = "prefill" /\ ~mode.chunked /\ DOMAIN batch = {} => touched = {} /\ current_ok = {}
  /\ phase = "allocate" => DOMAIN batch # {}
  /\ computed \cap touched = {}

\* What was cached when a request was admitted is in use, or still to be shared.
Pinned ==
  \A s \in current_ok :
    /\ memo[s] # None
    /\ \A i \in 1 .. memo[s] :
         /\ Prompt[s][i] \notin touched
         /\ \/ Prompt[s][i] \in Active
            \/ s \in Admitted /\ Len(table[s]) < i /\ Prompt[s][i] \in resident

\* The token budget: without chunks a decode takes one token, and there are no more
\* decodes than max_num_seqs.
Budgeted ==
  /\ Len(running) + Len(queue) + (IF phase = "allocate" THEN 1 ELSE 0) <= MaxNumSeqs
  /\ ~mode.chunked =>
       /\ phase = "running" => DOMAIN batch = {} /\ Len(queue) <= budget
       /\ phase = "idle" => DOMAIN batch = {}
       /\ phase = "prefill" /\ DOMAIN batch = {} => budget = mode.tokens
       /\ \A s \in Scheduled \cup Admitted :
            /\ s \in DOMAIN batch => Len(Prompt[s]) <= batch[s]
            /\ s \notin DOMAIN batch => Len(Prompt[s]) <= done[s]

(* The inductive invariant. *)
IndInv ==
  /\ TypeOK /\ failed = FALSE
  /\ InOnePlace
  /\ Tables
  /\ Reserved
  /\ WithinDevice
  /\ InPass
  /\ Pinned
  /\ Budgeted

-----------------------------------------------------------------------------
(* Recursive functions.                                                     *)

\* Induction over the indices of a sequence.
LEMMA IndexInduction ==
  ASSUME NEW n \in Nat, NEW G, 0 \in G, \A i \in 1 .. n : i - 1 \in G => i \in G
  PROVE  \A i \in 0 .. n : i \in G
  <1> DEFINE Bad == {i \in Nat : i <= n /\ i \notin G}
  <1> SUFFICES ASSUME Bad # {}
               PROVE  FALSE
    OBVIOUS
  <1>1. PICK m \in Bad : \A k \in Bad : ~(k < m)
    <2>1. IsWellFoundedOn(OpToRel(<, Nat), Nat)
      BY NatLessThanWellFounded
    <2>2. PICK m \in Bad : \A k \in Bad : <<k, m>> \notin OpToRel(<, Nat)
      <3> HIDE DEF Bad
      <3>1. Bad \subseteq Nat
        BY DEF Bad
      <3> QED BY <2>1, <3>1, WFMin
    <2> QED BY <2>2 DEF OpToRel
  <1>2. m \in Nat /\ m <= n /\ m \notin G
    BY <1>1
  <1>3. m # 0 /\ m \in 1 .. n /\ m - 1 \in Nat /\ m - 1 < m /\ m - 1 <= n
    BY <1>2
  <1>4. m - 1 \notin G
    BY <1>2, <1>3
  <1>5. m - 1 \in Bad
    BY <1>3, <1>4
  <1> QED BY <1>1, <1>3, <1>5

KeepBody(f, q, T, m) ==
  [n \in 0 .. m |-> IF n = 0 THEN <<>>
                    ELSE IF q[n] \in T THEN Append(f[n - 1], q[n]) ELSE f[n - 1]]

\* Keep is the last value of a function that satisfies its recursion.
LEMMA KeepFunction ==
  ASSUME NEW A, NEW q \in Seq(A), NEW T
  PROVE  \E f : f = KeepBody(f, q, T, Len(q)) /\ Keep(q, T) = f[Len(q)]
  <1> DEFINE n == Len(q)
             G == {m \in 0 .. n : \E f : f = KeepBody(f, q, T, m)}
  <1>0. n \in Nat
    OBVIOUS
  <1>1. 0 \in G
    <2> DEFINE f == [i \in 0 .. 0 |-> <<>>]
    <2>1. f = KeepBody(f, q, T, 0)
      BY DEF KeepBody
    <2> QED BY <1>0, <2>1
  <1>2. ASSUME NEW i \in 1 .. n, i - 1 \in G
        PROVE  i \in G
    <2>1. PICK f : f = KeepBody(f, q, T, i - 1)
      BY <1>2
    <2> DEFINE g == [k \in 0 .. i |-> IF k = i THEN IF q[i] \in T THEN Append(f[i - 1], q[i]) ELSE f[i - 1]
                                      ELSE f[k]]
    <2>2. \A k \in 0 .. i - 1 : g[k] = f[k]
      OBVIOUS
    <2>3. \A k \in 0 .. i - 1 : f[k] = IF k = 0 THEN <<>>
                    ELSE IF q[k] \in T THEN Append(f[k - 1], q[k]) ELSE f[k - 1]
      BY <2>1 DEF KeepBody
    <2>4. \A k \in 0 .. i : g[k] = IF k = 0 THEN <<>>
                    ELSE IF q[k] \in T THEN Append(g[k - 1], q[k]) ELSE g[k - 1]
      <3> SUFFICES ASSUME NEW k \in 0 .. i
                   PROVE  g[k] = IF k = 0 THEN <<>>
                                 ELSE IF q[k] \in T THEN Append(g[k - 1], q[k]) ELSE g[k - 1]
        OBVIOUS
      <3>1. CASE k = i
        <4>1. g[k] = IF q[i] \in T THEN Append(f[i - 1], q[i]) ELSE f[i - 1]
          BY <3>1
        <4>2. g[k - 1] = f[i - 1] /\ k # 0
          BY <3>1, <2>2
        <4> QED BY <3>1, <4>1, <4>2
      <3>2. CASE k # i
        <4>1. g[k] = f[k] /\ k \in 0 .. i - 1
          BY <3>2
        <4>2. k # 0 => g[k - 1] = f[k - 1]
          BY <4>1
        <4> HIDE DEF g
        <4> QED BY <2>3, <4>1, <4>2
      <3> QED BY <3>1, <3>2
    <2>5. g = [k \in 0 .. i |-> g[k]]
      OBVIOUS
    <2> HIDE DEF g
    <2>6. g = KeepBody(g, q, T, i)
      BY <2>4, <2>5 DEF KeepBody
    <2> QED BY <2>6
  <1>3. n \in G
    <2> HIDE DEF G, n
    <2>1. \A i \in 1 .. n : i - 1 \in G => i \in G
      BY <1>2
    <2>2. \A i \in 0 .. n : i \in G
      BY <1>0, <1>1, <2>1, IndexInduction
    <2>3. n \in 0 .. n
      BY <1>0
    <2> QED BY <2>2, <2>3
  <1> DEFINE h == CHOOSE f : f = [k \in 0 .. Len(q) |-> IF k = 0 THEN <<>>
                    ELSE IF q[k] \in T THEN Append(f[k - 1], q[k]) ELSE f[k - 1]]
  <1>4. \E f : f = [k \in 0 .. Len(q) |-> IF k = 0 THEN <<>>
                    ELSE IF q[k] \in T THEN Append(f[k - 1], q[k]) ELSE f[k - 1]]
    BY <1>3 DEF KeepBody
  <1>5. h = [k \in 0 .. Len(q) |-> IF k = 0 THEN <<>>
                    ELSE IF q[k] \in T THEN Append(h[k - 1], q[k]) ELSE h[k - 1]]
    BY <1>4
  <1>6. Keep(q, T) = h[Len(q)]
    BY DEF Keep
  <1> HIDE DEF h
  <1>7. h = KeepBody(h, q, T, Len(q))
    BY <1>5 DEF KeepBody
  <1> QED BY <1>6, <1>7

-----------------------------------------------------------------------------
(* The queues.                                                              *)

\* What listing a set means, index by index.
LEMMA ListsFacts ==
  ASSUME NEW A, NEW q, Lists(q, A)
  PROVE  /\ q \in Seq(A) /\ Len(q) \in Nat /\ DOMAIN q = 1 .. Len(q)
         /\ \A i \in 1 .. Len(q) : q[i] \in A
         /\ \A i, j \in 1 .. Len(q) : q[i] = q[j] => i = j
         /\ \A x \in A : \E i \in 1 .. Len(q) : q[i] = x
         /\ ToSet(q) = A
  <1>1. q \in Seq(A) /\ Len(q) \in Nat /\ DOMAIN q = 1 .. Len(q)
    BY DEF Lists
  <1>2. \A i \in 1 .. Len(q) : q[i] \in A
    BY <1>1
  <1>3. ToSet(q) = A
    BY <1>1, <1>2 DEF Lists, ToSet
  <1> QED BY <1>1, <1>2, <1>3 DEF Lists

\* A queue that lists its members lists a subset of the requests.
LEMMA ListsEmpty == Lists(<<>>, {}) /\ ToSet(<<>>) = {}
  BY DEF Lists, ToSet

\* A new member at the end.
LEMMA ListsAppend ==
  ASSUME NEW A, NEW q, Lists(q, A), NEW x, x \notin A
  PROVE  Lists(Append(q, x), A \cup {x}) /\ ToSet(Append(q, x)) = A \cup {x}
  <1> DEFINE B == A \cup {x}
             p == Append(q, x)
  <1>1. /\ q \in Seq(A) /\ Len(q) \in Nat /\ DOMAIN q = 1 .. Len(q)
        /\ \A i \in 1 .. Len(q) : q[i] \in A
        /\ \A i, j \in 1 .. Len(q) : q[i] = q[j] => i = j
        /\ \A y \in A : \E i \in 1 .. Len(q) : q[i] = y
    BY ListsFacts
  <1>2. q \in Seq(B)
    BY <1>1
  <1>3. /\ p \in Seq(B) /\ DOMAIN p = 1 .. Len(q) + 1
        /\ \A i \in 1 .. Len(q) : p[i] = q[i] /\ i \in DOMAIN p
        /\ p[Len(q) + 1] = x /\ Len(q) + 1 \in DOMAIN p
        /\ \A i \in DOMAIN p : i \in 1 .. Len(q) \/ i = Len(q) + 1
    BY <1>1, <1>2
  <1> HIDE DEF p
  <1>4. \A i, j \in DOMAIN p : p[i] = p[j] => i = j
    BY <1>1, <1>3
  <1>5. \A y \in B : \E i \in DOMAIN p : p[i] = y
    BY <1>1, <1>3
  <1>6. Lists(p, B)
    BY <1>3, <1>4, <1>5 DEF Lists
  <1> QED BY <1>6, ListsFacts DEF p

\* The first member goes.
LEMMA ListsTail ==
  ASSUME NEW A, NEW q, Lists(q, A), q # <<>>
  PROVE  /\ Head(q) \in A /\ Head(q) = q[1] /\ Len(Tail(q)) = Len(q) - 1
         /\ Lists(Tail(q), A \ {Head(q)}) /\ ToSet(Tail(q)) = A \ {Head(q)}
  <1> DEFINE h == Head(q)
             B == A \ {h}
             p == Tail(q)
  <1>1. /\ q \in Seq(A) /\ Len(q) \in Nat /\ DOMAIN q = 1 .. Len(q)
        /\ \A i \in 1 .. Len(q) : q[i] \in A
        /\ \A i, j \in 1 .. Len(q) : q[i] = q[j] => i = j
        /\ \A y \in A : \E i \in 1 .. Len(q) : q[i] = y
    BY ListsFacts
  <1>2. /\ h = q[1] /\ 1 \in 1 .. Len(q) /\ h \in A
        /\ p \in Seq(A) /\ DOMAIN p = 1 .. Len(q) - 1 /\ Len(p) = Len(q) - 1
        /\ \A i \in DOMAIN p : i \in Int /\ i + 1 # 1 /\ i + 1 \in 1 .. Len(q) /\ p[i] = q[i + 1]
        /\ \A i \in 1 .. Len(q) : i # 1 => i - 1 \in DOMAIN p /\ p[i - 1] = q[i]
    BY <1>1
  <1> HIDE DEF p, h
  <1>3. \A i \in DOMAIN p : p[i] \in B
    <2> SUFFICES ASSUME NEW i \in DOMAIN p
                 PROVE  p[i] \in B
      OBVIOUS
    <2>1. i + 1 # 1 /\ i + 1 \in 1 .. Len(q) /\ p[i] = q[i + 1]
      BY <1>2
    <2>2. q[i + 1] \in A /\ q[i + 1] # q[1]
      BY <1>1, <1>2, <2>1
    <2> QED BY <1>2, <2>1, <2>2
  <1>4. p \in Seq(B)
    <2>1. Len(q) - 1 \in Nat
      BY <1>1, <1>2
    <2>2. p \in [1 .. Len(q) - 1 -> B]
      <3>1. p = [i \in 1 .. Len(p) |-> p[i]]
        BY <1>2
      <3> QED BY <1>2, <1>3, <3>1
    <2> HIDE DEF B
    <2> QED BY <2>1, <2>2
  <1>5. ASSUME NEW i \in DOMAIN p, NEW j \in DOMAIN p, p[i] = p[j]
        PROVE  i = j
    <2>1. i \in Int /\ j \in Int /\ i + 1 \in 1 .. Len(q) /\ j + 1 \in 1 .. Len(q) /\ q[i + 1] = q[j + 1]
      BY <1>2, <1>5
    <2>2. i + 1 = j + 1
      BY <1>1, <2>1
    <2> QED BY <2>1, <2>2
  <1>6. ASSUME NEW y \in B
        PROVE  \E i \in DOMAIN p : p[i] = y
    <2>1. PICK i \in 1 .. Len(q) : q[i] = y
      BY <1>1
    <2>2. i # 1
      BY <1>2, <2>1
    <2> QED BY <1>2, <2>1, <2>2
  <1>7. Lists(p, B)
    BY <1>4, <1>5, <1>6 DEF Lists
  <1> QED BY <1>2, <1>7, ListsFacts DEF p, h

\* The last member goes.
LEMMA ListsFront ==
  ASSUME NEW A, NEW q, Lists(q, A), q # <<>>
  PROVE  /\ Last(q) \in A /\ Len(Front(q)) = Len(q) - 1
         /\ Lists(Front(q), A \ {Last(q)}) /\ ToSet(Front(q)) = A \ {Last(q)}
  <1> DEFINE h == Last(q)
             B == A \ {h}
             p == Front(q)
  <1>1. /\ q \in Seq(A) /\ Len(q) \in Nat /\ DOMAIN q = 1 .. Len(q)
        /\ \A i \in 1 .. Len(q) : q[i] \in A
        /\ \A i, j \in 1 .. Len(q) : q[i] = q[j] => i = j
        /\ \A y \in A : \E i \in 1 .. Len(q) : q[i] = y
    BY ListsFacts
  <1>2. Len(q) > 0 /\ Len(q) - 1 \in Nat
    BY <1>1
  <1>0. h = q[Len(q)] /\ p = SubSeq(q, 1, Len(q) - 1)
    BY DEF Front, Last
  <1>9. Len(q) \in 1 .. Len(q) /\ 1 .. Len(q) - 1 \subseteq 1 .. Len(q)
    BY <1>1, <1>2
  <1>10. /\ p \in Seq(A) /\ DOMAIN p = 1 .. Len(q) - 1 /\ Len(p) = Len(q) - 1
         /\ \A i \in 1 .. Len(q) - 1 : p[i] = q[i]
    <2> HIDE DEF p
    <2> QED BY <1>0, <1>1, <1>2
  <1>3. /\ h = q[Len(q)] /\ Len(q) \in 1 .. Len(q) /\ h \in A
        /\ p \in Seq(A) /\ DOMAIN p = 1 .. Len(q) - 1 /\ Len(p) = Len(q) - 1
        /\ \A i \in DOMAIN p : i # Len(q) /\ i \in 1 .. Len(q) /\ p[i] = q[i]
        /\ \A i \in 1 .. Len(q) : i # Len(q) => i \in DOMAIN p
    <2> HIDE DEF p, h
    <2>0. Len(q) \in Nat
      BY <1>1
    <2>1. \A i \in 1 .. Len(q) - 1 : i # Len(q) /\ i \in 1 .. Len(q)
      BY <2>0
    <2>2. \A i \in 1 .. Len(q) : i # Len(q) => i \in 1 .. Len(q) - 1
      BY <2>0
    <2>3. h \in A
      BY <1>0, <1>1, <1>9
    <2> QED BY <1>0, <1>9, <1>10, <2>1, <2>2, <2>3
  <1> HIDE DEF p, h
  <1>4. \A i \in DOMAIN p : p[i] \in B
    BY <1>1, <1>3
  <1>5. p \in Seq(B)
    BY <1>2, <1>3, <1>4
  <1>6. \A i, j \in DOMAIN p : p[i] = p[j] => i = j
    BY <1>1, <1>3
  <1>7. ASSUME NEW y \in B
        PROVE  \E i \in DOMAIN p : p[i] = y
    <2>1. PICK i \in 1 .. Len(q) : q[i] = y
      BY <1>1
    <2>2. i # Len(q)
      BY <1>3, <2>1
    <2> QED BY <1>3, <2>1, <2>2
  <1>8. Lists(p, B)
    BY <1>5, <1>6, <1>7 DEF Lists
  <1> QED BY <1>3, <1>8, ListsFacts DEF p, h

\* Two queues with different members, one behind the other.
LEMMA ListsConcat ==
  ASSUME NEW A, NEW B, NEW q, NEW p, Lists(q, A), Lists(p, B), A \cap B = {}
  PROVE  Lists(q \o p, A \cup B) /\ ToSet(q \o p) = A \cup B
  <1> DEFINE C == A \cup B
             r == q \o p
  <1>1. /\ q \in Seq(A) /\ Len(q) \in Nat /\ DOMAIN q = 1 .. Len(q)
        /\ \A i \in 1 .. Len(q) : q[i] \in A
        /\ \A i, j \in 1 .. Len(q) : q[i] = q[j] => i = j
        /\ \A y \in A : \E i \in 1 .. Len(q) : q[i] = y
    BY ListsFacts
  <1>2. /\ p \in Seq(B) /\ Len(p) \in Nat /\ DOMAIN p = 1 .. Len(p)
        /\ \A i \in 1 .. Len(p) : p[i] \in B
        /\ \A i, j \in 1 .. Len(p) : p[i] = p[j] => i = j
        /\ \A y \in B : \E i \in 1 .. Len(p) : p[i] = y
    BY ListsFacts
  <1>3. q \in Seq(C) /\ p \in Seq(C)
    BY <1>1, <1>2
  <1>4. /\ r \in Seq(C) /\ DOMAIN r = 1 .. Len(q) + Len(p)
        /\ \A i \in 1 .. Len(q) : i \in DOMAIN r /\ r[i] = q[i]
        /\ \A i \in 1 .. Len(p) : i + Len(q) \in DOMAIN r /\ r[i + Len(q)] = p[i]
        /\ \A i \in DOMAIN r : /\ i \in Int
                               /\ i \in 1 .. Len(q) \/ (i - Len(q) \in 1 .. Len(p) /\ r[i] = p[i - Len(q)])
    BY <1>1, <1>2, <1>3
  <1> HIDE DEF r
  <1>5. ASSUME NEW i \in DOMAIN r, NEW j \in DOMAIN r, r[i] = r[j]
        PROVE  i = j
    <2>1. CASE i \in 1 .. Len(q) /\ j \in 1 .. Len(q)
      BY <1>1, <1>4, <1>5, <2>1
    <2>2. CASE /\ i - Len(q) \in 1 .. Len(p) /\ r[i] = p[i - Len(q)]
               /\ j - Len(q) \in 1 .. Len(p) /\ r[j] = p[j - Len(q)]
      <3>1. i - Len(q) = j - Len(q)
        BY <1>2, <1>5, <2>2
      <3> QED BY <1>1, <1>4, <3>1
    <2>3. CASE /\ i \in 1 .. Len(q)
               /\ j - Len(q) \in 1 .. Len(p) /\ r[j] = p[j - Len(q)]
      <3>1. r[i] \in A /\ r[j] \in B
        BY <1>1, <1>2, <1>4, <2>3
      <3> QED BY <1>5, <3>1
    <2>4. CASE /\ j \in 1 .. Len(q)
               /\ i - Len(q) \in 1 .. Len(p) /\ r[i] = p[i - Len(q)]
      <3>1. r[j] \in A /\ r[i] \in B
        BY <1>1, <1>2, <1>4, <2>4
      <3> QED BY <1>5, <3>1
    <2> QED BY <1>4, <2>1, <2>2, <2>3, <2>4
  <1>6. ASSUME NEW y \in C
        PROVE  \E i \in DOMAIN r : r[i] = y
    <2>1. CASE y \in A
      BY <1>1, <1>4, <2>1
    <2>2. CASE y \in B
      <3>1. PICK i \in 1 .. Len(p) : p[i] = y
        BY <1>2, <2>2
      <3> QED BY <1>4, <3>1
    <2> QED BY <2>1, <2>2
  <1>7. Lists(r, C)
    BY <1>4, <1>5, <1>6 DEF Lists
  <1> QED BY <1>7, ListsFacts DEF r

\* A queue from its end to its beginning.
LEMMA ListsReverse ==
  ASSUME NEW A, NEW q, Lists(q, A)
  PROVE  Lists(Reverse(q), A)
  <1> DEFINE p == Reverse(q)
  <1>1. /\ q \in Seq(A) /\ Len(q) \in Nat /\ DOMAIN q = 1 .. Len(q)
        /\ \A i \in 1 .. Len(q) : q[i] \in A
        /\ \A i, j \in 1 .. Len(q) : q[i] = q[j] => i = j
        /\ \A y \in A : \E i \in 1 .. Len(q) : q[i] = y
    BY ListsFacts
  <1>2. \A i \in 1 .. Len(q) : (Len(q) - i) + 1 \in 1 .. Len(q)
    BY <1>1
  <1>3. p = [i \in 1 .. Len(q) |-> q[(Len(q) - i) + 1]]
    BY DEF Reverse
  <1>4. p \in Seq(A) /\ DOMAIN p = 1 .. Len(q)
    <2> HIDE DEF p
    <2>1. \A i \in 1 .. Len(q) : q[(Len(q) - i) + 1] \in A
      BY <1>1, <1>2
    <2>2. p \in [1 .. Len(q) -> A]
      BY <1>3, <2>1
    <2> QED BY <1>1, <2>2
  <1>5. \A i \in 1 .. Len(q) : p[i] = q[(Len(q) - i) + 1]
    BY <1>3
  <1> HIDE DEF p
  <1>6. ASSUME NEW i \in 1 .. Len(q), NEW j \in 1 .. Len(q), p[i] = p[j]
        PROVE  i = j
    <2>1. q[(Len(q) - i) + 1] = q[(Len(q) - j) + 1]
      BY <1>5, <1>6
    <2>2. (Len(q) - i) + 1 \in 1 .. Len(q) /\ (Len(q) - j) + 1 \in 1 .. Len(q)
      BY <1>2
    <2>3. (Len(q) - i) + 1 = (Len(q) - j) + 1
      BY <1>1, <2>1, <2>2
    <2> QED BY <1>1, <2>3
  <1>7. ASSUME NEW y \in A
        PROVE  \E i \in 1 .. Len(q) : p[i] = y
    <2>1. PICK i \in 1 .. Len(q) : q[i] = y
      BY <1>1
    <2>2. /\ (Len(q) - i) + 1 \in 1 .. Len(q)
          /\ (Len(q) - ((Len(q) - i) + 1)) + 1 = i
      BY <1>1
    <2> QED BY <1>5, <2>1, <2>2
  <1> QED BY <1>4, <1>6, <1>7 DEF Lists, p

\* The members of a queue that are in T.
LEMMA ListsKeep ==
  ASSUME NEW A, NEW q, Lists(q, A), NEW T
  PROVE  Lists(Keep(q, T), A \cap T) /\ ToSet(Keep(q, T)) = A \cap T
  <1> DEFINE n == Len(q)
             Part(i) == {q[k] : k \in 1 .. i} \cap T
  <1>1. /\ q \in Seq(A) /\ n \in Nat /\ DOMAIN q = 1 .. n
        /\ \A i \in 1 .. n : q[i] \in A
        /\ \A i, j \in 1 .. n : q[i] = q[j] => i = j
        /\ \A y \in A : \E i \in 1 .. n : q[i] = y
    BY ListsFacts
  <1>2. PICK f : f = KeepBody(f, q, T, n) /\ Keep(q, T) = f[n]
    BY <1>1, KeepFunction
  <1> HIDE DEF n
  <1>3. /\ f[0] = <<>>
        /\ \A i \in 1 .. n : f[i] = IF q[i] \in T THEN Append(f[i - 1], q[i]) ELSE f[i - 1]
    <2>1. \A i \in 0 .. n : f[i] = IF i = 0 THEN <<>>
                    ELSE IF q[i] \in T THEN Append(f[i - 1], q[i]) ELSE f[i - 1]
      BY <1>2 DEF KeepBody
    <2>2. 0 \in 0 .. n /\ \A i \in 1 .. n : i \in 0 .. n /\ i # 0
      BY <1>1
    <2> QED BY <2>1, <2>2
  <1> DEFINE G == {i \in 0 .. n : Lists(f[i], Part(i))}
  <1>4. 0 \in G
    <2>1. Part(0) = {}
      OBVIOUS
    <2>2. 0 \in 0 .. n
      BY <1>1
    <2> HIDE DEF Part
    <2> QED BY <1>3, <2>1, <2>2, ListsEmpty
  <1>5. ASSUME NEW i \in 1 .. n, i - 1 \in G
        PROVE  i \in G
    <2>1. Lists(f[i - 1], Part(i - 1))
      BY <1>5
    <2>2. \A k \in 1 .. i : k \in 1 .. i - 1 \/ k = i
      OBVIOUS
    <2>3. \A k \in 1 .. i - 1 : k \in 1 .. i /\ k \in 1 .. n /\ k # i
      BY <1>1
    <2>4. CASE q[i] \in T
      <3>1. Part(i) = Part(i - 1) \cup {q[i]}
        BY <2>2, <2>3, <2>4
      <3>2. q[i] \notin Part(i - 1)
        BY <1>1, <2>3
      <3>3. f[i] = Append(f[i - 1], q[i])
        BY <1>3, <2>4
      <3> HIDE DEF Part
      <3>4. Lists(f[i], Part(i))
        BY <2>1, <3>1, <3>2, <3>3, ListsAppend
      <3> QED BY <3>4
    <2>5. CASE q[i] \notin T
      <3>1. Part(i) = Part(i - 1)
        BY <2>2, <2>3, <2>5
      <3>2. f[i] = f[i - 1]
        BY <1>3, <2>5
      <3> HIDE DEF Part
      <3>3. Lists(f[i], Part(i))
        BY <2>1, <3>1, <3>2
      <3> QED BY <3>3
    <2> QED BY <2>4, <2>5
  <1>6. n \in G
    <2> HIDE DEF G
    <2>1. \A i \in 1 .. n : i - 1 \in G => i \in G
      BY <1>5
    <2>2. \A i \in 0 .. n : i \in G
      BY <1>1, <1>4, <2>1, IndexInduction
    <2>3. n \in 0 .. n
      BY <1>1
    <2> QED BY <2>2, <2>3
  <1>7. Part(n) = A \cap T
    BY <1>1
  <1>8. Lists(Keep(q, T), A \cap T)
    <2>1. Lists(f[n], Part(n))
      BY <1>6
    <2> HIDE DEF Part
    <2> QED BY <1>2, <1>7, <2>1
  <1> QED BY <1>8, ListsFacts

\* A queue is as long as the set of its members is large.
LEMMA ListsLen ==
  ASSUME NEW A, NEW q, Lists(q, A)
  PROVE  IsFiniteSet(A) /\ Cardinality(A) = Len(q)
  <1>1. /\ q \in Seq(A) /\ Len(q) \in Nat /\ DOMAIN q = 1 .. Len(q)
        /\ \A i \in 1 .. Len(q) : q[i] \in A
        /\ \A i, j \in 1 .. Len(q) : q[i] = q[j] => i = j
        /\ \A y \in A : \E i \in 1 .. Len(q) : q[i] = y
    BY ListsFacts
  <1>2. IsFiniteSet(1 .. Len(q)) /\ Cardinality(1 .. Len(q)) = Len(q)
    <2>1. 1 \in Int /\ Len(q) \in Int
      BY <1>1
    <2>2. IsFiniteSet(1 .. Len(q)) /\ Cardinality(1 .. Len(q)) = IF 1 > Len(q) THEN 0 ELSE Len(q) - 1 + 1
      BY <2>1, FS_Interval
    <2> QED BY <1>1, <2>2
  <1>3. ExistsBijection(1 .. Len(q), A)
    <2>1. q \in [1 .. Len(q) -> A]
      BY <1>1
    <2>2. q \in Bijection(1 .. Len(q), A)
      BY <1>1, <2>1 DEF Bijection, Injection, Surjection, IsInjective
    <2> QED BY <2>2 DEF ExistsBijection
  <1> QED BY <1>2, <1>3, FS_Bijection

-----------------------------------------------------------------------------
(* Blocks.                                                                  *)

\* A table is the beginning of its prompt, block by block.
LEMMA PrefixFacts ==
  ASSUME NEW H, NEW p \in Seq(H), NEW q \in Seq(H)
  PROVE  IsPrefix(p, q) <=> Len(p) <= Len(q) /\ \A i \in 1 .. Len(p) : p[i] = q[i]
  <1>1. Len(p) \in Nat /\ Len(q) \in Nat
    OBVIOUS
  <1>2. /\ SubSeq(p, 1, Len(p)) = [i \in 1 .. Len(p) |-> p[i]]
        /\ Len(p) <= Len(q) => SubSeq(q, 1, Len(p)) = [i \in 1 .. Len(p) |-> q[i]]
    <2> DEFINE n == Len(p)
    <2>1. SubSeq(p, 1, n) = [i \in 1 .. n |-> p[i]]
      BY <1>1
    <2>2. ASSUME n <= Len(q) PROVE SubSeq(q, 1, n) = [i \in 1 .. n |-> q[i]]
      <3> HIDE DEF n
      <3>1. n \in Nat
        BY <1>1 DEF n
      <3> QED BY <1>1, <2>2, <3>1
    <2> QED BY <2>1, <2>2
  <1>3. [i \in 1 .. Len(p) |-> p[i]] = [i \in 1 .. Len(p) |-> q[i]]
          <=> \A i \in 1 .. Len(p) : p[i] = q[i]
    <2> DEFINE f == [i \in 1 .. Len(p) |-> p[i]]
               g == [i \in 1 .. Len(p) |-> q[i]]
    <2>1. \A i \in 1 .. Len(p) : f[i] = p[i] /\ g[i] = q[i]
      OBVIOUS
    <2>2. f = g => \A i \in 1 .. Len(p) : p[i] = q[i]
      <3> HIDE DEF f, g
      <3> QED BY <2>1
    <2>3. (\A i \in 1 .. Len(p) : p[i] = q[i]) => f = g
      OBVIOUS
    <2> QED BY <2>2, <2>3
  <1> QED BY <1>2, <1>3 DEF IsPrefix

\* A sequence that agrees with the beginning of a prompt is a table of it.
LEMMA PrefixIntro ==
  ASSUME NEW H, NEW p \in Seq(H), NEW q \in Seq(H),
         Len(p) <= Len(q), \A i \in 1 .. Len(p) : p[i] = q[i]
  PROVE  IsPrefix(p, q)
  BY PrefixFacts

\* The empty table is the beginning of every prompt.
LEMMA EmptyPrefix ==
  ASSUME NEW H, NEW q \in Seq(H)
  PROVE  IsPrefix(<<>>, q)
  <1>1. Len(q) \in Nat /\ <<>> \in Seq(H) /\ Len(<<>>) = 0
    OBVIOUS
  <1>2. Len(<<>>) <= Len(q) /\ \A i \in 1 .. Len(<<>>) : <<>>[i] = q[i]
    BY <1>1
  <1> QED BY <1>1, <1>2, PrefixIntro, Zenon

\* The next block of the prompt is in use, besides those that were.
LEMMA ActiveAppend ==
  ASSUME NEW s \in Requests, NEW h, table \in [Requests -> Seq(Hashes)],
         table' = [table EXCEPT ![s] = Append(table[s], h)]
  PROVE  Active' = Active \cup {h}
  <1>1. \A r \in Requests : r # s => table'[r] = table[r]
    OBVIOUS
  <1>2. table'[s] = Append(table[s], h) /\ table[s] \in Seq(Hashes)
    OBVIOUS
  <1>3. ToSet(Append(table[s], h)) = ToSet(table[s]) \cup {h}
    <2> DEFINE q == table[s]
               p == Append(q, h)
    <2>1. /\ Len(q) \in Nat /\ DOMAIN q = 1 .. Len(q) /\ DOMAIN p = 1 .. Len(q) + 1
          /\ \A i \in 1 .. Len(q) : i \in DOMAIN p /\ p[i] = q[i]
          /\ p[Len(q) + 1] = h /\ Len(q) + 1 \in DOMAIN p
          /\ \A i \in DOMAIN p : i \in 1 .. Len(q) \/ i = Len(q) + 1
      BY <1>2
    <2> HIDE DEF q, p
    <2>2. ToSet(p) = ToSet(q) \cup {h}
      BY <2>1 DEF ToSet
    <2> QED BY <2>2 DEF p, q
  <1>4. ToSet(table'[s]) = ToSet(table[s]) \cup {h}
    BY <1>2, <1>3
  <1>5. \A x : x \in Active <=> \E r \in Requests : x \in ToSet(table[r])
    BY DEF Active
  <1>6. \A x : x \in Active' <=> \E r \in Requests : x \in ToSet(table'[r])
    BY DEF Active
  <1>7. ASSUME NEW x, x \in Active' PROVE x \in Active \cup {h}
    BY <1>1, <1>4, <1>5, <1>6, <1>7
  <1>8. ASSUME NEW x, x \in Active \cup {h} PROVE x \in Active'
    BY <1>1, <1>4, <1>5, <1>6, <1>8
  <1> QED BY <1>7, <1>8

\* The blocks that only s uses are in use no more.
LEMMA ActiveFree ==
  ASSUME NEW s \in Requests, table \in [Requests -> Seq(Hashes)],
         table' = [table EXCEPT ![s] = <<>>]
  PROVE  Active' = Active \ FreedBy(s) /\ FreedBy(s) \subseteq Active
  <1>1. \A r \in Requests : r # s => table'[r] = table[r]
    OBVIOUS
  <1>2. ToSet(table'[s]) = {}
    BY DEF ToSet
  <1>3. \A x : x \in FreedBy(s) <=> /\ x \in ToSet(table[s])
                                   /\ \A r \in Requests : r # s => x \notin ToSet(table[r])
    BY DEF FreedBy
  <1>5. \A x : x \in Active <=> \E r \in Requests : x \in ToSet(table[r])
    BY DEF Active
  <1>6. \A x : x \in Active' <=> \E r \in Requests : x \in ToSet(table'[r])
    BY DEF Active
  <1>7. ASSUME NEW x, x \in Active' PROVE x \in Active \ FreedBy(s)
    BY <1>1, <1>2, <1>3, <1>5, <1>6, <1>7
  <1>8. ASSUME NEW x, x \in Active \ FreedBy(s) PROVE x \in Active'
    BY <1>1, <1>3, <1>5, <1>6, <1>8
  <1>9. FreedBy(s) \subseteq Active
    BY <1>3, <1>5
  <1> QED BY <1>7, <1>8, <1>9

\* There are finitely many blocks of generated tokens.
LEMMA GrownFinite ==
  /\ IsFiniteSet(Grown) /\ Cardinality(Grown) \in Nat
  /\ IsFiniteSet(Grown') /\ Cardinality(Grown') \in Nat
  <1>1. IsFiniteSet(1 .. MaxExtra)
    <2>1. 1 \in Int /\ MaxExtra \in Int
      BY SchedulingAssumption
    <2> QED BY <2>1, FS_Interval
  <1>2. IsFiniteSet(Requests \X (1 .. MaxExtra))
    BY <1>1, SchedulingAssumption, FS_Product
  <1>3. /\ Grown \in SUBSET (Requests \X (1 .. MaxExtra))
        /\ Grown' \in SUBSET (Requests \X (1 .. MaxExtra))
    BY DEF Grown
  <1>4. IsFiniteSet(Grown) /\ IsFiniteSet(Grown')
    BY <1>2, <1>3, FS_Subset
  <1> QED BY <1>4, FS_CardinalityType

\* One more block of generated tokens.
LEMMA GrownMore ==
  ASSUME NEW s \in Requests, extra \in [Requests -> 0 .. MaxExtra], extra[s] < MaxExtra,
         extra' = [extra EXCEPT ![s] = extra[s] + 1]
  PROVE  Cardinality(Grown') = Cardinality(Grown) + 1 /\ extra' \in [Requests -> 0 .. MaxExtra]
  <1> DEFINE n == extra[s] + 1
  <1>1. n \in 1 .. MaxExtra /\ n \in 0 .. MaxExtra /\ extra[s] \in Nat /\ ~(n <= extra[s])
    BY SchedulingAssumption
  <1>2. \A r \in Requests : extra'[r] = IF r = s THEN n ELSE extra[r]
    OBVIOUS
  <1>3. \A k \in 1 .. MaxExtra : k <= n <=> k <= extra[s] \/ k = n
    BY <1>1
  <1> HIDE DEF n
  <1>4. \A r \in Requests, k \in 1 .. MaxExtra :
          <<r, k>> \in Grown' <=> <<r, k>> \in Grown \/ <<r, k>> = <<s, n>>
    BY <1>2, <1>3 DEF Grown
  <1>5. /\ \A g \in Grown' : \E r \in Requests, k \in 1 .. MaxExtra : g = <<r, k>>
        /\ \A g \in Grown : \E r \in Requests, k \in 1 .. MaxExtra : g = <<r, k>>
    BY DEF Grown
  <1>6. Grown' = Grown \cup {<<s, n>>}
    BY <1>1, <1>4, <1>5
  <1>7. <<s, n>> \notin Grown
    BY <1>1 DEF Grown
  <1>8. extra' \in [Requests -> 0 .. MaxExtra]
    BY <1>1 DEF n
  <1> QED BY <1>6, <1>7, <1>8, GrownFinite, FS_AddElement

\* The blocks of generated tokens of s go.
LEMMA GrownLess ==
  ASSUME NEW s \in Requests, extra \in [Requests -> 0 .. MaxExtra],
         extra' = [extra EXCEPT ![s] = 0]
  PROVE  Cardinality(Grown') <= Cardinality(Grown) /\ extra' \in [Requests -> 0 .. MaxExtra]
  <1>1. \A r \in Requests : extra'[r] = IF r = s THEN 0 ELSE extra[r]
    OBVIOUS
  <1>2. \A k \in 1 .. MaxExtra : ~(k <= 0)
    OBVIOUS
  <1>3. Grown' \subseteq Grown
    BY <1>1, <1>2 DEF Grown
  <1>4. extra' \in [Requests -> 0 .. MaxExtra]
    BY SchedulingAssumption
  <1> QED BY <1>3, <1>4, GrownFinite, FS_Subset

\* One round of the bisection.
BisectStep(b, hashes) ==
  LET mid == (b.lo + b.hi) \div 2
  IN  IF b.lo >= b.hi THEN b
      ELSE IF IsCached(hashes[mid + 1]) THEN [b EXCEPT !.lo = mid + 1]
      ELSE [b EXCEPT !.hi = mid]

BisectBody(f, hashes, m) ==
  [k \in 0 .. m |-> IF k = 0 THEN [lo |-> 0, hi |-> Len(hashes)]
                    ELSE BisectStep(f[k - 1], hashes)]

\* Bisect is a function that satisfies its recursion.
LEMMA BisectFunction ==
  ASSUME NEW H, NEW q \in Seq(H)
  PROVE  Bisect(q) = BisectBody(Bisect(q), q, Len(q))
  <1> DEFINE n == Len(q)
             G == {m \in 0 .. n : \E f : f = BisectBody(f, q, m)}
  <1>0. n \in Nat
    OBVIOUS
  <1>1. 0 \in G
    <2> DEFINE f == [i \in 0 .. 0 |-> [lo |-> 0, hi |-> n]]
    <2>1. f = BisectBody(f, q, 0)
      BY DEF BisectBody
    <2> QED BY <1>0, <2>1
  <1>2. ASSUME NEW i \in 1 .. n, i - 1 \in G
        PROVE  i \in G
    <2>1. PICK f : f = BisectBody(f, q, i - 1)
      BY <1>2
    <2> DEFINE g == [k \in 0 .. i |-> IF k = i THEN BisectStep(f[i - 1], q) ELSE f[k]]
    <2>2. \A k \in 0 .. i - 1 : g[k] = f[k]
      OBVIOUS
    <2>3. \A k \in 0 .. i - 1 : f[k] = IF k = 0 THEN [lo |-> 0, hi |-> n]
                                       ELSE BisectStep(f[k - 1], q)
      BY <2>1 DEF BisectBody
    <2>4. \A k \in 0 .. i : g[k] = IF k = 0 THEN [lo |-> 0, hi |-> n]
                                   ELSE BisectStep(g[k - 1], q)
      <3> SUFFICES ASSUME NEW k \in 0 .. i
                   PROVE  g[k] = IF k = 0 THEN [lo |-> 0, hi |-> n]
                                 ELSE BisectStep(g[k - 1], q)
        OBVIOUS
      <3>1. CASE k = i
        <4>1. g[k] = BisectStep(f[i - 1], q)
          BY <3>1
        <4>2. g[k - 1] = f[i - 1] /\ k # 0
          BY <3>1, <2>2
        <4> QED BY <3>1, <4>1, <4>2
      <3>2. CASE k # i
        <4>1. g[k] = f[k] /\ k \in 0 .. i - 1
          BY <3>2
        <4>2. k # 0 => g[k - 1] = f[k - 1]
          BY <4>1
        <4> HIDE DEF g
        <4> QED BY <2>3, <4>1, <4>2
      <3> QED BY <3>1, <3>2
    <2>5. g = [k \in 0 .. i |-> g[k]]
      OBVIOUS
    <2> HIDE DEF g
    <2>6. g = BisectBody(g, q, i)
      BY <2>4, <2>5 DEF BisectBody
    <2> QED BY <2>6
  <1>3. n \in G
    <2> HIDE DEF G, n
    <2>1. \A i \in 1 .. n : i - 1 \in G => i \in G
      BY <1>2
    <2>2. \A i \in 0 .. n : i \in G
      BY <1>0, <1>1, <2>1, IndexInduction
    <2>3. n \in 0 .. n
      BY <1>0
    <2> QED BY <2>2, <2>3
  <1> DEFINE h == CHOOSE f : f = BisectBody(f, q, Len(q))
  <1>4. \E f : f = BisectBody(f, q, Len(q))
    BY <1>3
  <1>5. h = BisectBody(h, q, Len(q))
    BY <1>4
  <1>6. Bisect(q) = h
    BY DEF Bisect, BisectBody, BisectStep
  <1> QED BY <1>5, <1>6

\* The bounds of the bisection stay within the prompt.
LEMMA PrefixWithin ==
  ASSUME NEW H, NEW q \in Seq(H)
  PROVE  FindCachedBlocksPrefix(q) \in 0 .. Len(q)
  <1> DEFINE n == Len(q)
             f == Bisect(q)
             B == [lo : 0 .. n, hi : 0 .. n]
  <1>1. n \in Nat
    OBVIOUS
  <1>2. f = BisectBody(f, q, n)
    BY BisectFunction
  <1> HIDE DEF n, f
  <1>3. \A k \in 0 .. n : f[k] = IF k = 0 THEN [lo |-> 0, hi |-> n] ELSE BisectStep(f[k - 1], q)
    BY <1>2 DEF BisectBody, n
  <1>4. ASSUME NEW b \in B
        PROVE  BisectStep(b, q) \in B
    <2>1. b.lo \in 0 .. n /\ b.hi \in 0 .. n /\ b.lo \in Nat /\ b.hi \in Nat
      BY <1>1
    <2> DEFINE mid == (b.lo + b.hi) \div 2
    <2>2. CASE b.lo >= b.hi
      BY <2>2 DEF BisectStep
    <2>3. CASE ~(b.lo >= b.hi)
      <3>1. mid \in 0 .. n /\ mid + 1 \in 0 .. n
        BY <1>1, <2>1, <2>3
      <3> HIDE DEF mid
      <3>2. [b EXCEPT !.lo = mid + 1] \in B /\ [b EXCEPT !.hi = mid] \in B
        BY <3>1
      <3>3. BisectStep(b, q) \in {[b EXCEPT !.lo = mid + 1], [b EXCEPT !.hi = mid]}
        BY <2>3 DEF BisectStep, mid
      <3> QED BY <3>2, <3>3
    <2> QED BY <2>2, <2>3
  <1> DEFINE G == {k \in 0 .. n : f[k] \in B}
  <1>5. 0 \in G
    <2>1. 0 \in 0 .. n /\ n \in 0 .. n
      BY <1>1
    <2>2. f[0] = [lo |-> 0, hi |-> n]
      BY <1>3, <2>1
    <2> QED BY <2>1, <2>2
  <1>6. ASSUME NEW i \in 1 .. n, i - 1 \in G
        PROVE  i \in G
    <2>1. i \in 0 .. n /\ i # 0
      BY <1>1
    <2>2. f[i] = BisectStep(f[i - 1], q)
      BY <1>3, <2>1
    <2>3. f[i - 1] \in B
      BY <1>6
    <2> HIDE DEF B
    <2>4. f[i] \in B
      BY <1>4, <2>2, <2>3
    <2> QED BY <2>1, <2>4
  <1>7. n \in G
    <2> HIDE DEF G
    <2>1. \A i \in 1 .. n : i - 1 \in G => i \in G
      BY <1>6
    <2>2. \A i \in 0 .. n : i \in G
      BY <1>1, <1>5, <2>1, IndexInduction
    <2>3. n \in 0 .. n
      BY <1>1
    <2> QED BY <2>2, <2>3
  <1>8. f[n].lo \in 0 .. n
    BY <1>7
  <1> QED BY <1>8 DEF FindCachedBlocksPrefix, n, f

\* Whole blocks that fit into b tokens.
LEMMA WholeBlocks ==
  ASSUME NEW b \in Nat
  PROVE  /\ BlockSize * (b \div BlockSize) \in Nat
         /\ BlockSize * (b \div BlockSize) <= b
  <1>1. BlockSize \in Nat /\ BlockSize > 0
    BY SchedulingAssumption
  <1> QED BY <1>1

\* So many tokens fill so many blocks.
LEMMA BlocksFilled ==
  ASSUME NEW k \in Nat
  PROVE  BlockSize * k \in Nat /\ (BlockSize * k) \div BlockSize = k
  <1>1. BlockSize \in Nat /\ BlockSize > 0
    BY SchedulingAssumption
  <1> QED BY <1>1

\* Tokens fill a number of blocks.
LEMMA BlocksOf ==
  ASSUME NEW k \in Nat
  PROVE  k \div BlockSize \in Nat
  <1>1. BlockSize \in Nat /\ BlockSize > 0
    BY SchedulingAssumption
  <1> QED BY <1>1

\* What is known of the chunk of a request in the queues: it is a number of tokens,
\* with chunked prefill no more than the budget, and without it the whole prompt.
LEMMA ChunkFacts ==
  ASSUME TypeOK, NEW s \in Requests, NEW cached \in Nat
  PROVE  /\ Chunk(s, cached) \in Nat
         /\ ComputedAfter(s, cached) \in Nat
         /\ mode.chunked => Chunk(s, cached) <= budget
         /\ ~IsPrefill(s) => Chunk(s, cached) <= 1
         /\ ~mode.chunked => Len(Prompt[s]) <= ComputedAfter(s, cached)
  <1> DEFINE top == Maximum(done[s], cached)
             u == Len(Prompt[s]) - top
  <1>1. /\ done[s] \in Nat /\ Len(Prompt[s]) \in Nat /\ mode.chunked \in BOOLEAN
        /\ budget \in Nat /\ BlockSize \in Nat
    <2>1. Prompt[s] \in Seq(Hashes)
      BY SchedulingAssumption
    <2>2. mode \in [chunked : BOOLEAN, tokens : Nat]
      BY SchedulingAssumption DEF TypeOK
    <2> QED BY <2>1, <2>2, SchedulingAssumption DEF TypeOK
  <1>2. top \in Nat
    BY <1>1 DEF Maximum
  <1> HIDE DEF top
  <1>3. u \in Int
    BY <1>1, <1>2
  <1>4. NumUncached(s, cached) = u
    BY DEF NumUncached, top
  <1> HIDE DEF u
  <1> DEFINE new == NumNewTokens(s, cached)
  <1>5. new = IF IsPrefill(s) /\ u > 0 THEN BlockSize * u ELSE 1
    BY <1>4 DEF NumNewTokens
  <1>6. new \in Nat
    <2>1. CASE IsPrefill(s) /\ u > 0
      <3>1. u \in Nat
        BY <1>3, <2>1
      <3> QED BY <1>5, <2>1, <3>1, BlocksFilled
    <2>2. CASE ~(IsPrefill(s) /\ u > 0)
      BY <1>5, <2>2
    <2> QED BY <2>1, <2>2
  <1> HIDE DEF new
  <1> DEFINE fit == BlockSize * (budget \div BlockSize)
  <1>7. fit \in Nat /\ fit <= budget
    BY <1>1, WholeBlocks
  <1> HIDE DEF fit
  <1>8. Chunk(s, cached) = IF mode.chunked THEN (IF new <= fit THEN new ELSE fit) ELSE new
    BY DEF Chunk, Minimum, new, fit
  <1>9. Chunk(s, cached) \in Nat /\ (mode.chunked => Chunk(s, cached) <= budget) /\ Chunk(s, cached) <= new
    BY <1>1, <1>6, <1>7, <1>8
  <1>10. ComputedAfter(s, cached) = top + Chunk(s, cached) \div BlockSize
    BY DEF ComputedAfter, top
  <1>11. ComputedAfter(s, cached) \in Nat
    BY <1>2, <1>9, <1>10, BlocksOf
  <1>12. ~IsPrefill(s) => Chunk(s, cached) <= 1
    BY <1>5, <1>9
  <1>13. ASSUME ~mode.chunked
         PROVE  Len(Prompt[s]) <= ComputedAfter(s, cached)
    <2>1. CASE u > 0
      <3>1. u \in Nat /\ top + u = Len(Prompt[s])
        BY <1>1, <1>2, <1>3, <2>1 DEF u
      <3>2. Chunk(s, cached) = BlockSize * u
        <4>1. IsPrefill(s)
          <5>1. done[s] <= top
            BY <1>1 DEF top, Maximum
          <5> QED BY <1>1, <1>2, <3>1, <2>1, <5>1 DEF IsPrefill
        <4> QED BY <1>5, <1>8, <1>13, <2>1, <4>1
      <3> QED BY <1>1, <1>10, <3>1, <3>2, BlocksFilled
    <2>2. CASE ~(u > 0)
      <3>1. Len(Prompt[s]) <= top
        BY <1>1, <1>2, <1>3, <2>2 DEF u
      <3>2. Chunk(s, cached) \div BlockSize \in Nat
        BY <1>9, BlocksOf
      <3> QED BY <1>1, <1>2, <1>10, <3>1, <3>2
    <2> QED BY <2>1, <2>2
  <1> QED BY <1>9, <1>11, <1>12, <1>13

-----------------------------------------------------------------------------
(* What the invariant says of a state, in the form in which it is used.     *)

\* The types.
LEMMA Types ==
  ASSUME TypeOK
  PROVE  /\ mode \in [chunked : BOOLEAN, tokens : Nat] /\ mode.chunked \in BOOLEAN
         /\ mode.tokens \in Nat /\ MaxNumSeqs <= mode.tokens /\ MaxNumSeqs \in Nat
         /\ budget \in Nat /\ budget <= mode.tokens
         /\ NumBlocks \in Nat /\ Watermark \in Nat
         /\ ToSet(waiting) \subseteq Requests /\ ToSet(running) \subseteq Requests
         /\ ToSet(preempted) \subseteq Requests /\ ToSet(queue) \subseteq Requests
         /\ Len(running) \in Nat /\ Len(queue) \in Nat
         /\ \A s \in Requests : /\ Prompt[s] \in Seq(Hashes) /\ Len(Prompt[s]) \in Nat
                                /\ Prompt[s] # <<>> /\ Len(Prompt[s]) > 0
                                /\ table[s] \in Seq(Hashes) /\ Len(table[s]) \in Nat
                                /\ done[s] \in Nat
                                /\ memo[s] # None => memo[s] \in Nat
  <1>1. /\ mode \in [chunked : BOOLEAN, tokens : Nat] /\ MaxNumSeqs <= mode.tokens
        /\ {NumBlocks, Watermark, MaxNumSeqs} \subseteq Nat
    BY SchedulingAssumption DEF TypeOK
  <1>2. mode.chunked \in BOOLEAN /\ mode.tokens \in Nat
    BY <1>1
  <1>3. budget \in Nat /\ budget <= mode.tokens
    BY <1>2 DEF TypeOK
  <1>4. /\ waiting \in Seq(Requests) /\ running \in Seq(Requests)
        /\ preempted \in Seq(Requests) /\ queue \in Seq(Requests)
    BY DEF TypeOK
  <1>5. /\ ToSet(waiting) \subseteq Requests /\ ToSet(running) \subseteq Requests
        /\ ToSet(preempted) \subseteq Requests /\ ToSet(queue) \subseteq Requests
    <2>1. ASSUME NEW q \in Seq(Requests) PROVE ToSet(q) \subseteq Requests
      BY DEF ToSet
    <2> QED BY <1>4, <2>1
  <1>6. Len(running) \in Nat /\ Len(queue) \in Nat
    BY <1>4
  <1>7. ASSUME NEW s \in Requests
        PROVE  /\ Prompt[s] \in Seq(Hashes) /\ Len(Prompt[s]) \in Nat
               /\ Prompt[s] # <<>> /\ Len(Prompt[s]) > 0
               /\ table[s] \in Seq(Hashes) /\ Len(table[s]) \in Nat
               /\ done[s] \in Nat
               /\ memo[s] # None => memo[s] \in Nat
    <2>1. Prompt[s] \in Seq(Hashes) /\ Prompt[s] # <<>>
      BY SchedulingAssumption
    <2>2. Len(Prompt[s]) \in Nat /\ Len(Prompt[s]) > 0
      BY <2>1
    <2>3. table[s] \in Seq(Hashes)
      BY DEF TypeOK
    <2>4. done[s] \in Nat /\ (memo[s] # None => memo[s] \in Nat)
      BY DEF TypeOK
    <2> QED BY <2>1, <2>2, <2>3, <2>4
  <1> QED BY <1>1, <1>2, <1>3, <1>5, <1>6, <1>7

\* A queue with members of B, whatever they are.
LEMMA ListsType ==
  ASSUME NEW A, NEW q, Lists(q, A), NEW B, A \subseteq B
  PROVE  q \in Seq(B) /\ ToSet(q) = A /\ Lists(q, ToSet(q))
  <1>1. q \in Seq(A) /\ Len(q) \in Nat /\ \A i \in 1 .. Len(q) : q[i] \in B
    BY ListsFacts
  <1>2. q \in [1 .. Len(q) -> B]
    BY <1>1
  <1>3. ToSet(q) = A
    BY ListsFacts
  <1> QED BY <1>1, <1>2, <1>3

\* Steps that leave the blocks alone.
LEMMA BlocksFrame ==
  ASSUME table' = table, extra' = extra
  PROVE  Active' = Active /\ Grown' = Grown /\ NumUsed' = NumUsed
  BY DEF Active, Grown, NumUsed

\* Blocks in use are counted.
LEMMA NumUsedType ==
  ASSUME Reserved, IsFiniteSet(resident)
  PROVE  /\ Cardinality(Active) \in Nat /\ Cardinality(Grown) \in Nat
         /\ NumUsed \in Nat /\ Cardinality(resident) \in Nat
         /\ NumUsed = Cardinality(Active) + Cardinality(Grown)
  <1>1. Cardinality(Active) \in Nat /\ Cardinality(resident) \in Nat
    BY FS_CardinalityType DEF Reserved
  <1> QED BY <1>1, GrownFinite DEF NumUsed

\* A block is there as long as not all are in use, and the evictor then has one less
\* than there are free, after it is taken.
LEMMA TakeBlockFits ==
  ASSUME IndInv, NumUsed < NumBlocks, TakeBlock
  PROVE  /\ failed' = FALSE /\ resident' \subseteq resident /\ IsFiniteSet(resident')
         /\ NumUsed + 1 + Cardinality(resident') <= NumBlocks
  <1>1. /\ NumUsed \in Nat /\ Cardinality(resident) \in Nat /\ IsFiniteSet(resident)
        /\ NumBlocks \in Nat
        /\ NumUsed + Cardinality(resident) <= NumBlocks
    BY NumUsedType, SchedulingAssumption DEF IndInv, Reserved, WithinDevice
  <1>2. failed' = FALSE
    <2>1. ~(NumUsed >= NumBlocks)
      BY <1>1
    <2> QED BY <2>1 DEF TakeBlock, IndInv
  <1>3. CASE NumUsed + Cardinality(resident) >= NumBlocks /\ resident # {}
    <2>1. PICK victim \in resident : resident' = resident \ {victim}
      BY <1>3 DEF TakeBlock
    <2>2. IsFiniteSet(resident') /\ Cardinality(resident') = Cardinality(resident) - 1
      BY <1>1, <2>1, FS_RemoveElement
    <2> QED BY <1>1, <1>2, <2>1, <2>2
  <1>4. CASE ~(NumUsed + Cardinality(resident) >= NumBlocks /\ resident # {})
    <2>1. resident' = resident
      BY <1>4 DEF TakeBlock
    <2>2. resident = {} => Cardinality(resident) = 0
      BY FS_EmptySet
    <2> QED BY <1>1, <1>2, <1>4, <2>1, <2>2
  <1> QED BY <1>3, <1>4

\* Blocks move to the evictor, and those of generated tokens are freed.
LEMMA FewerBlocks ==
  ASSUME NEW a \in Nat, NEW r \in Nat, NEW g \in Nat, NEW a2 \in Nat, NEW r2 \in Nat, NEW g2 \in Nat,
         a2 + r2 = a + r, g2 <= g
  PROVE  (a2 + g2) + r2 <= (a + g) + r
  OBVIOUS

\* A sequence is freed between two passes, or when a decode preempts it.
LEMMA FreeKeeps ==
  ASSUME IndInv, NEW s \in Requests, FreeSeq(s), phase \in {"idle", "running"},
         UNCHANGED <<mode, phase, current, budget, batch, touched, current_ok>>,
         InOnePlace', Scheduled' = Scheduled \ {s},
         waiting' \in Seq(Requests), running' \in Seq(Requests),
         preempted' \in Seq(Requests), queue' \in Seq(Requests),
         Len(queue') <= Len(queue), Len(running') <= Len(running)
  PROVE  IndInv'
  <1>1. /\ failed' = (failed \/ (table[s] # <<>> /\ memo[s] = None))
        /\ resident' = resident \cup FreedBy(s) /\ computed' = computed \ FreedBy(s)
        /\ table' = [table EXCEPT ![s] = <<>>] /\ extra' = [extra EXCEPT ![s] = 0]
        /\ memo' = [memo EXCEPT ![s] = None] /\ done' = [done EXCEPT ![s] = 0]
    BY DEF FreeSeq
  <1>2. /\ TypeOK /\ failed = FALSE /\ InOnePlace /\ Tables /\ Reserved /\ WithinDevice /\ InPass
        /\ Pinned /\ Budgeted
    BY DEF IndInv
  <1>3. touched = {} /\ current_ok = {} /\ Admitted = {} /\ Admitted' = {} /\ phase # "allocate"
    BY <1>2 DEF InPass, Admitted
  <1>4. /\ table \in [Requests -> Seq(Hashes)] /\ extra \in [Requests -> 0 .. MaxExtra]
        /\ memo \in [Requests -> Nat \cup {None}] /\ done \in [Requests -> Nat]
        /\ \A r \in Requests : IsPrefix(table[r], Prompt[r])
        /\ resident \cup computed \cup touched \subseteq Hashes
    BY <1>2 DEF TypeOK
  <1>5. Active' = Active \ FreedBy(s) /\ FreedBy(s) \subseteq Active
    BY <1>1, <1>4, ActiveFree
  <1>6. /\ Cardinality(Grown') <= Cardinality(Grown) /\ extra' \in [Requests -> 0 .. MaxExtra]
    BY <1>1, <1>4, GrownLess
  <1>7. failed' = FALSE
    <2>1. table[s] # <<>> => memo[s] # None
      BY <1>2 DEF Tables
    <2> QED BY <1>1, <1>2, <2>1
  <1>8. /\ \A r \in Requests : r # s => table'[r] = table[r] /\ memo'[r] = memo[r] /\ done'[r] = done[r]
        /\ table'[s] = <<>> /\ memo'[s] = None /\ done'[s] = 0
    BY <1>1, <1>4
  <1>9. TypeOK'
    <2>1. table' \in [Requests -> Seq(Hashes)]
      BY <1>1, <1>4
    <2>2. memo' \in [Requests -> Nat \cup {None}] /\ done' \in [Requests -> Nat]
      BY <1>1, <1>4
    <2>3. IsPrefix(<<>>, Prompt[s])
      BY <1>2, Types, EmptyPrefix
    <2>4. \A r \in Requests : IsPrefix(table'[r], Prompt[r])
      BY <1>4, <1>8, <2>3
    <2>5. FreedBy(s) \subseteq Hashes
      <3>1. table[s] \in Seq(Hashes)
        BY <1>4
      <3> QED BY <3>1 DEF FreedBy, ToSet
    <2>6. resident' \cup computed' \cup touched' \subseteq Hashes
      BY <1>1, <1>4, <2>5
    <2>7. {waiting, running, preempted, queue}' \subseteq Seq(Requests)
      OBVIOUS
    <2> QED BY <1>2, <1>6, <2>1, <2>2, <2>4, <2>6, <2>7 DEF TypeOK
  <1>10. Tables'
    <2>1. \A r \in Requests : /\ r \in Scheduled => table[r] = Prompt[r] /\ memo[r] # None
                              /\ r \notin Scheduled => table[r] = <<>>
                              /\ memo[r] # None => memo[r] <= Len(Prompt[r])
      BY <1>2, <1>3 DEF Tables
    <2> QED BY <1>3, <1>8, <2>1 DEF Tables
  <1>11. /\ IsFiniteSet(Active') /\ IsFiniteSet(resident')
         /\ Cardinality(Active') + Cardinality(resident') = Cardinality(Active) + Cardinality(resident)
    <2>1. IsFiniteSet(Active) /\ IsFiniteSet(resident) /\ resident \cap Active = {}
      BY <1>2 DEF Reserved, WithinDevice
    <2>2. IsFiniteSet(FreedBy(s)) /\ Cardinality(FreedBy(s)) \in Nat
      BY <1>5, <2>1, FS_Subset, FS_CardinalityType
    <2>3. /\ Active \cap FreedBy(s) = FreedBy(s) /\ resident \cap FreedBy(s) = {}
      BY <1>5, <2>1
    <2>4. IsFiniteSet(Active') /\ Cardinality(Active') = Cardinality(Active) - Cardinality(FreedBy(s))
      BY <1>5, <2>1, <2>3, FS_Difference
    <2>5. /\ IsFiniteSet(resident')
          /\ Cardinality(resident') = Cardinality(resident) + Cardinality(FreedBy(s)) - Cardinality({})
      <3>1. /\ IsFiniteSet(resident \cup FreedBy(s))
            /\ Cardinality(resident \cup FreedBy(s))
                 = Cardinality(resident) + Cardinality(FreedBy(s)) - Cardinality(resident \cap FreedBy(s))
        BY <2>1, <2>2, FS_Union
      <3> QED BY <1>1, <2>3, <3>1
    <2>6. Cardinality(Active) \in Nat /\ Cardinality(resident) \in Nat /\ Cardinality({}) = 0
      BY <2>1, FS_CardinalityType, FS_EmptySet
    <2> QED BY <2>2, <2>4, <2>5, <2>6
  <1>12. Reserved'
    BY <1>3, <1>11 DEF Reserved
  <1>13. WithinDevice'
    <2>1. NumUsed + Cardinality(resident) <= NumBlocks /\ resident \cap Active = {}
          /\ computed \subseteq Active
      BY <1>2 DEF WithinDevice
    <2>2. NumUsed' + Cardinality(resident') <= NumUsed + Cardinality(resident)
      <3>1. /\ Cardinality(Active) \in Nat /\ Cardinality(resident) \in Nat
            /\ Cardinality(Active') \in Nat /\ Cardinality(resident') \in Nat
        BY <1>2, <1>11, FS_CardinalityType DEF Reserved
      <3>2. Cardinality(Grown) \in Nat /\ Cardinality(Grown') \in Nat
        BY GrownFinite
      <3>3. /\ NumUsed = Cardinality(Active) + Cardinality(Grown)
            /\ NumUsed' = Cardinality(Active') + Cardinality(Grown')
        BY DEF NumUsed
      <3>4. /\ Cardinality(Grown') <= Cardinality(Grown)
            /\ Cardinality(Active') + Cardinality(resident') = Cardinality(Active) + Cardinality(resident)
        BY <1>6, <1>11
      <3> QED BY <3>1, <3>2, <3>3, <3>4, FewerBlocks
    <2>3. NumUsed' \in Int /\ Cardinality(resident') \in Int /\ NumUsed \in Int
          /\ Cardinality(resident) \in Int /\ NumBlocks \in Int
      <3>1. /\ Cardinality(Active) \in Nat /\ Cardinality(resident) \in Nat
            /\ Cardinality(Active') \in Nat /\ Cardinality(resident') \in Nat
        BY <1>2, <1>11, FS_CardinalityType DEF Reserved
      <3>2. Cardinality(Grown) \in Nat /\ Cardinality(Grown') \in Nat
        BY GrownFinite
      <3> QED BY <3>1, <3>2, SchedulingAssumption DEF NumUsed
    <2>4. NumUsed' + Cardinality(resident') <= NumBlocks
      BY <2>1, <2>2, <2>3
    <2>5. resident' \cap Active' = {} /\ computed' \subseteq Active' /\ touched' \subseteq Active'
      BY <1>1, <1>3, <1>5, <2>1
    <2> QED BY <2>4, <2>5 DEF WithinDevice
  <1>14. InPass'
    BY <1>2, <1>3 DEF InPass
  <1>15. Pinned'
    BY <1>3 DEF Pinned
  <1>16. Budgeted'
    <2>1. \A r \in Scheduled' : r \in Scheduled /\ r # s /\ r \in Requests
      BY <1>2, Types DEF Scheduled
    <2>2. /\ Len(running) \in Nat /\ Len(queue) \in Nat /\ Len(running') \in Nat /\ Len(queue') \in Nat
          /\ MaxNumSeqs \in Nat /\ budget \in Nat
      BY <1>2, Types
    <2>3. Len(running) + Len(queue) <= MaxNumSeqs
      BY <1>2, <1>3, <2>2 DEF Budgeted
    <2>4. Len(running') + Len(queue') + (IF phase' = "allocate" THEN 1 ELSE 0) <= MaxNumSeqs
      BY <1>3, <2>2, <2>3
    <2>5. ASSUME ~mode.chunked
          PROVE  /\ phase = "running" => DOMAIN batch = {} /\ Len(queue') <= budget
                 /\ phase = "idle" => DOMAIN batch = {}
                 /\ \A r \in Scheduled' : /\ r \in DOMAIN batch => Len(Prompt[r]) <= batch[r]
                                          /\ r \notin DOMAIN batch => Len(Prompt[r]) <= done'[r]
      BY <1>2, <1>3, <1>8, <2>1, <2>2, <2>5 DEF Budgeted
    <2> QED BY <1>3, <2>4, <2>5 DEF Budgeted
  <1> QED BY <1>7, <1>9, <1>10, <1>12, <1>13, <1>14, <1>15, <1>16 DEF IndInv

-----------------------------------------------------------------------------
(* Requests come and go.                                                    *)

\* The parts of the invariant.
LEMMA Parts ==
  ASSUME IndInv
  PROVE  /\ TypeOK /\ failed = FALSE /\ InOnePlace /\ Tables /\ Reserved /\ WithinDevice
         /\ InPass /\ Pinned /\ Budgeted
  BY DEF IndInv

\* A step that leaves the blocks and what is known of them alone.
LEMMA BlocksKept ==
  ASSUME Reserved, WithinDevice, phase' # "allocate",
         UNCHANGED <<table, extra, resident, computed, touched>>
  PROVE  Reserved' /\ WithinDevice'
  <1>1. Active' = Active /\ NumUsed' = NumUsed
    BY BlocksFrame
  <1> QED BY <1>1 DEF Reserved, WithinDevice

\* add_seq_group puts a new request behind those that wait.
LEMMA ArriveStep ==
  ASSUME IndInv, mode' = mode, NEW s \in Requests, Arrive(s)
  PROVE  IndInv'
  <1>1. /\ phase = "idle" /\ s \notin ToSet(waiting) /\ s \notin ToSet(running)
        /\ waiting' = Append(waiting, s)
        /\ UNCHANGED <<running, preempted, queue, phase, current, budget, batch>>
        /\ UNCHANGED <<resident, computed, touched>>
        /\ UNCHANGED <<table, extra, memo, done>>
        /\ UNCHANGED <<current_ok, failed>>
    BY DEF Arrive, Idle, cache, perSeq
  <1>2. /\ TypeOK /\ failed = FALSE /\ InOnePlace /\ Tables /\ Reserved /\ WithinDevice
        /\ InPass /\ Pinned /\ Budgeted
    BY Parts
  <1>3. Scheduled' = Scheduled /\ Admitted' = Admitted /\ Active' = Active
    BY <1>1, BlocksFrame DEF Scheduled, Admitted
  <1>4. Lists(waiting', ToSet(waiting) \cup {s}) /\ ToSet(waiting') = ToSet(waiting) \cup {s}
    BY <1>1, <1>2, ListsAppend DEF InOnePlace
  <1>5. TypeOK'
    <2>1. waiting \in Seq(Requests)
      BY <1>2 DEF TypeOK
    <2>2. waiting' \in Seq(Requests)
      BY <1>1, <2>1
    <2> QED BY <1>1, <1>2, <2>2 DEF TypeOK
  <1>6. InOnePlace'
    <2>1. queue = <<>> /\ preempted = <<>> /\ Admitted = {}
      BY <1>1, <1>2 DEF InOnePlace, Admitted
    <2>2. s \notin Scheduled \cup ToSet(preempted) \cup Admitted
      BY <1>1, <2>1, ListsEmpty DEF Scheduled
    <2> QED BY <1>1, <1>2, <1>3, <1>4, <2>2 DEF InOnePlace
  <1>7. Tables'
    BY <1>1, <1>2, <1>3 DEF Tables
  <1>8. Reserved' /\ WithinDevice'
    BY <1>1, <1>2, BlocksKept
  <1>9. InPass' /\ Pinned'
    BY <1>1, <1>2, <1>3 DEF InPass, Pinned
  <1>10. Budgeted'
    BY <1>1, <1>2, <1>3 DEF Budgeted
  <1> QED BY <1>1, <1>2, <1>5, <1>6, <1>7, <1>8, <1>9, <1>10 DEF IndInv

\* A member leaves a queue.
LEMMA QueueWithout ==
  ASSUME NEW q \in Seq(Requests), Lists(q, ToSet(q)), NEW s \in Requests
  PROVE  LET p == Keep(q, Requests \ {s})
         IN  /\ p \in Seq(Requests) /\ Lists(p, ToSet(p)) /\ ToSet(p) = ToSet(q) \ {s}
             /\ Len(p) <= Len(q)
  <1> DEFINE p == Keep(q, Requests \ {s})
             A == ToSet(q) \ {s}
  <1>1. ToSet(q) \subseteq Requests
    BY DEF ToSet
  <1>2. ToSet(q) \cap (Requests \ {s}) = A
    BY <1>1
  <1>3. Lists(p, A) /\ ToSet(p) = A
    <2>1. /\ Lists(p, ToSet(q) \cap (Requests \ {s}))
          /\ ToSet(p) = ToSet(q) \cap (Requests \ {s})
      BY ListsKeep
    <2> HIDE DEF A, p
    <2> QED BY <1>2, <2>1
  <1>4. p \in Seq(Requests)
    BY <1>1, <1>3, ListsType
  <1>5. Len(p) <= Len(q)
    <2>1. IsFiniteSet(ToSet(q)) /\ Cardinality(ToSet(q)) = Len(q) /\ Cardinality(A) = Len(p)
      BY <1>3, ListsLen
    <2>2. A \in SUBSET ToSet(q)
      OBVIOUS
    <2>3. Cardinality(A) <= Cardinality(ToSet(q))
      BY <2>1, <2>2, FS_Subset
    <2> QED BY <2>1, <2>3
  <1> QED BY <1>3, <1>4, <1>5

\* free_finished_seq_groups
LEMMA FinishStep ==
  ASSUME IndInv, mode' = mode, NEW s \in Requests, Finish(s)
  PROVE  IndInv'
  <1>1. /\ phase = "idle" /\ s \in ToSet(running)
        /\ running' = Keep(running, Requests \ {s}) /\ FreeSeq(s)
        /\ UNCHANGED <<waiting, preempted, queue, phase, current, budget, batch, touched, current_ok>>
    BY DEF Finish, Idle
  <1>2. TypeOK /\ InOnePlace
    BY Parts
  <1>3. /\ waiting \in Seq(Requests) /\ running \in Seq(Requests)
        /\ preempted \in Seq(Requests) /\ queue \in Seq(Requests)
    BY <1>2 DEF TypeOK
  <1>4. /\ running' \in Seq(Requests) /\ Lists(running', ToSet(running'))
        /\ ToSet(running') = ToSet(running) \ {s} /\ Len(running') <= Len(running)
    BY <1>1, <1>2, <1>3, QueueWithout DEF InOnePlace
  <1>5. queue = <<>> /\ preempted = <<>> /\ ToSet(queue) = {} /\ ToSet(preempted) = {}
    BY <1>1, <1>2, ListsEmpty DEF InOnePlace
  <1>6. Scheduled' = Scheduled \ {s} /\ Admitted = {} /\ Admitted' = {}
    BY <1>1, <1>4, <1>5 DEF Scheduled, Admitted
  <1>7. InOnePlace'
    BY <1>1, <1>2, <1>4, <1>5, <1>6 DEF InOnePlace, Scheduled
  <1>8. Len(queue') <= Len(queue)
    BY <1>1, <1>3
  <1> QED BY <1>1, <1>3, <1>4, <1>6, <1>7, <1>8, FreeKeeps

\* abort_seq_group
LEMMA AbortStep ==
  ASSUME IndInv, mode' = mode, NEW s \in Requests, Abort(s)
  PROVE  IndInv'
  <1>1. /\ phase = "idle"
        /\ waiting' = Keep(waiting, Requests \ {s})
        /\ running' = Keep(running, Requests \ {s}) /\ FreeSeq(s)
        /\ UNCHANGED <<preempted, queue, phase, current, budget, batch, touched, current_ok>>
    BY DEF Abort, Idle
  <1>2. TypeOK /\ InOnePlace
    BY Parts
  <1>3. /\ waiting \in Seq(Requests) /\ running \in Seq(Requests)
        /\ preempted \in Seq(Requests) /\ queue \in Seq(Requests)
    BY <1>2 DEF TypeOK
  <1>4. /\ running' \in Seq(Requests) /\ Lists(running', ToSet(running'))
        /\ ToSet(running') = ToSet(running) \ {s} /\ Len(running') <= Len(running)
    BY <1>1, <1>2, <1>3, QueueWithout DEF InOnePlace
  <1>41. /\ waiting' \in Seq(Requests) /\ Lists(waiting', ToSet(waiting'))
         /\ ToSet(waiting') = ToSet(waiting) \ {s}
    BY <1>1, <1>2, <1>3, QueueWithout DEF InOnePlace
  <1>5. queue = <<>> /\ preempted = <<>> /\ ToSet(queue) = {} /\ ToSet(preempted) = {}
    BY <1>1, <1>2, ListsEmpty DEF InOnePlace
  <1>6. Scheduled' = Scheduled \ {s} /\ Admitted = {} /\ Admitted' = {}
    BY <1>1, <1>4, <1>5 DEF Scheduled, Admitted
  <1>7. InOnePlace'
    BY <1>1, <1>2, <1>4, <1>41, <1>5, <1>6 DEF InOnePlace, Scheduled
  <1>8. Len(queue') <= Len(queue)
    BY <1>1, <1>3
  <1> QED BY <1>1, <1>3, <1>4, <1>41, <1>6, <1>7, <1>8, FreeKeeps

\* _preempt_by_recompute frees the last of the queue.
LEMMA RunPreemptStep ==
  ASSUME IndInv, mode' = mode, RunPreempt
  PROVE  IndInv'
  <1> DEFINE s == Last(queue)
  <1>1. /\ phase = "running" /\ queue # <<>> /\ queue' = Front(queue)
        /\ preempted' = Append(preempted, s) /\ FreeSeq(s)
        /\ UNCHANGED <<waiting, running, phase, current, budget, batch, touched, current_ok>>
    BY DEF RunPreempt, HasBudget
  <1>2. TypeOK /\ InOnePlace
    BY Parts
  <1>3. /\ waiting \in Seq(Requests) /\ running \in Seq(Requests)
        /\ preempted \in Seq(Requests) /\ queue \in Seq(Requests)
    BY <1>2 DEF TypeOK
  <1>4. /\ s \in ToSet(queue) /\ Len(queue') = Len(queue) - 1
        /\ Lists(queue', ToSet(queue) \ {s}) /\ ToSet(queue') = ToSet(queue) \ {s}
    BY <1>1, <1>2, ListsFront DEF InOnePlace
  <1> HIDE DEF s
  <1>5. s \in Requests /\ s \notin ToSet(waiting) /\ s \notin ToSet(running) /\ s \notin ToSet(preempted)
    <2>1. ToSet(queue) \subseteq Requests
      BY <1>2, Types
    <2> QED BY <1>2, <1>4, <2>1 DEF InOnePlace, Scheduled
  <1>6. /\ Lists(preempted', ToSet(preempted) \cup {s})
        /\ ToSet(preempted') = ToSet(preempted) \cup {s} /\ preempted' \in Seq(Requests)
    <2>1. Lists(preempted, ToSet(preempted))
      BY <1>2 DEF InOnePlace
    <2>2. preempted' \in Seq(Requests)
      BY <1>1, <1>3, <1>5
    <2>3. /\ Lists(Append(preempted, s), ToSet(preempted) \cup {s})
          /\ ToSet(Append(preempted, s)) = ToSet(preempted) \cup {s}
      BY <1>5, <2>1, ListsAppend
    <2> QED BY <1>1, <2>2, <2>3
  <1>7. queue' \in Seq(Requests) /\ Len(queue') <= Len(queue)
    <2>1. ToSet(queue) \ {s} \subseteq Requests
      BY <1>2, Types
    <2>2. queue' \in Seq(Requests)
      BY <1>4, <2>1, ListsType
    <2> QED BY <1>3, <1>4, <2>2
  <1>8. Scheduled' = Scheduled \ {s} /\ Admitted = {} /\ Admitted' = {}
    BY <1>1, <1>4, <1>5 DEF Scheduled, Admitted
  <1>9. InOnePlace'
    BY <1>1, <1>2, <1>4, <1>5, <1>6, <1>8 DEF InOnePlace, Scheduled
  <1>10. Len(running') <= Len(running)
    BY <1>1, <1>3
  <1> QED BY <1>1, <1>3, <1>5, <1>6, <1>7, <1>8, <1>9, <1>10, FreeKeeps

-----------------------------------------------------------------------------
(* The steps of a pass that leave the blocks alone.                         *)

\* The running requests become the queue of the pass.
LEMMA StartPassStep ==
  ASSUME IndInv, mode' = mode, StartPass
  PROVE  IndInv'
  <1>1. /\ phase = "idle" /\ phase' = (IF mode.chunked THEN "running" ELSE "prefill")
        /\ budget' = mode.tokens /\ queue' = running /\ running' = <<>>
        /\ UNCHANGED <<waiting, preempted, current, batch, current_ok, failed>>
        /\ UNCHANGED <<resident, computed, touched>>
        /\ UNCHANGED <<table, extra, memo, done>>
    BY DEF StartPass, Idle, cache, perSeq
  <1>2. /\ TypeOK /\ failed = FALSE /\ InOnePlace /\ Tables /\ Reserved /\ WithinDevice
        /\ InPass /\ Pinned /\ Budgeted
    BY Parts
  <1>3. /\ mode.chunked \in BOOLEAN /\ mode.tokens \in Nat /\ MaxNumSeqs \in Nat
        /\ MaxNumSeqs <= mode.tokens /\ Len(running) \in Nat
    BY <1>2, Types
  <1>4. phase' \in {"running", "prefill"} /\ phase' # "allocate" /\ phase' # "idle"
    BY <1>1, <1>3
  <1>5. /\ queue = <<>> /\ preempted = <<>> /\ ToSet(queue) = {} /\ ToSet(running') = {}
        /\ ToSet(queue') = ToSet(running)
    BY <1>1, <1>2, ListsEmpty DEF InOnePlace
  <1>6. Scheduled' = Scheduled /\ Admitted' = {} /\ Admitted = {} /\ Active' = Active
    BY <1>1, <1>4, <1>5, BlocksFrame DEF Scheduled, Admitted
  <1>7. TypeOK'
    <2>1. budget' \in 0 .. mode.tokens
      BY <1>1, <1>3
    <2>2. running' \in Seq(Requests) /\ queue' \in Seq(Requests)
      BY <1>1, <1>2 DEF TypeOK
    <2> QED BY <1>1, <1>2, <1>4, <2>1, <2>2 DEF TypeOK
  <1>8. InOnePlace'
    BY <1>1, <1>2, <1>4, <1>5, <1>6, ListsEmpty DEF InOnePlace, Scheduled
  <1>9. Tables'
    BY <1>1, <1>2, <1>4, <1>6 DEF Tables
  <1>10. Reserved' /\ WithinDevice'
    BY <1>1, <1>2, <1>4, BlocksKept
  <1>11. InPass' /\ Pinned'
    BY <1>1, <1>2, <1>4, <1>6 DEF InPass, Pinned
  <1>12. Budgeted'
    <2>1. Len(running) <= MaxNumSeqs
      <3>1. Len(running) + Len(queue) + 0 <= MaxNumSeqs
        BY <1>1, <1>2 DEF Budgeted
      <3>2. Len(queue) = 0
        BY <1>5
      <3> QED BY <1>3, <3>1, <3>2
    <2>2. Len(running') + Len(queue') + 0 <= MaxNumSeqs
      BY <1>1, <1>3, <2>1
    <2>3. ASSUME ~mode.chunked
          PROVE  /\ DOMAIN batch = {} /\ phase' = "prefill"
                 /\ \A r \in Scheduled : /\ r \in DOMAIN batch => Len(Prompt[r]) <= batch[r]
                                         /\ r \notin DOMAIN batch => Len(Prompt[r]) <= done[r]
      BY <1>1, <1>2, <2>3 DEF Budgeted
    <2> QED BY <1>1, <1>4, <1>6, <2>2, <2>3 DEF Budgeted
  <1> QED BY <1>1, <1>2, <1>7, <1>8, <1>9, <1>10, <1>11, <1>12 DEF IndInv

\* The phase changes; the cached blocks of a request may have been counted.
LEMMA PhaseStep ==
  ASSUME IndInv, mode' = mode, phase \in {"prefill", "running"},
         UNCHANGED <<queues, current, budget, batch, cache, table, extra, done, current_ok, failed>>,
         memo' \in [Requests -> Nat \cup {None}],
         \A r \in Requests : /\ memo[r] # None => memo'[r] = memo[r]
                             /\ memo'[r] # None => memo'[r] <= Len(Prompt[r]),
         phase' \in {"prefill", "running", "execute"},
         phase' = "running" => phase = "prefill" /\ ~mode.chunked /\ DOMAIN batch = {},
         phase' = "prefill" => mode.chunked
  PROVE  IndInv'
  <1>1. /\ UNCHANGED <<waiting, running, preempted, queue>>
        /\ UNCHANGED <<current, budget, batch, current_ok, failed>>
        /\ UNCHANGED <<resident, computed, touched>>
        /\ UNCHANGED <<table, extra, done>>
    BY DEF queues, cache
  <1>2. /\ TypeOK /\ failed = FALSE /\ InOnePlace /\ Tables /\ Reserved /\ WithinDevice
        /\ InPass /\ Pinned /\ Budgeted
    BY Parts
  <1>3. phase' # "allocate" /\ phase' # "idle" /\ phase # "allocate" /\ phase # "idle"
    OBVIOUS
  <1>4. Scheduled' = Scheduled /\ Admitted' = {} /\ Admitted = {} /\ Active' = Active
    BY <1>1, <1>3, BlocksFrame DEF Scheduled, Admitted
  <1>5. TypeOK' /\ InOnePlace' /\ Tables'
    <2>1. TypeOK'
      BY <1>1, <1>2, <1>3 DEF TypeOK
    <2>2. InOnePlace'
      BY <1>1, <1>2, <1>3, <1>4 DEF InOnePlace
    <2>3. Tables'
      BY <1>1, <1>2, <1>3, <1>4 DEF Tables
    <2> QED BY <2>1, <2>2, <2>3
  <1>6. Reserved' /\ WithinDevice'
    BY <1>1, <1>2, <1>3, BlocksKept
  <1>7. InPass' /\ Pinned'
    <2>1. InPass'
      BY <1>1, <1>2, <1>3 DEF InPass
    <2>2. \A r \in current_ok : r \in Requests /\ memo[r] # None /\ memo'[r] = memo[r]
      BY <1>2 DEF TypeOK, Pinned
    <2>3. Pinned'
      BY <1>1, <1>2, <1>4, <2>2 DEF Pinned
    <2> QED BY <2>1, <2>3
  <1>8. Budgeted'
    <2>1. /\ Len(running) \in Nat /\ Len(queue) \in Nat /\ MaxNumSeqs \in Nat
          /\ mode.tokens \in Nat /\ MaxNumSeqs <= mode.tokens
      BY <1>2, Types
    <2>2. Len(running) + Len(queue) + 0 <= MaxNumSeqs
      BY <1>2, <1>3 DEF Budgeted
    <2>3. Len(queue) <= mode.tokens
      BY <2>1, <2>2
    <2> QED BY <1>1, <1>2, <1>3, <1>4, <2>2, <2>3 DEF Budgeted
  <1> QED BY <1>1, <1>2, <1>5, <1>6, <1>7, <1>8 DEF IndInv

\* The prefills are over when nothing waits.
LEMMA NoneWaitingStep ==
  ASSUME IndInv, mode' = mode, NoneWaiting
  PROVE  IndInv'
  <1>1. TypeOK /\ Tables
    BY Parts
  <1>2. /\ phase = "prefill" /\ EndPrefills /\ memo' = memo
        /\ UNCHANGED <<queues, current, budget, batch, cache, table, extra, done, current_ok, failed>>
    BY DEF NoneWaiting, perSeq
  <1>3. /\ memo' \in [Requests -> Nat \cup {None}]
        /\ \A r \in Requests : /\ memo[r] # None => memo'[r] = memo[r]
                               /\ memo'[r] # None => memo'[r] <= Len(Prompt[r])
    BY <1>1, <1>2 DEF TypeOK, Tables
  <1>4. /\ phase' \in {"prefill", "running", "execute"}
        /\ phase' = "running" => phase = "prefill" /\ ~mode.chunked /\ DOMAIN batch = {}
        /\ phase' = "prefill" => mode.chunked
    BY <1>2 DEF EndPrefills
  <1> QED BY <1>2, <1>3, <1>4, PhaseStep

\* The decodes are over when the queue or the budget is exhausted.
LEMMA RunEndStep ==
  ASSUME IndInv, mode' = mode, RunEnd
  PROVE  IndInv'
  <1>1. TypeOK /\ Tables
    BY Parts
  <1>2. /\ phase = "running" /\ phase' = (IF mode.chunked THEN "prefill" ELSE "execute") /\ memo' = memo
        /\ UNCHANGED <<queues, current, budget, batch, cache, table, extra, done, current_ok, failed>>
    BY DEF RunEnd, perSeq
  <1>3. /\ memo' \in [Requests -> Nat \cup {None}]
        /\ \A r \in Requests : /\ memo[r] # None => memo'[r] = memo[r]
                               /\ memo'[r] # None => memo'[r] <= Len(Prompt[r])
    BY <1>1, <1>2 DEF TypeOK, Tables
  <1>4. /\ phase' \in {"prefill", "running", "execute"}
        /\ phase' = "running" => phase = "prefill" /\ ~mode.chunked /\ DOMAIN batch = {}
        /\ phase' = "prefill" => mode.chunked
    BY <1>2
  <1> QED BY <1>2, <1>3, <1>4, PhaseStep

\* The count of cached blocks of a request is kept from then on.
LEMMA MemoFacts ==
  ASSUME TypeOK, Tables, NEW s \in Requests, memo' = [memo EXCEPT ![s] = NumCachedBlocks(s)]
  PROVE  /\ NumCachedBlocks(s) \in Nat /\ NumCachedBlocks(s) <= Len(Prompt[s])
         /\ NumCachedBlocks(s) # None /\ memo'[s] = NumCachedBlocks(s)
         /\ memo' \in [Requests -> Nat \cup {None}]
         /\ \A r \in Requests : /\ memo[r] # None => memo'[r] = memo[r]
                                /\ memo'[r] # None => memo'[r] <= Len(Prompt[r])
  <1> DEFINE c == NumCachedBlocks(s)
  <1>1. /\ memo \in [Requests -> Nat \cup {None}] /\ None \notin Nat
        /\ \A r \in Requests : memo[r] # None => memo[r] <= Len(Prompt[r])
    BY SchedulingAssumption DEF TypeOK, Tables
  <1>2. Prompt[s] \in Seq(Hashes) /\ Len(Prompt[s]) \in Nat
    BY Types
  <1>3. c \in Nat /\ c <= Len(Prompt[s]) /\ (memo[s] # None => c = memo[s])
    <2>1. CASE memo[s] = None
      <3>1. FindCachedBlocksPrefix(Prompt[s]) \in 0 .. Len(Prompt[s])
        BY <1>2, PrefixWithin
      <3>2. c = FindCachedBlocksPrefix(Prompt[s])
        BY <2>1 DEF NumCachedBlocks
      <3> QED BY <1>2, <2>1, <3>1, <3>2
    <2>2. CASE memo[s] # None
      <3>1. c = memo[s]
        BY <2>2 DEF NumCachedBlocks
      <3>2. memo[s] \in Nat
        BY <1>1, <2>2
      <3> QED BY <1>1, <2>2, <3>1, <3>2
    <2> QED BY <2>1, <2>2
  <1> HIDE DEF c
  <1>4. memo' = [memo EXCEPT ![s] = c] /\ c # None
    BY <1>1, <1>3 DEF c
  <1>5. /\ memo'[s] = c /\ \A r \in Requests : r # s => memo'[r] = memo[r]
        /\ memo' \in [Requests -> Nat \cup {None}]
    BY <1>1, <1>3, <1>4
  <1>6. ASSUME NEW r \in Requests
        PROVE  /\ memo[r] # None => memo'[r] = memo[r]
               /\ memo'[r] # None => memo'[r] <= Len(Prompt[r])
    BY <1>1, <1>3, <1>5
  <1> QED BY <1>3, <1>4, <1>5, <1>6 DEF c

\* The head of the waiting queue is admitted: can_allocate has counted all the blocks of
\* its prompt, whether they are cached or not.
LEMMA AdmitStep ==
  ASSUME IndInv, mode' = mode, NEW s \in Requests, Consider(s),
         CanAllocate(s), CanSchedule(s, NumCachedBlocks(s))
  PROVE  IndInv'
  <1> DEFINE c == NumCachedBlocks(s)
  <1>1. /\ phase = "prefill" /\ waiting # <<>> /\ s = Head(waiting)
        /\ memo' = [memo EXCEPT ![s] = c]
        /\ waiting' = Tail(waiting) /\ phase' = "allocate" /\ current' = s
        /\ current_ok' = (IF \A i \in 1 .. c : IsCached(Prompt[s][i])
                          THEN current_ok \cup {s} ELSE current_ok)
        /\ budget' = budget - Chunk(s, c)
        /\ batch' = [r \in DOMAIN batch \cup {s} |->
                       IF r = s THEN ComputedAfter(s, c) ELSE batch[r]]
        /\ UNCHANGED <<running, preempted, queue>>
        /\ UNCHANGED <<resident, computed, touched>>
        /\ UNCHANGED <<table, extra, done, failed>>
    BY DEF Consider, cache
  <1>2. /\ TypeOK /\ failed = FALSE /\ InOnePlace /\ Tables /\ Reserved /\ WithinDevice
        /\ InPass /\ Pinned /\ Budgeted
    BY Parts
  <1>3. /\ c \in Nat /\ c <= Len(Prompt[s]) /\ c # None /\ memo'[s] = c
        /\ memo' \in [Requests -> Nat \cup {None}]
        /\ \A r \in Requests : /\ memo[r] # None => memo'[r] = memo[r]
                               /\ memo'[r] # None => memo'[r] <= Len(Prompt[r])
    BY <1>1, <1>2, MemoFacts
  <1>4. /\ Chunk(s, c) > 0 /\ Chunk(s, c) <= budget /\ Len(running) + Len(queue) < MaxNumSeqs
        /\ NumBlocks - NumUsed - Len(Prompt[s]) >= Watermark
    BY DEF CanSchedule, NumSeqs, CanAllocate, NumFreeBlocks
  <1> HIDE DEF c
  <1>5. /\ Chunk(s, c) \in Nat /\ ComputedAfter(s, c) \in Nat
        /\ ~mode.chunked => Len(Prompt[s]) <= ComputedAfter(s, c)
    BY <1>2, <1>3, ChunkFacts
  <1>6. /\ s \in ToSet(waiting) /\ Lists(waiting', ToSet(waiting) \ {s})
        /\ ToSet(waiting') = ToSet(waiting) \ {s}
    BY <1>1, <1>2, ListsTail DEF InOnePlace
  <1>7. /\ Admitted = {} /\ Admitted' = {s} /\ Scheduled' = Scheduled /\ Active' = Active
        /\ NumUsed' = NumUsed
    BY <1>1, BlocksFrame DEF Admitted, Scheduled
  <1>8. s \notin Scheduled /\ s \notin ToSet(preempted) /\ s \notin ToSet(running) /\ s \notin ToSet(queue)
    BY <1>2, <1>6 DEF InOnePlace, Scheduled
  <1>9. table[s] = <<>> /\ Len(table[s]) = 0
    BY <1>2, <1>7, <1>8 DEF Tables
  <1>10. DOMAIN batch' = DOMAIN batch \cup {s} /\ batch'[s] = ComputedAfter(s, c)
         /\ \A r \in DOMAIN batch : r # s => batch'[r] = batch[r]
    BY <1>1
  <1>11. TypeOK'
    <2>1. budget' \in 0 .. mode.tokens
      <3>1. budget \in Nat /\ budget <= mode.tokens /\ mode.tokens \in Nat
        BY <1>2, Types
      <3> QED BY <1>1, <1>4, <1>5, <3>1
    <2>2. waiting' \in Seq(Requests)
      <3>1. ToSet(waiting) \ {s} \subseteq Requests
        BY <1>2, Types
      <3> QED BY <1>6, <3>1, ListsType
    <2>3. DOMAIN batch' \subseteq Requests /\ batch' \in [DOMAIN batch' -> Nat]
      <3>1. DOMAIN batch \subseteq Requests /\ batch \in [DOMAIN batch -> Nat]
        BY <1>2 DEF TypeOK
      <3>2. \A r \in DOMAIN batch : batch[r] \in Nat
        BY <3>1
      <3>3. \A r \in DOMAIN batch' : batch'[r] \in Nat
        BY <1>5, <1>10, <3>2
      <3>4. batch' = [r \in DOMAIN batch' |-> batch'[r]]
        BY <1>1
      <3> QED BY <1>10, <3>1, <3>3, <3>4
    <2>4. current_ok' \subseteq Requests
      BY <1>1, <1>2 DEF TypeOK
    <2>5. {waiting, running, preempted, queue}' \subseteq Seq(Requests)
      BY <1>1, <1>2, <2>2 DEF TypeOK
    <2>6. /\ mode' \in Modes /\ mode'.tokens = mode.tokens
          /\ table' \in [Requests -> Seq(Hashes)]
          /\ \A r \in Requests : IsPrefix(table'[r], Prompt[r])
          /\ extra' \in [Requests -> 0 .. MaxExtra] /\ done' \in [Requests -> Nat]
          /\ resident' \cup computed' \cup touched' \subseteq Hashes
      BY <1>1, <1>2 DEF TypeOK
    <2>7. phase' \in {"idle", "running", "prefill", "allocate", "execute"} /\ current' \in Requests
      BY <1>1
    <2> QED BY <1>3, <2>1, <2>3, <2>4, <2>5, <2>6, <2>7 DEF TypeOK
  <1>12. InOnePlace'
    <2>1. Lists(waiting', ToSet(waiting'))
      BY <1>6
    <2> QED BY <1>1, <1>2, <1>6, <1>7, <1>8, <2>1 DEF InOnePlace, Scheduled
  <1>13. Tables'
    <2>1. Len(Prompt[s]) > 0
      BY <1>2, Types
    <2>2. current' \in Requests /\ Len(table'[current']) < Len(Prompt[current'])
      BY <1>1, <1>9, <2>1
    <2>3. ASSUME NEW r \in Requests
          PROVE  /\ r \in Scheduled => table[r] = Prompt[r]
                 /\ r \in Scheduled \cup {s} => memo'[r] # None
                 /\ r \notin Scheduled \cup {s} => table[r] = <<>>
                 /\ memo'[r] # None => memo'[r] <= Len(Prompt[r])
      BY <1>2, <1>3, <1>7 DEF Tables
    <2> QED BY <1>1, <1>7, <2>2, <2>3 DEF Tables
  <1>14. Reserved'
    <2>1. NumUsed \in Nat /\ NumBlocks \in Nat /\ Watermark \in Nat /\ Len(Prompt[s]) \in Nat
      BY <1>2, NumUsedType, Types DEF Reserved
    <2>2. NumUsed + (Len(Prompt[s]) - Len(table[s])) <= NumBlocks
      BY <1>4, <1>9, <2>1
    <2> QED BY <1>1, <1>2, <1>7, <2>2 DEF Reserved
  <1>15. WithinDevice'
    BY <1>1, <1>2, <1>7 DEF WithinDevice
  <1>16. InPass'
    BY <1>1, <1>2, <1>10 DEF InPass
  <1>17. Pinned'
    <2>1. ASSUME NEW r \in current_ok
          PROVE  /\ r \in Requests /\ memo'[r] # None
                 /\ \A i \in 1 .. memo'[r] : Prompt[r][i] \notin touched /\ Prompt[r][i] \in Active
      <3>1. r \in Requests /\ memo[r] # None
        BY <1>2 DEF TypeOK, Pinned
      <3>2. memo'[r] = memo[r]
        BY <1>3, <3>1
      <3> QED BY <1>2, <1>7, <3>1, <3>2 DEF Pinned
    <2>2. ASSUME \A i \in 1 .. c : IsCached(Prompt[s][i]), NEW i \in 1 .. c
          PROVE  /\ Prompt[s][i] \notin touched
                 /\ Prompt[s][i] \in Active \/ (Len(table[s]) < i /\ Prompt[s][i] \in resident)
      <3>1. Prompt[s][i] \in resident \/ Prompt[s][i] \in computed
        BY <2>2 DEF IsCached
      <3>2. Len(table[s]) < i
        BY <1>3, <1>9
      <3> QED BY <1>2, <3>1, <3>2 DEF WithinDevice, InPass
    <2> SUFFICES ASSUME NEW r \in current_ok'
                 PROVE  /\ memo'[r] # None
                        /\ \A i \in 1 .. memo'[r] :
                             /\ Prompt[r][i] \notin touched
                             /\ \/ Prompt[r][i] \in Active
                                \/ r \in {s} /\ Len(table[r]) < i /\ Prompt[r][i] \in resident
      BY <1>1, <1>7 DEF Pinned
    <2>3. CASE r \in current_ok
      BY <2>1, <2>3
    <2>4. CASE r \notin current_ok
      <3>1. r = s /\ \A i \in 1 .. c : IsCached(Prompt[s][i])
        BY <1>1, <2>4
      <3> QED BY <1>3, <2>2, <3>1
    <2> QED BY <2>3, <2>4
  <1>18. Budgeted'
    <2>1. /\ Len(running) \in Nat /\ Len(queue) \in Nat /\ MaxNumSeqs \in Nat
          /\ Len(Prompt[s]) \in Nat /\ done[s] \in Nat
      BY <1>2, Types
    <2>2. Len(running) + Len(queue) + 1 <= MaxNumSeqs
      BY <1>4, <2>1
    <2>3. ASSUME ~mode.chunked, NEW r \in Scheduled \cup {s}
          PROVE  /\ r \in DOMAIN batch' => Len(Prompt[r]) <= batch'[r]
                 /\ r \notin DOMAIN batch' => Len(Prompt[r]) <= done[r]
      <3>1. CASE r = s
        BY <1>5, <1>10, <2>3, <3>1
      <3>2. CASE r # s
        BY <1>2, <1>7, <1>10, <2>3, <3>2 DEF Budgeted
      <3> QED BY <3>1, <3>2
    <2> QED BY <1>1, <1>7, <2>2, <2>3 DEF Budgeted
  <1> QED BY <1>1, <1>2, <1>11, <1>12, <1>13, <1>14, <1>15, <1>16, <1>17, <1>18 DEF IndInv

\* _schedule_prefills on the head of the waiting queue.
LEMMA ConsiderStep ==
  ASSUME IndInv, mode' = mode, NEW s \in Requests, Consider(s)
  PROVE  IndInv'
  <1>1. CASE CanAllocate(s) /\ CanSchedule(s, NumCachedBlocks(s))
    BY <1>1, AdmitStep
  <1>2. CASE ~(CanAllocate(s) /\ CanSchedule(s, NumCachedBlocks(s)))
    <2>1. /\ phase = "prefill" /\ EndPrefills /\ memo' = [memo EXCEPT ![s] = NumCachedBlocks(s)]
          /\ UNCHANGED <<queues, current, budget, batch, cache, table, extra, done, current_ok, failed>>
      BY <1>2 DEF Consider, queues
    <2>2. /\ memo' \in [Requests -> Nat \cup {None}]
          /\ \A r \in Requests : /\ memo[r] # None => memo'[r] = memo[r]
                                 /\ memo'[r] # None => memo'[r] <= Len(Prompt[r])
      BY <2>1, Parts, MemoFacts
    <2>3. /\ phase' \in {"prefill", "running", "execute"}
          /\ phase' = "running" => phase = "prefill" /\ ~mode.chunked /\ DOMAIN batch = {}
          /\ phase' = "prefill" => mode.chunked
      BY <2>1 DEF EndPrefills
    <2> QED BY <2>1, <2>2, <2>3, PhaseStep
  <1> QED BY <1>1, <1>2

-----------------------------------------------------------------------------
(* The steps that take a block.                                             *)

\* The next block of a table is the next block of the prompt, and the last one completes it.
LEMMA TableAppend ==
  ASSUME NEW H, NEW p \in Seq(H), NEW t \in Seq(H), IsPrefix(t, p), Len(t) < Len(p)
  PROVE  LET h == p[Len(t) + 1]
             u == Append(t, h)
         IN  /\ h \in H /\ u \in Seq(H) /\ Len(u) = Len(t) + 1 /\ IsPrefix(u, p)
             /\ Len(t) + 1 = Len(p) => u = p
  <1> DEFINE h == p[Len(t) + 1]
             u == Append(t, h)
  <1>1. Len(t) \in Nat /\ Len(p) \in Nat /\ Len(t) + 1 \in 1 .. Len(p)
    OBVIOUS
  <1>2. h \in H
    BY <1>1
  <1>3. \A i \in 1 .. Len(t) : t[i] = p[i]
    BY PrefixFacts
  <1> HIDE DEF h
  <1>4. u \in Seq(H) /\ Len(u) = Len(t) + 1 /\ \A i \in 1 .. Len(t) : u[i] = t[i]
    BY <1>2
  <1>5. u[Len(t) + 1] = h
    BY <1>2
  <1> HIDE DEF u
  <1>6. ASSUME NEW i \in 1 .. Len(t) + 1
        PROVE  u[i] = p[i]
    <2>1. CASE i = Len(t) + 1
      BY <1>5, <2>1 DEF h
    <2>2. CASE i # Len(t) + 1
      <3>1. i \in 1 .. Len(t)
        BY <1>1, <2>2
      <3> QED BY <1>3, <1>4, <3>1
    <2> QED BY <2>1, <2>2
  <1>7. IsPrefix(u, p)
    <2>1. Len(u) <= Len(p) /\ \A i \in 1 .. Len(u) : u[i] = p[i]
      BY <1>1, <1>4, <1>6
    <2> QED BY <1>4, <2>1, PrefixIntro
  <1>8. ASSUME Len(t) + 1 = Len(p) PROVE u = p
    <2>1. u = [i \in 1 .. Len(u) |-> u[i]] /\ p = [i \in 1 .. Len(p) |-> p[i]]
      BY <1>4
    <2>2. Len(u) = Len(p) /\ \A i \in 1 .. Len(p) : u[i] = p[i]
      BY <1>4, <1>6, <1>8
    <2> QED BY <2>1, <2>2
  <1> QED BY <1>2, <1>4, <1>7, <1>8 DEF u, h

\* BlockTable.allocate, one block of the prompt at a time.
LEMMA AllocateBlockStep ==
  ASSUME IndInv, mode' = mode, AllocateBlock
  PROVE  IndInv'
  <1> DEFINE s == current
             t == table[s]
             h == Prompt[s][Len(t) + 1]
  <1>1. /\ phase = "allocate" /\ table' = [table EXCEPT ![s] = Append(t, h)]
        /\ IF Len(t) + 1 = Len(Prompt[s])
           THEN phase' = "prefill" /\ current' = None /\ running' = Append(running, s)
           ELSE UNCHANGED <<phase, current, running>>
        /\ UNCHANGED <<waiting, preempted, queue, budget, batch, extra, memo, done, current_ok>>
    BY DEF AllocateBlock
  <1>2. /\ TypeOK /\ failed = FALSE /\ InOnePlace /\ Tables /\ Reserved /\ WithinDevice
        /\ InPass /\ Pinned /\ Budgeted
    BY Parts
  <1>3. \/ h \in Active /\ UNCHANGED <<resident, computed, touched, failed>>
        \/ /\ h \in resident \ Active /\ resident' = resident \ {h}
           /\ computed' = computed \cup {h} /\ UNCHANGED <<touched, failed>>
        \/ /\ h \notin resident \cup Active /\ TakeBlock
           /\ touched' = touched \cup {h} /\ UNCHANGED computed
    BY DEF AllocateBlock, cache
  <1>4. /\ s \in Requests /\ Len(t) < Len(Prompt[s]) /\ Admitted = {s}
        /\ s \notin Scheduled /\ s \notin ToSet(waiting) /\ s \notin ToSet(preempted)
    BY <1>1, <1>2 DEF Tables, Admitted, InOnePlace, Scheduled
  <1>5. /\ Prompt[s] \in Seq(Hashes) /\ t \in Seq(Hashes) /\ IsPrefix(t, Prompt[s])
        /\ Len(Prompt[s]) \in Nat /\ Len(t) \in Nat
        /\ table \in [Requests -> Seq(Hashes)]
    BY <1>2, <1>4, Types DEF TypeOK
  <1>6. /\ h \in Hashes /\ Append(t, h) \in Seq(Hashes) /\ Len(Append(t, h)) = Len(t) + 1
        /\ IsPrefix(Append(t, h), Prompt[s])
        /\ Len(t) + 1 = Len(Prompt[s]) => Append(t, h) = Prompt[s]
    BY <1>4, <1>5, TableAppend
  <1>7. Active' = Active \cup {h} /\ Grown' = Grown
    BY <1>1, <1>4, <1>5, ActiveAppend DEF Grown
  <1> HIDE DEF h
  <1>8. /\ table'[s] = Append(t, h) /\ Len(table'[s]) = Len(t) + 1
        /\ \A r \in Requests : r # s => table'[r] = table[r]
        /\ table' \in [Requests -> Seq(Hashes)]
    BY <1>1, <1>4, <1>5, <1>6
  <1>9. /\ NumUsed \in Nat /\ Cardinality(resident) \in Nat /\ NumBlocks \in Nat
        /\ IsFiniteSet(Active) /\ IsFiniteSet(resident)
        /\ NumUsed + (Len(Prompt[s]) - Len(t)) <= NumBlocks
        /\ NumUsed + Cardinality(resident) <= NumBlocks
        /\ resident \cap Active = {} /\ computed \subseteq Active /\ touched \subseteq Active
    BY <1>1, <1>2, NumUsedType, SchedulingAssumption DEF Reserved, WithinDevice
  <1>10. NumUsed < NumBlocks
    BY <1>4, <1>5, <1>9
  <1>11. /\ IsFiniteSet(Active')
         /\ NumUsed' = IF h \in Active THEN NumUsed ELSE NumUsed + 1
    <2>1. /\ IsFiniteSet(Active')
          /\ Cardinality(Active') = IF h \in Active THEN Cardinality(Active) ELSE Cardinality(Active) + 1
      BY <1>7, <1>9, FS_AddElement
    <2>2. /\ NumUsed = Cardinality(Active) + Cardinality(Grown)
          /\ NumUsed' = Cardinality(Active') + Cardinality(Grown)
      BY <1>7 DEF NumUsed
    <2>3. Cardinality(Active) \in Nat /\ Cardinality(Grown) \in Nat
      BY <1>9, GrownFinite, FS_CardinalityType
    <2> QED BY <2>1, <2>2, <2>3
  <1>12. /\ failed' = FALSE /\ IsFiniteSet(resident') /\ resident' \subseteq resident
         /\ NumUsed' + Cardinality(resident') <= NumBlocks
         /\ h \notin resident'
         /\ computed' \subseteq computed \cup {h} /\ touched' \subseteq touched \cup {h}
         /\ computed' \cap touched' = {}
         /\ h \in touched' => h \notin resident \cup Active \/ h \in touched
         /\ h \in resident \cup Active => resident' = resident \ {h}
    <2>0. computed \cap touched = {}
      BY <1>2 DEF InPass
    <2>1. CASE h \in Active /\ UNCHANGED <<resident, computed, touched, failed>>
      BY <1>2, <1>9, <1>11, <2>0, <2>1
    <2>2. CASE /\ h \in resident \ Active /\ resident' = resident \ {h}
               /\ computed' = computed \cup {h} /\ UNCHANGED <<touched, failed>>
      <3>1. IsFiniteSet(resident') /\ Cardinality(resident') = Cardinality(resident) - 1
        BY <1>9, <2>2, FS_RemoveElement
      <3>2. NumUsed' + Cardinality(resident') <= NumBlocks
        BY <1>9, <1>11, <2>2, <3>1
      <3>3. h \notin touched
        BY <1>9, <2>2
      <3> QED BY <1>2, <2>0, <2>2, <3>1, <3>2, <3>3
    <2>3. CASE /\ h \notin resident \cup Active /\ TakeBlock
               /\ touched' = touched \cup {h} /\ UNCHANGED computed
      <3>1. /\ failed' = FALSE /\ resident' \subseteq resident /\ IsFiniteSet(resident')
            /\ NumUsed + 1 + Cardinality(resident') <= NumBlocks
        BY <1>10, <2>3, TakeBlockFits
      <3>2. NumUsed' + Cardinality(resident') <= NumBlocks
        BY <1>11, <2>3, <3>1
      <3>3. h \notin computed
        BY <1>9, <2>3
      <3> QED BY <2>0, <2>3, <3>1, <3>2, <3>3
    <2> QED BY <1>3, <2>1, <2>2, <2>3
  <1>13. \/ /\ Len(t) + 1 = Len(Prompt[s]) /\ phase' = "prefill" /\ current' = None
            /\ running' = Append(running, s)
         \/ /\ Len(t) + 1 # Len(Prompt[s]) /\ UNCHANGED <<phase, current, running>>
    BY <1>1
  <1>14. /\ Lists(running', ToSet(running')) /\ running' \in Seq(Requests)
         /\ phase' = "prefill" =>
              /\ Admitted' = {} /\ ToSet(running') = ToSet(running) \cup {s}
              /\ Scheduled' = Scheduled \cup {s} /\ Len(running') = Len(running) + 1
              /\ table'[s] = Prompt[s] /\ current' = None
         /\ phase' # "prefill" =>
              /\ phase' = "allocate" /\ current' = s /\ Admitted' = {s} /\ running' = running
              /\ Scheduled' = Scheduled
              /\ Len(t) + 1 < Len(Prompt[s])
    <2>1. running \in Seq(Requests) /\ Lists(running, ToSet(running))
      BY <1>2 DEF TypeOK, InOnePlace
    <2>2. CASE /\ Len(t) + 1 = Len(Prompt[s]) /\ phase' = "prefill" /\ current' = None
               /\ running' = Append(running, s)
      <3>1. s \notin ToSet(running)
        BY <1>4 DEF Scheduled
      <3>2. /\ Lists(running', ToSet(running) \cup {s}) /\ ToSet(running') = ToSet(running) \cup {s}
        BY <2>1, <2>2, <3>1, ListsAppend
      <3>3. running' \in Seq(Requests) /\ Len(running') = Len(running) + 1
        BY <1>4, <2>1, <2>2
      <3>4. Admitted' = {} /\ Scheduled' = Scheduled \cup {s}
        BY <1>1, <2>2, <3>2 DEF Admitted, Scheduled
      <3>5. table'[s] = Prompt[s]
        BY <1>6, <1>8, <2>2
      <3> QED BY <2>2, <3>2, <3>3, <3>4, <3>5
    <2>3. CASE Len(t) + 1 # Len(Prompt[s]) /\ UNCHANGED <<phase, current, running>>
      <3>1. Admitted' = {s} /\ Scheduled' = Scheduled
        BY <1>1, <1>4, <2>3 DEF Admitted, Scheduled
      <3>2. Len(t) + 1 < Len(Prompt[s])
        BY <1>4, <1>5, <2>3
      <3> QED BY <1>1, <2>1, <2>3, <3>1, <3>2
    <2> QED BY <1>13, <2>2, <2>3
  <1>15. phase' \in {"prefill", "allocate"} /\ current' \in Requests \cup {None}
    BY <1>4, <1>14
  <1> HIDE DEF s, t
  <1>16. TypeOK'
    <2>1. \A r \in Requests : IsPrefix(table'[r], Prompt[r])
      BY <1>2, <1>6, <1>8 DEF TypeOK
    <2>2. resident' \cup computed' \cup touched' \subseteq Hashes
      BY <1>2, <1>6, <1>12 DEF TypeOK
    <2>3. {waiting, running, preempted, queue}' \subseteq Seq(Requests)
      BY <1>1, <1>2, <1>14 DEF TypeOK
    <2>4. /\ mode' \in Modes /\ budget' \in 0 .. mode'.tokens
          /\ DOMAIN batch' \subseteq Requests /\ batch' \in [DOMAIN batch' -> Nat]
          /\ extra' \in [Requests -> 0 .. MaxExtra] /\ memo' \in [Requests -> Nat \cup {None}]
          /\ done' \in [Requests -> Nat] /\ current_ok' \subseteq Requests
      BY <1>1, <1>2 DEF TypeOK
    <2>5. phase' \in {"idle", "running", "prefill", "allocate", "execute"}
      BY <1>15
    <2> QED BY <1>8, <1>15, <2>1, <2>2, <2>3, <2>4, <2>5 DEF TypeOK
  <1>17. InOnePlace'
    <2>1. CASE phase' = "prefill"
      BY <1>1, <1>2, <1>4, <1>14, <2>1 DEF InOnePlace, Scheduled
    <2>2. CASE phase' # "prefill"
      BY <1>1, <1>2, <1>4, <1>14, <2>2 DEF InOnePlace, Scheduled
    <2> QED BY <2>1, <2>2
  <1>18. Tables'
    <2>1. phase' = "allocate" => /\ current' \in Requests
                                 /\ Len(table'[current']) < Len(Prompt[current'])
      BY <1>4, <1>8, <1>14
    <2>2. ASSUME NEW r \in Requests
          PROVE  /\ r \in Scheduled' => table'[r] = Prompt[r]
                 /\ r \in Scheduled' \cup Admitted' => memo[r] # None
                 /\ r \notin Scheduled' \cup Admitted' => table'[r] = <<>>
                 /\ memo[r] # None => memo[r] <= Len(Prompt[r])
      BY <1>2, <1>4, <1>8, <1>14 DEF Tables
    <2> QED BY <1>1, <2>1, <2>2 DEF Tables
  <1>19. Reserved'
    <2>1. phase' = "allocate" =>
            NumUsed' + (Len(Prompt[current']) - Len(table'[current'])) <= NumBlocks
      <3>1. NumUsed' + (Len(Prompt[s]) - (Len(t) + 1)) <= NumBlocks
        <4>1. NumUsed' <= NumUsed + 1 /\ NumUsed' \in Nat
          BY <1>9, <1>11
        <4>2. Len(Prompt[s]) \in Nat /\ Len(t) \in Nat
          BY <1>5
        <4>3. NumUsed + (Len(Prompt[s]) - Len(t)) <= NumBlocks /\ NumUsed \in Nat /\ NumBlocks \in Nat
          BY <1>9
        <4> QED BY <4>1, <4>2, <4>3
      <3> QED BY <1>8, <1>14, <3>1
    <2> QED BY <1>11, <1>12, <2>1 DEF Reserved
  <1>20. WithinDevice'
    BY <1>7, <1>9, <1>12 DEF WithinDevice
  <1>21. InPass'
    BY <1>1, <1>2, <1>12, <1>14, <1>15 DEF InPass
  <1>22. Pinned'
    <2> SUFFICES ASSUME NEW r \in current_ok, NEW i \in 1 .. memo[r]
                 PROVE  /\ Prompt[r][i] \notin touched'
                        /\ \/ Prompt[r][i] \in Active'
                           \/ r \in Admitted' /\ Len(table'[r]) < i /\ Prompt[r][i] \in resident'
      <3>1. \A r \in current_ok : memo[r] # None
        BY <1>2 DEF Pinned
      <3> QED BY <1>1, <3>1 DEF Pinned
    <2> DEFINE b == Prompt[r][i]
    <2>1. /\ r \in Requests /\ memo[r] \in Nat /\ memo[r] <= Len(Prompt[r])
          /\ b \notin touched
          /\ b \in Active \/ (r = s /\ Len(t) < i /\ b \in resident)
      BY <1>2, <1>4, Types DEF TypeOK, Pinned, Tables, t
    <2>2. b \notin touched'
      BY <1>12, <2>1
    <2>3. CASE b \in Active
      BY <1>7, <2>2, <2>3
    <2>4. CASE b = h
      BY <1>7, <2>2, <2>4
    <2>5. CASE r = s /\ Len(t) < i /\ b \in resident /\ b # h
      <3>1. Len(t) + 1 \in 1 .. memo[s] /\ Len(t) + 1 < i
        <4>1. i # Len(t) + 1
          BY <2>5 DEF h
        <4> QED BY <1>5, <2>1, <2>5, <4>1
      <3>2. h \in Active \/ h \in resident
        BY <1>2, <2>5, <3>1 DEF Pinned, h
      <3>3. b \in resident'
        BY <1>12, <2>5, <3>2
      <3>4. phase' # "prefill"
        <4>1. Len(t) + 1 < Len(Prompt[s])
          BY <1>5, <2>1, <2>5, <3>1
        <4>2. Len(Prompt[s]) # Len(t) + 1
          BY <1>5, <4>1
        <4> QED BY <1>1, <1>13, <4>2
      <3> QED BY <1>8, <1>14, <2>2, <2>5, <3>1, <3>3, <3>4
    <2> QED BY <2>1, <2>3, <2>4, <2>5
  <1>23. Budgeted'
    <2>1. Len(running) \in Nat /\ Len(queue) \in Nat /\ MaxNumSeqs \in Nat
      BY <1>2, Types
    <2>2. Len(running) + Len(queue) + 1 <= MaxNumSeqs
      BY <1>1, <1>2 DEF Budgeted
    <2>3. Len(running') + Len(queue') + (IF phase' = "allocate" THEN 1 ELSE 0) <= MaxNumSeqs
      BY <1>1, <1>14, <1>15, <2>1, <2>2
    <2>4. DOMAIN batch # {}
      BY <1>1, <1>2 DEF InPass
    <2>5. Scheduled' \cup Admitted' = Scheduled \cup Admitted
      BY <1>4, <1>14
    <2> QED BY <1>1, <1>2, <1>15, <2>3, <2>4, <2>5 DEF Budgeted
  <1> QED BY <1>12, <1>16, <1>17, <1>18, <1>19, <1>20, <1>21, <1>22, <1>23 DEF IndInv

\* The head of the queue is scheduled.
LEMMA HeadRuns ==
  ASSUME IndInv, phase = "running", queue # <<>>,
         queue' = Tail(queue), running' = Append(running, Head(queue)),
         UNCHANGED <<waiting, preempted, phase, current>>
  PROVE  /\ Head(queue) \in ToSet(queue) /\ Head(queue) \in Requests /\ Head(queue) \in Scheduled
         /\ InOnePlace' /\ Scheduled' = Scheduled /\ Admitted = {} /\ Admitted' = {}
         /\ queue' \in Seq(Requests) /\ running' \in Seq(Requests)
         /\ Len(queue') = Len(queue) - 1 /\ Len(running') = Len(running) + 1
         /\ Len(queue) \in Nat /\ Len(queue) > 0
  <1> DEFINE s == Head(queue)
  <1>1. TypeOK /\ InOnePlace
    BY Parts
  <1>2. /\ waiting \in Seq(Requests) /\ running \in Seq(Requests)
        /\ preempted \in Seq(Requests) /\ queue \in Seq(Requests)
    BY <1>1 DEF TypeOK
  <1>3. /\ s \in ToSet(queue) /\ Len(queue') = Len(queue) - 1
        /\ Lists(queue', ToSet(queue) \ {s}) /\ ToSet(queue') = ToSet(queue) \ {s}
    BY <1>1, ListsTail DEF InOnePlace
  <1>4. running' = Append(running, s) /\ queue' = Tail(queue)
    OBVIOUS
  <1> HIDE DEF s
  <1>5. s \in Requests /\ s \notin ToSet(running) /\ s \notin ToSet(waiting) /\ s \notin ToSet(preempted)
    <2>1. ToSet(queue) \subseteq Requests
      BY <1>1, Types
    <2> QED BY <1>1, <1>3, <2>1 DEF InOnePlace, Scheduled
  <1>6. /\ Lists(running', ToSet(running) \cup {s}) /\ ToSet(running') = ToSet(running) \cup {s}
    <2>1. Lists(running, ToSet(running))
      BY <1>1 DEF InOnePlace
    <2>2. /\ Lists(Append(running, s), ToSet(running) \cup {s})
          /\ ToSet(Append(running, s)) = ToSet(running) \cup {s}
      BY <1>5, <2>1, ListsAppend
    <2> QED BY <1>4, <2>2
  <1>7. running' \in Seq(Requests) /\ Len(running') = Len(running) + 1
    BY <1>2, <1>4, <1>5
  <1>8. queue' \in Seq(Requests)
    BY <1>2, <1>4
  <1>9. Scheduled' = Scheduled /\ Admitted = {} /\ Admitted' = {}
    BY <1>3, <1>6 DEF Scheduled, Admitted
  <1>10. InOnePlace'
    BY <1>1, <1>3, <1>5, <1>6, <1>9 DEF InOnePlace, Scheduled
  <1>11. Len(queue) \in Nat /\ Len(queue) > 0
    BY <1>2
  <1> QED BY <1>3, <1>5, <1>7, <1>8, <1>9, <1>10, <1>11 DEF s, Scheduled

\* A decode is scheduled; can_append_slots has seen a block for its new token.
LEMMA RunDecodeStep ==
  ASSUME IndInv, mode' = mode, NEW grow \in BOOLEAN, RunDecode(grow)
  PROVE  IndInv'
  <1> DEFINE s == Head(queue)
  <1>1. /\ phase = "running" /\ queue # <<>> /\ Chunk(s, memo[s]) > 0 /\ ~IsPrefill(s)
        /\ NumBlocks - NumUsed >= 1
        /\ queue' = Tail(queue) /\ running' = Append(running, s) /\ budget' = budget - 1
        /\ IF grow
           THEN /\ extra[s] < MaxExtra /\ extra' = [extra EXCEPT ![s] = extra[s] + 1] /\ TakeBlock
           ELSE UNCHANGED <<extra, resident, failed>>
        /\ UNCHANGED <<waiting, preempted, phase, current, batch, computed, touched,
                       table, memo, done, current_ok>>
    BY DEF RunDecode, HasBudget, NumFreeBlocks
  <1>2. /\ TypeOK /\ failed = FALSE /\ InOnePlace /\ Tables /\ Reserved /\ WithinDevice
        /\ InPass /\ Pinned /\ Budgeted
    BY Parts
  <1>3. /\ s \in Requests /\ s \in Scheduled
        /\ InOnePlace' /\ Scheduled' = Scheduled /\ Admitted = {} /\ Admitted' = {}
        /\ queue' \in Seq(Requests) /\ running' \in Seq(Requests)
        /\ Len(queue') = Len(queue) - 1 /\ Len(running') = Len(running) + 1
        /\ Len(queue) \in Nat /\ Len(queue) > 0
    BY <1>1, HeadRuns
  <1>4. touched = {} /\ current_ok = {}
    BY <1>1, <1>2 DEF InPass
  <1>5. budget \in Nat /\ budget <= mode.tokens /\ mode.tokens \in Nat /\ mode.chunked \in BOOLEAN
        /\ Len(running) \in Nat /\ MaxNumSeqs \in Nat
    BY <1>2, Types
  <1>6. budget > 0
    <2>1. CASE mode.chunked
      <3>1. memo[s] \in Nat
        BY <1>2, <1>3, Types DEF Tables
      <3>2. Chunk(s, memo[s]) <= budget /\ Chunk(s, memo[s]) \in Nat
        BY <1>2, <1>3, <2>1, <3>1, ChunkFacts
      <3> QED BY <1>1, <1>5, <3>2
    <2>2. CASE ~mode.chunked
      <3>1. Len(queue) <= budget
        BY <1>1, <1>2, <2>2 DEF Budgeted
      <3> QED BY <1>3, <1>5, <3>1
    <2> QED BY <2>1, <2>2
  <1> HIDE DEF s
  <1>7. budget' \in 0 .. mode.tokens
    BY <1>1, <1>5, <1>6
  <1>8. Active' = Active
    BY <1>1 DEF Active
  <1>9. /\ failed' = FALSE /\ IsFiniteSet(resident') /\ resident' \subseteq resident
        /\ extra' \in [Requests -> 0 .. MaxExtra]
        /\ NumUsed' + Cardinality(resident') <= NumBlocks
    <2>1. CASE grow
      <3>1. extra[s] < MaxExtra /\ extra' = [extra EXCEPT ![s] = extra[s] + 1] /\ TakeBlock
        BY <1>1, <2>1
      <3>2. extra \in [Requests -> 0 .. MaxExtra]
        BY <1>2 DEF TypeOK
      <3>3. Cardinality(Grown') = Cardinality(Grown) + 1 /\ extra' \in [Requests -> 0 .. MaxExtra]
        BY <1>3, <3>1, <3>2, GrownMore
      <3>4. /\ NumUsed \in Nat /\ NumBlocks \in Nat /\ Cardinality(Active) \in Nat
            /\ Cardinality(Grown) \in Nat
        BY <1>2, NumUsedType, SchedulingAssumption DEF Reserved
      <3>5. NumUsed < NumBlocks
        BY <1>1, <3>4
      <3>6. /\ failed' = FALSE /\ resident' \subseteq resident /\ IsFiniteSet(resident')
            /\ NumUsed + 1 + Cardinality(resident') <= NumBlocks
        BY <3>1, <3>5, TakeBlockFits
      <3>7. NumUsed' = NumUsed + 1
        <4>1. NumUsed = Cardinality(Active) + Cardinality(Grown)
          BY DEF NumUsed
        <4>2. NumUsed' = Cardinality(Active) + Cardinality(Grown')
          BY <1>8 DEF NumUsed
        <4> QED BY <3>3, <3>4, <4>1, <4>2
      <3> QED BY <3>3, <3>6, <3>7
    <2>2. CASE ~grow
      <3>1. UNCHANGED <<extra, resident, failed>>
        BY <1>1, <2>2
      <3>2. NumUsed' = NumUsed
        BY <1>1, <3>1, BlocksFrame
      <3> QED BY <1>2, <3>1, <3>2 DEF Reserved, WithinDevice, TypeOK
    <2> QED BY <2>1, <2>2
  <1>10. TypeOK'
    <2>1. {waiting, running, preempted, queue}' \subseteq Seq(Requests)
      BY <1>1, <1>2, <1>3 DEF TypeOK
    <2>2. resident' \cup computed' \cup touched' \subseteq Hashes
      BY <1>1, <1>2, <1>9 DEF TypeOK
    <2> QED BY <1>1, <1>2, <1>7, <1>9, <2>1, <2>2 DEF TypeOK
  <1>11. Tables'
    BY <1>1, <1>2, <1>3 DEF Tables
  <1>12. Reserved' /\ WithinDevice'
    BY <1>1, <1>2, <1>4, <1>8, <1>9 DEF Reserved, WithinDevice
  <1>13. InPass' /\ Pinned'
    BY <1>1, <1>2, <1>4 DEF InPass, Pinned
  <1>14. Budgeted'
    <2>1. Len(running) + Len(queue) + 0 <= MaxNumSeqs
      BY <1>1, <1>2 DEF Budgeted
    <2>2. Len(running') + Len(queue') + 0 <= MaxNumSeqs
      BY <1>3, <1>5, <2>1
    <2>3. ~mode.chunked => Len(queue) <= budget
      BY <1>1, <1>2 DEF Budgeted
    <2>4. ~mode.chunked => Len(queue') <= budget'
      BY <1>1, <1>3, <1>5, <2>3
    <2> QED BY <1>1, <1>2, <1>3, <2>2, <2>4 DEF Budgeted
  <1> QED BY <1>3, <1>9, <1>10, <1>11, <1>12, <1>13, <1>14 DEF IndInv

\* The next chunk of a prompt is scheduled: only with chunked prefill, as otherwise
\* every prompt in the queue is computed.
LEMMA RunPrefillStep ==
  ASSUME IndInv, mode' = mode, RunPrefill
  PROVE  IndInv'
  <1> DEFINE s == Head(queue)
  <1>1. /\ phase = "running" /\ queue # <<>> /\ IsPrefill(s)
        /\ queue' = Tail(queue) /\ running' = Append(running, s)
        /\ budget' = budget - Chunk(s, memo[s])
        /\ batch' = [r \in DOMAIN batch \cup {s} |->
                       IF r = s THEN ComputedAfter(s, memo[s]) ELSE batch[r]]
        /\ UNCHANGED <<waiting, preempted, phase, current, current_ok, failed>>
        /\ UNCHANGED <<resident, computed, touched>>
        /\ UNCHANGED <<table, extra, memo, done>>
    BY DEF RunPrefill, HasBudget, cache, perSeq
  <1>2. /\ TypeOK /\ failed = FALSE /\ InOnePlace /\ Tables /\ Reserved /\ WithinDevice
        /\ InPass /\ Pinned /\ Budgeted
    BY Parts
  <1>3. /\ s \in Requests /\ s \in Scheduled
        /\ InOnePlace' /\ Scheduled' = Scheduled /\ Admitted = {} /\ Admitted' = {}
        /\ queue' \in Seq(Requests) /\ running' \in Seq(Requests)
        /\ Len(queue') = Len(queue) - 1 /\ Len(running') = Len(running) + 1
        /\ Len(queue) \in Nat /\ Len(queue) > 0
    BY <1>1, HeadRuns
  <1>4. touched = {} /\ current_ok = {}
    BY <1>1, <1>2 DEF InPass
  <1>5. /\ budget \in Nat /\ budget <= mode.tokens /\ mode.tokens \in Nat /\ mode.chunked \in BOOLEAN
        /\ Len(running) \in Nat /\ MaxNumSeqs \in Nat
        /\ Len(Prompt[s]) \in Nat /\ done[s] \in Nat
    BY <1>2, <1>3, Types
  <1>6. mode.chunked
    <2> SUFFICES ASSUME ~mode.chunked PROVE FALSE
      BY <1>5
    <2>1. Len(Prompt[s]) <= done[s] \/ s \in DOMAIN batch
      BY <1>2, <1>3 DEF Budgeted
    <2>2. DOMAIN batch = {}
      BY <1>1, <1>2 DEF Budgeted
    <2> QED BY <1>1, <1>5, <2>1, <2>2 DEF IsPrefill
  <1>7. /\ Chunk(s, memo[s]) \in Nat /\ ComputedAfter(s, memo[s]) \in Nat
        /\ Chunk(s, memo[s]) <= budget
    <2>1. memo[s] \in Nat
      BY <1>2, <1>3, Types DEF Tables
    <2> QED BY <1>2, <1>3, <1>6, <2>1, ChunkFacts
  <1> HIDE DEF s
  <1>8. TypeOK'
    <2>1. budget' \in 0 .. mode.tokens
      BY <1>1, <1>5, <1>7
    <2>2. {waiting, running, preempted, queue}' \subseteq Seq(Requests)
      BY <1>1, <1>2, <1>3 DEF TypeOK
    <2>3. DOMAIN batch' \subseteq Requests /\ batch' \in [DOMAIN batch' -> Nat]
      <3>1. DOMAIN batch \subseteq Requests /\ batch \in [DOMAIN batch -> Nat]
        BY <1>2 DEF TypeOK
      <3>2. \A r \in DOMAIN batch : batch[r] \in Nat
        BY <3>1
      <3>3. DOMAIN batch' = DOMAIN batch \cup {s}
        BY <1>1
      <3>4. \A r \in DOMAIN batch' : batch'[r] \in Nat
        BY <1>1, <1>7, <3>2, <3>3
      <3>5. batch' = [r \in DOMAIN batch' |-> batch'[r]]
        BY <1>1
      <3> QED BY <1>3, <3>1, <3>3, <3>4, <3>5
    <2> QED BY <1>1, <1>2, <2>1, <2>2, <2>3 DEF TypeOK
  <1>9. Tables'
    BY <1>1, <1>2, <1>3 DEF Tables
  <1>10. Reserved' /\ WithinDevice'
    BY <1>1, <1>2, BlocksKept
  <1>11. InPass' /\ Pinned'
    BY <1>1, <1>2, <1>4, <1>6 DEF InPass, Pinned
  <1>12. Budgeted'
    <2>1. Len(running) + Len(queue) + 0 <= MaxNumSeqs
      BY <1>1, <1>2 DEF Budgeted
    <2>2. Len(running') + Len(queue') + 0 <= MaxNumSeqs
      BY <1>3, <1>5, <2>1
    <2> QED BY <1>1, <1>6, <2>2 DEF Budgeted
  <1> QED BY <1>1, <1>2, <1>3, <1>8, <1>9, <1>10, <1>11, <1>12 DEF IndInv

-----------------------------------------------------------------------------
(* The batch runs.                                                          *)

\* The next pass finds every request of this one, each once.
LEMMA RunningOrderLists ==
  ASSUME IndInv, phase = "execute"
  PROVE  /\ Lists(RunningOrder, Scheduled) /\ ToSet(RunningOrder) = Scheduled
         /\ RunningOrder \in Seq(Requests)
         /\ Len(RunningOrder) = Len(running) + Len(queue)
  <1> DEFINE R == ToSet(running)
             Q == ToSet(queue)
             old == {s \in DOMAIN batch : done[s] > 0}
             ends == {s \in DOMAIN batch : batch[s] = Len(Prompt[s])}
             A == Requests \ DOMAIN batch
             B == old \cap ends
             C == old \ ends
             D == DOMAIN batch \ old
             q1 == queue \o Keep(running, A)
             q2 == q1 \o Keep(running, B)
             q3 == q2 \o Keep(running, C)
             q4 == q3 \o Keep(running, D)
  <1>1. TypeOK /\ InOnePlace
    BY Parts
  <1>2. Lists(running, R) /\ Lists(queue, Q) /\ R \cap Q = {} /\ R \subseteq Requests /\ Q \subseteq Requests
    BY <1>1, Types DEF InOnePlace
  <1>3. /\ A \cap B = {} /\ A \cap C = {} /\ A \cap D = {} /\ B \cap C = {} /\ B \cap D = {} /\ C \cap D = {}
        /\ R = (R \cap A) \cup (R \cap B) \cup (R \cap C) \cup (R \cap D)
    BY <1>2
  <1>4. RunningOrder = q4
    BY DEF RunningOrder
  <1> HIDE DEF R, Q, A, B, C, D
  <1>5. /\ Lists(Keep(running, A), R \cap A) /\ Lists(Keep(running, B), R \cap B)
        /\ Lists(Keep(running, C), R \cap C) /\ Lists(Keep(running, D), R \cap D)
    BY <1>2, ListsKeep
  <1>6. Lists(q1, Q \cup (R \cap A))
    <2>1. Q \cap (R \cap A) = {}
      BY <1>2
    <2> QED BY <1>2, <1>5, <2>1, ListsConcat
  <1> HIDE DEF q1
  <1>7. Lists(q2, (Q \cup (R \cap A)) \cup (R \cap B))
    <2>1. (Q \cup (R \cap A)) \cap (R \cap B) = {}
      BY <1>2, <1>3
    <2> QED BY <1>5, <1>6, <2>1, ListsConcat
  <1> HIDE DEF q2
  <1>8. Lists(q3, ((Q \cup (R \cap A)) \cup (R \cap B)) \cup (R \cap C))
    <2>1. ((Q \cup (R \cap A)) \cup (R \cap B)) \cap (R \cap C) = {}
      BY <1>2, <1>3
    <2> QED BY <1>5, <1>7, <2>1, ListsConcat
  <1> HIDE DEF q3
  <1>9. Lists(q4, (((Q \cup (R \cap A)) \cup (R \cap B)) \cup (R \cap C)) \cup (R \cap D))
    <2>1. (((Q \cup (R \cap A)) \cup (R \cap B)) \cup (R \cap C)) \cap (R \cap D) = {}
      BY <1>2, <1>3
    <2> QED BY <1>5, <1>8, <2>1, ListsConcat
  <1> HIDE DEF q4
  <1>10. (((Q \cup (R \cap A)) \cup (R \cap B)) \cup (R \cap C)) \cup (R \cap D) = R \cup Q
    BY <1>3
  <1>11. Lists(RunningOrder, R \cup Q)
    BY <1>4, <1>9, <1>10
  <1>12. R \cup Q \subseteq Requests
    BY <1>2
  <1>13. RunningOrder \in Seq(Requests) /\ ToSet(RunningOrder) = R \cup Q
    BY <1>11, <1>12, ListsType
  <1>14. Len(RunningOrder) = Len(running) + Len(queue)
    <2>1. /\ IsFiniteSet(R) /\ Cardinality(R) = Len(running)
          /\ IsFiniteSet(Q) /\ Cardinality(Q) = Len(queue)
      BY <1>2, ListsLen
    <2>2. Cardinality(R \cup Q) = Len(RunningOrder)
      BY <1>11, ListsLen
    <2>3. Cardinality(R \cup Q) = Cardinality(R) + Cardinality(Q) - Cardinality(R \cap Q)
      BY <2>1, FS_Union
    <2>4. Cardinality(R \cap Q) = 0
      BY <1>2, FS_EmptySet
    <2>5. Len(running) \in Nat /\ Len(queue) \in Nat
      BY <1>1, Types
    <2> QED BY <2>1, <2>2, <2>3, <2>4, <2>5
  <1> QED BY <1>11, <1>13, <1>14 DEF R, Q, Scheduled

\* mark_blocks_as_computed, and the end of the pass.
LEMMA ExecuteStep ==
  ASSUME IndInv, mode' = mode, Execute
  PROVE  IndInv'
  <1>1. /\ phase = "execute" /\ phase' = "idle"
        /\ computed' = computed \cup touched /\ touched' = {}
        /\ done' = [s \in Requests |-> IF s \in DOMAIN batch THEN batch[s] ELSE done[s]]
        /\ running' = RunningOrder /\ queue' = <<>>
        /\ waiting' = Reverse(preempted) \o waiting /\ preempted' = <<>>
        /\ batch' = <<>> /\ budget' = mode.tokens /\ current_ok' = {}
        /\ UNCHANGED <<current, resident, table, extra, memo, failed>>
    BY DEF Execute
  <1>2. /\ TypeOK /\ failed = FALSE /\ InOnePlace /\ Tables /\ Reserved /\ WithinDevice
        /\ InPass /\ Pinned /\ Budgeted
    BY Parts
  <1>3. /\ Lists(running', Scheduled) /\ ToSet(running') = Scheduled /\ running' \in Seq(Requests)
        /\ Len(running') = Len(running) + Len(queue)
    BY <1>1, RunningOrderLists
  <1>4. /\ ToSet(queue') = {} /\ ToSet(preempted') = {} /\ Lists(queue', {}) /\ Lists(preempted', {})
        /\ queue' \in Seq(Requests) /\ preempted' \in Seq(Requests) /\ Len(queue') = 0
    BY <1>1, ListsEmpty
  <1>5. Scheduled' = Scheduled /\ Admitted = {} /\ Admitted' = {}
    BY <1>1, <1>3, <1>4 DEF Scheduled, Admitted
  <1>6. /\ Lists(waiting', ToSet(preempted) \cup ToSet(waiting))
        /\ ToSet(waiting') = ToSet(preempted) \cup ToSet(waiting)
        /\ waiting' \in Seq(Requests)
    <2>1. /\ Lists(preempted, ToSet(preempted)) /\ Lists(waiting, ToSet(waiting))
          /\ ToSet(preempted) \cap ToSet(waiting) = {}
      BY <1>2 DEF InOnePlace
    <2>2. Lists(Reverse(preempted), ToSet(preempted))
      BY <2>1, ListsReverse
    <2>3. Lists(Reverse(preempted) \o waiting, ToSet(preempted) \cup ToSet(waiting))
      BY <2>1, <2>2, ListsConcat
    <2>4. ToSet(preempted) \cup ToSet(waiting) \subseteq Requests
      BY <1>2, Types
    <2> DEFINE w == Reverse(preempted) \o waiting
               W == ToSet(preempted) \cup ToSet(waiting)
    <2>5. w \in Seq(Requests) /\ ToSet(w) = W /\ Lists(w, W)
      <3>1. Lists(w, W) /\ W \subseteq Requests
        BY <2>3, <2>4
      <3> HIDE DEF w, W
      <3> QED BY <3>1, ListsType
    <2> QED BY <1>1, <2>5
  <1>7. Active' = Active /\ NumUsed' = NumUsed
    BY <1>1, BlocksFrame
  <1>8. TypeOK'
    <2>1. {waiting, running, preempted, queue}' \subseteq Seq(Requests)
      BY <1>3, <1>4, <1>6
    <2>2. budget' \in 0 .. mode.tokens
      <3>1. mode.tokens \in Nat
        BY <1>2, Types
      <3> QED BY <1>1, <3>1
    <2>3. DOMAIN batch' \subseteq Requests /\ batch' \in [DOMAIN batch' -> Nat]
      BY <1>1
    <2>4. done' \in [Requests -> Nat]
      <3>1. batch \in [DOMAIN batch -> Nat] /\ done \in [Requests -> Nat]
        BY <1>2 DEF TypeOK
      <3> QED BY <1>1, <3>1
    <2>5. resident' \cup computed' \cup touched' \subseteq Hashes
      BY <1>1, <1>2 DEF TypeOK
    <2> QED BY <1>1, <1>2, <2>1, <2>2, <2>3, <2>4, <2>5 DEF TypeOK
  <1>9. InOnePlace'
    <2>1. ToSet(waiting) \cap Scheduled = {} /\ ToSet(preempted) \cap Scheduled = {}
      BY <1>2 DEF InOnePlace
    <2> QED BY <1>1, <1>3, <1>4, <1>5, <1>6, <2>1 DEF InOnePlace
  <1>10. Tables'
    BY <1>1, <1>2, <1>5 DEF Tables
  <1>11. Reserved'
    BY <1>1, <1>2, <1>7 DEF Reserved
  <1>12. WithinDevice'
    BY <1>1, <1>2, <1>7 DEF WithinDevice
  <1>13. InPass' /\ Pinned'
    BY <1>1 DEF InPass, Pinned
  <1>14. Budgeted'
    <2>1. Len(running) \in Nat /\ Len(queue) \in Nat /\ MaxNumSeqs \in Nat
      BY <1>2, Types
    <2>2. Len(running) + Len(queue) + 0 <= MaxNumSeqs
      BY <1>1, <1>2 DEF Budgeted
    <2>3. Len(running') + Len(queue') + 0 <= MaxNumSeqs
      BY <1>3, <1>4, <2>1, <2>2
    <2>4. DOMAIN batch' = {}
      BY <1>1
    <2>5. ASSUME ~mode.chunked, NEW s \in Scheduled
          PROVE  Len(Prompt[s]) <= done'[s]
      <3>1. s \in Requests
        BY <1>2, Types DEF Scheduled
      <3>2. /\ s \in DOMAIN batch => Len(Prompt[s]) <= batch[s]
            /\ s \notin DOMAIN batch => Len(Prompt[s]) <= done[s]
        BY <1>2, <2>5 DEF Budgeted
      <3>3. s \notin DOMAIN batch => done'[s] = done[s]
        BY <1>1, <3>1
      <3>4. s \in DOMAIN batch => done'[s] = batch[s]
        BY <1>1, <3>1
      <3> QED BY <3>2, <3>3, <3>4
    <2> QED BY <1>1, <1>5, <2>3, <2>4, <2>5 DEF Budgeted
  <1> QED BY <1>1, <1>2, <1>8, <1>9, <1>10, <1>11, <1>12, <1>13, <1>14 DEF IndInv

-----------------------------------------------------------------------------
(* The theorems.                                                            *)

\* Nothing waits and nothing is cached.
LEMMA InitInvariant ==
  ASSUME Init
  PROVE  IndInv
  <1>1. /\ mode \in Modes
        /\ waiting = <<>> /\ running = <<>> /\ preempted = <<>> /\ queue = <<>>
        /\ phase = "idle" /\ current = None /\ budget = mode.tokens /\ batch = <<>>
        /\ table = [s \in Requests |-> <<>>] /\ extra = [s \in Requests |-> 0]
        /\ memo = [s \in Requests |-> None] /\ done = [s \in Requests |-> 0]
        /\ resident = {} /\ computed = {} /\ touched = {} /\ current_ok = {} /\ failed = FALSE
    BY DEF Init
  <1>2. /\ mode.tokens \in Nat /\ MaxNumSeqs \in Nat /\ MaxExtra \in Nat /\ NumBlocks \in Nat
    BY <1>1, SchedulingAssumption
  <1>3. \A s \in Requests : table[s] = <<>> /\ memo[s] = None /\ extra[s] = 0
    BY <1>1
  <1>4. Scheduled = {} /\ Admitted = {} /\ ToSet(waiting) = {} /\ ToSet(preempted) = {}
        /\ ToSet(running) = {} /\ ToSet(queue) = {}
    BY <1>1, ListsEmpty DEF Scheduled, Admitted
  <1>5. Active = {}
    BY <1>3, ListsEmpty DEF Active
  <1>6. Grown = {}
    <2>1. \A k \in 1 .. MaxExtra : ~(k <= 0)
      OBVIOUS
    <2> QED BY <1>3, <2>1 DEF Grown
  <1>7. TypeOK
    <2>1. \A s \in Requests : IsPrefix(table[s], Prompt[s])
      <3>1. \A s \in Requests : Prompt[s] \in Seq(Hashes)
        BY SchedulingAssumption
      <3> QED BY <1>3, <3>1, EmptyPrefix
    <2>2. budget \in 0 .. mode.tokens /\ extra \in [Requests -> 0 .. MaxExtra]
      BY <1>1, <1>2
    <2>3. table \in [Requests -> Seq(Hashes)] /\ memo \in [Requests -> Nat \cup {None}]
          /\ done \in [Requests -> Nat]
      BY <1>1
    <2>4. {waiting, running, preempted, queue} \subseteq Seq(Requests)
      BY <1>1
    <2>5. DOMAIN batch \subseteq Requests /\ batch \in [DOMAIN batch -> Nat]
      BY <1>1
    <2> QED BY <1>1, <2>1, <2>2, <2>3, <2>4, <2>5 DEF TypeOK
  <1>8. InOnePlace
    BY <1>1, <1>4, ListsEmpty DEF InOnePlace
  <1>9. Tables
    BY <1>1, <1>3, <1>4 DEF Tables
  <1>10. Reserved /\ WithinDevice
    <2>1. IsFiniteSet({}) /\ Cardinality({}) = 0
      BY FS_EmptySet
    <2>2. NumUsed = 0
      BY <1>5, <1>6, <2>1 DEF NumUsed
    <2> QED BY <1>1, <1>2, <1>5, <2>1, <2>2 DEF Reserved, WithinDevice
  <1>11. InPass /\ Pinned
    BY <1>1 DEF InPass, Pinned
  <1>12. Budgeted
    <2>1. Len(running) + Len(queue) + 0 <= MaxNumSeqs
      BY <1>1, <1>2
    <2>2. DOMAIN batch = {}
      BY <1>1
    <2> QED BY <1>1, <1>4, <2>1, <2>2 DEF Budgeted
  <1> QED BY <1>1, <1>7, <1>8, <1>9, <1>10, <1>11, <1>12 DEF IndInv

\* Every step keeps the invariant.
LEMMA NextInvariant ==
  ASSUME IndInv, [Next]_vars
  PROVE  IndInv'
  <1>1. CASE UNCHANGED vars
    <2>1. /\ UNCHANGED <<mode, waiting, running, preempted, queue, phase, current, budget, batch>>
          /\ UNCHANGED <<resident, computed, touched, table, extra, memo, done, current_ok, failed>>
      BY <1>1 DEF vars, queues, cache, perSeq
    <2>2. Active' = Active /\ NumUsed' = NumUsed
      BY <2>1, BlocksFrame
    <2>3. Scheduled' = Scheduled /\ Admitted' = Admitted
      BY <2>1 DEF Scheduled, Admitted
    <2>4. /\ TypeOK /\ failed = FALSE /\ InOnePlace /\ Tables /\ Reserved /\ WithinDevice
          /\ InPass /\ Pinned /\ Budgeted
      BY Parts
    <2>5. TypeOK' /\ InOnePlace'
      BY <2>1, <2>3, <2>4 DEF TypeOK, InOnePlace
    <2>6. Tables' /\ Reserved' /\ WithinDevice'
      BY <2>1, <2>2, <2>3, <2>4 DEF Tables, Reserved, WithinDevice
    <2>7. InPass' /\ Pinned' /\ Budgeted'
      BY <2>1, <2>2, <2>3, <2>4 DEF InPass, Pinned, Budgeted
    <2> QED BY <2>1, <2>4, <2>5, <2>6, <2>7 DEF IndInv
  <1>2. CASE Next
    <2>1. mode' = mode
      BY <1>2 DEF Next
    <2>2. ASSUME NEW s \in Requests, Arrive(s) \/ Finish(s) \/ Abort(s) PROVE IndInv'
      BY <2>1, <2>2, ArriveStep, FinishStep, AbortStep
    <2>3. CASE StartPass
      BY <2>1, <2>3, StartPassStep
    <2>4. ASSUME NEW s \in Requests, Consider(s) PROVE IndInv'
      BY <2>1, <2>4, ConsiderStep
    <2>5. CASE NoneWaiting
      BY <2>1, <2>5, NoneWaitingStep
    <2>6. CASE AllocateBlock
      BY <2>1, <2>6, AllocateBlockStep
    <2>7. CASE RunPreempt
      BY <2>1, <2>7, RunPreemptStep
    <2>8. ASSUME NEW grow \in BOOLEAN, RunDecode(grow) PROVE IndInv'
      BY <2>1, <2>8, RunDecodeStep
    <2>9. CASE RunPrefill
      BY <2>1, <2>9, RunPrefillStep
    <2>10. CASE RunEnd
      BY <2>1, <2>10, RunEndStep
    <2>11. CASE Execute
      BY <2>1, <2>11, ExecuteStep
    <2> QED BY <1>2, <2>2, <2>3, <2>4, <2>5, <2>6, <2>7, <2>8, <2>9, <2>10, <2>11 DEF Next, PassStep
  <1> QED BY <1>1, <1>2

\* The inductive invariant of the scheduling pass.
THEOREM Invariant == SafeSpec => []IndInv
  <1>1. Init => IndInv
    BY InitInvariant
  <1>2. IndInv /\ [Next]_vars => IndInv'
    BY NextInvariant
  <1> QED BY <1>1, <1>2, PTL DEF SafeSpec

\* Every variable of the scheduler, the block manager and the trackers keeps its type; in
\* particular the token budget never becomes negative and a block table never holds
\* anything but the beginning of its prompt.
THEOREM TypeCorrect == SafeSpec => []TypeOK
  <1>1. IndInv => TypeOK
    BY DEF IndInv
  <1> QED BY <1>1, Invariant, PTL

\* can_allocate and can_append_slots are sufficient: what they let through finds its
\* blocks, on a device of any size and however the prompts share blocks, and every
\* sequence that is freed is known to the tracker.
THEOREM AllocationNeverFails == SafeSpec => []NoAllocationFailure
  <1>1. IndInv => NoAllocationFailure
    BY DEF IndInv, NoAllocationFailure
  <1> QED BY <1>1, Invariant, PTL

\* Blocks in use and resident blocks never exceed the device, and no block is both.
THEOREM DeviceNeverOvercommitted == SafeSpec => []WithinDevice
  <1>1. IndInv => WithinDevice
    BY DEF IndInv
  <1> QED BY <1>1, Invariant, PTL

\* What was cached when a request was admitted is not replaced before its batch runs.
THEOREM SkippedStaysPinned == SafeSpec => []PinnedUntilRun
  <1>1. ASSUME IndInv PROVE PinnedUntilRun
    <2> SUFFICES ASSUME NEW s \in current_ok
                 PROVE  Skipped(s) \cap touched = {}
      BY DEF PinnedUntilRun
    <2>1. /\ TypeOK /\ memo[s] # None /\ \A i \in 1 .. memo[s] : Prompt[s][i] \notin touched
      BY <1>1 DEF IndInv, Pinned
    <2>2. s \in Requests /\ done[s] \in Nat /\ memo[s] \in Nat
      BY <2>1, Types DEF TypeOK
    <2>3. \A i \in done[s] + 1 .. memo[s] : i \in 1 .. memo[s]
      BY <2>2
    <2> QED BY <2>1, <2>3 DEF Skipped
  <1> QED BY <1>1, Invariant, PTL
=============================================================================
