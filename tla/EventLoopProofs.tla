----------------------------- MODULE EventLoopProofs -----------------------------
(***************************************************************************)
(* Theorems about EventLoop, for any number of blocks, descriptors, nested *)
(* dispatches and operations.                                              *)
(*                                                                         *)
(* Memory is safe because of two counts.  The references to a block are    *)
(* its owners: at most one home (the list it is linked in or the           *)
(* descriptor it is registered for) and the frames that run it.  And a     *)
(* weak reference knows how often its block was freed since, because each  *)
(* time it is freed its version moves on by one: WeakFine keeps this       *)
(* number, and that every time but the first took an operation to allocate *)
(* the block again.  So there are never enough of them between two polls   *)
(* to bring the version round (VersionAssumption).  Core is all this, as a *)
(* predicate of the heap, the lists, the table, the                        *)
(* stack and the number of operations, so that a step which changes        *)
(* several of them is proved one change at a time; IInv adds what the      *)
(* action properties need.                                                 *)
(***************************************************************************)
EXTENDS EventLoop, SequenceTheorems, FiniteSetTheorems, WellFoundedInduction, TLAPS

(* Lists.                                                                  *)

(* Any set of numbers has a least one.                                     *)
LEMMA LeastNumber ==
  ASSUME NEW S, S \subseteq Nat, S # {}
  PROVE  \E m \in S : \A k \in S : m <= k
<1> DEFINE R == {p \in Nat \X Nat : p[1] < p[2]}
<1>1. IsWellFoundedOn(R, Nat)
  <2>1. R = OpToRel(<, Nat)
    BY DEF OpToRel
  <2> QED
    BY <2>1, NatLessThanWellFounded
<1>2. \A a, b \in Nat : a < b => <<a, b>> \in R
  OBVIOUS
<1> HIDE DEF R
<1>3. PICK m \in S : \A k \in S : ~ (<<k, m>> \in R)
  BY <1>1, WFMin
<1>4. ASSUME NEW k \in S PROVE m <= k
  <2>1. k \in Nat /\ m \in Nat
    OBVIOUS
  <2>2. ~ (k < m)
    BY <1>2, <1>3, <2>1
  <2> QED
    BY <2>1, <2>2
<1> QED
  BY <1>4

(* What holds of the empty sequence and stays true when one is extended    *)
(* holds of every sequence.                                                *)
LEMMA SequenceInduction ==
  ASSUME NEW A, NEW P, <<>> \in P,
         \A s \in Seq(A) : s \in P => \A x \in A : Append(s, x) \in P
  PROVE  Seq(A) \subseteq P
<1> DEFINE Bad == {n \in Nat : \E s \in Seq(A) : Len(s) = n /\ s \notin P}
<1>1. SUFFICES ASSUME Bad # {} PROVE FALSE
  <2>1. ASSUME NEW s \in Seq(A), Bad = {} PROVE s \in P
    <3>1. Len(s) \in Nat
      OBVIOUS
    <3> QED
      BY <2>1, <3>1
  <2> QED
    BY <2>1
<1>2. PICK m \in Bad : \A k \in Bad : m <= k
  <2>1. Bad \subseteq Nat
    OBVIOUS
  <2> HIDE DEF Bad
  <2> QED
    BY <1>1, <2>1, LeastNumber
<1>3. PICK s \in Seq(A) : Len(s) = m /\ s \notin P
  OBVIOUS
<1>4. s # <<>>
  BY <1>3
<1> DEFINE t == [i \in 1 .. Len(s) - 1 |-> s[i]]
<1>5. Len(s) \in Nat \ {0} /\ \A i \in 1 .. Len(s) : s[i] \in A
  BY <1>3, <1>4
<1>6. t \in Seq(A) /\ Len(t) = Len(s) - 1 /\ \A i \in 1 .. Len(s) - 1 : t[i] = s[i]
  <2>1. Len(s) - 1 \in Nat /\ t \in [1 .. Len(s) - 1 -> A]
    BY <1>5
  <2> QED
    BY <1>5, <2>1
<1>7. s = Append(t, s[Len(s)])
  <2> HIDE DEF t
  <2>1. Append(t, s[Len(s)]) \in Seq(A)
    BY <1>5, <1>6
  <2>2. Len(Append(t, s[Len(s)])) = Len(s)
    BY <1>5, <1>6
  <2>3. \A i \in 1 .. Len(s) : Append(t, s[Len(s)])[i] = s[i]
    BY <1>5, <1>6
  <2> QED
    BY <2>1, <2>2, <2>3, SeqEqual
<1> HIDE DEF t
<1>8. Len(t) \notin Bad
  <2>1. Len(t) \in Nat /\ ~ (m <= Len(t))
    BY <1>3, <1>5, <1>6
  <2> HIDE DEF Bad
  <2> QED
    BY <1>2, <2>1
<1>9. t \in P
  BY <1>5, <1>6, <1>8
<1>10. Append(t, s[Len(s)]) \in P
  BY <1>5, <1>6, <1>9
<1> QED
  BY <1>3, <1>7, <1>10, Zenon

(* What the first n steps of Keep have kept.                               *)
Kept(at, seq, set, n) ==
  at = [k \in 0 .. n |->
          IF k = 0 THEN <<>>
          ELSE IF seq[k] \in set THEN Append(at[k - 1], seq[k]) ELSE at[k - 1]]

(* Such a function has one value at every place.                           *)
LEMMA KeptIsUnique ==
  ASSUME NEW n \in Nat, NEW seq, NEW v, NEW set, \A k \in 1 .. n : v[k] = seq[k],
         NEW m \in Nat, n <= m,
         NEW f, Kept(f, seq, set, n), NEW g, Kept(g, v, set, m)
  PROVE  \A k \in 0 .. n : f[k] = g[k]
<1> DEFINE Bad == {k \in 0 .. n : f[k] # g[k]}
<1>1. SUFFICES ASSUME Bad # {} PROVE FALSE
  OBVIOUS
<1>2. PICK k \in Bad : \A j \in Bad : k <= j
  <2>1. Bad \subseteq Nat
    OBVIOUS
  <2> HIDE DEF Bad
  <2> QED
    BY <1>1, <2>1, LeastNumber
<1>3. k \in 0 .. n /\ f[k] # g[k] /\ k \in 0 .. m
  OBVIOUS
<1>4. /\ f[k] = IF k = 0 THEN <<>>
                ELSE IF seq[k] \in set THEN Append(f[k - 1], seq[k]) ELSE f[k - 1]
      /\ g[k] = IF k = 0 THEN <<>>
                ELSE IF v[k] \in set THEN Append(g[k - 1], v[k]) ELSE g[k - 1]
  BY <1>3 DEF Kept
<1>5. k # 0
  BY <1>3, <1>4
<1>6. f[k - 1] = g[k - 1]
  <2>1. k - 1 \in 0 .. n /\ ~ (k <= k - 1)
    BY <1>3, <1>5
  <2>2. k - 1 \notin Bad
    <3> HIDE DEF Bad
    <3> QED
      BY <1>2, <2>1
  <2> QED
    BY <2>1, <2>2
<1>7. v[k] = seq[k]
  BY <1>3, <1>5
<1> QED
  BY <1>3, <1>4, <1>5, <1>6, <1>7

(* A function as in Keep exists for every sequence, by induction.          *)
LEMMA KeptExists ==
  ASSUME NEW A, NEW set
  PROVE  \A seq \in Seq(A) : \E f : Kept(f, seq, set, Len(seq))
<1> DEFINE P == {seq \in Seq(A) : \E f : Kept(f, seq, set, Len(seq))}
<1>1. <<>> \in P
  <2>1. Kept([k \in 0 .. 0 |-> <<>>], <<>>, set, 0)
    BY DEF Kept
  <2>2. <<>> \in Seq(A) /\ Len(<<>>) = 0
    OBVIOUS
  <2> QED
    BY <2>1, <2>2
<1>2. ASSUME NEW seq \in Seq(A), seq \in P, NEW x \in A PROVE Append(seq, x) \in P
  <2> DEFINE n == Len(seq)
             v == Append(seq, x)
  <2>1. PICK f : Kept(f, seq, set, n)
    BY <1>2
  <2> DEFINE last == IF x \in set THEN Append(f[n], x) ELSE f[n]
             g == [k \in 0 .. n + 1 |-> IF k = n + 1 THEN last ELSE f[k]]
  <2>2. /\ n \in Nat /\ v \in Seq(A) /\ Len(v) = n + 1 /\ v[n + 1] = x
        /\ \A k \in 1 .. n : v[k] = seq[k]
    OBVIOUS
  <2>3. \A k \in 0 .. n : f[k] = IF k = 0 THEN <<>>
          ELSE IF seq[k] \in set THEN Append(f[k - 1], seq[k]) ELSE f[k - 1]
    BY <2>1 DEF Kept
  <2> HIDE DEF n, v
  <2>4. ASSUME NEW k \in 0 .. n + 1
        PROVE  g[k] = IF k = 0 THEN <<>>
                      ELSE IF v[k] \in set THEN Append(g[k - 1], v[k]) ELSE g[k - 1]
    <3>1. CASE k = n + 1
      <4>1. g[k] = last /\ g[k - 1] = f[n] /\ k # 0 /\ v[k] = x
        BY <2>2, <3>1
      <4> QED
        BY <4>1
    <3>2. CASE k # n + 1
      <4>1. k \in 0 .. n /\ g[k] = f[k]
        BY <2>2, <3>2
      <4>2. k # 0 => k - 1 \in 0 .. n /\ g[k - 1] = f[k - 1] /\ v[k] = seq[k]
        BY <2>2, <3>2
      <4> QED
        BY <2>3, <4>1, <4>2
    <3> QED
      BY <3>1, <3>2
  <2>5. Kept(g, v, set, n + 1)
    <3>1. g = [k \in 0 .. n + 1 |-> g[k]]
      OBVIOUS
    <3> HIDE DEF g
    <3> QED
      BY <2>4, <3>1 DEF Kept
  <2> QED
    BY <2>2, <2>5 DEF v
<1> HIDE DEF P
<1>3. Seq(A) \subseteq P
  BY <1>1, <1>2, SequenceInduction
<1> QED
  BY <1>3 DEF P

(* Keep is therefore the last value of such a function.                    *)
LEMMA KeepIsKept ==
  ASSUME NEW A, NEW set, NEW seq \in Seq(A)
  PROVE  \E f : Kept(f, seq, set, Len(seq)) /\ Keep(seq, set) = f[Len(seq)]
<1> DEFINE f == CHOOSE at : Kept(at, seq, set, Len(seq))
<1>1. Kept(f, seq, set, Len(seq))
  BY KeptExists
<1>2. Keep(seq, set) = f[Len(seq)]
  BY DEF Keep, Kept
<1> QED
  BY <1>1, <1>2

(* How the loop begins, and how it goes on.                                *)
LEMMA KeepNone ==
  ASSUME NEW set
  PROVE  Keep(<<>>, set) = <<>>
<1>1. <<>> \in Seq({}) /\ Len(<<>>) = 0
  OBVIOUS
<1>2. PICK f : Kept(f, <<>>, set, 0) /\ Keep(<<>>, set) = f[0]
  BY <1>1, KeepIsKept
<1> QED
  BY <1>2 DEF Kept

(* One more element is kept, or left out.                                  *)
LEMMA KeepMore ==
  ASSUME NEW A, NEW set, NEW seq \in Seq(A), NEW x \in A
  PROVE  Keep(Append(seq, x), set) =
           IF x \in set THEN Append(Keep(seq, set), x) ELSE Keep(seq, set)
<1> DEFINE n == Len(seq)
           v == Append(seq, x)
<1>1. /\ n \in Nat /\ v \in Seq(A) /\ Len(v) = n + 1 /\ v[n + 1] = x
      /\ \A k \in 1 .. n : v[k] = seq[k]
  OBVIOUS
<1> HIDE DEF n, v
<1>2. PICK f : Kept(f, seq, set, n) /\ Keep(seq, set) = f[n]
  BY KeepIsKept DEF n
<1>3. PICK g : Kept(g, v, set, n + 1) /\ Keep(v, set) = g[n + 1]
  BY KeepIsKept, <1>1
<1>4. f[n] = g[n]
  <2>1. n + 1 \in Nat /\ n <= n + 1 /\ n \in 0 .. n
    BY <1>1
  <2> QED
    BY <1>1, <1>2, <1>3, <2>1, KeptIsUnique
<1>5. g[n + 1] = IF v[n + 1] \in set THEN Append(g[n], v[n + 1]) ELSE g[n]
  <2>1. n + 1 \in 0 .. n + 1 /\ n + 1 # 0 /\ (n + 1) - 1 = n
    BY <1>1
  <2> QED
    BY <1>3, <2>1 DEF Kept
<1> QED
  BY <1>1, <1>2, <1>3, <1>4, <1>5 DEF v

(* The elements of a list with one more.                                   *)
LEMMA AppendSet ==
  ASSUME NEW A, NEW s \in Seq(A), NEW x \in A
  PROVE  ToSet(Append(s, x)) = ToSet(s) \cup {x}
<1>1. /\ Len(s) \in Nat /\ DOMAIN s = 1 .. Len(s) /\ DOMAIN Append(s, x) = 1 .. Len(s) + 1
      /\ Append(s, x)[Len(s) + 1] = x
      /\ \A k \in 1 .. Len(s) : Append(s, x)[k] = s[k]
  OBVIOUS
<1> DEFINE t == Append(s, x)
<1> HIDE DEF t
<1>2. ToSet(t) = ToSet(s) \cup {x}
  BY <1>1 DEF t, ToSet
<1> QED
  BY <1>2 DEF t

(* What is kept: the elements in the set.                                  *)
LEMMA KeepKeeps ==
  ASSUME NEW A, NEW S, NEW seq \in Seq(A)
  PROVE  Keep(seq, S) \in Seq(A) /\ ToSet(Keep(seq, S)) = ToSet(seq) \cap S
<1> DEFINE P == {v \in Seq(A) : Keep(v, S) \in Seq(A) /\ ToSet(Keep(v, S)) = ToSet(v) \cap S}
<1>1. <<>> \in P
  <2>1. Keep(<<>>, S) = <<>> /\ <<>> \in Seq(A) /\ ToSet(<<>>) = {}
    BY KeepNone DEF ToSet
  <2> QED
    BY <2>1
<1>2. ASSUME NEW v \in Seq(A), v \in P, NEW x \in A PROVE Append(v, x) \in P
  <2> DEFINE w == Append(v, x)
             k == Keep(v, S)
  <2>1. k \in Seq(A) /\ ToSet(k) = ToSet(v) \cap S
    BY <1>2
  <2>2. Keep(w, S) = IF x \in S THEN Append(k, x) ELSE k
    BY KeepMore
  <2>3. w \in Seq(A) /\ ToSet(w) = ToSet(v) \cup {x}
    BY AppendSet
  <2>4. CASE x \in S
    <3>1. Append(k, x) \in Seq(A) /\ ToSet(Append(k, x)) = ToSet(k) \cup {x}
      BY <2>1, AppendSet
    <3> HIDE DEF k, w
    <3> QED
      BY <2>1, <2>2, <2>3, <2>4, <3>1 DEF w
  <2>5. CASE x \notin S
    <3>1. Keep(w, S) = k
      BY <2>2, <2>5
    <3> HIDE DEF k, w
    <3> QED
      BY <2>1, <2>3, <2>5, <3>1 DEF w
  <2> QED
    BY <2>4, <2>5
<1> HIDE DEF P
<1>3. Seq(A) \subseteq P
  BY <1>1, <1>2, SequenceInduction
<1> QED
  BY <1>3 DEF P

(* Unlinking takes one element out and leaves the others.                  *)
LEMMA WithoutProperties ==
  ASSUME NEW A, NEW seq \in Seq(A), NEW x
  PROVE  Without(seq, x) \in Seq(A) /\ ToSet(Without(seq, x)) = ToSet(seq) \ {x}
BY KeepKeeps DEF Without

-------------------------------------------------------------------------------
(* Versions.                                                               *)
LEMMA NextVersion ==
  ASSUME NEW v \in 1 .. VersionCount
  PROVE  (v % VersionCount) + 1 = IF v = VersionCount THEN 1 ELSE v + 1
<1>1. VersionCount \in Nat /\ VersionCount > 0
  BY VersionAssumption
<1>2. CASE v = VersionCount
  <2>1. v % VersionCount = 0
    BY <1>1, <1>2
  <2> QED
    BY <1>2, <2>1
<1>3. CASE v # VersionCount
  <2>1. v \in 0 .. VersionCount - 1
    BY <1>1, <1>3
  <2>2. v % VersionCount = v
    BY <1>1, <2>1
  <2> QED
    BY <1>3, <2>2
<1> QED
  BY <1>2, <1>3

-------------------------------------------------------------------------------
(* The heap, for any owners O[s] of the blocks s.                          *)
Heap == [version : [Slot -> 0 .. VersionCount], ref_count : [Slot -> Nat], bin : Seq(Slot)]

HeapFine(h, O) ==
  /\ h \in Heap
  /\ \A s \in Slot : IsFiniteSet(O[s]) /\ h.ref_count[s] = Cardinality(O[s])
  /\ \A s \in Slot : s \in ToSet(h.bin) <=> h.version[s] # 0 /\ O[s] = {}
  /\ \A s \in Slot : O[s] # {} => h.version[s] # 0
  /\ IsInjective(h.bin)

(* The fields of a heap.                                                   *)
LEMMA HeapFields ==
  ASSUME NEW h \in Heap
  PROVE  /\ h.version \in [Slot -> 0 .. VersionCount] /\ h.ref_count \in [Slot -> Nat]
         /\ h.bin \in Seq(Slot) /\ h.bin = h["bin"]
         /\ \A s \in Slot : h.version[s] \in 0 .. VersionCount /\ h.ref_count[s] \in Nat
BY DEF Heap

(* Two sets of owners that differ for s only.                              *)
SameElsewhere(O, P, s) == \A t \in Slot \ {s} : P[t] = O[t]

(* What allocating and dropping do to versions.                            *)
AllocatedVersions(h, g, s) ==
  /\ \A t \in Slot \ {s} : g.version[t] = h.version[t]
  /\ g.version[s] = IF h.version[s] = 0 THEN 1 ELSE h.version[s]

DroppedVersions(h, g, s, P) ==
  /\ \A t \in Slot \ {s} : g.version[t] = h.version[t]
  /\ g.version[s] = IF P[s] = {} THEN (h.version[s] % VersionCount) + 1 ELSE h.version[s]

(* When only the owners of s change, it is enough to count those.          *)
LEMMA Recounted ==
  ASSUME NEW c \in [Slot -> Nat], NEW O, NEW P, NEW s \in Slot, NEW n,
         \A t \in Slot : IsFiniteSet(O[t]) /\ c[t] = Cardinality(O[t]),
         IsFiniteSet(P[s]), n = Cardinality(P[s]), \A t \in Slot \ {s} : P[t] = O[t]
  PROVE  \A t \in Slot : IsFiniteSet(P[t]) /\ [c EXCEPT ![s] = n][t] = Cardinality(P[t])
<1>1. SUFFICES ASSUME NEW t \in Slot
               PROVE  IsFiniteSet(P[t]) /\ [c EXCEPT ![s] = n][t] = Cardinality(P[t])
  OBVIOUS
<1>2. CASE t = s
  <2>1. [c EXCEPT ![s] = n][t] = n
    BY <1>2
  <2> QED
    BY <1>2, <2>1
<1>3. CASE t # s
  <2>1. [c EXCEPT ![s] = n][t] = c[t] /\ P[t] = O[t]
    BY <1>3
  <2> QED
    BY <2>1
<1> QED
  BY <1>2, <1>3

(* A block that is allocated had no owner, and gets one.                   *)
LEMMA Allocates ==
  ASSUME NEW h, NEW O, HeapFine(h, O), NEW s \in Allocatable(h), NEW o, NEW P,
         P[s] = {o}, SameElsewhere(O, P, s)
  PROVE  /\ HeapFine(registry_allocate(h, s), P)
         /\ AllocatedVersions(h, registry_allocate(h, s), s)
<1> USE DEF SameElsewhere, AllocatedVersions
<1> DEFINE g == registry_allocate(h, s)
<1>1. h \in Heap /\ VersionCount \in Nat /\ VersionCount > 0
  BY VersionAssumption DEF HeapFine
<1>2. /\ h.version \in [Slot -> 0 .. VersionCount] /\ h.ref_count \in [Slot -> Nat]
      /\ h.bin \in Seq(Slot)
  BY <1>1, HeapFields
<1>3. \A x : IsFiniteSet({x}) /\ Cardinality({x}) = 1
  BY FS_Singleton
<1>4. CASE h.bin # <<>>
  <2> DEFINE n == Len(h.bin)
  <2>1. /\ n \in Nat \ {0} /\ s = h.bin[n] /\ s \in Slot /\ s \in ToSet(h.bin)
    <3>1. Len(h.bin) \in Nat \ {0} /\ s = h.bin[Len(h.bin)]
      BY <1>2, <1>4 DEF Allocatable, Last
    <3> QED
      BY <1>2, <3>1 DEF ToSet
  <2>2. O[s] = {} /\ h.version[s] # 0
    BY <2>1 DEF HeapFine
  <2>3. g = [version |-> h.version, ref_count |-> [h.ref_count EXCEPT ![s] = 1],
             bin |-> Front(h.bin)]
    BY <1>4 DEF registry_allocate
  <2>4. /\ Front(h.bin) \in Seq(Slot) /\ Len(Front(h.bin)) = n - 1
        /\ \A i \in 1 .. n - 1 : Front(h.bin)[i] = h.bin[i]
    BY <1>2, <2>1 DEF Front
  <2>5. DOMAIN Front(h.bin) = 1 .. n - 1 /\ DOMAIN h.bin = 1 .. n
    BY <1>2, <2>4
  <2> HIDE DEF g, n
  <2>6. IsInjective(Front(h.bin)) /\ ToSet(Front(h.bin)) = ToSet(h.bin) \ {s}
    <3>1. \A i, j \in 1 .. n : h.bin[i] = h.bin[j] => i = j
      BY <2>5 DEF HeapFine, IsInjective
    <3>2. IsInjective(Front(h.bin))
      BY <2>1, <2>4, <2>5, <3>1 DEF IsInjective
    <3>3. \A i \in 1 .. n : i = n \/ i \in 1 .. n - 1
      BY <2>1
    <3>4. \A i \in 1 .. n - 1 : i \in 1 .. n /\ n \in 1 .. n /\ i # n
      BY <2>1
    <3>5. \A i \in 1 .. n - 1 : h.bin[i] # s
      BY <2>1, <3>1, <3>4
    <3>6. ToSet(Front(h.bin)) = {h.bin[i] : i \in 1 .. n - 1}
      BY <2>4, <2>5 DEF ToSet
    <3>7. ToSet(h.bin) = {h.bin[i] : i \in 1 .. n}
      BY <2>5 DEF ToSet
    <3>8. {h.bin[i] : i \in 1 .. n - 1} = {h.bin[i] : i \in 1 .. n} \ {s}
      BY <2>1, <3>3, <3>4, <3>5
    <3> QED
      BY <3>2, <3>6, <3>7, <3>8
  <2>7. g \in Heap /\ g.version = h.version /\ g.bin = Front(h.bin)
        /\ g.ref_count = [h.ref_count EXCEPT ![s] = 1]
    BY <1>2, <2>1, <2>3, <2>4 DEF Heap
  <2>8. HeapFine(g, P)
    <3>1. \A t \in Slot : IsFiniteSet(P[t]) /\ g.ref_count[t] = Cardinality(P[t])
      <4>1. IsFiniteSet(P[s]) /\ 1 = Cardinality(P[s])
        BY <1>3
      <4>2. \A t \in Slot : IsFiniteSet(O[t]) /\ h.ref_count[t] = Cardinality(O[t])
        BY DEF HeapFine
      <4> QED
        BY <1>2, <2>1, <2>7, <4>1, <4>2, Recounted
    <3>2. \A t \in Slot : t \in ToSet(g.bin) <=> g.version[t] # 0 /\ P[t] = {}
      <4>1. P[s] # {}
        OBVIOUS
      <4> QED
        BY <2>1, <2>6, <2>7, <4>1 DEF HeapFine
    <3>3. \A t \in Slot : P[t] # {} => g.version[t] # 0
      <4>1. \A t \in Slot \ {s} : P[t] # {} => g.version[t] # 0
        BY <2>7 DEF HeapFine
      <4> QED
        BY <2>2, <2>7, <4>1
    <3> QED
      BY <2>6, <2>7, <3>1, <3>2, <3>3 DEF HeapFine
  <2> QED
    BY <2>1, <2>2, <2>7, <2>8 DEF g
<1>5. CASE h.bin = <<>>
  <2>1. s \in Slot /\ h.version[s] = 0 /\ O[s] = {}
    BY <1>5 DEF Allocatable, HeapFine
  <2>2. g = [version |-> [h.version EXCEPT ![s] = 1], ref_count |-> [h.ref_count EXCEPT ![s] = 1],
             bin |-> <<>>]
    BY <1>5 DEF registry_allocate
  <2> HIDE DEF g
  <2>3. g \in Heap /\ g.version = [h.version EXCEPT ![s] = 1] /\ g.bin = <<>>
        /\ g.ref_count = [h.ref_count EXCEPT ![s] = 1]
    BY <1>1, <1>2, <2>1, <2>2 DEF Heap
  <2>4. HeapFine(g, P)
    <3>1. \A t \in Slot : IsFiniteSet(P[t]) /\ g.ref_count[t] = Cardinality(P[t])
      <4>1. IsFiniteSet(P[s]) /\ 1 = Cardinality(P[s])
        BY <1>3
      <4>2. \A t \in Slot : IsFiniteSet(O[t]) /\ h.ref_count[t] = Cardinality(O[t])
        BY DEF HeapFine
      <4> QED
        BY <1>2, <2>1, <2>3, <4>1, <4>2, Recounted
    <3>2. ToSet(g.bin) = {} /\ ToSet(h.bin) = {} /\ IsInjective(g.bin)
      BY <1>5, <2>3 DEF ToSet, IsInjective
    <3>3. P[s] # {}
      OBVIOUS
    <3>4. \A t \in Slot : t \in ToSet(g.bin) <=> g.version[t] # 0 /\ P[t] = {}
      BY <1>2, <2>3, <3>2, <3>3 DEF HeapFine
    <3>5. \A t \in Slot : P[t] # {} => g.version[t] # 0
      <4>1. \A t \in Slot \ {s} : P[t] # {} => g.version[t] # 0
        <5>1. \A t \in Slot \ {s} : g.version[t] = h.version[t]
          BY <1>2, <2>3
        <5> QED
          BY <5>1 DEF HeapFine
      <4>2. g.version[s] # 0
        BY <1>2, <2>1, <2>3
      <4> QED
        BY <4>1, <4>2
    <3> QED
      BY <2>3, <3>1, <3>2, <3>4, <3>5 DEF HeapFine
  <2> QED
    BY <1>2, <2>1, <2>3, <2>4 DEF g
<1> QED
  BY <1>4, <1>5

(* A block that has an owner gets another one.                             *)
LEMMA Adds ==
  ASSUME NEW h, NEW O, HeapFine(h, O), NEW s \in Slot, O[s] # {}, NEW o, o \notin O[s], NEW P,
         P[s] = O[s] \cup {o}, SameElsewhere(O, P, s)
  PROVE  HeapFine(object_add_ref(h, s), P) /\ object_add_ref(h, s).version = h.version
<1> USE DEF SameElsewhere
<1> DEFINE g == object_add_ref(h, s)
<1>1. h \in Heap
  BY DEF HeapFine
<1>2. /\ h.version \in [Slot -> 0 .. VersionCount] /\ h.ref_count \in [Slot -> Nat]
      /\ h.bin \in Seq(Slot)
  BY <1>1, HeapFields
<1>3. /\ g \in Heap /\ g.version = h.version /\ g.bin = h.bin
      /\ g.ref_count = [h.ref_count EXCEPT ![s] = h.ref_count[s] + 1]
  <2>1. h.ref_count[s] + 1 \in Nat
    BY <1>2
  <2> QED
    BY <1>1, <1>2, <2>1 DEF object_add_ref, Heap
<1>4. IsFiniteSet(P[s]) /\ h.ref_count[s] + 1 = Cardinality(P[s])
  <2>1. IsFiniteSet(O[s]) /\ h.ref_count[s] = Cardinality(O[s])
    BY DEF HeapFine
  <2>2. IsFiniteSet(O[s] \cup {o}) /\ Cardinality(O[s] \cup {o}) = Cardinality(O[s]) + 1
    BY <2>1, FS_AddElement
  <2> QED
    BY <2>1, <2>2
<1> HIDE DEF g
<1>5. \A t \in Slot : IsFiniteSet(P[t]) /\ g.ref_count[t] = Cardinality(P[t])
  <2>1. \A t \in Slot : IsFiniteSet(O[t]) /\ h.ref_count[t] = Cardinality(O[t])
    BY DEF HeapFine
  <2> QED
    BY <1>2, <1>3, <1>4, <2>1, Recounted
<1>6. \A t \in Slot : P[t] = {} <=> O[t] = {}
  OBVIOUS
<1>7. HeapFine(g, P)
  BY <1>3, <1>5, <1>6 DEF HeapFine
<1> QED
  BY <1>3, <1>7 DEF g

(* A block loses an owner; without one it is freed, and its version goes   *)
(* on.                                                                     *)
LEMMA Drops ==
  ASSUME NEW h, NEW O, HeapFine(h, O), NEW s \in Slot, NEW o \in O[s], NEW P,
         P[s] = O[s] \ {o}, SameElsewhere(O, P, s)
  PROVE  /\ HeapFine(object_remove_ref(h, s), P)
         /\ DroppedVersions(h, object_remove_ref(h, s), s, P)
<1> USE DEF SameElsewhere, DroppedVersions
<1> DEFINE less == [h EXCEPT !.ref_count[s] = @ - 1]
           g == object_remove_ref(h, s)
<1>1. h \in Heap /\ h.version[s] # 0 /\ s \notin ToSet(h.bin)
  BY DEF HeapFine
<1>2. /\ h.version \in [Slot -> 0 .. VersionCount] /\ h.ref_count \in [Slot -> Nat]
      /\ h.bin \in Seq(Slot)
  BY <1>1, HeapFields
<1>3. IsFiniteSet(P[s]) /\ Cardinality(P[s]) = h.ref_count[s] - 1 /\ Cardinality(P[s]) \in Nat
  <2>1. IsFiniteSet(P[s]) /\ Cardinality(P[s]) = Cardinality(O[s]) - 1
    BY FS_RemoveElement DEF HeapFine
  <2> QED
    BY <2>1, FS_CardinalityType DEF HeapFine
<1>4. Cardinality(P[s]) = 0 <=> P[s] = {}
  BY <1>3, FS_EmptySet
<1>5. /\ less \in Heap /\ less.version = h.version /\ less.bin = h.bin
      /\ less.ref_count = [h.ref_count EXCEPT ![s] = h.ref_count[s] - 1]
  <2>1. h.ref_count[s] - 1 \in Nat
    BY <1>3
  <2> QED
    BY <1>1, <1>2, <2>1 DEF Heap
<1>6. less.ref_count[s] = Cardinality(P[s])
  BY <1>2, <1>3, <1>5
<1>7. g = IF less.ref_count[s] = 0 THEN registry_free(less, s) ELSE less
  BY DEF object_remove_ref
<1> HIDE DEF less, g
<1>8. \A t \in Slot : IsFiniteSet(P[t]) /\ less.ref_count[t] = Cardinality(P[t])
  BY <1>2, <1>3, <1>5, <1>6 DEF HeapFine
<1>9. CASE P[s] # {}
  <2>1. g = less
    BY <1>4, <1>6, <1>7, <1>9
  <2>2. \A t \in Slot : P[t] = {} <=> O[t] = {}
    BY <1>9
  <2>3. HeapFine(g, P)
    BY <1>5, <1>8, <2>1, <2>2 DEF HeapFine
  <2> QED
    BY <1>5, <1>9, <2>1, <2>3 DEF g
<1>10. CASE P[s] = {}
  <2> DEFINE v == (h.version[s] % VersionCount) + 1
  <2>1. g = [less EXCEPT !.version[s] = v, !.bin = Append(h.bin, s)]
    BY <1>4, <1>5, <1>6, <1>7, <1>10 DEF registry_free
  <2>2. v \in 1 .. VersionCount
    <3>1. h.version[s] \in 1 .. VersionCount
      BY <1>1, <1>2
    <3>2. VersionCount \in Nat
      BY VersionAssumption
    <3> QED
      BY <3>1, <3>2, NextVersion
  <2> HIDE DEF v
  <2>3. Append(h.bin, s) \in Seq(Slot)
    BY <1>2
  <2>4. v \in 0 .. VersionCount /\ v # 0
    BY <2>2, VersionAssumption
  <2>5. /\ g \in Heap /\ g.version = [h.version EXCEPT ![s] = v] /\ g.bin = Append(h.bin, s)
        /\ g.ref_count = less.ref_count
    <3>1. [h.version EXCEPT ![s] = v] \in [Slot -> 0 .. VersionCount]
      BY <1>2, <2>4
    <3>2. g = [version |-> [h.version EXCEPT ![s] = v], ref_count |-> less.ref_count,
               bin |-> Append(h.bin, s)]
      BY <1>5, <2>1 DEF Heap
    <3>3. less.ref_count \in [Slot -> Nat]
      BY <1>5, HeapFields
    <3> QED
      BY <2>3, <3>1, <3>2, <3>3 DEF Heap
  <2>6. ToSet(g.bin) = ToSet(h.bin) \cup {s}
    BY <1>2, <2>5, AppendSet
  <2>7. IsInjective(g.bin)
    <3> DEFINE n == Len(h.bin)
               b == Append(h.bin, s)
    <3>1. /\ n \in Nat /\ DOMAIN h.bin = 1 .. n /\ DOMAIN b = 1 .. n + 1
          /\ b[n + 1] = s /\ \A i \in 1 .. n : b[i] = h.bin[i]
      BY <1>2
    <3>2. \A i \in 1 .. n : h.bin[i] # s
      BY <1>1, <3>1 DEF ToSet
    <3>3. \A i, j \in 1 .. n : h.bin[i] = h.bin[j] => i = j
      BY <3>1 DEF HeapFine, IsInjective
    <3> HIDE DEF n, b
    <3>4. IsInjective(b)
      BY <3>1, <3>2, <3>3 DEF IsInjective
    <3> QED
      BY <2>5, <3>4 DEF b
  <2>8. HeapFine(g, P)
    <3>1. \A t \in Slot : t \in ToSet(g.bin) <=> g.version[t] # 0 /\ P[t] = {}
      BY <1>2, <1>10, <2>4, <2>5, <2>6 DEF HeapFine
    <3>2. \A t \in Slot : P[t] # {} => g.version[t] # 0
      BY <1>2, <1>10, <2>5 DEF HeapFine
    <3> QED
      BY <1>8, <2>5, <2>7, <3>1, <3>2 DEF HeapFine
  <2> QED
    BY <1>2, <1>10, <2>5, <2>8 DEF g, v
<1> QED
  BY <1>9, <1>10

-------------------------------------------------------------------------------
(* Who owns a block: its homes (the list it is linked in, the descriptor   *)
(* it is registered for) and the frames that run it.                       *)
HomesOf(lk, ls, s) ==
  {<<"link", sig>> : sig \in {x \in Signal : s \in ToSet(lk[x])}}
    \cup {<<"fd", fd>> : fd \in {x \in Fd : ls[x] = s}}

RunningOf(st, s) == {<<"frame", k>> : k \in {x \in DOMAIN st : st[x].cur = s}}

OwnersOf(lk, ls, st) == [s \in Slot |-> HomesOf(lk, ls, s) \cup RunningOf(st, s)]

(* The owners of the model's property are those.                           *)
LEMMA OwnersAre ==
  ASSUME NEW s \in Slot
  PROVE  OwnersOf(links, listeners, stack)[s] = Owners(s)
BY Zenon DEF OwnersOf, HomesOf, RunningOf, Owners

(* What the home of a block can be.                                        *)
LEMMA HomeIs ==
  ASSUME NEW lk, NEW ls, NEW s, NEW o
  PROVE  o \in HomesOf(lk, ls, s) <=>
           \/ \E sig \in Signal : o = <<"link", sig>> /\ s \in ToSet(lk[sig])
           \/ \E fd \in Fd : o = <<"fd", fd>> /\ ls[fd] = s
BY DEF HomesOf

(* What can run a block.                                                   *)
LEMMA RunnerIs ==
  ASSUME NEW st, NEW s, NEW o
  PROVE  o \in RunningOf(st, s) <=> \E k \in DOMAIN st : o = <<"frame", k>> /\ st[k].cur = s
BY DEF RunningOf

(* The names of owners differ.                                             *)
LEMMA Kinds ==
  \A x, y : /\ <<"link", x>> # <<"fd", y>> /\ <<"link", x>> # <<"frame", y>>
            /\ <<"fd", x>> # <<"frame", y>>
            /\ (<<"link", x>> = <<"link", y>> <=> x = y)
            /\ (<<"fd", x>> = <<"fd", y>> <=> x = y)
            /\ (<<"frame", x>> = <<"frame", y>> <=> x = y)
OBVIOUS

(* A home is not a frame.                                                  *)
LEMMA HomesAreApart ==
  ASSUME NEW lk, NEW ls, NEW st, NEW s
  PROVE  /\ HomesOf(lk, ls, s) \cap RunningOf(st, s) = {}
         /\ \A t : HomesOf(lk, ls, s) \cap RunningOf(st, t) = {}
BY HomeIs, RunnerIs, Kinds

OneHome(lk, ls, s) == \A a, b \in HomesOf(lk, ls, s) : a = b

SameHomesElsewhere(lk, ls, lk2, ls2, s) ==
  \A t \in Slot \ {s} : HomesOf(lk2, ls2, t) = HomesOf(lk, ls, t)

(* The four ways in which a block gets a home and loses it.                *)
LEMMA LinkedHomes ==
  ASSUME NEW lk \in [Signal -> Seq(Slot)], NEW ls, NEW sig \in Signal, NEW s \in Slot
  PROVE  LET lk2 == [lk EXCEPT ![sig] = Append(@, s)]
         IN  /\ lk2 \in [Signal -> Seq(Slot)]
             /\ HomesOf(lk2, ls, s) = HomesOf(lk, ls, s) \cup {<<"link", sig>>}
             /\ SameHomesElsewhere(lk, ls, lk2, ls, s)
<1> DEFINE lk2 == [lk EXCEPT ![sig] = Append(lk[sig], s)]
<1>1. lk[sig] \in Seq(Slot) /\ Append(lk[sig], s) \in Seq(Slot)
  OBVIOUS
<1>2. ToSet(Append(lk[sig], s)) = ToSet(lk[sig]) \cup {s}
  BY <1>1, AppendSet
<1>3. lk2 \in [Signal -> Seq(Slot)] /\ lk2[sig] = Append(lk[sig], s)
      /\ \A x \in Signal \ {sig} : lk2[x] = lk[x]
  BY <1>1
<1> HIDE DEF lk2
<1>4. \A t \in Slot : \A x \in Signal :
        t \in ToSet(lk2[x]) <=> t \in ToSet(lk[x]) \/ (x = sig /\ t = s)
  BY <1>2, <1>3
<1>5. \A o : o \in HomesOf(lk2, ls, s) <=> o \in HomesOf(lk, ls, s) \cup {<<"link", sig>>}
  BY <1>4, HomeIs
<1>6. \A t \in Slot \ {s} : \A o : o \in HomesOf(lk2, ls, t) <=> o \in HomesOf(lk, ls, t)
  BY <1>4, HomeIs
<1>7. SameHomesElsewhere(lk, ls, lk2, ls, s)
  BY <1>6 DEF SameHomesElsewhere
<1>8. HomesOf(lk2, ls, s) = HomesOf(lk, ls, s) \cup {<<"link", sig>>}
  BY <1>5
<1> QED
  BY <1>3, <1>7, <1>8, Zenon DEF lk2

(* Unlinking takes the only home.                                          *)
LEMMA UnlinkedHomes ==
  ASSUME NEW lk \in [Signal -> Seq(Slot)], NEW ls, NEW s \in Slot,
         \E sig \in Signal : s \in ToSet(lk[sig]),
         OneHome(lk, ls, s)
  PROVE  LET lk2 == [sig \in Signal |-> Without(lk[sig], s)]
         IN  /\ lk2 \in [Signal -> Seq(Slot)]
             /\ HomesOf(lk2, ls, s) = {}
             /\ \E o : HomesOf(lk, ls, s) = {o}
             /\ SameHomesElsewhere(lk, ls, lk2, ls, s)
<1> USE DEF OneHome
<1> DEFINE lk2 == [sig \in Signal |-> Without(lk[sig], s)]
<1>1. \A x \in Signal : lk[x] \in Seq(Slot)
  OBVIOUS
<1>2. \A x \in Signal : Without(lk[x], s) \in Seq(Slot)
                        /\ ToSet(Without(lk[x], s)) = ToSet(lk[x]) \ {s}
  BY <1>1, WithoutProperties
<1>3. lk2 \in [Signal -> Seq(Slot)] /\ \A x \in Signal : ToSet(lk2[x]) = ToSet(lk[x]) \ {s}
  BY <1>2
<1> HIDE DEF lk2
<1>4. \A t \in Slot : \A x \in Signal :
        t \in ToSet(lk2[x]) <=> t \in ToSet(lk[x]) /\ t # s
  BY <1>3
<1>5. PICK sig \in Signal : s \in ToSet(lk[sig])
  OBVIOUS
<1>6. <<"link", sig>> \in HomesOf(lk, ls, s)
  BY <1>5, HomeIs
<1>7. HomesOf(lk, ls, s) = {<<"link", sig>>}
  BY <1>6
<1>8. \A fd \in Fd : ls[fd] # s
  <2>1. ASSUME NEW fd \in Fd, ls[fd] = s PROVE FALSE
    <3>1. <<"fd", fd>> \in HomesOf(lk, ls, s)
      BY <2>1, HomeIs
    <3>2. <<"fd", fd>> = <<"link", sig>>
      BY <1>6, <3>1
    <3> QED
      BY <3>2, Kinds
  <2> QED
    BY <2>1
<1>9. HomesOf(lk2, ls, s) = {}
  BY <1>4, <1>8, HomeIs
<1>10. \A t \in Slot \ {s} : \A o : o \in HomesOf(lk2, ls, t) <=> o \in HomesOf(lk, ls, t)
  BY <1>4, HomeIs
<1>11. SameHomesElsewhere(lk, ls, lk2, ls, s)
  BY <1>10 DEF SameHomesElsewhere
<1> QED
  BY <1>3, <1>7, <1>9, <1>11, Zenon DEF lk2

(* A descriptor is registered.                                             *)
LEMMA ListenedHomes ==
  ASSUME NEW lk, NEW ls \in [Fd -> Slot \cup {Null}], NEW fd \in Fd, NEW s \in Slot,
         ls[fd] = Null
  PROVE  LET ls2 == [ls EXCEPT ![fd] = s]
         IN  /\ ls2 \in [Fd -> Slot \cup {Null}]
             /\ HomesOf(lk, ls2, s) = HomesOf(lk, ls, s) \cup {<<"fd", fd>>}
             /\ SameHomesElsewhere(lk, ls, lk, ls2, s)
<1> DEFINE ls2 == [ls EXCEPT ![fd] = s]
<1>1. ls2 \in [Fd -> Slot \cup {Null}] /\ ls2[fd] = s /\ \A x \in Fd \ {fd} : ls2[x] = ls[x]
  OBVIOUS
<1> HIDE DEF ls2
<1>2. \A t \in Slot : \A x \in Fd : ls2[x] = t <=> ls[x] = t \/ (x = fd /\ t = s)
  BY <1>1, NullAssumption
<1>3. \A o : o \in HomesOf(lk, ls2, s) <=> o \in HomesOf(lk, ls, s) \cup {<<"fd", fd>>}
  BY <1>2, HomeIs
<1>4. \A t \in Slot \ {s} : \A o : o \in HomesOf(lk, ls2, t) <=> o \in HomesOf(lk, ls, t)
  BY <1>2, HomeIs
<1>5. SameHomesElsewhere(lk, ls, lk, ls2, s)
  BY <1>4 DEF SameHomesElsewhere
<1>6. HomesOf(lk, ls2, s) = HomesOf(lk, ls, s) \cup {<<"fd", fd>>}
  BY <1>3
<1> QED
  BY <1>1, <1>5, <1>6, Zenon DEF ls2

(* A descriptor is forgotten.                                              *)
LEMMA UnlistenedHomes ==
  ASSUME NEW lk, NEW ls \in [Fd -> Slot \cup {Null}], NEW fd \in Fd, NEW s \in Slot,
         ls[fd] = s,
         OneHome(lk, ls, s)
  PROVE  LET ls2 == [ls EXCEPT ![fd] = Null]
         IN  /\ ls2 \in [Fd -> Slot \cup {Null}]
             /\ HomesOf(lk, ls2, s) = {}
             /\ HomesOf(lk, ls, s) = {<<"fd", fd>>}
             /\ SameHomesElsewhere(lk, ls, lk, ls2, s)
<1> USE DEF OneHome
<1> DEFINE ls2 == [ls EXCEPT ![fd] = Null]
<1>1. ls2 \in [Fd -> Slot \cup {Null}] /\ ls2[fd] = Null /\ \A x \in Fd \ {fd} : ls2[x] = ls[x]
  OBVIOUS
<1> HIDE DEF ls2
<1>2. \A t \in Slot : \A x \in Fd : ls2[x] = t <=> ls[x] = t /\ x # fd
  BY <1>1, NullAssumption
<1>3. <<"fd", fd>> \in HomesOf(lk, ls, s)
  BY HomeIs
<1>4. HomesOf(lk, ls, s) = {<<"fd", fd>>}
  BY <1>3
<1>5. \A o : o \in HomesOf(lk, ls2, s) => o \in HomesOf(lk, ls, s) /\ o # <<"fd", fd>>
  BY <1>2, HomeIs, Kinds
<1>6. HomesOf(lk, ls2, s) = {}
  BY <1>4, <1>5
<1>7. \A t \in Slot \ {s} : \A o : o \in HomesOf(lk, ls2, t) <=> o \in HomesOf(lk, ls, t)
  BY <1>2, HomeIs
<1>8. SameHomesElsewhere(lk, ls, lk, ls2, s)
  BY <1>7 DEF SameHomesElsewhere
<1> QED
  BY <1>1, <1>4, <1>6, <1>8, Zenon DEF ls2

(* In st2 frame k is new, or begins to run.                                *)
Starts(st, st2, k) ==
  /\ k \in DOMAIN st2
  /\ DOMAIN st \subseteq DOMAIN st2 /\ DOMAIN st2 \subseteq DOMAIN st \cup {k}
  /\ k \in DOMAIN st => st[k].cur = Null
  /\ \A f \in DOMAIN st \ {k} : st2[f].cur = st[f].cur

(* It owns what it runs.                                                   *)
LEMMA StartedRuns ==
  ASSUME NEW st, NEW st2, NEW k, NEW s \in Slot, st2[k].cur = s, Starts(st, st2, k)
  PROVE  /\ RunningOf(st2, s) = RunningOf(st, s) \cup {<<"frame", k>>}
         /\ <<"frame", k>> \notin RunningOf(st, s)
         /\ \A t \in Slot \ {s} : RunningOf(st2, t) = RunningOf(st, t)
<1> USE DEF Starts
<1>1. \A t \in Slot : \A f : f \in DOMAIN st2 /\ st2[f].cur = t <=>
                             (f \in DOMAIN st /\ st[f].cur = t) \/ (f = k /\ t = s)
  BY NullAssumption
<1>2. \A o : o \in RunningOf(st2, s) <=> o \in RunningOf(st, s) \cup {<<"frame", k>>}
  BY <1>1, RunnerIs
<1>3. \A t \in Slot \ {s} : \A o : o \in RunningOf(st2, t) <=> o \in RunningOf(st, t)
  BY <1>1, RunnerIs
<1>4. <<"frame", k>> \notin RunningOf(st, s)
  BY RunnerIs, Kinds, NullAssumption
<1>5. \A t \in Slot \ {s} : RunningOf(st2, t) = RunningOf(st, t)
  BY <1>3
<1> QED
  BY <1>2, <1>4, <1>5

(* In st2 frame k has gone, or runs nothing any more.                      *)
Ends(st, st2, k) ==
  /\ k \in DOMAIN st
  /\ DOMAIN st2 \subseteq DOMAIN st /\ DOMAIN st \subseteq DOMAIN st2 \cup {k}
  /\ k \in DOMAIN st2 => st2[k].cur = Null
  /\ \A f \in DOMAIN st2 \ {k} : st2[f].cur = st[f].cur

(* It owns nothing.                                                        *)
LEMMA EndedRuns ==
  ASSUME NEW st, NEW st2, NEW k, NEW s \in Slot, st[k].cur = s, Ends(st, st2, k)
  PROVE  /\ RunningOf(st2, s) = RunningOf(st, s) \ {<<"frame", k>>}
         /\ <<"frame", k>> \in RunningOf(st, s)
         /\ \A t \in Slot \ {s} : RunningOf(st2, t) = RunningOf(st, t)
<1> USE DEF Ends
<1>1. \A t \in Slot : \A f : f \in DOMAIN st2 /\ st2[f].cur = t <=>
                             (f \in DOMAIN st /\ st[f].cur = t) /\ ~ (f = k /\ t = s)
  BY NullAssumption
<1>2. \A o : o \in RunningOf(st2, s) <=> o \in RunningOf(st, s) \ {<<"frame", k>>}
  BY <1>1, RunnerIs, Kinds
<1>3. \A t \in Slot \ {s} : \A o : o \in RunningOf(st2, t) <=> o \in RunningOf(st, t)
  BY <1>1, RunnerIs
<1>4. <<"frame", k>> \in RunningOf(st, s)
  BY RunnerIs
<1>5. \A t \in Slot \ {s} : RunningOf(st2, t) = RunningOf(st, t)
  BY <1>3
<1> QED
  BY <1>2, <1>4, <1>5

(* Frames that run nothing come and go without an effect on owners.        *)
RunTheSame(st, st2) ==
  /\ \A f \in DOMAIN st : st[f].cur \in Slot => f \in DOMAIN st2 /\ st2[f].cur = st[f].cur
  /\ \A f \in DOMAIN st2 : st2[f].cur \in Slot => f \in DOMAIN st /\ st2[f].cur = st[f].cur

(* When the same is running, each block has the same runners.              *)
LEMMA SameRuns ==
  ASSUME NEW st, NEW st2, RunTheSame(st, st2)
  PROVE  \A t \in Slot : RunningOf(st2, t) = RunningOf(st, t)
<1> USE DEF RunTheSame
<1>1. \A t \in Slot : \A f : f \in DOMAIN st2 /\ st2[f].cur = t <=> f \in DOMAIN st /\ st[f].cur = t
  OBVIOUS
<1>2. \A t \in Slot : \A o : o \in RunningOf(st2, t) <=> o \in RunningOf(st, t)
  BY <1>1, RunnerIs
<1> QED
  BY <1>2

-------------------------------------------------------------------------------
(* What is known of a weak reference w that a dispatch of sig stores, when *)
(* its block has version v, owners own and homes home, after o operations: *)
(* how often the block was freed since (n times), that it was never in     *)
(* another list before it was freed for the first time, and that each time *)
(* it was freed, and each time it was allocated again, took an operation.  *)
WeakFine(w, sig, v, own, home, o) ==
  /\ w.version \in 1 .. VersionCount /\ v \in 1 .. VersionCount
  /\ \E n \in Nat :
       /\ v \in {w.version + n, w.version + n - VersionCount}
       /\ w.alive <=> n = 0
       /\ n = 0 => own # {} /\ home \subseteq {<<"link", sig>>} /\ (home = {} => 1 <= o)
       /\ n > 0 => n <= o /\ (own # {} => n + 1 <= o)

Stays(v, own, home, o, v2, own2, home2, o2) ==
  /\ v2 = v /\ (own2 = {} <=> own = {}) /\ home2 \subseteq home
  /\ o2 = o \/ o2 = o + 1
  /\ home2 # home => o2 = o + 1

IsFreed(v, own, home, o, v2, own2, home2, o2) ==
  /\ v2 = (v % VersionCount) + 1 /\ own # {} /\ own2 = {}
  /\ o2 = o \/ o2 = o + 1
  /\ home # {} => o2 = o + 1

IsAllocated(v, own, home, o, v2, own2, home2, o2) ==
  v # 0 => v2 = v /\ own = {} /\ own2 # {} /\ o2 = o + 1

(* A weak reference finds its block as long as it is alive, and no longer: *)
(* there are not enough operations to bring the version round again.       *)
LEMMA WeakFinds ==
  ASSUME NEW w, NEW sig, NEW v, NEW own, NEW home, NEW o \in 0 .. MaxOps,
         WeakFine(w, sig, v, own, home, o)
  PROVE  v = w.version <=> w.alive
<1>1. \A c, a, b, m, k, n \in Nat :
        /\ a \in 1 .. c /\ b \in 1 .. c /\ m < c /\ k <= m /\ b \in {a + n, a + n - c}
        /\ n > 0 => n <= k
        => (b = a <=> n = 0)
  OBVIOUS
<1>2. MaxOps \in Nat /\ VersionCount \in Nat /\ MaxOps < VersionCount
  BY VersionAssumption
<1>3. PICK n \in Nat : /\ v \in {w.version + n, w.version + n - VersionCount}
                       /\ w.alive <=> n = 0
                       /\ n > 0 => n <= o
  BY Zenon DEF WeakFine
<1>4. w.version \in 1 .. VersionCount /\ v \in 1 .. VersionCount /\ o <= MaxOps /\ o \in Nat
  BY <1>2 DEF WeakFine
<1>5. w.version \in Nat /\ v \in Nat
  BY <1>4
<1>6. v = w.version <=> n = 0
  BY <1>1, <1>2, <1>3, <1>4, <1>5
<1> QED
  BY <1>3, <1>6

(* A weak reference whose block stays.                                     *)
LEMMA WeakStays ==
  ASSUME NEW w, NEW sig, NEW v, NEW own, NEW home, NEW o \in Nat,
         WeakFine(w, sig, v, own, home, o),
         NEW w2, NEW v2, NEW own2, NEW home2, NEW o2,
         w2.version = w.version, w2.alive <=> w.alive /\ own2 # {},
         Stays(v, own, home, o, v2, own2, home2, o2)
  PROVE  WeakFine(w2, sig, v2, own2, home2, o2)
<1>1. PICK n \in Nat :
        /\ v \in {w.version + n, w.version + n - VersionCount}
        /\ w.alive <=> n = 0
        /\ n = 0 => own # {} /\ home \subseteq {<<"link", sig>>} /\ (home = {} => 1 <= o)
        /\ n > 0 => n <= o /\ (own # {} => n + 1 <= o)
  BY Zenon DEF WeakFine
<1>2. /\ v2 = v /\ (own2 = {} <=> own = {}) /\ home2 \subseteq home /\ o2 \in Nat /\ o <= o2
      /\ home2 # home => 1 <= o2
  BY DEF Stays
<1>3. n = 0 => own2 # {} /\ home2 \subseteq {<<"link", sig>>} /\ (home2 = {} => 1 <= o2)
  <2>1. ASSUME n = 0, home2 = {} PROVE 1 <= o2
    <3>1. CASE home = {}
      BY <1>1, <1>2, <2>1, <3>1
    <3>2. CASE home # {}
      BY <1>2, <2>1, <3>2
    <3> QED
      BY <3>1, <3>2
  <2> QED
    BY <1>1, <1>2, <2>1
<1>4. n > 0 => n <= o2 /\ (own2 # {} => n + 1 <= o2)
  BY <1>1, <1>2
<1>5. w2.alive <=> n = 0
  BY <1>1, <1>2
<1>6. w2.version \in 1 .. VersionCount /\ v2 \in 1 .. VersionCount
  BY <1>2 DEF WeakFine
<1> QED
  BY <1>1, <1>2, <1>3, <1>4, <1>5, <1>6, Zenon DEF WeakFine

(* A weak reference whose block is freed: one version on.                  *)
LEMMA WeakOfFreed ==
  ASSUME NEW w, NEW sig, NEW v, NEW own, NEW home, NEW o \in 0 .. MaxOps,
         WeakFine(w, sig, v, own, home, o),
         NEW w2, NEW v2, NEW own2, NEW home2, NEW o2 \in 0 .. MaxOps,
         w2.version = w.version, w2.alive <=> w.alive /\ own2 # {},
         IsFreed(v, own, home, o, v2, own2, home2, o2)
  PROVE  WeakFine(w2, sig, v2, own2, home2, o2)
<1>1. PICK n \in Nat :
        /\ v \in {w.version + n, w.version + n - VersionCount}
        /\ w.alive <=> n = 0
        /\ n = 0 => own # {} /\ home \subseteq {<<"link", sig>>} /\ (home = {} => 1 <= o)
        /\ n > 0 => n <= o /\ (own # {} => n + 1 <= o)
  BY Zenon DEF WeakFine
<1>2. /\ own # {} /\ own2 = {} /\ (home # {} => o2 = o + 1)
      /\ o2 = o \/ o2 = o + 1
      /\ v2 = (v % VersionCount) + 1
  BY DEF IsFreed
<1>3. MaxOps \in Nat /\ VersionCount \in Nat /\ MaxOps < VersionCount /\ o \in Nat /\ o2 \in Nat
  BY VersionAssumption
<1>4. w.version \in 1 .. VersionCount /\ v \in 1 .. VersionCount
  BY DEF WeakFine
<1>5. n + 1 <= o2
  <2>1. CASE n = 0
    <3>1. home = {} => 1 <= o
      BY <1>1, <2>1
    <3> QED
      BY <1>2, <1>3, <2>1, <3>1
  <2>2. CASE n > 0
    <3>1. n + 1 <= o
      BY <1>1, <1>2, <2>2
    <3> QED
      BY <1>2, <1>3, <3>1
  <2> QED
    BY <2>1, <2>2
<1>6. v2 = IF v = VersionCount THEN 1 ELSE v + 1
  BY <1>2, <1>4, NextVersion
<1>7. \A c, a, b, m \in Nat :
        a \in 1 .. c /\ b \in 1 .. c /\ m < c /\ b \in {a + m, a + m - c}
        => (IF b = c THEN 1 ELSE b + 1) \in {a + (m + 1), a + (m + 1) - c}
  OBVIOUS
<1>8. n < VersionCount /\ w.version \in Nat /\ v \in Nat
  BY <1>3, <1>4, <1>5
<1>9. v2 \in {w.version + (n + 1), w.version + (n + 1) - VersionCount}
  BY <1>1, <1>3, <1>4, <1>6, <1>7, <1>8
<1>10. v2 \in 1 .. VersionCount
  BY <1>3, <1>4, <1>6
<1>11. ~ w2.alive /\ n + 1 \in Nat /\ n + 1 # 0 /\ n + 1 > 0
  BY <1>2
<1> QED
  BY <1>2, <1>4, <1>5, <1>9, <1>10, <1>11 DEF WeakFine

(* A weak reference whose freed block is allocated again: one operation    *)
(* on.                                                                     *)
LEMMA WeakOfAllocated ==
  ASSUME NEW w, NEW sig, NEW v, NEW own, NEW home, NEW o \in Nat,
         WeakFine(w, sig, v, own, home, o),
         NEW w2, NEW v2, NEW own2, NEW home2, NEW o2,
         w2.version = w.version, w2.alive <=> w.alive /\ own2 # {},
         IsAllocated(v, own, home, o, v2, own2, home2, o2)
  PROVE  WeakFine(w2, sig, v2, own2, home2, o2)
<1>1. PICK n \in Nat :
        /\ v \in {w.version + n, w.version + n - VersionCount}
        /\ w.alive <=> n = 0
        /\ n = 0 => own # {} /\ home \subseteq {<<"link", sig>>} /\ (home = {} => 1 <= o)
        /\ n > 0 => n <= o /\ (own # {} => n + 1 <= o)
  BY Zenon DEF WeakFine
<1>2. w.version \in 1 .. VersionCount /\ v \in 1 .. VersionCount
  BY DEF WeakFine
<1>3. v2 = v /\ own = {} /\ own2 # {} /\ o2 = o + 1
  <2>1. v # 0
    BY <1>2, VersionAssumption
  <2> QED
    BY <2>1 DEF IsAllocated
<1>4. n > 0 /\ n # 0
  BY <1>1, <1>3
<1>5. n + 1 <= o2 /\ n <= o2
  BY <1>1, <1>3, <1>4
<1> QED
  BY <1>1, <1>2, <1>3, <1>4, <1>5 DEF WeakFine

(* In every case.                                                          *)
Moves(v, own, home, o, v2, own2, home2, o2) ==
  \/ Stays(v, own, home, o, v2, own2, home2, o2)
  \/ IsFreed(v, own, home, o, v2, own2, home2, o2)
  \/ IsAllocated(v, own, home, o, v2, own2, home2, o2)

(* A weak reference stays correct whatever happens to its block.           *)
LEMMA WeakMoves ==
  ASSUME NEW w, NEW sig, NEW v, NEW own, NEW home, NEW o \in 0 .. MaxOps,
         WeakFine(w, sig, v, own, home, o),
         NEW w2, NEW v2, NEW own2, NEW home2, NEW o2 \in 0 .. MaxOps,
         w2.version = w.version, w2.alive <=> w.alive /\ own2 # {},
         Moves(v, own, home, o, v2, own2, home2, o2)
  PROVE  WeakFine(w2, sig, v2, own2, home2, o2)
<1>1. o \in Nat
  BY VersionAssumption
<1> QED
  BY <1>1, WeakStays, WeakOfFreed, WeakOfAllocated, Zenon DEF Moves

-------------------------------------------------------------------------------
(* The heap, the lists, the table and the stack together.                  *)
WeakAt(h, lk, ls, st, o, w, sig) ==
  WeakFine(w, sig, h.version[w.slot], OwnersOf(lk, ls, st)[w.slot], HomesOf(lk, ls, w.slot), o)

Core(h, lk, ls, st, o) ==
  /\ lk \in [Signal -> Seq(Slot)]
  /\ ls \in [Fd -> Slot \cup {Null}]
  /\ st \in Seq(Frame)
  /\ o \in 0 .. MaxOps
  /\ HeapFine(h, OwnersOf(lk, ls, st))
  /\ \A s \in Slot : \A a, b \in HomesOf(lk, ls, s) : a = b
  /\ \A f \in DOMAIN st : \A k \in DOMAIN st[f].stored :
       WeakAt(h, lk, ls, st, o, st[f].stored[k], st[f].kind)

Weak == [slot : Slot, version : 0 .. VersionCount, alive : BOOLEAN]

(* The fields of a frame.                                                  *)
LEMMA FrameFields ==
  ASSUME NEW x \in Frame
  PROVE  /\ x.kind \in Signal \cup {"main", "fd"} /\ x.fd \in Fd \cup {Null}
         /\ x.cur \in Slot \cup {Null} /\ x.stored \in Seq(Weak)
         /\ DOMAIN x.stored = 1 .. Len(x.stored) /\ Len(x.stored) \in Nat
         /\ \A k \in DOMAIN x.stored : x.stored[k] \in Weak
<1>1. /\ x.kind \in Signal \cup {"main", "fd"} /\ x.fd \in Fd \cup {Null}
      /\ x.cur \in Slot \cup {Null} /\ x.stored \in Seq(Weak)
  BY DEF Frame, Weak
<1> DEFINE q == x.stored
<1> HIDE DEF q
<1>2. q \in Seq(Weak)
  BY <1>1 DEF q
<1>3. DOMAIN q = 1 .. Len(q) /\ Len(q) \in Nat /\ \A k \in DOMAIN q : q[k] \in Weak
  BY <1>2
<1> QED
  BY <1>1, <1>3 DEF q

(* The fields of a weak reference.                                         *)
LEMMA WeakFields ==
  ASSUME NEW w \in Weak
  PROVE  w.slot \in Slot /\ w.version \in 0 .. VersionCount /\ w.alive \in BOOLEAN
BY DEF Weak

(* The weak reference w, marked: those of freed blocks are dead.           *)
FollowsWeak(w, w2, O2) ==
  /\ w2.slot = w.slot
  /\ w2.version = w.version
  /\ w2.alive <=> w.alive /\ O2[w.slot] # {}

(* Marking changes whether weak references are alive, and nothing else.    *)
LEMMA MarkedProperties ==
  ASSUME NEW st \in Seq(Frame), NEW h, NEW O, HeapFine(h, O)
  PROVE  /\ Marked(st, h) \in Seq(Frame) /\ DOMAIN Marked(st, h) = DOMAIN st
         /\ Len(Marked(st, h)) = Len(st)
         /\ \A f \in DOMAIN st :
              /\ Marked(st, h)[f].kind = st[f].kind /\ Marked(st, h)[f].cur = st[f].cur
              /\ DOMAIN Marked(st, h)[f].stored = DOMAIN st[f].stored
              /\ \A k \in DOMAIN st[f].stored :
                   FollowsWeak(st[f].stored[k], Marked(st, h)[f].stored[k], O)
<1> DEFINE mark(f, k) == [st[f].stored[k] EXCEPT
                            !.alive = st[f].stored[k].alive /\ h.ref_count[st[f].stored[k].slot] > 0]
           marks(f) == [k \in DOMAIN st[f].stored |-> mark(f, k)]
           m == Marked(st, h)
<1>1. m = [f \in DOMAIN st |-> [st[f] EXCEPT !.stored = marks(f)]]
  BY DEF Marked
<1>2. \A f \in DOMAIN st : st[f] \in Frame
  OBVIOUS
<1>3. ASSUME NEW f \in DOMAIN st, NEW k \in DOMAIN st[f].stored
      PROVE  /\ mark(f, k) \in Weak
             /\ mark(f, k).slot = st[f].stored[k].slot
             /\ mark(f, k).version = st[f].stored[k].version
             /\ mark(f, k).alive <=> st[f].stored[k].alive /\ O[st[f].stored[k].slot] # {}
  <2> DEFINE w == st[f].stored[k]
  <2>1. w \in Weak
    BY <1>2, FrameFields
  <2>2. w.slot \in Slot /\ w.version \in 0 .. VersionCount /\ w.alive \in BOOLEAN
    BY <2>1, WeakFields
  <2>3. h.ref_count[w.slot] > 0 <=> O[w.slot] # {}
    <3>1. /\ IsFiniteSet(O[w.slot]) /\ h.ref_count[w.slot] = Cardinality(O[w.slot])
          /\ h.ref_count[w.slot] \in Nat
      BY <2>2, HeapFields DEF HeapFine
    <3>2. Cardinality(O[w.slot]) = 0 <=> O[w.slot] = {}
      BY <3>1, FS_EmptySet
    <3> QED
      BY <3>1, <3>2
  <2> DEFINE a == w.alive /\ h.ref_count[w.slot] > 0
  <2>4. mark(f, k) = [w EXCEPT !.alive = a]
    OBVIOUS
  <2>5. a \in BOOLEAN /\ (a <=> w.alive /\ O[w.slot] # {})
    BY <2>3
  <2> HIDE DEF w, a, mark
  <2>6. mark(f, k) = [slot |-> w.slot, version |-> w.version, alive |-> a]
    BY <2>1, <2>4 DEF Weak
  <2>7. mark(f, k) \in Weak /\ mark(f, k).slot = w.slot /\ mark(f, k).version = w.version
        /\ mark(f, k).alive = a
    BY <2>2, <2>5, <2>6 DEF Weak
  <2> QED
    BY <2>5, <2>7, Zenon DEF w
<1> HIDE DEF mark
<1>4. \A f \in DOMAIN st : marks(f) \in Seq(Weak)
  <2>1. SUFFICES ASSUME NEW f \in DOMAIN st PROVE marks(f) \in Seq(Weak)
    OBVIOUS
  <2>2. DOMAIN st[f].stored = 1 .. Len(st[f].stored) /\ Len(st[f].stored) \in Nat
    BY <1>2, FrameFields
  <2>3. \A k \in DOMAIN st[f].stored : mark(f, k) \in Weak
    BY <1>3
  <2> QED
    BY <2>2, <2>3
<1> HIDE DEF marks, m
<1>5. ASSUME NEW f \in DOMAIN st
      PROVE  /\ m[f] \in Frame /\ m[f].kind = st[f].kind /\ m[f].cur = st[f].cur
             /\ m[f].stored = marks(f)
  <2>1. st[f] \in Frame /\ marks(f) \in Seq(Weak) /\ m[f] = [st[f] EXCEPT !.stored = marks(f)]
    BY <1>1, <1>2, <1>4
  <2> QED
    BY <2>1 DEF Frame, Weak
<1>6. m \in Seq(Frame) /\ DOMAIN m = DOMAIN st /\ Len(m) = Len(st)
  <2>1. DOMAIN m = 1 .. Len(st) /\ Len(st) \in Nat
    BY <1>1
  <2>2. m = [f \in 1 .. Len(st) |-> m[f]] /\ DOMAIN st = 1 .. Len(st)
    BY <1>1
  <2>3. m \in [1 .. Len(st) -> Frame]
    <3>1. \A f \in 1 .. Len(st) : m[f] \in Frame
      BY <1>5, <2>2
    <3> HIDE DEF Frame
    <3> QED
      BY <2>2, <3>1
  <2>4. m \in Seq(Frame)
    BY <2>1, <2>3
  <2> QED
    BY <2>1, <2>4
<1>7. \A f \in DOMAIN st : DOMAIN m[f].stored = DOMAIN st[f].stored
                           /\ \A k \in DOMAIN st[f].stored : m[f].stored[k] = mark(f, k)
  BY <1>5 DEF marks
<1>8. ASSUME NEW f \in DOMAIN st, NEW k \in DOMAIN st[f].stored
      PROVE  FollowsWeak(st[f].stored[k], m[f].stored[k], O)
  BY <1>3, <1>7, Zenon DEF FollowsWeak
<1> QED
  BY <1>5, <1>6, <1>7, <1>8, Zenon DEF m

(* The dispatches that go on keep what they know of their weak references. *)
Follow(st, st2, O2) ==
  \A f \in DOMAIN st2 : \A k \in DOMAIN st2[f].stored :
    /\ f \in DOMAIN st /\ st2[f].kind = st[f].kind
    /\ \E j \in DOMAIN st[f].stored : FollowsWeak(st[f].stored[j], st2[f].stored[k], O2)

MovesAt(h, lk, ls, st, o, h2, lk2, ls2, st2, o2, s) ==
  Moves(h.version[s], OwnersOf(lk, ls, st)[s], HomesOf(lk, ls, s), o,
        h2.version[s], OwnersOf(lk2, ls2, st2)[s], HomesOf(lk2, ls2, s), o2)

(* All weak references on the stack stay correct, when each block moves in *)
(* one of the three ways.                                                  *)
LEMMA WeaksFollow ==
  ASSUME NEW h, NEW lk, NEW ls, NEW st, NEW o, Core(h, lk, ls, st, o),
         NEW h2, NEW lk2, NEW ls2, NEW st2 \in Seq(Frame), NEW o2 \in 0 .. MaxOps,
         \A s \in Slot : MovesAt(h, lk, ls, st, o, h2, lk2, ls2, st2, o2, s),
         Follow(st, st2, OwnersOf(lk2, ls2, st2))
  PROVE  \A f \in DOMAIN st2 : \A k \in DOMAIN st2[f].stored :
           WeakAt(h2, lk2, ls2, st2, o2, st2[f].stored[k], st2[f].kind)
<1>1. SUFFICES ASSUME NEW f \in DOMAIN st2, NEW k \in DOMAIN st2[f].stored
               PROVE  WeakAt(h2, lk2, ls2, st2, o2, st2[f].stored[k], st2[f].kind)
  OBVIOUS
<1> DEFINE w2 == st2[f].stored[k]
           O2 == OwnersOf(lk2, ls2, st2)
<1>2. PICK j \in DOMAIN st[f].stored : FollowsWeak(st[f].stored[j], w2, O2)
  BY Zenon DEF Follow
<1> DEFINE w == st[f].stored[j]
<1>3. f \in DOMAIN st /\ st2[f].kind = st[f].kind
  BY Zenon DEF Follow
<1>4. w.slot \in Slot
  BY <1>3, FrameFields, WeakFields DEF Core
<1>5. WeakAt(h, lk, ls, st, o, w, st[f].kind) /\ o \in 0 .. MaxOps
  BY <1>3, Zenon DEF Core
<1>6. MovesAt(h, lk, ls, st, o, h2, lk2, ls2, st2, o2, w.slot)
  BY <1>4, Zenon
<1> HIDE DEF w, w2, O2
<1>7. WeakFine(w2, st[f].kind, h2.version[w.slot], O2[w.slot], HomesOf(lk2, ls2, w.slot), o2)
  <2>1. w2.version = w.version /\ (w2.alive <=> w.alive /\ O2[w.slot] # {})
    BY <1>2, Zenon DEF FollowsWeak, w
  <2> QED
    BY <1>5, <1>6, <2>1, WeakMoves, Zenon DEF MovesAt, WeakAt, O2
<1> QED
  <2>1. w2.slot = w.slot
    BY <1>2, Zenon DEF FollowsWeak, w
  <2> QED
    BY <1>3, <1>7, <2>1, Zenon DEF WeakAt, w2, O2

(* The frames of st1 are among those of st, with weak references they had. *)
CameFrom(st, st1) ==
  \A f \in DOMAIN st1 : \A k \in DOMAIN st1[f].stored :
    /\ f \in DOMAIN st /\ st1[f].kind = st[f].kind
    /\ \E j \in DOMAIN st[f].stored : st1[f].stored[k] = st[f].stored[j]

(* Without marking: nothing is freed.                                      *)
NoneFreed(O, O2) == \A s \in Slot : O[s] # {} => O2[s] # {}

(* When no block is freed, marking would change nothing.                   *)
LEMMA WeaksKept ==
  ASSUME NEW h, NEW lk, NEW ls, NEW st, NEW o, Core(h, lk, ls, st, o),
         NEW h2, NEW lk2, NEW ls2, NEW st2,
         NoneFreed(OwnersOf(lk, ls, st), OwnersOf(lk2, ls2, st2)),
         CameFrom(st, st2)
  PROVE  Follow(st, st2, OwnersOf(lk2, ls2, st2))
<1> DEFINE O == OwnersOf(lk, ls, st)
           O2 == OwnersOf(lk2, ls2, st2)
<1>1. SUFFICES ASSUME NEW f \in DOMAIN st, NEW j \in DOMAIN st[f].stored
               PROVE  st[f].stored[j].alive => O2[st[f].stored[j].slot] # {}
  <2>1. ASSUME NEW f \in DOMAIN st2, NEW k \in DOMAIN st2[f].stored
        PROVE  /\ f \in DOMAIN st /\ st2[f].kind = st[f].kind
               /\ \E j \in DOMAIN st[f].stored :
                    FollowsWeak(st[f].stored[j], st2[f].stored[k], O2)
    <3>1. f \in DOMAIN st /\ st2[f].kind = st[f].kind
      BY Zenon DEF CameFrom
    <3>2. PICK j \in DOMAIN st[f].stored : st2[f].stored[k] = st[f].stored[j]
      BY Zenon DEF CameFrom
    <3>3. st[f].stored[j].alive => O2[st[f].stored[j].slot] # {}
      BY <1>1, <3>1, <3>2
    <3>4. FollowsWeak(st[f].stored[j], st2[f].stored[k], O2)
      BY <3>2, <3>3, Zenon DEF FollowsWeak
    <3> QED
      BY <3>1, <3>4
  <2> QED
    BY <2>1, Zenon DEF Follow
<1> DEFINE w == st[f].stored[j]
<1>2. w.slot \in Slot
  BY <1>1, FrameFields, WeakFields DEF Core
<1>3. WeakAt(h, lk, ls, st, o, w, st[f].kind)
  BY <1>1, Zenon DEF Core
<1>4. w.alive => O[w.slot] # {}
  BY <1>3, Zenon DEF WeakAt, WeakFine
<1> QED
  BY <1>2, <1>4 DEF NoneFreed

(* Alive weak references are those that find their block.                  *)
LEMMA CoreFinds ==
  ASSUME NEW h, NEW lk, NEW ls, NEW st, NEW o, Core(h, lk, ls, st, o),
         NEW f \in DOMAIN st, NEW k \in DOMAIN st[f].stored
  PROVE  LET w == st[f].stored[k]
         IN  /\ w.slot \in Slot
             /\ Get(h, w) # Null <=> w.alive
             /\ Get(h, w) # Null =>
                  /\ Get(h, w) = w.slot
                  /\ OwnersOf(lk, ls, st)[w.slot] # {}
                  /\ HomesOf(lk, ls, w.slot) \subseteq {<<"link", st[f].kind>>}
<1> DEFINE w == st[f].stored[k]
<1>1. w.slot \in Slot
  BY FrameFields, WeakFields DEF Core
<1>2. WeakAt(h, lk, ls, st, o, w, st[f].kind) /\ o \in 0 .. MaxOps
  BY Zenon DEF Core
<1>3. h.version[w.slot] = w.version <=> w.alive
  BY <1>2, WeakFinds, Zenon DEF WeakAt
<1>4. w.alive => /\ OwnersOf(lk, ls, st)[w.slot] # {}
                 /\ HomesOf(lk, ls, w.slot) \subseteq {<<"link", st[f].kind>>}
  BY <1>2, Zenon DEF WeakAt, WeakFine
<1>5. w.slot # Null
  BY <1>1, NullAssumption
<1> HIDE DEF w
<1>6. /\ Get(h, w) # Null <=> w.alive
      /\ Get(h, w) # Null => Get(h, w) = w.slot
  BY <1>3, <1>5 DEF Get
<1> QED
  BY <1>1, <1>4, <1>6, Zenon DEF w

(* Owners are homes and runners.                                           *)
LEMMA OwnersSplit ==
  ASSUME NEW lk, NEW ls, NEW st, NEW s \in Slot
  PROVE  OwnersOf(lk, ls, st)[s] = HomesOf(lk, ls, s) \cup RunningOf(st, s)
BY DEF OwnersOf

(* A block that can be allocated has no owner.                             *)
LEMMA AllocatableIsFree ==
  ASSUME NEW h, NEW O, HeapFine(h, O), NEW s \in Allocatable(h)
  PROVE  s \in Slot /\ O[s] = {}
<1>1. h.bin \in Seq(Slot)
  BY HeapFields DEF HeapFine
<1>2. CASE h.bin # <<>>
  <2> DEFINE b == h.bin
  <2>1. b \in Seq(Slot) /\ b # <<>>
    BY <1>1, <1>2
  <2> HIDE DEF b
  <2>2. Last(b) \in ToSet(b) /\ Last(b) \in Slot
    <3>1. Len(b) \in DOMAIN b /\ b[Len(b)] \in Slot
      BY <2>1
    <3> QED
      BY <3>1 DEF Last, ToSet
  <2>3. s = Last(b)
    BY <1>2 DEF Allocatable, b
  <2> QED
    BY <2>2, <2>3 DEF HeapFine, b
<1>3. CASE h.bin = <<>>
  BY <1>3 DEF Allocatable, HeapFine
<1> QED
  BY <1>2, <1>3

(* What a step has to show when it marks the stack, and when it does not.  *)
LEMMA CoreMarks ==
  ASSUME NEW h, NEW lk, NEW ls, NEW st, NEW o, Core(h, lk, ls, st, o),
         NEW h2, NEW lk2 \in [Signal -> Seq(Slot)], NEW ls2 \in [Fd -> Slot \cup {Null}],
         NEW st1 \in Seq(Frame), NEW o2 \in 0 .. MaxOps,
         \A s \in Slot : \A a, b \in HomesOf(lk2, ls2, s) : a = b,
         HeapFine(h2, OwnersOf(lk2, ls2, st1)),
         \A s \in Slot : MovesAt(h, lk, ls, st, o, h2, lk2, ls2, st1, o2, s),
         CameFrom(st, st1)
  PROVE  Core(h2, lk2, ls2, Marked(st1, h2), o2)
<1> DEFINE st2 == Marked(st1, h2)
           P == OwnersOf(lk2, ls2, st1)
           O2 == OwnersOf(lk2, ls2, st2)
<1>1. /\ st2 \in Seq(Frame) /\ DOMAIN st2 = DOMAIN st1
      /\ \A f \in DOMAIN st1 :
           /\ st2[f].kind = st1[f].kind /\ st2[f].cur = st1[f].cur
           /\ DOMAIN st2[f].stored = DOMAIN st1[f].stored
           /\ \A k \in DOMAIN st1[f].stored :
                FollowsWeak(st1[f].stored[k], st2[f].stored[k], P)
  BY MarkedProperties, Zenon
<1> HIDE DEF st2
<1>2. \A s \in Slot : RunningOf(st2, s) = RunningOf(st1, s)
  BY <1>1, SameRuns DEF RunTheSame
<1>3. O2 = P
  BY <1>2 DEF OwnersOf
<1>4. Follow(st, st2, O2)
  <2>1. ASSUME NEW f \in DOMAIN st2, NEW k \in DOMAIN st2[f].stored
        PROVE  /\ f \in DOMAIN st /\ st2[f].kind = st[f].kind
               /\ \E j \in DOMAIN st[f].stored :
                    FollowsWeak(st[f].stored[j], st2[f].stored[k], O2)
    <3>1. /\ f \in DOMAIN st1 /\ k \in DOMAIN st1[f].stored /\ st2[f].kind = st1[f].kind
          /\ FollowsWeak(st1[f].stored[k], st2[f].stored[k], P)
      BY <1>1
    <3>2. PICK j \in DOMAIN st[f].stored : st1[f].stored[k] = st[f].stored[j]
      BY <3>1, Zenon DEF CameFrom
    <3>3. f \in DOMAIN st /\ st1[f].kind = st[f].kind
      BY <3>1, Zenon DEF CameFrom
    <3>4. FollowsWeak(st[f].stored[j], st2[f].stored[k], O2)
      BY <1>3, <3>1, <3>2
    <3> QED
      BY <3>1, <3>3, <3>4
  <2> QED
    BY <2>1, Zenon DEF Follow
<1>5. \A s \in Slot : MovesAt(h, lk, ls, st, o, h2, lk2, ls2, st2, o2, s)
  BY <1>3 DEF MovesAt
<1>6. HeapFine(h2, O2)
  BY <1>3
<1>7. \A f \in DOMAIN st2 : \A k \in DOMAIN st2[f].stored :
        WeakAt(h2, lk2, ls2, st2, o2, st2[f].stored[k], st2[f].kind)
  BY <1>1, <1>4, <1>5, WeaksFollow
<1> QED
  BY <1>1, <1>6, <1>7, Zenon DEF Core, st2

(* The same for steps that free nothing, and do not mark.                  *)
LEMMA CoreKeeps ==
  ASSUME NEW h, NEW lk, NEW ls, NEW st, NEW o, Core(h, lk, ls, st, o),
         NEW h2, NEW lk2 \in [Signal -> Seq(Slot)], NEW ls2 \in [Fd -> Slot \cup {Null}],
         NEW st2 \in Seq(Frame), NEW o2 \in 0 .. MaxOps,
         \A s \in Slot : \A a, b \in HomesOf(lk2, ls2, s) : a = b,
         HeapFine(h2, OwnersOf(lk2, ls2, st2)),
         NoneFreed(OwnersOf(lk, ls, st), OwnersOf(lk2, ls2, st2)),
         \A s \in Slot : MovesAt(h, lk, ls, st, o, h2, lk2, ls2, st2, o2, s),
         CameFrom(st, st2)
  PROVE  Core(h2, lk2, ls2, st2, o2)
<1>1. Follow(st, st2, OwnersOf(lk2, ls2, st2))
  BY WeaksKept, Zenon
<1>2. \A f \in DOMAIN st2 : \A k \in DOMAIN st2[f].stored :
        WeakAt(h2, lk2, ls2, st2, o2, st2[f].stored[k], st2[f].kind)
  BY <1>1, WeaksFollow
<1> QED
  BY <1>2, Zenon DEF Core

(* A block whose version, owners and homes are as before.                  *)
LEMMA MovesNowhere ==
  ASSUME NEW v, NEW own, NEW home, NEW o, NEW o2, o2 = o \/ o2 = o + 1
  PROVE  Moves(v, own, home, o, v, own, home, o2)
BY DEF Moves, Stays

(* A listener is linked, or registered for a descriptor.                   *)
LEMMA CoreListens ==
  ASSUME NEW h, NEW lk, NEW ls, NEW st, NEW o, Core(h, lk, ls, st, o),
         NEW s \in Allocatable(h), o + 1 \in 0 .. MaxOps, NEW x,
         NEW lk2 \in [Signal -> Seq(Slot)], NEW ls2 \in [Fd -> Slot \cup {Null}],
         HomesOf(lk2, ls2, s) = HomesOf(lk, ls, s) \cup {x},
         SameHomesElsewhere(lk, ls, lk2, ls2, s)
  PROVE  Core(registry_allocate(h, s), lk2, ls2, st, o + 1)
<1> DEFINE h2 == registry_allocate(h, s)
           O == OwnersOf(lk, ls, st)
           P == OwnersOf(lk2, ls2, st)
<1>1. HeapFine(h, O) /\ st \in Seq(Frame)
  BY DEF Core
<1> HIDE DEF O, P, h2
<1>2. s \in Slot /\ O[s] = {}
  BY <1>1, AllocatableIsFree
<1>3. HomesOf(lk, ls, s) = {} /\ RunningOf(st, s) = {}
  BY <1>2, OwnersSplit DEF O
<1>4. P[s] = {x} /\ HomesOf(lk2, ls2, s) = {x}
  BY <1>2, <1>3, OwnersSplit DEF P
<1>5. SameElsewhere(O, P, s)
  BY Zenon DEF P, O, OwnersOf, SameElsewhere, SameHomesElsewhere
<1>6. /\ HeapFine(h2, P)
      /\ AllocatedVersions(h, h2, s)
  BY <1>1, <1>4, <1>5, Allocates, Zenon DEF h2
<1>7. \A t \in Slot : MovesAt(h, lk, ls, st, o, h2, lk2, ls2, st, o + 1, t)
  <2>1. SUFFICES ASSUME NEW t \in Slot
                 PROVE  Moves(h.version[t], O[t], HomesOf(lk, ls, t), o,
                              h2.version[t], P[t], HomesOf(lk2, ls2, t), o + 1)
    BY DEF MovesAt, O, P
  <2>2. CASE t = s
    BY <1>2, <1>4, <1>6, <2>2 DEF Moves, IsAllocated, AllocatedVersions
  <2>3. CASE t # s
    BY <1>5, <1>6, <2>3, MovesNowhere DEF SameElsewhere, SameHomesElsewhere, AllocatedVersions
  <2> QED
    BY <2>2, <2>3
<1>8. NoneFreed(O, P)
  BY <1>2, <1>5 DEF NoneFreed, SameElsewhere
<1>9. \A t \in Slot : \A a, b \in HomesOf(lk2, ls2, t) : a = b
  <2>1. SUFFICES ASSUME NEW t \in Slot PROVE \A a, b \in HomesOf(lk2, ls2, t) : a = b
    OBVIOUS
  <2>2. CASE t = s
    BY <1>4, <2>2
  <2>3. CASE t # s
    <3>1. HomesOf(lk2, ls2, t) = HomesOf(lk, ls, t)
      BY <2>3 DEF SameHomesElsewhere
    <3> QED
      BY <3>1, Zenon DEF Core
  <2> QED
    BY <2>2, <2>3
<1>10. CameFrom(st, st)
  BY Zenon DEF CameFrom
<1> QED
  <2>1. HeapFine(h2, OwnersOf(lk2, ls2, st)) /\ NoneFreed(OwnersOf(lk, ls, st), OwnersOf(lk2, ls2, st))
    BY <1>6, <1>8 DEF O, P
  <2>2. Core(h2, lk2, ls2, st, o + 1)
    BY <1>1, <1>7, <1>9, <1>10, <2>1, CoreKeeps
  <2> QED
    BY <2>2 DEF h2

(* A listener is unlinked, or its descriptor forgotten.                    *)
LEMMA CoreUnlistens ==
  ASSUME NEW h, NEW lk, NEW ls, NEW st, NEW o, Core(h, lk, ls, st, o),
         NEW s \in Slot, o + 1 \in 0 .. MaxOps, NEW x,
         NEW lk2 \in [Signal -> Seq(Slot)], NEW ls2 \in [Fd -> Slot \cup {Null}],
         HomesOf(lk, ls, s) = {x}, HomesOf(lk2, ls2, s) = {},
         SameHomesElsewhere(lk, ls, lk2, ls2, s)
  PROVE  Core(object_remove_ref(h, s), lk2, ls2, Marked(st, object_remove_ref(h, s)), o + 1)
<1> DEFINE h2 == object_remove_ref(h, s)
           O == OwnersOf(lk, ls, st)
           P == OwnersOf(lk2, ls2, st)
<1>1. HeapFine(h, O) /\ st \in Seq(Frame)
  BY DEF Core
<1> HIDE DEF O, P, h2
<1>2. x \notin RunningOf(st, s)
  BY HomesAreApart
<1>3. O[s] = {x} \cup RunningOf(st, s) /\ P[s] = RunningOf(st, s)
  BY Zenon DEF O, P, OwnersOf
<1>4. x \in O[s] /\ P[s] = O[s] \ {x}
  BY <1>2, <1>3
<1>5. SameElsewhere(O, P, s)
  BY Zenon DEF P, O, OwnersOf, SameElsewhere, SameHomesElsewhere
<1>6. /\ HeapFine(h2, P)
      /\ DroppedVersions(h, h2, s, P)
  BY <1>1, <1>4, <1>5, Drops, Zenon DEF h2
<1>7. \A t \in Slot : MovesAt(h, lk, ls, st, o, h2, lk2, ls2, st, o + 1, t)
  <2>1. SUFFICES ASSUME NEW t \in Slot
                 PROVE  Moves(h.version[t], O[t], HomesOf(lk, ls, t), o,
                              h2.version[t], P[t], HomesOf(lk2, ls2, t), o + 1)
    BY DEF MovesAt, O, P
  <2>2. CASE t = s /\ P[s] = {}
    BY <1>4, <1>6, <2>2 DEF Moves, IsFreed, DroppedVersions
  <2>3. CASE t = s /\ P[s] # {}
    BY <1>4, <1>6, <2>3 DEF Moves, Stays, DroppedVersions
  <2>4. CASE t # s
    BY <1>5, <1>6, <2>4, MovesNowhere DEF SameElsewhere, SameHomesElsewhere, DroppedVersions
  <2> QED
    BY <2>2, <2>3, <2>4
<1>8. \A t \in Slot : \A a, b \in HomesOf(lk2, ls2, t) : a = b
  <2>1. SUFFICES ASSUME NEW t \in Slot PROVE \A a, b \in HomesOf(lk2, ls2, t) : a = b
    OBVIOUS
  <2>2. CASE t = s
    BY <2>2
  <2>3. CASE t # s
    <3>1. HomesOf(lk2, ls2, t) = HomesOf(lk, ls, t)
      BY <2>3 DEF SameHomesElsewhere
    <3> QED
      BY <3>1, Zenon DEF Core
  <2> QED
    BY <2>2, <2>3
<1>9. CameFrom(st, st)
  BY Zenon DEF CameFrom
<1> QED
  BY <1>1, <1>6, <1>7, <1>8, <1>9, CoreMarks, Zenon DEF O, P, h2

(* A callback returns to what called it.                                   *)
LEMMA CoreReturns ==
  ASSUME NEW h, NEW lk, NEW ls, NEW st, NEW o, Core(h, lk, ls, st, o),
         NEW k, NEW s \in Slot, st[k].cur = s, NEW st1 \in Seq(Frame),
         Ends(st, st1, k), CameFrom(st, st1)
  PROVE  Core(object_remove_ref(h, s), lk, ls, Marked(st1, object_remove_ref(h, s)), o)
<1> DEFINE h2 == object_remove_ref(h, s)
           O == OwnersOf(lk, ls, st)
           P == OwnersOf(lk, ls, st1)
           x == <<"frame", k>>
<1>1. /\ HeapFine(h, O) /\ o \in 0 .. MaxOps /\ lk \in [Signal -> Seq(Slot)]
      /\ ls \in [Fd -> Slot \cup {Null}]
  BY DEF Core
<1> HIDE DEF O, P, h2, x
<1>2. /\ RunningOf(st1, s) = RunningOf(st, s) \ {x}
      /\ x \in RunningOf(st, s)
      /\ \A t \in Slot \ {s} : RunningOf(st1, t) = RunningOf(st, t)
  <2>1. /\ RunningOf(st1, s) = RunningOf(st, s) \ {<<"frame", k>>}
        /\ <<"frame", k>> \in RunningOf(st, s)
        /\ \A t \in Slot \ {s} : RunningOf(st1, t) = RunningOf(st, t)
    BY EndedRuns
  <2> QED
    BY <2>1, Zenon DEF x
<1>3. x \notin HomesOf(lk, ls, s)
  BY <1>2, HomesAreApart
<1>4. x \in O[s] /\ P[s] = O[s] \ {x} /\ HomesOf(lk, ls, s) \subseteq P[s]
  <2>1. /\ O[s] = HomesOf(lk, ls, s) \cup RunningOf(st, s)
        /\ P[s] = HomesOf(lk, ls, s) \cup RunningOf(st1, s)
    BY Zenon DEF O, P, OwnersOf
  <2> QED
    BY <1>2, <1>3, <2>1
<1>5. SameElsewhere(O, P, s)
  BY <1>2, Zenon DEF P, O, OwnersOf, SameElsewhere
<1>6. /\ HeapFine(h2, P)
      /\ DroppedVersions(h, h2, s, P)
  BY <1>1, <1>4, <1>5, Drops, Zenon DEF h2
<1>7. \A t \in Slot : MovesAt(h, lk, ls, st, o, h2, lk, ls, st1, o, t)
  <2>1. SUFFICES ASSUME NEW t \in Slot
                 PROVE  Moves(h.version[t], O[t], HomesOf(lk, ls, t), o,
                              h2.version[t], P[t], HomesOf(lk, ls, t), o)
    BY DEF MovesAt, O, P
  <2>2. CASE t = s /\ P[s] = {}
    BY <1>4, <1>6, <2>2 DEF Moves, IsFreed, DroppedVersions
  <2>3. CASE t = s /\ P[s] # {}
    BY <1>4, <1>6, <2>3 DEF Moves, Stays, DroppedVersions
  <2>4. CASE t # s
    BY <1>5, <1>6, <2>4, MovesNowhere DEF SameElsewhere, SameHomesElsewhere, DroppedVersions
  <2> QED
    BY <2>2, <2>3, <2>4
<1>8. \A t \in Slot : \A a, b \in HomesOf(lk, ls, t) : a = b
  BY Zenon DEF Core
<1> QED
  BY <1>1, <1>6, <1>7, <1>8, CoreMarks, Zenon DEF P, h2

(* Frames that run nothing come and go.                                    *)
LEMMA CoreStack ==
  ASSUME NEW h, NEW lk, NEW ls, NEW st, NEW o, Core(h, lk, ls, st, o),
         NEW st1 \in Seq(Frame), NEW o2 \in 0 .. MaxOps, o2 = o \/ o2 = o + 1,
         RunTheSame(st, st1)
  PROVE  /\ OwnersOf(lk, ls, st1) = OwnersOf(lk, ls, st)
         /\ CameFrom(st, st1) => Core(h, lk, ls, st1, o2) /\ Core(h, lk, ls, Marked(st1, h), o2)
<1>1. \A t \in Slot : RunningOf(st1, t) = RunningOf(st, t)
  BY SameRuns
<1>2. OwnersOf(lk, ls, st1) = OwnersOf(lk, ls, st)
  BY <1>1 DEF OwnersOf
<1>3. \A t \in Slot : MovesAt(h, lk, ls, st, o, h, lk, ls, st1, o2, t)
  BY <1>2, MovesNowhere DEF MovesAt
<1>4. /\ HeapFine(h, OwnersOf(lk, ls, st1)) /\ lk \in [Signal -> Seq(Slot)]
      /\ ls \in [Fd -> Slot \cup {Null}]
      /\ \A t \in Slot : \A a, b \in HomesOf(lk, ls, t) : a = b
  <2>1. HeapFine(h, OwnersOf(lk, ls, st))
    BY Zenon DEF Core
  <2> QED
    BY <1>2, <2>1, Zenon DEF Core
<1>5. ASSUME CameFrom(st, st1) PROVE Core(h, lk, ls, Marked(st1, h), o2)
  BY <1>3, <1>4, <1>5, CoreMarks
<1>6. ASSUME CameFrom(st, st1) PROVE Core(h, lk, ls, st1, o2)
  <2>1. NoneFreed(OwnersOf(lk, ls, st), OwnersOf(lk, ls, st1))
    BY <1>2 DEF NoneFreed
  <2> QED
    BY <1>3, <1>4, <1>6, <2>1, CoreKeeps
<1> QED
  BY <1>2, <1>5, <1>6

(* A frame that belongs to a signal that is being dispatched.              *)
SignalFrame(h, lk, sig) ==
  [kind |-> sig, fd |-> Null, cur |-> Null,
   stored |-> [k \in DOMAIN lk[sig] |->
                 [slot |-> lk[sig][k], version |-> h.version[lk[sig][k]], alive |-> TRUE]]]

(* A sequence with one more element.                                       *)
LEMMA Appended ==
  ASSUME NEW A, NEW s \in Seq(A), NEW x \in A
  PROVE  /\ Append(s, x) \in Seq(A) /\ DOMAIN s = 1 .. Len(s) /\ Len(s) \in Nat
         /\ DOMAIN Append(s, x) = 1 .. Len(s) + 1 /\ Append(s, x)[Len(s) + 1] = x
         /\ \A k \in 1 .. Len(s) : Append(s, x)[k] = s[k]
         /\ \A k \in 1 .. Len(s) + 1 : k \in 1 .. Len(s) \/ k = Len(s) + 1
         /\ Len(s) + 1 \notin 1 .. Len(s) /\ Len(s) + 1 \in 1 .. Len(s) + 1
         /\ 1 .. Len(s) \subseteq 1 .. Len(s) + 1
OBVIOUS

(* The frame of a dispatch is a frame.                                     *)
LEMMA SignalFrameIsFrame ==
  ASSUME NEW h \in Heap, NEW lk \in [Signal -> Seq(Slot)], NEW sig \in Signal
  PROVE  SignalFrame(h, lk, sig) \in Frame
<1> DEFINE q == lk[sig]
           weak(k) == [slot |-> q[k], version |-> h.version[q[k]], alive |-> TRUE]
           stored == [k \in DOMAIN q |-> weak(k)]
<1>1. DOMAIN q = 1 .. Len(q) /\ Len(q) \in Nat /\ \A k \in DOMAIN q : q[k] \in Slot
  <2>1. q \in Seq(Slot)
    OBVIOUS
  <2> HIDE DEF q
  <2> QED
    BY <2>1
<1>2. \A k \in DOMAIN q : weak(k) \in Weak
  <2> HIDE DEF q
  <2> QED
    BY <1>1, HeapFields DEF Weak
<1>3. stored \in Seq(Weak)
  <2> HIDE DEF q, weak
  <2> QED
    BY <1>1, <1>2
<1>4. SignalFrame(h, lk, sig) = [kind |-> sig, fd |-> Null, cur |-> Null, stored |-> stored]
  BY DEF SignalFrame
<1> HIDE DEF stored
<1> QED
  BY <1>3, <1>4 DEF Frame, Weak

(* A signal is emitted.                                                    *)
LEMMA CoreEmits ==
  ASSUME NEW h, NEW lk, NEW ls, NEW st, NEW o, Core(h, lk, ls, st, o), NEW sig \in Signal,
         NEW o2 \in 0 .. MaxOps, o2 = o \/ o2 = o + 1
  PROVE  Core(h, lk, ls, Append(st, SignalFrame(h, lk, sig)), o2)
<1> DEFINE x == SignalFrame(h, lk, sig)
           st2 == Append(st, x)
           O == OwnersOf(lk, ls, st)
           n == Len(st)
<1>1. /\ st \in Seq(Frame) /\ HeapFine(h, O) /\ h \in Heap /\ o \in 0 .. MaxOps
      /\ lk \in [Signal -> Seq(Slot)] /\ ls \in [Fd -> Slot \cup {Null}]
      /\ \A s \in Slot : \A a, b \in HomesOf(lk, ls, s) : a = b
      /\ \A f \in DOMAIN st : \A k \in DOMAIN st[f].stored :
           WeakAt(h, lk, ls, st, o, st[f].stored[k], st[f].kind)
  <2>1. Core(h, lk, ls, st, o)
    OBVIOUS
  <2> QED
    BY <2>1, Zenon DEF Core, HeapFine
<1>2. x \in Frame
  BY <1>1, SignalFrameIsFrame
<1>3. x.cur = Null /\ x.kind = sig
  BY DEF SignalFrame
<1>4. /\ DOMAIN x.stored = DOMAIN lk[sig]
      /\ \A k \in DOMAIN lk[sig] : /\ x.stored[k].slot = lk[sig][k]
                                   /\ x.stored[k].version = h.version[lk[sig][k]]
                                   /\ x.stored[k].alive = TRUE
  BY DEF SignalFrame
<1> HIDE DEF x, O
<1>5. /\ st2 \in Seq(Frame) /\ DOMAIN st = 1 .. n /\ n \in Nat
      /\ DOMAIN st2 = 1 .. n + 1 /\ st2[n + 1] = x
      /\ \A f \in 1 .. n : st2[f] = st[f]
      /\ \A f \in 1 .. n + 1 : f \in 1 .. n \/ f = n + 1
      /\ n + 1 \notin 1 .. n
      /\ 1 .. n \subseteq 1 .. n + 1
  BY <1>1, <1>2, Appended
<1> HIDE DEF st2, n
<1>6. RunTheSame(st, st2)
  BY <1>3, <1>5, NullAssumption DEF RunTheSame
<1>7. OwnersOf(lk, ls, st2) = O
  BY <1>6, SameRuns DEF OwnersOf, O
<1>8. ASSUME NEW f \in DOMAIN st2, NEW k \in DOMAIN st2[f].stored
      PROVE  WeakAt(h, lk, ls, st2, o2, st2[f].stored[k], st2[f].kind)
  <2> DEFINE w == st2[f].stored[k]
  <2>1. CASE f \in 1 .. n
    <3>1. st2[f] = st[f] /\ f \in DOMAIN st /\ k \in DOMAIN st[f].stored
      BY <1>5, <2>1
    <3>2. WeakAt(h, lk, ls, st, o, w, st[f].kind)
      BY <1>1, <3>1
    <3> HIDE DEF w
    <3>3. Moves(h.version[w.slot], O[w.slot], HomesOf(lk, ls, w.slot), o,
                h.version[w.slot], O[w.slot], HomesOf(lk, ls, w.slot), o2)
      BY MovesNowhere
    <3>4. WeakFine(w, st[f].kind, h.version[w.slot], O[w.slot], HomesOf(lk, ls, w.slot), o)
      BY <3>2, Zenon DEF WeakAt, O
    <3>5. w.alive => O[w.slot] # {}
      BY <3>4, Zenon DEF WeakFine
    <3>6. WeakFine(w, st[f].kind, h.version[w.slot], O[w.slot], HomesOf(lk, ls, w.slot), o2)
      BY <1>1, <3>3, <3>4, <3>5, WeakMoves
    <3> QED
      BY <1>7, <3>1, <3>6, Zenon DEF WeakAt, w
  <2>2. CASE f = n + 1
    <3> DEFINE s == lk[sig][k]
    <3>1. st2[f] = x /\ k \in DOMAIN lk[sig]
      BY <1>4, <1>5, <2>2
    <3>2. s \in Slot /\ s \in ToSet(lk[sig])
      BY <1>1, <3>1 DEF ToSet
    <3>3. w.slot = s /\ w.version = h.version[s] /\ w.alive /\ st2[f].kind = sig
      BY <1>3, <1>4, <3>1
    <3> HIDE DEF s, w
    <3>4. <<"link", sig>> \in HomesOf(lk, ls, s)
      BY <3>2, HomeIs
    <3>5. HomesOf(lk, ls, s) \subseteq {<<"link", sig>>} /\ HomesOf(lk, ls, s) # {}
      BY <1>1, <3>2, <3>4
    <3>6. O[s] # {}
      BY <3>2, <3>5, OwnersSplit DEF O
    <3>7. h.version[s] \in 1 .. VersionCount
      <4>1. h.version[s] # 0
        BY <1>1, <3>2, <3>6 DEF HeapFine
      <4>2. h.version[s] \in 0 .. VersionCount
        BY <1>1, <3>2, HeapFields
      <4> QED
        BY <4>1, <4>2, VersionAssumption
    <3>8. \E m \in Nat :
            /\ h.version[s] \in {w.version + m, w.version + m - VersionCount}
            /\ w.alive <=> m = 0
            /\ m = 0 => /\ O[s] # {} /\ HomesOf(lk, ls, s) \subseteq {<<"link", sig>>}
                        /\ HomesOf(lk, ls, s) = {} => 1 <= o2
            /\ m > 0 => m <= o2 /\ (O[s] # {} => m + 1 <= o2)
      <4>1. h.version[s] = w.version + 0
        BY <3>3, <3>7
      <4>2. ~ (0 > 0)
        OBVIOUS
      <4> WITNESS 0 \in Nat
      <4> QED
        BY <3>3, <3>5, <3>6, <4>1, <4>2
    <3>9. WeakFine(w, sig, h.version[s], O[s], HomesOf(lk, ls, s), o2)
      BY <3>3, <3>7, <3>8, Zenon DEF WeakFine
    <3> QED
      BY <1>7, <3>3, <3>9, Zenon DEF WeakAt, w
  <2> QED
    BY <1>5, <2>1, <2>2
<1>9. HeapFine(h, OwnersOf(lk, ls, st2))
  BY <1>1, <1>7
<1> QED
  BY <1>1, <1>5, <1>8, <1>9, Zenon DEF Core, st2, x

(* A sequence with one element changed.                                    *)
LEMMA ElementChanges ==
  ASSUME NEW A, NEW s \in Seq(A), NEW n \in 1 .. Len(s), NEW x \in A
  PROVE  LET t == [s EXCEPT ![n] = x]
         IN  /\ t \in Seq(A) /\ DOMAIN t = DOMAIN s /\ Len(t) = Len(s) /\ t[n] = x
             /\ \A k \in DOMAIN s : k # n => t[k] = s[k]
OBVIOUS

NotifiedStack(h, st, st2, l) ==
  /\ st # <<>> /\ Last(st).cur = Null /\ Last(st).stored # <<>>
  /\ l = Get(h, Head(Last(st).stored))
  /\ st2 = [st EXCEPT ![Len(st)].stored = Tail(@), ![Len(st)].cur = l]

(* A dispatch goes on to its next listener, when that is still there.      *)
LEMMA CoreNotifies ==
  ASSUME NEW h, NEW lk, NEW ls, NEW st, NEW o, Core(h, lk, ls, st, o),
         NEW l, NEW st2, NotifiedStack(h, st, st2, l)
  PROVE  /\ st2 \in Seq(Frame) /\ DOMAIN st2 = DOMAIN st /\ Last(st2).cur = l
         /\ \A f \in DOMAIN st : st2[f].kind = st[f].kind
         /\ \A f \in DOMAIN st : f # Len(st) => st2[f] = st[f]
         /\ Core(IF l = Null THEN h ELSE object_add_ref(h, l), lk, ls, st2, o)
         /\ l # Null => /\ l \in Slot /\ HomesOf(lk, ls, l) \subseteq {<<"link", Last(st).kind>>}
                        /\ OwnersOf(lk, ls, st)[l] # {}
<1> DEFINE n == Len(st)
           q == st[n].stored
           O == OwnersOf(lk, ls, st)
<1>1. /\ st \in Seq(Frame) /\ HeapFine(h, O) /\ h \in Heap /\ o \in 0 .. MaxOps
      /\ lk \in [Signal -> Seq(Slot)] /\ ls \in [Fd -> Slot \cup {Null}]
      /\ \A s \in Slot : \A a, b \in HomesOf(lk, ls, s) : a = b
  <2>1. Core(h, lk, ls, st, o)
    OBVIOUS
  <2> QED
    BY <2>1, Zenon DEF Core, HeapFine
<1>2. n \in Nat \ {0} /\ DOMAIN st = 1 .. n /\ n \in 1 .. n /\ Last(st) = st[n]
      /\ st[n] \in Frame
  <2>1. n \in Nat \ {0} /\ DOMAIN st = 1 .. n
    BY <1>1 DEF NotifiedStack
  <2>2. n \in 1 .. n /\ Last(st) = st[n]
    BY <2>1 DEF Last
  <2> QED
    BY <1>1, <2>1, <2>2
<1>3. q # <<>> /\ st[n].cur = Null /\ q \in Seq(Weak)
  BY <1>2, FrameFields DEF NotifiedStack
<1> HIDE DEF q
<1>4. /\ Tail(q) \in Seq(Weak) /\ 1 \in DOMAIN q /\ Head(q) = q[1]
      /\ \A k \in DOMAIN Tail(q) : k + 1 \in DOMAIN q /\ Tail(q)[k] = q[k + 1]
  BY <1>3
<1>5. /\ l # Null => /\ l \in Slot /\ l = q[1].slot /\ O[l] # {}
                     /\ HomesOf(lk, ls, l) \subseteq {<<"link", st[n].kind>>}
      /\ l \in Slot \cup {Null}
  <2>1. n \in DOMAIN st /\ 1 \in DOMAIN st[n].stored
    BY <1>2, <1>4 DEF q
  <2>2. l = Get(h, st[n].stored[1])
    BY <1>2, <1>4 DEF q, NotifiedStack
  <2>3. /\ st[n].stored[1].slot \in Slot
        /\ Get(h, st[n].stored[1]) # Null =>
             /\ Get(h, st[n].stored[1]) = st[n].stored[1].slot
             /\ OwnersOf(lk, ls, st)[st[n].stored[1].slot] # {}
             /\ HomesOf(lk, ls, st[n].stored[1].slot) \subseteq {<<"link", st[n].kind>>}
    BY <2>1, CoreFinds
  <2> QED
    BY <2>2, <2>3 DEF q
<1> HIDE DEF n, O
<1>12. PICK x : x = [st[n] EXCEPT !.stored = Tail(q), !.cur = l]
  OBVIOUS
<1>6. x \in Frame /\ x.kind = st[n].kind /\ x.cur = l /\ x.stored = Tail(q)
  <2> DEFINE y == st[n]
             r == Tail(q)
  <2>1. y \in Frame /\ r \in Seq(Weak) /\ l \in Slot \cup {Null}
        /\ x = [y EXCEPT !.stored = r, !.cur = l]
    BY <1>2, <1>4, <1>5, <1>12
  <2> HIDE DEF y, r
  <2>2. x \in Frame /\ x.kind = y.kind /\ x.cur = l /\ x.stored = r
    BY <2>1 DEF Frame, Weak
  <2> QED
    BY <2>2 DEF y, r
<1>7. st2 = [st EXCEPT ![n] = x]
  BY <1>1, <1>2, <1>12 DEF n, q, NotifiedStack
<1>8. /\ st2 \in Seq(Frame) /\ DOMAIN st2 = DOMAIN st /\ st2[n] = x /\ Len(st2) = n
      /\ \A f \in DOMAIN st : f # n => st2[f] = st[f]
  BY <1>1, <1>2, <1>6, <1>7, ElementChanges DEF n
<1>9. CameFrom(st, st2)
  <2>1. ASSUME NEW f \in DOMAIN st2, NEW k \in DOMAIN st2[f].stored
        PROVE  /\ f \in DOMAIN st /\ st2[f].kind = st[f].kind
               /\ \E j \in DOMAIN st[f].stored : st2[f].stored[k] = st[f].stored[j]
    <3>1. CASE f = n
      BY <1>4, <1>6, <1>8, <3>1 DEF q
    <3>2. CASE f # n
      BY <1>8, <3>2
    <3> QED
      BY <3>1, <3>2
  <2> QED
    BY <2>1, Zenon DEF CameFrom
<1>10. CASE l = Null
  <2>1. RunTheSame(st, st2)
    <3>1. \A f \in DOMAIN st : st2[f].cur = st[f].cur
      BY <1>3, <1>6, <1>8, <1>10
    <3> QED
      BY <1>8, <3>1 DEF RunTheSame
  <2>2. Core(h, lk, ls, st2, o)
    BY <1>1, <1>8, <1>9, <2>1, CoreStack
  <2>3. Last(st2) = st2[n]
    BY <1>8 DEF Last
  <2> QED
    BY <1>6, <1>8, <1>10, <2>2, <2>3 DEF n
<1>11. CASE l # Null
  <2> DEFINE h2 == object_add_ref(h, l)
             P == OwnersOf(lk, ls, st2)
  <2>1. l \in Slot /\ O[l] # {} /\ HomesOf(lk, ls, l) \subseteq {<<"link", st[n].kind>>}
    BY <1>5, <1>11
  <2>2. Starts(st, st2, n) /\ st2[n].cur = l
    BY <1>2, <1>3, <1>6, <1>8 DEF Starts
  <2>3. /\ RunningOf(st2, l) = RunningOf(st, l) \cup {<<"frame", n>>}
        /\ <<"frame", n>> \notin RunningOf(st, l)
        /\ \A t \in Slot \ {l} : RunningOf(st2, t) = RunningOf(st, t)
    BY <2>1, <2>2, StartedRuns
  <2> HIDE DEF P
  <2>4. <<"frame", n>> \in RunningOf(st2, l)
    BY <2>3
  <2>5. <<"frame", n>> \notin HomesOf(lk, ls, l)
    BY <2>4, HomesAreApart
  <2>6. /\ O[l] = HomesOf(lk, ls, l) \cup RunningOf(st, l)
        /\ P[l] = HomesOf(lk, ls, l) \cup RunningOf(st2, l)
    BY <2>1, OwnersSplit DEF O, P
  <2>7. <<"frame", n>> \notin O[l] /\ P[l] = O[l] \cup {<<"frame", n>>}
    BY <2>3, <2>5, <2>6
  <2>8. SameElsewhere(O, P, l)
    BY <2>3, Zenon DEF SameElsewhere, O, P, OwnersOf
  <2>9. HeapFine(h2, P) /\ h2.version = h.version
    BY <1>1, <2>1, <2>7, <2>8, Adds, Zenon
  <2> HIDE DEF h2
  <2>10. \A t \in Slot : MovesAt(h, lk, ls, st, o, h2, lk, ls, st2, o, t)
    <3>1. SUFFICES ASSUME NEW t \in Slot
                   PROVE  Moves(h.version[t], O[t], HomesOf(lk, ls, t), o,
                                h2.version[t], P[t], HomesOf(lk, ls, t), o)
      BY DEF MovesAt, O, P
    <3>2. P[t] = {} <=> O[t] = {}
      <4>1. CASE t = l
        BY <2>7, <2>1, <4>1
      <4>2. CASE t # l
        BY <2>8, <4>2 DEF SameElsewhere
      <4> QED
        BY <4>1, <4>2
    <3> QED
      BY <2>9, <3>2 DEF Moves, Stays
  <2>11. NoneFreed(O, P)
    BY <2>7, <2>8 DEF NoneFreed, SameElsewhere
  <2>12. Core(h2, lk, ls, st2, o)
    BY <1>1, <1>8, <1>9, <2>9, <2>10, <2>11, CoreKeeps, Zenon DEF O, P
  <2>13. Last(st2) = st2[n]
    BY <1>8 DEF Last
  <2>14. (IF l = Null THEN h ELSE object_add_ref(h, l)) = h2
    BY <1>11 DEF h2
  <2>15. Core(IF l = Null THEN h ELSE object_add_ref(h, l), lk, ls, st2, o)
    BY <2>12, <2>14, Zenon
  <2> QED
    BY <1>2, <1>6, <1>8, <2>1, <2>13, <2>15, Zenon DEF n, O
<1> QED
  BY <1>10, <1>11

(* A frame without weak references that begins on the empty stack.         *)
LEMMA CoreHandles ==
  ASSUME NEW h, NEW lk, NEW ls, NEW o, Core(h, lk, ls, <<>>, o),
         NEW fd \in Fd, NEW l, l = ls[fd], l # Null
  PROVE  LET st2 == <<HandlerFrame(fd, l)>>
         IN  /\ st2 \in Seq(Frame) /\ DOMAIN st2 = {1} /\ st2[1] = HandlerFrame(fd, l)
             /\ Core(object_add_ref(h, l), lk, ls, st2, o)
             /\ Core(object_remove_ref(object_add_ref(h, l), l), lk,
                     [ls EXCEPT ![fd] = Null], st2, o)
<1> DEFINE x == HandlerFrame(fd, l)
           st2 == <<x>>
           O == OwnersOf(lk, ls, <<>>)
           P == OwnersOf(lk, ls, st2)
           h1 == object_add_ref(h, l)
           h2 == object_remove_ref(h1, l)
           ls2 == [ls EXCEPT ![fd] = Null]
           Q == OwnersOf(lk, ls2, st2)
<1>1. /\ HeapFine(h, O) /\ o \in 0 .. MaxOps
      /\ lk \in [Signal -> Seq(Slot)] /\ ls \in [Fd -> Slot \cup {Null}]
      /\ \A s \in Slot : \A a, b \in HomesOf(lk, ls, s) : a = b
  <2>1. Core(h, lk, ls, <<>>, o)
    OBVIOUS
  <2> QED
    BY <2>1, Zenon DEF Core
<1>2. l \in Slot
  BY <1>1
<1>3. x \in Frame /\ x.cur = l /\ x.stored = <<>>
  BY <1>2 DEF HandlerFrame, Frame
<1> HIDE DEF x
<1>4. st2 \in Seq(Frame) /\ DOMAIN st2 = {1} /\ st2[1] = x
  BY <1>3
<1> HIDE DEF st2
<1>5. DOMAIN << >> = {}
  OBVIOUS
<1>6. Starts(<<>>, st2, 1) /\ st2[1].cur = l
  BY <1>3, <1>4, <1>5 DEF Starts
<1>7. /\ RunningOf(st2, l) = RunningOf(<<>>, l) \cup {<<"frame", 1>>}
      /\ <<"frame", 1>> \notin RunningOf(<<>>, l)
      /\ \A t \in Slot \ {l} : RunningOf(st2, t) = RunningOf(<<>>, t)
  BY <1>2, <1>6, StartedRuns
<1>8. <<"fd", fd>> \in HomesOf(lk, ls, l)
  BY HomeIs
<1>9. <<"frame", 1>> \notin HomesOf(lk, ls, l)
  BY <1>7, HomesAreApart
<1> HIDE DEF O, P, Q, h1, h2
<1>10. /\ O[l] = HomesOf(lk, ls, l) \cup RunningOf(<<>>, l)
       /\ P[l] = HomesOf(lk, ls, l) \cup RunningOf(st2, l)
  BY <1>2, OwnersSplit DEF O, P
<1>11. /\ O[l] # {} /\ <<"frame", 1>> \notin O[l] /\ P[l] = O[l] \cup {<<"frame", 1>>}
  BY <1>7, <1>8, <1>9, <1>10
<1>12. SameElsewhere(O, P, l)
  BY <1>7, Zenon DEF SameElsewhere, O, P, OwnersOf
<1>13. HeapFine(h1, P)
  BY <1>1, <1>2, <1>11, <1>12, Adds, Zenon DEF h1
<1>14. \A f \in DOMAIN st2 : DOMAIN st2[f].stored = {}
  BY <1>3, <1>4
<1>15. Core(h1, lk, ls, st2, o)
  BY <1>1, <1>4, <1>13, <1>14, Zenon DEF Core, P
<1>16. /\ ls2 \in [Fd -> Slot \cup {Null}]
       /\ HomesOf(lk, ls2, l) = {}
       /\ HomesOf(lk, ls, l) = {<<"fd", fd>>}
       /\ SameHomesElsewhere(lk, ls, lk, ls2, l)
  <2>1. ls[fd] = l /\ OneHome(lk, ls, l)
    BY <1>1, <1>2 DEF OneHome
  <2> QED
    BY <1>1, <1>2, <2>1, UnlistenedHomes
<1> HIDE DEF ls2
<1>17. Q[l] = RunningOf(st2, l)
  <2>1. Q[l] = HomesOf(lk, ls2, l) \cup RunningOf(st2, l)
    BY <1>2, Zenon DEF Q, OwnersOf
  <2> QED
    BY <1>16, <2>1
<1>18. <<"fd", fd>> \notin RunningOf(st2, l)
  BY <1>8, HomesAreApart
<1>19. <<"fd", fd>> \in P[l] /\ Q[l] = P[l] \ {<<"fd", fd>>}
  BY <1>8, <1>10, <1>16, <1>17, <1>18
<1>20. SameElsewhere(P, Q, l)
  BY <1>16, Zenon DEF SameElsewhere, SameHomesElsewhere, P, Q, OwnersOf
<1>21. HeapFine(h2, Q)
  BY <1>2, <1>13, <1>19, <1>20, Drops, Zenon DEF h2
<1>22. \A t \in Slot : \A a, b \in HomesOf(lk, ls2, t) : a = b
  <2>1. SUFFICES ASSUME NEW t \in Slot PROVE \A a, b \in HomesOf(lk, ls2, t) : a = b
    OBVIOUS
  <2>2. CASE t = l
    BY <1>16, <2>2
  <2>3. CASE t # l
    BY <1>1, <1>16, <2>3 DEF SameHomesElsewhere
  <2> QED
    BY <2>2, <2>3
<1>23. Core(h2, lk, ls2, st2, o)
  BY <1>1, <1>4, <1>14, <1>16, <1>21, <1>22, Zenon DEF Core, Q
<1> QED
  BY <1>4, <1>15, <1>23, Zenon DEF st2, x, h1, h2, ls2

-------------------------------------------------------------------------------
(* The inductive invariant: the memory; that the dispatch of idle is the   *)
(* outermost; that what the batch reports wrongly is no longer registered; *)
(* and that nothing is registered any more once the loop was stopped.      *)
IdleIsOutermost(st) == \A f \in DOMAIN st : st[f].kind = "idle" => f = 1

FreshOrForgotten(reports, ls) ==
  \A k \in DOMAIN reports : reports[k].fresh \/ ls[reports[k].fd] = Null

Report == [fd : Fd, fresh : BOOLEAN]

Rest ==
  /\ stage \in {"poll", "batch", "idle", "done"}
  /\ batch \in Seq(Report)
  /\ stopped \in BOOLEAN
  /\ epoll \in [readable : SUBSET Fd, ready : Seq(Fd), oneshot : SUBSET Fd]

NothingStays == links["idle"] = <<>> /\ \A fd \in Fd : listeners[fd] = Null

IInv ==
  /\ Core(heap, links, listeners, stack, ops)
  /\ Rest
  /\ IdleIsOutermost(stack)
  /\ FreshOrForgotten(batch, listeners)
  /\ stopped => NothingStays

(* Marking moves no frame.                                                 *)
LEMMA MarkedIdle ==
  ASSUME NEW h, NEW lk, NEW ls, NEW st \in Seq(Frame), NEW o,
         Core(h, lk, ls, Marked(st, h), o), IdleIsOutermost(st)
  PROVE  IdleIsOutermost(Marked(st, h))
<1>1. HeapFine(h, OwnersOf(lk, ls, Marked(st, h)))
  BY Zenon DEF Core
<1> DEFINE O == OwnersOf(lk, ls, Marked(st, h))
<1> HIDE DEF O
<1>2. /\ DOMAIN Marked(st, h) = DOMAIN st
      /\ \A f \in DOMAIN st : Marked(st, h)[f].kind = st[f].kind
  BY <1>1, MarkedProperties, Zenon DEF O
<1> QED
  BY <1>2 DEF IdleIsOutermost

(* The fields of epoll.                                                    *)
LEMMA EpollFields ==
  ASSUME NEW x \in [readable : SUBSET Fd, ready : Seq(Fd), oneshot : SUBSET Fd]
  PROVE  /\ x.readable \subseteq Fd /\ x.ready \in Seq(Fd) /\ x.oneshot \subseteq Fd
OBVIOUS

(* The invariant holds initially, when only main() runs.                   *)
LEMMA InitIInv ==
  Init => IInv
<1> SUFFICES ASSUME Init PROVE IInv
  OBVIOUS
<1>1. /\ heap = NoHeap /\ listeners = [fd \in Fd |-> Null]
      /\ links = [sig \in Signal |-> <<>>] /\ stack = <<Main>> /\ stage = "poll"
      /\ batch = <<>> /\ stopped = FALSE /\ ops = 0
      /\ epoll = [readable |-> {}, ready |-> <<>>, oneshot |-> {}]
  BY DEF Init
<1>2. Main \in Frame /\ Main.cur = Null /\ Main.stored = <<>> /\ Main.kind = "main"
  BY DEF Main, Frame
<1>3. stack \in Seq(Frame) /\ DOMAIN stack = {1} /\ stack[1] = Main
  BY <1>1, <1>2
<1>4. \A s \in Slot : HomesOf(links, listeners, s) = {} /\ RunningOf(stack, s) = {}
  <2>1. \A sig \in Signal : ToSet(links[sig]) = {}
    BY <1>1 DEF ToSet
  <2>2. \A s \in Slot : \A fd \in Fd : listeners[fd] # s
    BY <1>1, NullAssumption
  <2>3. \A s \in Slot : \A f \in DOMAIN stack : stack[f].cur # s
    BY <1>2, <1>3, NullAssumption
  <2> QED
    BY <2>1, <2>2, <2>3, HomeIs, RunnerIs
<1> DEFINE O == OwnersOf(links, listeners, stack)
<1>5. \A s \in Slot : O[s] = {}
  BY <1>4, OwnersSplit
<1> HIDE DEF O
<1>6. HeapFine(NoHeap, O)
  <2>1. NoHeap \in Heap
    <3>1. 0 \in 0 .. VersionCount
      BY VersionAssumption
    <3> QED
      BY <3>1 DEF NoHeap, Heap
  <2>2. /\ \A s \in Slot : NoHeap.version[s] = 0 /\ NoHeap.ref_count[s] = 0
        /\ NoHeap.bin = <<>>
    BY DEF NoHeap
  <2>3. IsFiniteSet({}) /\ Cardinality({}) = 0
    BY FS_EmptySet
  <2>4. ToSet(<<>>) = {} /\ IsInjective(<<>>)
    BY DEF ToSet, IsInjective
  <2> QED
    BY <1>5, <2>1, <2>2, <2>3, <2>4 DEF HeapFine
<1>7. \A f \in DOMAIN stack : DOMAIN stack[f].stored = {}
  BY <1>2, <1>3
<1>8. links \in [Signal -> Seq(Slot)] /\ listeners \in [Fd -> Slot \cup {Null}]
  BY <1>1
<1>9. ops \in 0 .. MaxOps
  BY <1>1, VersionAssumption
<1>10. Core(heap, links, listeners, stack, ops)
  BY <1>1, <1>3, <1>4, <1>6, <1>7, <1>8, <1>9 DEF Core, O
<1>11. Rest
  <2>1. epoll \in [readable : SUBSET Fd, ready : Seq(Fd), oneshot : SUBSET Fd]
    BY <1>1
  <2>2. batch \in Seq(Report)
    BY <1>1
  <2> QED
    BY <1>1, <2>1, <2>2 DEF Rest
<1>12. IdleIsOutermost(stack) /\ FreshOrForgotten(batch, listeners)
  BY <1>1, <1>2, <1>3 DEF IdleIsOutermost, FreshOrForgotten
<1> QED
  BY <1>1, <1>10, <1>11, <1>12 DEF IInv

(* Callbacks do not run when the loop was stopped, nor without operations  *)
(* left to do.                                                             *)
LEMMA OpsLeft ==
  ASSUME IInv, Op
  PROVE  ~ stopped /\ ops' = ops + 1 /\ ops + 1 \in 0 .. MaxOps
<1>1. ops \in 0 .. MaxOps /\ MaxOps \in Nat
  BY VersionAssumption DEF IInv, Core
<1> QED
  BY <1>1 DEF Op

(* What Core says of the variables.                                        *)
LEMMA CoreTypes ==
  ASSUME IInv
  PROVE  /\ links \in [Signal -> Seq(Slot)] /\ listeners \in [Fd -> Slot \cup {Null}]
         /\ stack \in Seq(Frame) /\ ops \in 0 .. MaxOps
         /\ \A s \in Slot : OneHome(links, listeners, s)
         /\ HeapFine(heap, OwnersOf(links, listeners, stack))
BY Zenon DEF IInv, Core, OneHome

(* Signal::listen keeps the invariant.                                     *)
LEMMA ListenKeeps ==
  ASSUME NEW sig \in Signal, IInv, listen(sig)
  PROVE  IInv'
<1>1. PICK s \in Allocatable(heap) :
        heap' = registry_allocate(heap, s) /\ links' = [links EXCEPT ![sig] = Append(@, s)]
  BY Zenon DEF listen
<1>2. /\ listeners' = listeners /\ stack' = stack /\ stage' = stage /\ batch' = batch
      /\ stopped' = stopped /\ epoll' = epoll
  BY DEF listen
<1>3. ~ stopped /\ ops' = ops + 1 /\ ops + 1 \in 0 .. MaxOps
  BY OpsLeft DEF listen
<1>4. s \in Slot
  BY CoreTypes, AllocatableIsFree
<1>5. /\ links' \in [Signal -> Seq(Slot)]
      /\ HomesOf(links', listeners, s) = HomesOf(links, listeners, s) \cup {<<"link", sig>>}
      /\ SameHomesElsewhere(links, listeners, links', listeners, s)
  <2> DEFINE lk == [links EXCEPT ![sig] = Append(@, s)]
  <2>1. /\ lk \in [Signal -> Seq(Slot)]
        /\ HomesOf(lk, listeners, s) = HomesOf(links, listeners, s) \cup {<<"link", sig>>}
        /\ SameHomesElsewhere(links, listeners, lk, listeners, s)
    BY <1>4, CoreTypes, LinkedHomes, Zenon
  <2> HIDE DEF lk
  <2>2. links' = lk
    BY <1>1 DEF lk
  <2> QED
    BY <2>1, <2>2
<1>6. Core(registry_allocate(heap, s), links', listeners, stack, ops + 1)
  <2>1. Core(heap, links, listeners, stack, ops) /\ listeners \in [Fd -> Slot \cup {Null}]
    BY CoreTypes DEF IInv
  <2> QED
    BY <1>1, <1>3, <1>5, <2>1, CoreListens
<1>7. Core(heap, links, listeners, stack, ops)'
  BY <1>1, <1>2, <1>3, <1>6
<1>8. Rest' /\ IdleIsOutermost(stack)' /\ FreshOrForgotten(batch, listeners)'
  BY <1>2 DEF IInv, Rest
<1> QED
  BY <1>2, <1>3, <1>7, <1>8 DEF IInv

(* Listener::unlink keeps the invariant.                                   *)
LEMMA UnlinkKeeps ==
  ASSUME NEW s \in Slot, IInv, unlink(s)
  PROVE  IInv'
<1>1. /\ links' = [sig \in Signal |-> Without(links[sig], s)]
      /\ heap' = object_remove_ref(heap, s) /\ stack' = Marked(stack, heap')
      /\ listeners' = listeners /\ stage' = stage /\ batch' = batch
      /\ stopped' = stopped /\ epoll' = epoll
  BY DEF unlink
<1>2. ~ stopped /\ ops' = ops + 1 /\ ops + 1 \in 0 .. MaxOps
  BY OpsLeft DEF unlink
<1>3. \E sig \in Signal : s \in ToSet(links[sig])
  BY DEF unlink, Linked, Signal
<1>4. /\ links' \in [Signal -> Seq(Slot)]
      /\ HomesOf(links', listeners, s) = {}
      /\ \E x : HomesOf(links, listeners, s) = {x}
      /\ SameHomesElsewhere(links, listeners, links', listeners, s)
  BY <1>1, <1>3, CoreTypes, UnlinkedHomes
<1>5. Core(heap', links', listeners, stack', ops + 1)
  <2>1. Core(heap, links, listeners, stack, ops) /\ listeners \in [Fd -> Slot \cup {Null}]
    BY CoreTypes DEF IInv
  <2>2. PICK x : HomesOf(links, listeners, s) = {x}
    BY <1>4
  <2> QED
    BY <1>1, <1>2, <1>4, <2>1, <2>2, CoreUnlistens
<1>6. Core(heap, links, listeners, stack, ops)'
  BY <1>1, <1>2, <1>5
<1>7. IdleIsOutermost(stack)'
  <2>1. IdleIsOutermost(stack) /\ stack \in Seq(Frame)
    BY CoreTypes DEF IInv
  <2>2. IdleIsOutermost(Marked(stack, heap'))
    BY <1>1, <1>5, <2>1, MarkedIdle
  <2> QED
    BY <1>1, <2>2
<1>8. Rest' /\ FreshOrForgotten(batch, listeners)'
  BY <1>1 DEF IInv, Rest
<1> QED
  BY <1>1, <1>2, <1>6, <1>7, <1>8 DEF IInv

(* Emitting a signal keeps the invariant.                                  *)
LEMMA EmitKeeps ==
  ASSUME IInv, Emit
  PROVE  IInv'
<1>1. /\ stack' = Append(stack, DispatchFrame("event"))
      /\ heap' = heap /\ links' = links /\ listeners' = listeners /\ stage' = stage
      /\ batch' = batch /\ stopped' = stopped /\ epoll' = epoll
  BY DEF Emit
<1>2. ~ stopped /\ ops' = ops + 1 /\ ops + 1 \in 0 .. MaxOps
  BY OpsLeft DEF Emit
<1> DEFINE x == SignalFrame(heap, links, "event")
<1>3. DispatchFrame("event") = x /\ "event" \in Signal
  BY DEF DispatchFrame, SignalFrame, Signal
<1>4. Core(heap, links, listeners, Append(stack, x), ops + 1)
  BY <1>2, <1>3, CoreEmits DEF IInv
<1>5. Core(heap, links, listeners, stack, ops)'
  BY <1>1, <1>2, <1>3, <1>4
<1>6. IdleIsOutermost(stack)'
  <2>1. x \in Frame /\ x.kind = "event"
    <3>1. heap \in Heap
      BY CoreTypes DEF HeapFine
    <3> QED
      BY <1>3, <3>1, CoreTypes, SignalFrameIsFrame DEF SignalFrame
  <2> HIDE DEF x
  <2>2. /\ DOMAIN stack = 1 .. Len(stack)
        /\ DOMAIN Append(stack, x) = 1 .. Len(stack) + 1
        /\ Append(stack, x)[Len(stack) + 1] = x
        /\ \A k \in 1 .. Len(stack) : Append(stack, x)[k] = stack[k]
        /\ \A k \in 1 .. Len(stack) + 1 : k \in 1 .. Len(stack) \/ k = Len(stack) + 1
    BY <2>1, CoreTypes, Appended
  <2>3. IdleIsOutermost(stack)
    BY DEF IInv
  <2>4. IdleIsOutermost(Append(stack, x))
    BY <2>1, <2>2, <2>3 DEF IdleIsOutermost
  <2> QED
    BY <1>1, <1>3, <2>4
<1>7. Rest' /\ FreshOrForgotten(batch, listeners)'
  BY <1>1 DEF IInv, Rest
<1> QED
  BY <1>1, <1>2, <1>5, <1>6, <1>7 DEF IInv

(* fd_listen keeps the invariant.                                          *)
LEMMA FdListenKeeps ==
  ASSUME NEW fd \in Fd, NEW oneshot \in BOOLEAN, IInv, fd_listen(fd, oneshot)
  PROVE  IInv'
<1>1. PICK s \in Allocatable(heap) :
        heap' = registry_allocate(heap, s) /\ listeners' = [listeners EXCEPT ![fd] = s]
  BY Zenon DEF fd_listen
<1>2. /\ links' = links /\ stack' = stack /\ stage' = stage /\ batch' = batch
      /\ stopped' = stopped /\ listeners[fd] = Null
      /\ \A k \in DOMAIN batch : batch[k].fd # fd
  BY DEF fd_listen
<1>3. ~ stopped /\ ops' = ops + 1 /\ ops + 1 \in 0 .. MaxOps
  BY OpsLeft DEF fd_listen
<1>4. s \in Slot
  BY CoreTypes, AllocatableIsFree
<1>5. /\ listeners' \in [Fd -> Slot \cup {Null}]
      /\ HomesOf(links, listeners', s) = HomesOf(links, listeners, s) \cup {<<"fd", fd>>}
      /\ SameHomesElsewhere(links, listeners, links, listeners', s)
  <2> DEFINE ls == [listeners EXCEPT ![fd] = s]
  <2>1. /\ ls \in [Fd -> Slot \cup {Null}]
        /\ HomesOf(links, ls, s) = HomesOf(links, listeners, s) \cup {<<"fd", fd>>}
        /\ SameHomesElsewhere(links, listeners, links, ls, s)
    BY <1>2, <1>4, CoreTypes, ListenedHomes, Zenon
  <2> HIDE DEF ls
  <2>2. listeners' = ls
    BY <1>1 DEF ls
  <2> QED
    BY <2>1, <2>2
<1>6. Core(registry_allocate(heap, s), links, listeners', stack, ops + 1)
  <2>1. Core(heap, links, listeners, stack, ops) /\ links \in [Signal -> Seq(Slot)]
    BY CoreTypes DEF IInv
  <2> QED
    BY <1>1, <1>3, <1>5, <2>1, CoreListens
<1>7. Core(heap, links, listeners, stack, ops)'
  BY <1>1, <1>2, <1>3, <1>6
<1>8. epoll' \in [readable : SUBSET Fd, ready : Seq(Fd), oneshot : SUBSET Fd]
  <2>1. epoll \in [readable : SUBSET Fd, ready : Seq(Fd), oneshot : SUBSET Fd]
    BY DEF IInv, Rest
  <2>2. /\ epoll.readable \subseteq Fd /\ epoll.ready \in Seq(Fd) /\ epoll.oneshot \subseteq Fd
    BY <2>1, EpollFields
  <2> DEFINE r == IF fd \in epoll.readable THEN Append(epoll.ready, fd) ELSE epoll.ready
             t == IF oneshot THEN epoll.oneshot \cup {fd} ELSE epoll.oneshot \ {fd}
  <2>3. r \in Seq(Fd) /\ t \in SUBSET Fd
    BY <2>2
  <2>4. epoll' = [readable |-> epoll.readable, ready |-> r, oneshot |-> t]
    BY Zenon DEF fd_listen
  <2> HIDE DEF r, t
  <2> QED
    BY <2>2, <2>3, <2>4
<1>9. FreshOrForgotten(batch, listeners)'
  <2>1. batch \in Seq(Report) /\ FreshOrForgotten(batch, listeners)
    BY DEF IInv, Rest
  <2>2. \A k \in DOMAIN batch : batch[k] \in Report
    BY <2>1
  <2>3. \A k \in DOMAIN batch : batch[k].fd \in Fd
    BY <2>2 DEF Report
  <2>4. \A x \in Fd : x # fd => listeners'[x] = listeners[x]
    BY <1>1, CoreTypes
  <2>5. \A k \in DOMAIN batch : listeners'[batch[k].fd] = listeners[batch[k].fd]
    BY <1>2, <2>3, <2>4
  <2>6. FreshOrForgotten(batch, listeners')
    BY <2>1, <2>5 DEF FreshOrForgotten
  <2> QED
    BY <1>2, <2>6
<1>10. Rest' /\ IdleIsOutermost(stack)'
  BY <1>2, <1>8 DEF IInv, Rest
<1> QED
  BY <1>2, <1>3, <1>7, <1>9, <1>10 DEF IInv

(* What forgetting a descriptor does to the batch.                         *)
LEMMA UnreportedProperties ==
  ASSUME NEW b \in Seq(Report), NEW fd
  PROVE  /\ Unreported(b, fd) \in Seq(Report)
         /\ DOMAIN Unreported(b, fd) = DOMAIN b
         /\ \A k \in DOMAIN b : /\ Unreported(b, fd)[k].fd = b[k].fd
                                /\ Unreported(b, fd)[k].fresh <=> b[k].fresh /\ b[k].fd # fd
<1> DEFINE e(k) == [b[k] EXCEPT !.fresh = b[k].fresh /\ b[k].fd # fd]
           u == Unreported(b, fd)
<1>1. u = [k \in DOMAIN b |-> e(k)]
  BY DEF Unreported
<1>2. DOMAIN b = 1 .. Len(b) /\ Len(b) \in Nat /\ \A k \in DOMAIN b : b[k] \in Report
  OBVIOUS
<1>3. ASSUME NEW k \in DOMAIN b
      PROVE  e(k) \in Report /\ e(k).fd = b[k].fd /\ (e(k).fresh <=> b[k].fresh /\ b[k].fd # fd)
  <2> DEFINE f == b[k].fresh /\ b[k].fd # fd
  <2>1. b[k] \in Report /\ f \in BOOLEAN
    BY <1>2
  <2>2. e(k) = [b[k] EXCEPT !.fresh = f]
    OBVIOUS
  <2> HIDE DEF f, e
  <2>3. e(k) \in Report /\ e(k).fd = b[k].fd /\ e(k).fresh = f
    BY <2>1, <2>2 DEF Report
  <2> QED
    BY <2>3, Zenon DEF f
<1> HIDE DEF e, u
<1>4. u \in Seq(Report) /\ DOMAIN u = DOMAIN b /\ \A k \in DOMAIN b : u[k] = e(k)
  BY <1>1, <1>2, <1>3
<1> QED
  BY <1>3, <1>4, Zenon DEF u

(* fd_unlisten keeps the invariant.                                        *)
LEMMA FdUnlistenKeeps ==
  ASSUME NEW fd \in Fd, IInv, fd_unlisten(fd)
  PROVE  IInv'
<1>1. /\ listeners' = [listeners EXCEPT ![fd] = Null]
      /\ heap' = object_remove_ref(heap, listeners[fd]) /\ stack' = Marked(stack, heap')
      /\ links' = links /\ stage' = stage /\ stopped' = stopped
      /\ batch' = Unreported(batch, fd) /\ listeners[fd] # Null
      /\ epoll' = [epoll EXCEPT !.ready = Without(@, fd)]
  BY DEF fd_unlisten
<1>2. ~ stopped /\ ops' = ops + 1 /\ ops + 1 \in 0 .. MaxOps
  BY OpsLeft DEF fd_unlisten
<1>3. PICK s \in Slot : listeners[fd] = s
  BY <1>1, CoreTypes
<1>4. /\ listeners' \in [Fd -> Slot \cup {Null}]
      /\ HomesOf(links, listeners', s) = {}
      /\ HomesOf(links, listeners, s) = {<<"fd", fd>>}
      /\ SameHomesElsewhere(links, listeners, links, listeners', s)
  BY <1>1, <1>3, CoreTypes, UnlistenedHomes
<1>5. Core(heap', links, listeners', stack', ops + 1)
  <2>1. Core(heap, links, listeners, stack, ops) /\ links \in [Signal -> Seq(Slot)]
    BY CoreTypes DEF IInv
  <2>2. heap' = object_remove_ref(heap, s)
    BY <1>1, <1>3
  <2>3. PICK x : HomesOf(links, listeners, s) = {x}
    BY <1>4
  <2> QED
    <3>1. Core(object_remove_ref(heap, s), links, listeners',
               Marked(stack, object_remove_ref(heap, s)), ops + 1)
      BY <1>2, <1>4, <2>1, <2>3, CoreUnlistens
    <3> QED
      BY <1>1, <2>2, <3>1
<1>6. Core(heap, links, listeners, stack, ops)'
  BY <1>1, <1>2, <1>5
<1>7. IdleIsOutermost(stack)'
  <2>1. IdleIsOutermost(stack) /\ stack \in Seq(Frame)
    BY CoreTypes DEF IInv
  <2>2. IdleIsOutermost(Marked(stack, heap'))
    BY <1>1, <1>5, <2>1, MarkedIdle
  <2> QED
    BY <1>1, <2>2
<1>8. epoll' \in [readable : SUBSET Fd, ready : Seq(Fd), oneshot : SUBSET Fd]
  <2>1. epoll \in [readable : SUBSET Fd, ready : Seq(Fd), oneshot : SUBSET Fd]
    BY DEF IInv, Rest
  <2>2. Without(epoll.ready, fd) \in Seq(Fd)
    BY <2>1, EpollFields, WithoutProperties
  <2> QED
    BY <1>1, <2>1, <2>2
<1>9. batch \in Seq(Report) /\ FreshOrForgotten(batch, listeners)
  BY DEF IInv, Rest
<1>10. /\ batch' \in Seq(Report) /\ DOMAIN batch' = DOMAIN batch
       /\ \A k \in DOMAIN batch : /\ batch'[k].fd = batch[k].fd
                                  /\ batch'[k].fresh <=> batch[k].fresh /\ batch[k].fd # fd
  BY <1>1, <1>9, UnreportedProperties
<1>11. FreshOrForgotten(batch, listeners)'
  <2>1. \A k \in DOMAIN batch : batch[k].fd \in Fd
    <3>1. \A k \in DOMAIN batch : batch[k] \in Report
      BY <1>9
    <3> QED
      BY <3>1 DEF Report
  <2>2. listeners'[fd] = Null /\ \A x \in Fd : x # fd => listeners'[x] = listeners[x]
    BY <1>1, CoreTypes
  <2>3. ASSUME NEW k \in DOMAIN batch' PROVE batch'[k].fresh \/ listeners'[batch'[k].fd] = Null
    <3>1. CASE batch[k].fd = fd
      BY <1>10, <2>2, <3>1
    <3>2. CASE batch[k].fd # fd
      <4>1. batch[k].fresh \/ listeners[batch[k].fd] = Null
        BY <1>9, <1>10 DEF FreshOrForgotten
      <4> QED
        BY <1>10, <2>1, <2>2, <3>2, <4>1
    <3> QED
      BY <3>1, <3>2
  <2> QED
    BY <2>3 DEF FreshOrForgotten
<1>12. Rest'
  BY <1>1, <1>8, <1>10 DEF IInv, Rest
<1> QED
  BY <1>1, <1>2, <1>6, <1>7, <1>11, <1>12 DEF IInv

(* exec_stop keeps the invariant.                                          *)
LEMMA StopKeeps ==
  ASSUME IInv, exec_stop
  PROVE  IInv'
<1>1. /\ links["idle"] = <<>> /\ stopped' = TRUE
      /\ \A fd \in Fd : listeners[fd] = Null
      /\ heap' = heap /\ listeners' = listeners /\ links' = links /\ stack' = stack
      /\ stage' = stage /\ batch' = batch /\ epoll' = epoll
  BY DEF exec_stop
<1>2. ops' = ops + 1 /\ ops + 1 \in 0 .. MaxOps
  BY OpsLeft DEF exec_stop
<1>3. RunTheSame(stack, stack) /\ CameFrom(stack, stack)
  BY Zenon DEF RunTheSame, CameFrom
<1>4. Core(heap, links, listeners, stack, ops) /\ stack \in Seq(Frame)
  BY CoreTypes DEF IInv
<1>5. Core(heap, links, listeners, stack, ops + 1)
  BY <1>2, <1>3, <1>4, CoreStack
<1>6. Core(heap, links, listeners, stack, ops)'
  BY <1>1, <1>2, <1>5
<1>7. Rest'
  <2>1. stopped' \in BOOLEAN /\ stage' = stage /\ batch' = batch /\ epoll' = epoll
    BY <1>1
  <2>2. Rest
    BY DEF IInv
  <2> QED
    BY <2>1, <2>2 DEF Rest
<1>9. IdleIsOutermost(stack)' /\ FreshOrForgotten(batch, listeners)'
  BY <1>1 DEF IInv
<1>8. NothingStays'
  BY <1>1 DEF NothingStays
<1> QED
  BY <1>6, <1>7, <1>8, <1>9 DEF IInv

(* A sequence without its last element.                                    *)
LEMMA Shortened ==
  ASSUME NEW A, NEW s \in Seq(A), s # <<>>
  PROVE  /\ Front(s) \in Seq(A) /\ Last(s) = s[Len(s)] /\ Len(s) \in DOMAIN s /\ s[Len(s)] \in A
         /\ DOMAIN Front(s) = 1 .. Len(s) - 1 /\ Len(s) \in Nat \ {0} /\ DOMAIN s = 1 .. Len(s)
         /\ \A k \in 1 .. Len(s) - 1 : Front(s)[k] = s[k]
         /\ \A k \in 1 .. Len(s) : k = Len(s) \/ k \in 1 .. Len(s) - 1
         /\ Len(s) \notin 1 .. Len(s) - 1 /\ 1 .. Len(s) - 1 \subseteq 1 .. Len(s)
         /\ Len(s) = 1 => Front(s) = <<>>
<1>1. Len(s) \in Nat \ {0} /\ DOMAIN s = 1 .. Len(s) /\ Last(s) = s[Len(s)]
  BY DEF Last
<1>2. Front(s) \in Seq(A) /\ Len(Front(s)) = Len(s) - 1
      /\ \A k \in 1 .. Len(s) - 1 : Front(s)[k] = s[k]
  BY <1>1 DEF Front
<1> DEFINE t == Front(s)
           n == Len(s)
<1>4. s[n] \in A /\ n \in DOMAIN s
  BY <1>1
<1> HIDE DEF t, n
<1>3. DOMAIN t = 1 .. n - 1 /\ (n = 1 => t = <<>>)
  BY <1>1, <1>2 DEF t, n
<1>5. /\ \A k \in 1 .. n : k = n \/ k \in 1 .. n - 1
      /\ n \notin 1 .. n - 1 /\ 1 .. n - 1 \subseteq 1 .. n
  <2>1. n \in Nat \ {0}
    BY <1>1 DEF n
  <2> QED
    BY <2>1
<1> QED
  BY <1>1, <1>2, <1>3, <1>4, <1>5 DEF t, n

(* The stack after the innermost frame has done what it was there for.     *)
Popped(st) ==
  IF Last(st).kind \in Signal THEN [st EXCEPT ![Len(st)].cur = Null] ELSE Front(st)

(* At most one frame stops running.                                        *)
LEMMA PoppedProperties ==
  ASSUME NEW st \in Seq(Frame), st # <<>>
  PROVE  /\ Popped(st) \in Seq(Frame) /\ CameFrom(st, Popped(st))
         /\ Ends(st, Popped(st), Len(st))
         /\ Last(st).cur = Null => RunTheSame(st, Popped(st))
         /\ \A f \in DOMAIN Popped(st) :
              f \in DOMAIN st /\ Popped(st)[f].kind = st[f].kind
              /\ (Popped(st)[f].cur = st[f].cur \/ Popped(st)[f].cur = Null)
<1> DEFINE n == Len(st)
<1>1. /\ Last(st) = st[n] /\ n \in DOMAIN st /\ n \in Nat \ {0} /\ DOMAIN st = 1 .. n
      /\ Front(st) \in Seq(Frame) /\ DOMAIN Front(st) = 1 .. n - 1
      /\ \A k \in 1 .. n - 1 : Front(st)[k] = st[k]
      /\ \A k \in 1 .. n : k = n \/ k \in 1 .. n - 1
      /\ n \notin 1 .. n - 1 /\ 1 .. n - 1 \subseteq 1 .. n
  BY Shortened
<1>2. st[n] \in Frame
  BY Shortened
<1> HIDE DEF n
<1>3. PICK x : x = [st[n] EXCEPT !.cur = Null]
  OBVIOUS
<1>4. x \in Frame /\ x.kind = st[n].kind /\ x.cur = Null /\ x.stored = st[n].stored
  <2> DEFINE y == st[n]
  <2>1. y \in Frame /\ x = [y EXCEPT !.cur = Null]
    BY <1>2, <1>3
  <2> HIDE DEF y
  <2>2. x \in Frame /\ x.kind = y.kind /\ x.cur = Null /\ x.stored = y.stored
    BY <2>1 DEF Frame
  <2> QED
    BY <2>2 DEF y
<1>5. CASE st[n].kind \in Signal
  <2> DEFINE p == Popped(st)
  <2>1. p = [st EXCEPT ![n] = x]
    BY <1>1, <1>3, <1>5 DEF Popped, n
  <2> HIDE DEF p
  <2>2. /\ p \in Seq(Frame) /\ DOMAIN p = DOMAIN st /\ p[n] = x
        /\ \A k \in DOMAIN st : k # n => p[k] = st[k]
    BY <1>1, <1>4, <2>1, ElementChanges DEF n
  <2>3. CameFrom(st, p)
    <3>1. ASSUME NEW f \in DOMAIN p, NEW k \in DOMAIN p[f].stored
          PROVE  /\ f \in DOMAIN st /\ p[f].kind = st[f].kind
                 /\ \E j \in DOMAIN st[f].stored : p[f].stored[k] = st[f].stored[j]
      <4>1. f \in DOMAIN st /\ p[f].kind = st[f].kind /\ p[f].stored = st[f].stored
        BY <1>4, <2>2
      <4> QED
        BY <4>1
    <3> QED
      BY <3>1, Zenon DEF CameFrom
  <2>4. Ends(st, p, n)
    BY <1>1, <1>4, <2>2 DEF Ends
  <2>5. st[n].cur = Null => RunTheSame(st, p)
    BY <1>1, <1>4, <2>2 DEF RunTheSame
  <2>6. \A f \in DOMAIN p : /\ f \in DOMAIN st /\ p[f].kind = st[f].kind
                            /\ p[f].cur = st[f].cur \/ p[f].cur = Null
    BY <1>4, <2>2
  <2> QED
    BY <1>1, <2>2, <2>3, <2>4, <2>5, <2>6 DEF p, n
<1>6. CASE st[n].kind \notin Signal
  <2>1. Popped(st) = Front(st)
    BY <1>1, <1>6 DEF Popped
  <2> DEFINE p == Popped(st)
  <2>2. p \in Seq(Frame) /\ DOMAIN p = 1 .. n - 1 /\ \A k \in 1 .. n - 1 : p[k] = st[k]
    BY <1>1, <2>1
  <2> HIDE DEF p
  <2>3. CameFrom(st, p)
    <3>1. ASSUME NEW f \in DOMAIN p, NEW k \in DOMAIN p[f].stored
          PROVE  /\ f \in DOMAIN st /\ p[f].kind = st[f].kind
                 /\ \E j \in DOMAIN st[f].stored : p[f].stored[k] = st[f].stored[j]
      <4>1. f \in DOMAIN st /\ p[f] = st[f]
        BY <1>1, <2>2
      <4> QED
        BY <4>1
    <3> QED
      BY <3>1, Zenon DEF CameFrom
  <2>4. Ends(st, p, n)
    BY <1>1, <2>2 DEF Ends
  <2>5. st[n].cur = Null => RunTheSame(st, p)
    BY <1>1, <2>2, NullAssumption DEF RunTheSame
  <2>6. \A f \in DOMAIN p : /\ f \in DOMAIN st /\ p[f].kind = st[f].kind
                            /\ p[f].cur = st[f].cur \/ p[f].cur = Null
    BY <1>1, <2>2
  <2> QED
    BY <1>1, <2>2, <2>3, <2>4, <2>5, <2>6 DEF p, n
<1> QED
  BY <1>5, <1>6

(* The return of a callback keeps the invariant.                           *)
LEMMA ReturnKeeps ==
  ASSUME IInv, Return
  PROVE  IInv'
<1>1. /\ heap' = IF Top.cur = Null THEN heap ELSE object_remove_ref(heap, Top.cur)
      /\ stack' = Marked(Popped(stack), heap') /\ stack # <<>>
      /\ listeners' = listeners /\ links' = links
      /\ stage' = stage /\ batch' = batch /\ stopped' = stopped /\ epoll' = epoll /\ ops' = ops
  BY Zenon DEF Return, Popped, Top, InCallback
<1> DEFINE st1 == Popped(stack)
           n == Len(stack)
<1>2. /\ st1 \in Seq(Frame) /\ CameFrom(stack, st1) /\ Ends(stack, st1, n)
      /\ Top.cur = Null => RunTheSame(stack, st1)
      /\ \A f \in DOMAIN st1 : f \in DOMAIN stack /\ st1[f].kind = stack[f].kind
  BY <1>1, CoreTypes, PoppedProperties, Zenon DEF Top
<1> HIDE DEF st1, n
<1>3. Top = stack[n] /\ Top \in Frame
  BY <1>1, CoreTypes, Shortened DEF Top, n
<1>4. Core(heap, links, listeners, stack, ops) /\ ops \in 0 .. MaxOps
  BY CoreTypes DEF IInv
<1>5. Core(heap', links, listeners, Marked(st1, heap'), ops)
  <2>1. CASE Top.cur = Null
    <3>1. heap' = heap /\ RunTheSame(stack, st1)
      BY <1>1, <1>2, <2>1
    <3>2. Core(heap, links, listeners, Marked(st1, heap), ops)
      BY <1>2, <1>4, <3>1, CoreStack
    <3> QED
      BY <3>1, <3>2
  <2>2. CASE Top.cur # Null
    <3>1. PICK s \in Slot : stack[n].cur = s
      BY <1>3, <2>2, FrameFields
    <3>2. heap' = object_remove_ref(heap, s)
      BY <1>1, <1>3, <2>2, <3>1
    <3>3. Core(object_remove_ref(heap, s), links, listeners,
               Marked(st1, object_remove_ref(heap, s)), ops)
      BY <1>2, <1>4, <3>1, CoreReturns
    <3> QED
      BY <3>2, <3>3
  <2> QED
    BY <2>1, <2>2
<1>6. Core(heap, links, listeners, stack, ops)'
  BY <1>1, <1>5 DEF st1
<1>7. IdleIsOutermost(stack)'
  <2>1. IdleIsOutermost(st1)
    BY <1>2 DEF IInv, IdleIsOutermost
  <2>2. IdleIsOutermost(Marked(st1, heap'))
    BY <1>2, <1>5, <2>1, MarkedIdle
  <2> QED
    BY <1>1, <2>2 DEF st1
<1>8. Rest' /\ FreshOrForgotten(batch, listeners)'
  BY <1>1 DEF IInv, Rest
<1>9. NothingStays' <=> NothingStays
  BY <1>1 DEF NothingStays
<1> QED
  BY <1>1, <1>6, <1>7, <1>8, <1>9 DEF IInv

(* Calling the next listener of a dispatch keeps the invariant.            *)
LEMMA NotifyKeeps ==
  ASSUME IInv, Notify
  PROVE  IInv'
<1> DEFINE l == Get(heap, Head(Top.stored))
<1>1. /\ heap' = IF l = Null THEN heap ELSE object_add_ref(heap, l)
      /\ NotifiedStack(heap, stack, stack', l)
      /\ listeners' = listeners /\ links' = links
      /\ stage' = stage /\ batch' = batch /\ stopped' = stopped /\ epoll' = epoll /\ ops' = ops
  BY DEF Notify, NotifiedStack, Top
<1> HIDE DEF l
<1>7. Core(heap, links, listeners, stack, ops) /\ NotifiedStack(heap, stack, stack', l)
  BY <1>1 DEF IInv
<1>2. /\ Core(IF l = Null THEN heap ELSE object_add_ref(heap, l), links, listeners, stack', ops)
      /\ DOMAIN stack' = DOMAIN stack
      /\ \A f \in DOMAIN stack : stack'[f].kind = stack[f].kind
  BY <1>7, CoreNotifies
<1>3. Core(heap, links, listeners, stack, ops)'
  BY <1>1, <1>2
<1>4. IdleIsOutermost(stack)'
  BY <1>2 DEF IInv, IdleIsOutermost
<1>5. Rest' /\ FreshOrForgotten(batch, listeners)'
  BY <1>1 DEF IInv, Rest
<1>6. NothingStays' <=> NothingStays
  BY <1>1 DEF NothingStays
<1> QED
  BY <1>1, <1>3, <1>4, <1>5, <1>6 DEF IInv

(* The end of a dispatch keeps the invariant, also where operations are    *)
(* counted anew.                                                           *)
LEMMA DispatchedKeeps ==
  ASSUME IInv, Dispatched
  PROVE  IInv'
<1>1. /\ stack' = Front(stack) /\ stack # <<>> /\ Top.cur = Null
      /\ heap' = heap /\ listeners' = listeners /\ links' = links
      /\ batch' = batch /\ stopped' = stopped /\ epoll' = epoll
  BY DEF Dispatched
<1>2. \/ Len(stack) = 1 /\ stage' = "poll" /\ ops' = 0
      \/ stage' = stage /\ ops' = ops
  BY DEF Dispatched
<1> DEFINE n == Len(stack)
           p == Front(stack)
<1>3. /\ Last(stack) = stack[n] /\ n \in Nat \ {0} /\ DOMAIN stack = 1 .. n
      /\ p \in Seq(Frame) /\ DOMAIN p = 1 .. n - 1
      /\ \A k \in 1 .. n - 1 : p[k] = stack[k]
      /\ \A k \in 1 .. n : k = n \/ k \in 1 .. n - 1
      /\ 1 .. n - 1 \subseteq 1 .. n
      /\ n = 1 => p = <<>>
  BY <1>1, CoreTypes, Shortened
<1> HIDE DEF n, p
<1>4. RunTheSame(stack, p)
  BY <1>1, <1>3, NullAssumption DEF RunTheSame, Top
<1>5. CameFrom(stack, p)
  <2>1. ASSUME NEW f \in DOMAIN p, NEW k \in DOMAIN p[f].stored
        PROVE  /\ f \in DOMAIN stack /\ p[f].kind = stack[f].kind
               /\ \E j \in DOMAIN stack[f].stored : p[f].stored[k] = stack[f].stored[j]
    <3>1. f \in DOMAIN stack /\ p[f] = stack[f]
      BY <1>3
    <3> QED
      BY <3>1
  <2> QED
    BY <2>1, Zenon DEF CameFrom
<1>6. Core(heap, links, listeners, stack, ops) /\ ops \in 0 .. MaxOps
  BY CoreTypes DEF IInv
<1>7. Core(heap, links, listeners, p, ops)
  BY <1>3, <1>4, <1>5, <1>6, CoreStack
<1>8. n = 1 => Core(heap, links, listeners, p, 0)
  <2>1. 0 \in 0 .. MaxOps
    BY VersionAssumption
  <2>2. ASSUME n = 1 PROVE \A f \in DOMAIN p : FALSE
    BY <1>3, <2>2
  <2> QED
    BY <1>7, <2>1, <2>2, Zenon DEF Core
<1>9. Core(heap, links, listeners, stack, ops)'
  BY <1>1, <1>2, <1>7, <1>8 DEF n, p
<1>10. IdleIsOutermost(stack)'
  BY <1>1, <1>3 DEF IInv, IdleIsOutermost, p
<1>11. Rest' /\ FreshOrForgotten(batch, listeners)'
  BY <1>1, <1>2 DEF IInv, Rest
<1>12. NothingStays' <=> NothingStays
  BY <1>1 DEF NothingStays
<1> QED
  BY <1>1, <1>9, <1>10, <1>11, <1>12 DEF IInv

(* What is reported are descriptors.                                       *)
LEMMA ReportsAreFds ==
  ASSUME epoll \in [readable : SUBSET Fd, ready : Seq(Fd), oneshot : SUBSET Fd],
         NEW n \in 1 .. MaxEvents
  PROVE  Reports(n) \in Seq(Fd)
<1> DEFINE r == Keep(epoll.ready, epoll.readable)
           m == IF Len(r) < n THEN Len(r) ELSE n
<1>1. r \in Seq(Fd)
  BY EpollFields, KeepKeeps
<1>2. Reports(n) = SubSeq(r, 1, m)
  BY DEF Reports
<1> HIDE DEF r
<1>3. m \in Nat /\ m <= Len(r)
  BY <1>1, MaxEventsAssumption
<1> HIDE DEF m
<1>4. \A i \in 1 .. m : r[i] \in Fd
  BY <1>1, <1>3
<1>5. SubSeq(r, 1, m) \in Seq(Fd)
  BY <1>1, <1>3, <1>4
<1> QED
  BY <1>2, <1>5

(* epoll_wait keeps the invariant.                                         *)
LEMMA WaitKeeps ==
  ASSUME IInv, Wait
  PROVE  IInv'
<1>0. PICK n \in 1 .. MaxEvents :
        /\ batch' = [k \in DOMAIN Reports(n) |-> [fd |-> Reports(n)[k], fresh |-> TRUE]]
        /\ epoll' = [epoll EXCEPT !.ready =
                       Keep(@, epoll.readable \ ToSet(Reports(n))) \o Reports(n)]
  BY DEF Wait
<1>1. /\ stage' = "batch"
      /\ heap' = heap /\ listeners' = listeners /\ links' = links /\ stack' = stack
      /\ stopped' = stopped /\ ops' = ops
  BY DEF Wait
<1>2. epoll \in [readable : SUBSET Fd, ready : Seq(Fd), oneshot : SUBSET Fd]
  BY DEF IInv, Rest
<1>3. PICK r : r = Reports(n)
  OBVIOUS
<1>4. r \in Seq(Fd)
  BY <1>2, <1>3, ReportsAreFds
<1>5. batch' \in Seq(Report) /\ \A k \in DOMAIN batch' : batch'[k].fresh
  <2>1. batch' = [k \in DOMAIN r |-> [fd |-> r[k], fresh |-> TRUE]]
    BY <1>0, <1>3
  <2>2. DOMAIN r = 1 .. Len(r) /\ Len(r) \in Nat /\ \A k \in DOMAIN r : r[k] \in Fd
    BY <1>4
  <2>3. \A k \in DOMAIN r : [fd |-> r[k], fresh |-> TRUE] \in Report
    BY <2>2 DEF Report
  <2>4. batch' \in Seq(Report)
    BY <2>1, <2>2, <2>3
  <2> QED
    BY <2>1, <2>4
<1>6. epoll' \in [readable : SUBSET Fd, ready : Seq(Fd), oneshot : SUBSET Fd]
  <2> DEFINE q == Keep(epoll.ready, epoll.readable \ ToSet(r)) \o r
  <2>1. Keep(epoll.ready, epoll.readable \ ToSet(r)) \in Seq(Fd) /\ r \in Seq(Fd)
    BY <1>2, <1>3, <1>4, EpollFields, KeepKeeps
  <2>2. q \in Seq(Fd)
    BY <2>1
  <2>3. epoll' = [epoll EXCEPT !.ready = q]
    BY <1>0, <1>3
  <2> HIDE DEF q
  <2> QED
    BY <1>2, <2>2, <2>3
<1>7. Rest'
  BY <1>1, <1>5, <1>6 DEF IInv, Rest
<1>8. Core(heap, links, listeners, stack, ops)' /\ IdleIsOutermost(stack)'
  BY <1>1 DEF IInv
<1>9. FreshOrForgotten(batch, listeners)'
  BY <1>5 DEF FreshOrForgotten
<1>10. NothingStays' <=> NothingStays
  BY <1>1 DEF NothingStays
<1> QED
  BY <1>1, <1>7, <1>8, <1>9, <1>10 DEF IInv

(* The reports that are left when the first is taken.                      *)
LEMMA TailReports ==
  ASSUME NEW b \in Seq(Report), b # <<>>, NEW ls, FreshOrForgotten(b, ls)
  PROVE  /\ Tail(b) \in Seq(Report) /\ FreshOrForgotten(Tail(b), ls)
         /\ Head(b).fd \in Fd /\ (Head(b).fresh \/ ls[Head(b).fd] = Null)
         /\ \A k \in DOMAIN Tail(b) : Tail(b)[k] \in Report
<1>1. /\ Tail(b) \in Seq(Report) /\ Head(b) = b[1] /\ 1 \in DOMAIN b /\ b[1] \in Report
      /\ \A k \in DOMAIN Tail(b) : k + 1 \in DOMAIN b /\ Tail(b)[k] = b[k + 1]
  OBVIOUS
<1> DEFINE t == Tail(b)
<1> HIDE DEF t
<1>2. FreshOrForgotten(t, ls)
  BY <1>1 DEF FreshOrForgotten, t
<1>3. b[1].fd \in Fd /\ (b[1].fresh \/ ls[b[1].fd] = Null)
  BY <1>1 DEF FreshOrForgotten, Report
<1>4. \A k \in DOMAIN t : t[k] \in Report
  BY <1>1 DEF t
<1> QED
  BY <1>1, <1>2, <1>3, <1>4 DEF t

(* Handling a report keeps the invariant, for oneshot handlers too.        *)
LEMMA HandleKeeps ==
  ASSUME IInv, Handle
  PROVE  IInv'
<1> DEFINE fd == Head(batch).fd
           l == listeners[fd]
           h1 == object_add_ref(heap, l)
<1>1. /\ stack = <<>> /\ batch # <<>> /\ links' = links /\ stage' = stage
      /\ stopped' = stopped /\ ops' = ops
  BY DEF Handle
<1>2. /\ batch \in Seq(Report) /\ FreshOrForgotten(batch, listeners)
      /\ epoll \in [readable : SUBSET Fd, ready : Seq(Fd), oneshot : SUBSET Fd]
  BY DEF IInv, Rest
<1>3. /\ Tail(batch) \in Seq(Report) /\ FreshOrForgotten(Tail(batch), listeners)
      /\ fd \in Fd /\ (Head(batch).fresh \/ listeners[fd] = Null)
      /\ \A k \in DOMAIN Tail(batch) : Tail(batch)[k] \in Report
  BY <1>1, <1>2, TailReports
<1>4. Core(heap, links, listeners, <<>>, ops) /\ IdleIsOutermost(stack)
  BY <1>1 DEF IInv
<1> HIDE DEF fd
<1>5. CASE l = Null
  <2>1. /\ batch' = Tail(batch) /\ heap' = heap /\ listeners' = listeners
        /\ stack' = stack /\ epoll' = epoll
    BY <1>5 DEF Handle, fd
  <2>2. Core(heap, links, listeners, stack, ops)' /\ IdleIsOutermost(stack)'
    BY <1>1, <2>1 DEF IInv
  <2>3. Rest' /\ FreshOrForgotten(batch, listeners)'
    BY <1>1, <1>3, <2>1 DEF IInv, Rest
  <2>4. NothingStays' <=> NothingStays
    BY <1>1, <2>1 DEF NothingStays
  <2> QED
    BY <1>1, <2>2, <2>3, <2>4 DEF IInv
<1>6. CASE l # Null
  <2> DEFINE st2 == <<HandlerFrame(fd, l)>>
  <2>1. /\ st2 \in Seq(Frame) /\ DOMAIN st2 = {1} /\ st2[1] = HandlerFrame(fd, l)
        /\ Core(h1, links, listeners, st2, ops)
        /\ Core(object_remove_ref(h1, l), links, [listeners EXCEPT ![fd] = Null], st2, ops)
    BY <1>3, <1>4, <1>6, CoreHandles
  <2>2. stack' = st2
    BY <1>6 DEF Handle, fd
  <2>3. IdleIsOutermost(stack)'
    BY <2>1, <2>2 DEF IdleIsOutermost
  <2>4. ~ stopped
    <3>1. ~ NothingStays
      BY <1>3, <1>6 DEF NothingStays
    <3> QED
      BY <3>1 DEF IInv
  <2>5. CASE fd \in epoll.oneshot
    <3>1. /\ listeners' = [listeners EXCEPT ![fd] = Null]
          /\ heap' = object_remove_ref(h1, l)
          /\ batch' = Unreported(Tail(batch), fd)
          /\ epoll' = [epoll EXCEPT !.readable = @ \ {fd}, !.ready = Without(@, fd)]
      BY <1>6, <2>5 DEF Handle, fd
    <3>2. Core(heap, links, listeners, stack, ops)'
      BY <1>1, <2>1, <2>2, <3>1
    <3>3. epoll' \in [readable : SUBSET Fd, ready : Seq(Fd), oneshot : SUBSET Fd]
      <4>1. Without(epoll.ready, fd) \in Seq(Fd) /\ epoll.readable \ {fd} \in SUBSET Fd
        BY <1>2, EpollFields, WithoutProperties
      <4> QED
        BY <1>2, <3>1, <4>1
    <3>4. /\ batch' \in Seq(Report) /\ DOMAIN batch' = DOMAIN Tail(batch)
          /\ \A k \in DOMAIN Tail(batch) :
               /\ batch'[k].fd = Tail(batch)[k].fd
               /\ batch'[k].fresh <=> Tail(batch)[k].fresh /\ Tail(batch)[k].fd # fd
      <4>1. PICK t : t = Tail(batch)
        OBVIOUS
      <4>2. t \in Seq(Report) /\ batch' = Unreported(t, fd)
        BY <1>3, <3>1, <4>1
      <4>3. /\ batch' \in Seq(Report) /\ DOMAIN batch' = DOMAIN t
            /\ \A k \in DOMAIN t :
                 /\ batch'[k].fd = t[k].fd
                 /\ batch'[k].fresh <=> t[k].fresh /\ t[k].fd # fd
        BY <4>2, <1>3, UnreportedProperties
      <4> QED
        BY <4>1, <4>3
    <3>5. FreshOrForgotten(batch, listeners)'
      <4> DEFINE t == Tail(batch)
      <4>1. listeners'[fd] = Null /\ \A x \in Fd : x # fd => listeners'[x] = listeners[x]
        BY <1>3, <3>1, CoreTypes
      <4>2. \A k \in DOMAIN t : t[k].fd \in Fd
        BY <1>3 DEF Report
      <4> HIDE DEF t
      <4>3. ASSUME NEW k \in DOMAIN batch'
            PROVE  batch'[k].fresh \/ listeners'[batch'[k].fd] = Null
        <5>1. /\ k \in DOMAIN t /\ batch'[k].fd = t[k].fd
              /\ batch'[k].fresh <=> t[k].fresh /\ t[k].fd # fd
          BY <3>4 DEF t
        <5>2. CASE t[k].fd = fd
          BY <4>1, <5>1, <5>2
        <5>3. CASE t[k].fd # fd
          <6>1. t[k].fresh \/ listeners[t[k].fd] = Null
            BY <1>3, <5>1 DEF FreshOrForgotten, t
          <6> QED
            BY <4>1, <4>2, <5>1, <5>3, <6>1
        <5> QED
          BY <5>2, <5>3
      <4> QED
        BY <4>3 DEF FreshOrForgotten
    <3>6. Rest'
      BY <1>1, <3>3, <3>4 DEF IInv, Rest
    <3> QED
      BY <1>1, <2>3, <2>4, <3>2, <3>5, <3>6 DEF IInv
  <2>6. CASE fd \notin epoll.oneshot
    <3>1. /\ listeners' = listeners /\ heap' = h1 /\ batch' = Tail(batch)
          /\ epoll' = [epoll EXCEPT !.readable = @ \ {fd}, !.ready = @]
      BY <1>6, <2>6 DEF Handle, fd
    <3>2. Core(heap, links, listeners, stack, ops)'
      BY <1>1, <2>1, <2>2, <3>1
    <3>3. epoll' \in [readable : SUBSET Fd, ready : Seq(Fd), oneshot : SUBSET Fd]
      <4>1. epoll.ready \in Seq(Fd) /\ epoll.readable \ {fd} \in SUBSET Fd
        BY <1>2, EpollFields
      <4> QED
        BY <1>2, <3>1, <4>1
    <3>4. Rest' /\ FreshOrForgotten(batch, listeners)'
      BY <1>1, <1>3, <3>1, <3>3 DEF IInv, Rest
    <3> QED
      BY <1>1, <2>3, <2>4, <3>2, <3>4 DEF IInv
  <2> QED
    BY <2>5, <2>6
<1> QED
  BY <1>5, <1>6

(* The dispatch of idle keeps the invariant.                               *)
LEMMA IdleKeeps ==
  ASSUME IInv, Idle
  PROVE  IInv'
<1>1. /\ stack = <<>> /\ stage' = "idle" /\ stack' = <<DispatchFrame("idle")>>
      /\ heap' = heap /\ links' = links /\ listeners' = listeners
      /\ batch' = batch /\ stopped' = stopped /\ epoll' = epoll /\ ops' = ops
  BY DEF Idle
<1> DEFINE x == SignalFrame(heap, links, "idle")
<1>2. DispatchFrame("idle") = x /\ "idle" \in Signal
  BY DEF DispatchFrame, SignalFrame, Signal
<1>3. Core(heap, links, listeners, Append(stack, x), ops)
  BY <1>2, CoreTypes, CoreEmits DEF IInv
<1> HIDE DEF x
<1>4. stack' = Append(stack, x)
  BY <1>1, <1>2
<1>5. Core(heap, links, listeners, stack, ops)'
  BY <1>1, <1>3, <1>4
<1>6. IdleIsOutermost(stack)'
  <2>1. DOMAIN stack' = {1}
    BY <1>1
  <2> QED
    BY <2>1 DEF IdleIsOutermost
<1>7. Rest' /\ FreshOrForgotten(batch, listeners)'
  BY <1>1 DEF IInv, Rest
<1>8. NothingStays' <=> NothingStays
  BY <1>1 DEF NothingStays
<1> QED
  BY <1>1, <1>5, <1>6, <1>7, <1>8 DEF IInv

(* The return of exec_run keeps the invariant.                             *)
LEMMA ReturnsKeeps ==
  ASSUME IInv, exec_run_returns
  PROVE  IInv'
<1>1. /\ stage' = "done"
      /\ heap' = heap /\ links' = links /\ listeners' = listeners /\ stack' = stack
      /\ batch' = batch /\ stopped' = stopped /\ epoll' = epoll /\ ops' = ops
  BY DEF exec_run_returns
<1>2. Core(heap, links, listeners, stack, ops)' /\ IdleIsOutermost(stack)'
  BY <1>1 DEF IInv
<1>3. Rest' /\ FreshOrForgotten(batch, listeners)'
  BY <1>1 DEF IInv, Rest
<1>4. NothingStays' <=> NothingStays
  BY <1>1 DEF NothingStays
<1> QED
  BY <1>1, <1>2, <1>3, <1>4 DEF IInv

(* Arriving data keeps the invariant.                                      *)
LEMMA ArriveKeeps ==
  ASSUME NEW fd \in Fd, IInv, Arrive(fd)
  PROVE  IInv'
<1>1. /\ heap' = heap /\ links' = links /\ listeners' = listeners /\ stack' = stack
      /\ stage' = stage /\ batch' = batch /\ stopped' = stopped /\ ops' = ops
      /\ epoll' = [epoll EXCEPT !.readable = @ \cup {fd},
                     !.ready = IF fd \in ToSet(@) THEN @ ELSE Append(@, fd)]
  BY DEF Arrive
<1>2. epoll' \in [readable : SUBSET Fd, ready : Seq(Fd), oneshot : SUBSET Fd]
  <2> DEFINE q == IF fd \in ToSet(epoll.ready) THEN epoll.ready ELSE Append(epoll.ready, fd)
  <2>1. epoll \in [readable : SUBSET Fd, ready : Seq(Fd), oneshot : SUBSET Fd]
    BY DEF IInv, Rest
  <2>2. q \in Seq(Fd) /\ epoll.readable \cup {fd} \in SUBSET Fd
    BY <2>1, EpollFields
  <2>3. epoll' = [epoll EXCEPT !.readable = @ \cup {fd}, !.ready = q]
    BY <1>1
  <2> HIDE DEF q
  <2> QED
    BY <2>1, <2>2, <2>3
<1>3. Core(heap, links, listeners, stack, ops)' /\ IdleIsOutermost(stack)'
  BY <1>1 DEF IInv
<1>4. Rest' /\ FreshOrForgotten(batch, listeners)'
  BY <1>1, <1>2 DEF IInv, Rest
<1>5. NothingStays' <=> NothingStays
  BY <1>1 DEF NothingStays
<1> QED
  BY <1>1, <1>3, <1>4, <1>5 DEF IInv

(* So does doing nothing.                                                  *)
LEMMA StutterKeeps ==
  ASSUME IInv, UNCHANGED vars
  PROVE  IInv'
<1>1. /\ heap' = heap /\ links' = links /\ listeners' = listeners /\ stack' = stack
      /\ stage' = stage /\ batch' = batch /\ stopped' = stopped /\ epoll' = epoll /\ ops' = ops
  BY DEF vars
<1>2. Core(heap, links, listeners, stack, ops)' /\ IdleIsOutermost(stack)'
  BY <1>1 DEF IInv
<1>3. Rest' /\ FreshOrForgotten(batch, listeners)'
  BY <1>1 DEF IInv, Rest
<1>4. NothingStays' <=> NothingStays
  BY <1>1 DEF NothingStays
<1> QED
  BY <1>1, <1>2, <1>3, <1>4 DEF IInv

(* Every step keeps the invariant.                                         *)
LEMMA StepKeeps ==
  ASSUME IInv, [Next]_vars
  PROVE  IInv'
<1>1. ASSUME NEW fd \in Fd, fd_unlisten(fd) \/ Arrive(fd) PROVE IInv'
  BY <1>1, FdUnlistenKeeps, ArriveKeeps
<1>2. ASSUME Loop PROVE IInv'
  BY <1>2, ReturnKeeps, NotifyKeeps, DispatchedKeeps, WaitKeeps, HandleKeeps, IdleKeeps,
     ReturnsKeeps DEF Loop
<1> QED
  BY <1>1, <1>2, ListenKeeps, UnlinkKeeps, EmitKeeps, FdListenKeeps, StopKeeps, StutterKeeps
  DEF Next

-------------------------------------------------------------------------------
(* The invariant holds in every state.                                     *)
LEMMA Invariance ==
  Spec => []IInv
<1>1. Init => IInv
  BY InitIInv
<1>2. IInv /\ [Next]_vars => IInv'
  BY StepKeeps
<1> QED
  BY <1>1, <1>2, PTL DEF Spec

(* What the invariant says of the memory.                                  *)
LEMMA MemorySafeFollows ==
  IInv => MemorySafe
<1> SUFFICES ASSUME IInv PROVE MemorySafe
  OBVIOUS
<1> DEFINE O == OwnersOf(links, listeners, stack)
<1>1. /\ links \in [Signal -> Seq(Slot)] /\ listeners \in [Fd -> Slot \cup {Null}]
      /\ stack \in Seq(Frame) /\ ops \in 0 .. MaxOps /\ HeapFine(heap, O)
  BY CoreTypes
<1>2. TypeOK
  <2>1. heap \in [version : [Slot -> 0 .. VersionCount], ref_count : [Slot -> Nat], bin : Seq(Slot)]
    <3>1. heap \in Heap
      BY <1>1, Zenon DEF HeapFine
    <3> QED
      BY <3>1, Zenon DEF Heap
  <2>2. /\ stage \in {"poll", "batch", "idle", "done"}
        /\ batch \in Seq([fd : Fd, fresh : BOOLEAN])
        /\ stopped \in BOOLEAN
        /\ epoll \in [readable : SUBSET Fd, ready : Seq(Fd), oneshot : SUBSET Fd]
    BY Zenon DEF IInv, Rest, Report
  <2> QED
    BY <1>1, <2>1, <2>2, Zenon DEF TypeOK
<1>3. RefsCounted
  <2>1. \A s \in Slot : O[s] = Owners(s)
    BY OwnersAre
  <2> HIDE DEF O
  <2>2. /\ \A s \in Slot : heap.ref_count[s] = Cardinality(O[s])
        /\ \A s \in Slot : s \in ToSet(heap.bin) <=> heap.version[s] # 0 /\ O[s] = {}
        /\ IsInjective(heap.bin)
    BY <1>1, Zenon DEF HeapFine
  <2> QED
    BY <2>1, <2>2, Zenon DEF RefsCounted
<1>4. WeakIsSafe
  <2>1. ASSUME NEW f \in DOMAIN stack, NEW k \in DOMAIN stack[f].stored
        PROVE  Get(heap, stack[f].stored[k]) # Null <=> stack[f].stored[k].alive
    <3>1. Core(heap, links, listeners, stack, ops)
      BY DEF IInv
    <3> QED
      BY <2>1, <3>1, CoreFinds, Zenon
  <2> QED
    BY <2>1, Zenon DEF WeakIsSafe
<1> QED
  BY <1>2, <1>3, <1>4 DEF MemorySafe

(* Reference counts are exact and weak references never find memory that   *)
(* was freed since, in every state: for any number of blocks, descriptors, *)
(* nested dispatches and operations, as long as these are fewer between    *)
(* two polls than there are versions (exec.cpp, signal.hpp, object.hpp).   *)
THEOREM MemoryIsSafe ==
  Spec => []MemorySafe
BY Invariance, MemorySafeFollows, PTL

-------------------------------------------------------------------------------
(* What a step may never do.                                               *)
LEMMA NotifiesLinked ==
  ASSUME IInv
  PROVE  NotifiedIsLinked
<1> SUFFICES ASSUME Notify, NEW s \in Slot, Last(stack').cur = s
             PROVE  \/ s \in ToSet(links[Top.kind])
                    \/ \E f \in DOMAIN stack : f < Len(stack) /\ stack[f].cur = s
  BY Zenon DEF NotifiedIsLinked
<1> DEFINE l == Get(heap, Head(Top.stored))
<1>1. NotifiedStack(heap, stack, stack', l)
  BY DEF Notify, NotifiedStack, Top
<1> HIDE DEF l
<1>2. Core(heap, links, listeners, stack, ops)
  BY DEF IInv
<1>3. s = l /\ l # Null
  <2>1. Last(stack').cur = l
    BY <1>1, <1>2, CoreNotifies
  <2> QED
    BY <2>1, NullAssumption
<1>4. /\ HomesOf(links, listeners, s) \subseteq {<<"link", Top.kind>>}
      /\ OwnersOf(links, listeners, stack)[s] # {}
  BY <1>1, <1>2, <1>3, CoreNotifies DEF Top
<1>5. PICK o : o \in HomesOf(links, listeners, s) \/ o \in RunningOf(stack, s)
  BY <1>4, OwnersSplit
<1>6. CASE o \in HomesOf(links, listeners, s)
  <2>1. o = <<"link", Top.kind>>
    BY <1>4, <1>6
  <2>2. s \in ToSet(links[Top.kind])
    BY <1>6, <2>1, HomeIs, Kinds
  <2> QED
    BY <2>2
<1>7. CASE o \in RunningOf(stack, s)
  <2>1. PICK f \in DOMAIN stack : stack[f].cur = s
    BY <1>7, RunnerIs
  <2>2. stack \in Seq(Frame) /\ stack # <<>> /\ Last(stack).cur = Null
    BY <1>1, CoreTypes DEF NotifiedStack
  <2>3. DOMAIN stack = 1 .. Len(stack) /\ Len(stack) \in Nat /\ Last(stack) = stack[Len(stack)]
    BY <2>2 DEF Last
  <2>4. f # Len(stack)
    BY <2>1, <2>2, <2>3, NullAssumption
  <2>5. f < Len(stack)
    BY <2>3, <2>4
  <2> QED
    BY <2>1, <2>5
<1> QED
  BY <1>5, <1>6, <1>7

(* A handler that runs is reported freshly.                                *)
LEMMA HandlesFresh ==
  ASSUME IInv
  PROVE  HandledIsFresh
<1> SUFFICES ASSUME Handle, stack' # stack PROVE Head(batch).fresh
  BY DEF HandledIsFresh
<1>1. listeners[Head(batch).fd] # Null /\ batch # <<>>
  BY DEF Handle
<1>2. batch \in Seq(Report) /\ FreshOrForgotten(batch, listeners)
  BY DEF IInv, Rest
<1>3. Head(batch).fresh \/ listeners[Head(batch).fd] = Null
  BY <1>1, <1>2, TailReports
<1> QED
  BY <1>1, <1>3

(* A step starts no handler and no listener of idle.                       *)
Quiet(st, st2) ==
  \A f \in DOMAIN st2 :
    st2[f].kind \in {"fd", "idle"} /\ st2[f].cur # Null =>
      f \in DOMAIN st /\ st[f].cur = st2[f].cur

(* A stack that stays the same.                                            *)
LEMMA SameIsQuiet ==
  \A st : Quiet(st, st)
BY DEF Quiet

(* A callback that returns starts none.                                    *)
LEMMA ReturnIsQuiet ==
  ASSUME IInv, Return
  PROVE  Quiet(stack, stack')
<1> DEFINE st1 == Popped(stack)
           P == OwnersOf(links, listeners, stack')
<1>1. stack' = Marked(st1, heap') /\ stack # <<>>
  BY Zenon DEF Return, Popped, Top, InCallback
<1>2. /\ st1 \in Seq(Frame)
      /\ \A f \in DOMAIN st1 :
           f \in DOMAIN stack /\ st1[f].kind = stack[f].kind
           /\ (st1[f].cur = stack[f].cur \/ st1[f].cur = Null)
  BY <1>1, CoreTypes, PoppedProperties, Zenon
<1>3. HeapFine(heap', P)
  <2>1. IInv'
    BY ReturnKeeps
  <2>2. Core(heap, links, listeners, stack, ops)'
    BY <2>1, Zenon DEF IInv
  <2>3. links' = links /\ listeners' = listeners
    BY DEF Return
  <2>4. PICK h, st, o : h = heap' /\ st = stack' /\ o = ops'
    OBVIOUS
  <2>5. Core(h, links, listeners, st, o)
    BY <2>2, <2>3, <2>4
  <2>6. HeapFine(h, OwnersOf(links, listeners, st))
    BY <2>5, Zenon DEF Core
  <2> QED
    BY <2>4, <2>6
<1> HIDE DEF st1, P
<1>4. PICK h : h = heap'
  OBVIOUS
<1>5. PICK Q : Q = P
  OBVIOUS
<1>6. HeapFine(h, Q)
  BY <1>3, <1>4, <1>5
<1>7. /\ DOMAIN Marked(st1, h) = DOMAIN st1
      /\ \A f \in DOMAIN st1 : Marked(st1, h)[f].cur = st1[f].cur
  BY <1>2, <1>6, MarkedProperties, Zenon
<1> QED
  BY <1>1, <1>2, <1>4, <1>7 DEF Quiet

(* A dispatch goes on after exec_stop, but not that of idle.               *)
LEMMA NotifyIsQuiet ==
  ASSUME IInv, stopped, Notify
  PROVE  Quiet(stack, stack')
<1> DEFINE l == Get(heap, Head(Top.stored))
           n == Len(stack)
<1>1. NotifiedStack(heap, stack, stack', l)
  BY DEF Notify, NotifiedStack, Top
<1> HIDE DEF l
<1>2. Core(heap, links, listeners, stack, ops) /\ IdleIsOutermost(stack) /\ NothingStays
  BY DEF IInv
<1>3. /\ stack' \in Seq(Frame) /\ DOMAIN stack' = DOMAIN stack /\ Last(stack').cur = l
      /\ \A f \in DOMAIN stack : stack'[f].kind = stack[f].kind
      /\ \A f \in DOMAIN stack : f # n => stack'[f] = stack[f]
      /\ l # Null => /\ l \in Slot /\ HomesOf(links, listeners, l) \subseteq {<<"link", Top.kind>>}
                     /\ OwnersOf(links, listeners, stack)[l] # {}
  BY <1>1, <1>2, CoreNotifies DEF Top
<1>4. /\ stack # <<>> /\ Top.cur = Null /\ Top.kind \in Signal /\ stack \in Seq(Frame)
  BY CoreTypes DEF Notify
<1>5. DOMAIN stack = 1 .. n /\ n \in Nat \ {0} /\ Top = stack[n]
  BY <1>4 DEF Last, Top
<1>6. Last(stack') = stack'[n]
  <2>1. DOMAIN stack' = 1 .. Len(stack') /\ Len(stack') \in Nat
    BY <1>3
  <2>2. Len(stack') = n
    BY <1>3, <1>5, <2>1
  <2> QED
    BY <2>2 DEF Last
<1> HIDE DEF n
<1>7. ASSUME Top.kind = "idle" PROVE l = Null
  <2>1. n = 1
    BY <1>2, <1>5, <1>7 DEF IdleIsOutermost
  <2>2. SUFFICES ASSUME l # Null PROVE FALSE
    OBVIOUS
  <2>3. HomesOf(links, listeners, l) = {}
    <3>1. SUFFICES ASSUME NEW o, o \in HomesOf(links, listeners, l) PROVE FALSE
      OBVIOUS
    <3>2. o = <<"link", "idle">>
      BY <1>3, <1>7, <2>2, <3>1
    <3>3. l \in ToSet(links["idle"])
      BY <3>1, <3>2, HomeIs, Kinds
    <3>4. links["idle"] = <<>>
      BY <1>2 DEF NothingStays
    <3> QED
      BY <3>3, <3>4 DEF ToSet
  <2>4. PICK o : o \in RunningOf(stack, l)
    BY <1>3, <2>2, <2>3, OwnersSplit
  <2>5. PICK f \in DOMAIN stack : stack[f].cur = l
    BY <2>4, RunnerIs
  <2>6. f = n
    BY <1>5, <2>1
  <2> QED
    BY <1>4, <1>5, <2>2, <2>5, <2>6
<1>8. ASSUME NEW f \in DOMAIN stack', stack'[f].kind \in {"fd", "idle"}, stack'[f].cur # Null
      PROVE  f \in DOMAIN stack /\ stack[f].cur = stack'[f].cur
  <2>1. CASE f = n
    <3>1. Top.kind = "idle"
      BY <1>3, <1>4, <1>5, <1>8, <2>1 DEF Signal
    <3>2. stack'[f].cur = Null
      BY <1>3, <1>6, <1>7, <2>1, <3>1
    <3> QED
      BY <1>8, <3>2
  <2>2. CASE f # n
    BY <1>3, <1>8, <2>2
  <2> QED
    BY <2>1, <2>2
<1> QED
  BY <1>8 DEF Quiet

(* The end of a dispatch starts nothing.                                   *)
LEMMA DispatchedIsQuiet ==
  ASSUME IInv, Dispatched
  PROVE  Quiet(stack, stack')
<1> DEFINE p == Front(stack)
           n == Len(stack)
<1>1. stack' = p /\ stack # <<>>
  BY DEF Dispatched
<1>2. /\ DOMAIN p = 1 .. n - 1 /\ DOMAIN stack = 1 .. n
      /\ \A k \in 1 .. n - 1 : p[k] = stack[k]
      /\ 1 .. n - 1 \subseteq 1 .. n
  BY <1>1, CoreTypes, Shortened
<1> HIDE DEF n, p
<1> QED
  BY <1>1, <1>2 DEF Quiet

(* The reports that are left are skipped.                                  *)
LEMMA HandleIsQuiet ==
  ASSUME IInv, stopped, Handle
  PROVE  Quiet(stack, stack')
<1>1. batch # <<>>
  BY DEF Handle
<1>2. batch \in Seq(Report) /\ FreshOrForgotten(batch, listeners) /\ NothingStays
  BY DEF IInv, Rest
<1>3. Head(batch).fd \in Fd
  BY <1>1, <1>2, TailReports
<1>4. listeners[Head(batch).fd] = Null
  BY <1>2, <1>3 DEF NothingStays
<1>5. stack' = stack
  BY <1>4 DEF Handle
<1> QED
  BY <1>5, SameIsQuiet

(* The dispatch of idle starts before it calls.                            *)
LEMMA IdleIsQuiet ==
  ASSUME Idle
  PROVE  Quiet(stack, stack')
<1>1. stack' = <<DispatchFrame("idle")>>
  BY DEF Idle
<1>2. DispatchFrame("idle").cur = Null
  BY DEF DispatchFrame
<1> QED
  BY <1>1, <1>2 DEF Quiet

(* After exec_stop every step is quiet.                                    *)
LEMMA StepIsQuiet ==
  ASSUME IInv, stopped, [Next]_vars
  PROVE  Quiet(stack, stack')
<1>1. ASSUME NEW sig \in Signal, listen(sig) PROVE FALSE
  BY <1>1 DEF listen, Op
<1>2. ASSUME NEW s \in Slot, unlink(s) PROVE FALSE
  BY <1>2 DEF unlink, Op
<1>3. ASSUME Emit PROVE FALSE
  BY <1>3 DEF Emit, Op
<1>4. ASSUME NEW fd \in Fd, NEW oneshot \in BOOLEAN, fd_listen(fd, oneshot) PROVE FALSE
  BY <1>4 DEF fd_listen, Op
<1>5. ASSUME NEW fd \in Fd, fd_unlisten(fd) PROVE FALSE
  BY <1>5 DEF fd_unlisten, Op
<1>6. ASSUME exec_stop PROVE FALSE
  BY <1>6 DEF exec_stop, Op
<1>7. ASSUME NEW fd \in Fd, Arrive(fd) PROVE Quiet(stack, stack')
  BY <1>7, SameIsQuiet DEF Arrive
<1>8. ASSUME Wait \/ exec_run_returns \/ UNCHANGED vars PROVE Quiet(stack, stack')
  <2>1. stack' = stack
    BY <1>8 DEF Wait, exec_run_returns, vars
  <2> QED
    BY <2>1, SameIsQuiet
<1>9. ASSUME Loop PROVE Quiet(stack, stack')
  BY <1>8, <1>9, ReturnIsQuiet, NotifyIsQuiet, DispatchedIsQuiet, HandleIsQuiet, IdleIsQuiet
  DEF Loop
<1> QED
  BY <1>1, <1>2, <1>3, <1>4, <1>5, <1>6, <1>7, <1>8, <1>9 DEF Next

(* Unregistering a callback is enough for it not to be called any more: no *)
(* dispatch calls a listener that was unlinked while it was under way, no  *)
(* batch the handler of a registration it does not report, and the stopped *)
(* loop calls nothing (Signal::operator(), exec_run, exec_stop).           *)
THEOREM OnlyRegisteredAreCalled ==
  Spec => CalledIsRegistered
<1>1. IInv /\ [Next]_vars => NotifiedIsLinked /\ HandledIsFresh /\ StoppedIsQuiet
  <2> SUFFICES ASSUME IInv, [Next]_vars
               PROVE  NotifiedIsLinked /\ HandledIsFresh /\ StoppedIsQuiet
    OBVIOUS
  <2>1. stopped => Quiet(stack, stack')
    BY StepIsQuiet
  <2>2. StoppedIsQuiet
    BY <2>1, Zenon DEF StoppedIsQuiet, Quiet
  <2> QED
    BY <2>2, NotifiesLinked, HandlesFresh
<1>2. Spec => []IInv
  BY Invariance
<1> QED
  BY <1>1, <1>2, PTL DEF Spec, CalledIsRegistered
==================================================================================
