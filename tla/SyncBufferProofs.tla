--------------------------- MODULE SyncBufferProofs ---------------------------
(***************************************************************************)
(* Theorems about Syncobj: type correctness, the safety of popping the     *)
(* first waits of the list, and the refinement of SyncobjAbs, for every    *)
(* set of waits and every bound on the points.  Theorems about Buffers:    *)
(* planes agree, nothing leased is given back, and what a client committed *)
(* is shown, for any buffers, surfaces, scales and frames.                 *)
(***************************************************************************)
EXTENDS Syncobj, Buffers, WellFoundedInduction, FiniteSetTheorems, TLAPS

(* What insert_after does to a list, element by element.                   *)
LEMMA InsertAtProperties ==
  ASSUME NEW S, NEW l \in Seq(S), NEW k \in 0 .. Len(l), NEW e \in S
  PROVE  /\ InsertAt(l, k + 1, e) \in Seq(S)
         /\ Len(InsertAt(l, k + 1, e)) = Len(l) + 1
         /\ \A i \in 1 .. k : InsertAt(l, k + 1, e)[i] = l[i]
         /\ InsertAt(l, k + 1, e)[k + 1] = e
         /\ \A i \in k + 1 .. Len(l) : InsertAt(l, k + 1, e)[i + 1] = l[i]
<1> DEFINE a == SubSeq(l, 1, k)
           b == SubSeq(l, k + 1, Len(l))
           c == a \o <<e>>
<1>1. InsertAt(l, k + 1, e) = c \o b
  <2>1. (k + 1) - 1 = k
    OBVIOUS
  <2>2. QED
    BY <2>1, Zenon DEF InsertAt
<1>2. /\ a \in Seq(S) /\ Len(a) = k
      /\ \A i \in 1 .. k : a[i] = l[i]
  OBVIOUS
<1>3. /\ b \in Seq(S) /\ Len(b) = Len(l) - k
      /\ \A i \in 1 .. Len(l) - k : b[i] = l[k + i]
  OBVIOUS
<1> HIDE DEF a, b
<1>4. /\ c \in Seq(S) /\ Len(c) = k + 1
      /\ \A i \in 1 .. k : c[i] = l[i]
      /\ c[k + 1] = e
  BY <1>2
<1> HIDE DEF c
<1>5. /\ c \o b \in Seq(S)
      /\ Len(c \o b) = Len(l) + 1
      /\ \A i \in 1 .. k + 1 : (c \o b)[i] = c[i]
      /\ \A i \in 1 .. Len(l) - k : (c \o b)[k + 1 + i] = b[i]
  BY <1>3, <1>4
<1>6. \A i \in 1 .. k : (c \o b)[i] = l[i]
  BY <1>4, <1>5
<1>7. (c \o b)[k + 1] = e
  BY <1>4, <1>5
<1>8. ASSUME NEW i \in k + 1 .. Len(l)
      PROVE  (c \o b)[i + 1] = l[i]
  <2>1. /\ i - k \in 1 .. Len(l) - k
        /\ k + 1 + (i - k) = i + 1
        /\ k + (i - k) = i
    OBVIOUS
  <2>2. (c \o b)[k + 1 + (i - k)] = b[i - k]
    BY <2>1, <1>5
  <2>3. b[i - k] = l[k + (i - k)]
    BY <2>1, <1>3
  <2>4. QED
    BY <2>1, <2>2, <2>3
<1>9. QED
  BY <1>1, <1>5, <1>6, <1>7, <1>8, Zenon

(* Tail, element by element.                                               *)
LEMMA TailProperties ==
  ASSUME NEW S, NEW l \in Seq(S), l # <<>>
  PROVE  /\ Tail(l) \in Seq(S)
         /\ Len(Tail(l)) = Len(l) - 1
         /\ \A i \in 1 .. Len(l) - 1 : Tail(l)[i] = l[i + 1]
         /\ Head(l) = l[1] /\ Head(l) \in S /\ Len(l) >= 1
  OBVIOUS

(* The n-th wait of the list is reached whenever the events that remain to *)
(* be accounted for cannot cover the waits from it to the end of the list. *)
LEMMA PrefixReached ==
  ASSUME IInv, alive, NEW n \in 1 .. Len(list), n <= eventfd + Remaining - skips
  PROVE  point[list[n]] <= value
<1> USE DEF IInv, TypeOK
<1>1. SUFFICES ASSUME point[list[n]] > value PROVE FALSE
  OBVIOUS
<1> DEFINE f == [i \in n .. Len(list) |-> list[i]]
<1>2. \A i \in n .. Len(list) : point[list[i]] > value
  <2> TAKE i \in n .. Len(list)
  <2>1. i \in DOMAIN list /\ n \in DOMAIN list
    OBVIOUS
  <2>2. list[i] \in Wait /\ list[n] \in Wait
    BY <2>1
  <2>3. n = i \/ point[list[n]] <= point[list[i]]
    BY <2>1 DEF ListSorted
  <2>4. QED
    BY <1>1, <2>2, <2>3
<1>3. \A i \in n .. Len(list) : list[i] \in armed
  BY <1>2 DEF UnreachedArmed
<1>4. f \in Injection(n .. Len(list), armed)
  <2>1. f \in [n .. Len(list) -> armed]
    BY <1>3
  <2>2. \A i, j \in n .. Len(list) : f[i] = f[j] => i = j
    BY DEF ListDistinct
  <2> HIDE DEF f
  <2>3. DOMAIN f = n .. Len(list)
    BY <2>1
  <2>4. QED
    BY <2>1, <2>2, <2>3, Zenon DEF Injection, IsInjective
<1>5. Cardinality(n .. Len(list)) <= Cardinality(armed)
  BY <1>4, FS_Injection DEF EventsBalance
<1>6. Cardinality(n .. Len(list)) = Len(list) - n + 1
  BY FS_Interval
<1>7. Cardinality(armed) \in Nat
  BY FS_CardinalityType DEF EventsBalance
<1>8. QED
  BY <1>5, <1>6, <1>7 DEF EventsBalance, Remaining

-------------------------------------------------------------------------------
(* What registering w for p does to the list: w is new, the order of the   *)
(* other waits is kept, and every listed wait was listed before or is w.   *)
LEMMA RegisterKeepsIInv ==
  ASSUME IInv, NEW w \in Wait, NEW p \in 1 .. MaxPoint, gpu_syncobj_wait(w, p)
  PROVE  IInv'
<1>1. PICK k \in 0 .. Len(list) :
        InsertPosition(k, p) /\ list' = InsertAt(list, k + 1, w)
  BY DEF gpu_syncobj_wait
<1>2. /\ list' \in Seq(Wait)
      /\ Len(list') = Len(list) + 1
      /\ \A i \in 1 .. k : list'[i] = list[i]
      /\ list'[k + 1] = w
      /\ \A i \in k + 1 .. Len(list) : list'[i + 1] = list[i]
  <2>1. list \in Seq(Wait)
    BY DEF IInv, TypeOK
  <2> DEFINE l == InsertAt(list, k + 1, w)
  <2>2. l \in Seq(Wait) /\ Len(l) = Len(list) + 1 /\ l[k + 1] = w
    <3>1. l \in Seq(Wait)
      BY <2>1, InsertAtProperties
    <3>2. Len(l) = Len(list) + 1
      BY <2>1, InsertAtProperties
    <3>3. l[k + 1] = w
      BY <2>1, InsertAtProperties
    <3>4. QED
      BY <3>1, <3>2, <3>3
  <2>3. \A i \in 1 .. k : l[i] = list[i]
    BY <2>1, InsertAtProperties
  <2>4. \A i \in k + 1 .. Len(list) : l[i + 1] = list[i]
    BY <2>1, InsertAtProperties
  <2>5. list' = l
    BY <1>1
  <2> HIDE DEF l
  <2>6. QED
    BY <2>2, <2>3, <2>4, <2>5
<1>3. p \in Nat \ {0}
  BY MaxPointAssumption
<1>4. /\ list \in Seq(Wait) /\ Len(list) \in Nat /\ DOMAIN list = 1 .. Len(list)
      /\ DOMAIN list' = 1 .. Len(list) + 1
      /\ point \in [Wait -> Nat] /\ value \in Nat /\ value' = value
      /\ handled' = handled /\ handled \subseteq Registered
      /\ armed' = armed \cup {w} /\ armed \subseteq Registered
      /\ point' = [point EXCEPT ![w] = p]
      /\ w \in Wait \ Registered
  <2>1. list \in Seq(Wait) /\ Len(list) \in Nat /\ DOMAIN list = 1 .. Len(list)
    BY DEF IInv, TypeOK
  <2>2. DOMAIN list' = 1 .. Len(list) + 1
    BY <1>2
  <2>3. /\ point \in [Wait -> Nat] /\ value \in Nat
        /\ handled \subseteq Registered /\ armed \subseteq Registered
    BY DEF IInv, TypeOK, EventsBalance
  <2>4. /\ value' = value /\ handled' = handled /\ armed' = armed \cup {w}
        /\ point' = [point EXCEPT ![w] = p] /\ w \in Wait \ Registered
    BY DEF gpu_syncobj_wait
  <2>5. QED
    BY <2>1, <2>2, <2>3, <2>4
<1>5. /\ point' \in [Wait -> Nat]
      /\ point'[w] = p
      /\ \A u \in Wait \ {w} : point'[u] = point[u]
      /\ Registered' = Registered \cup {w}
  BY <1>3, <1>4 DEF Registered
<1>6. \A i \in 1 .. Len(list) :
        /\ list[i] \in Registered \ handled /\ list[i] \in Wait \ {w}
        /\ point'[list[i]] = point[list[i]] /\ point[list[i]] \in Nat
  BY <1>4, <1>5 DEF IInv, ListDistinct
<1>7. ASSUME NEW i \in 1 .. Len(list) + 1
      PROVE  \/ i \in 1 .. k /\ list'[i] = list[i]
             \/ i = k + 1 /\ list'[i] = w
             \/ i \in k + 2 .. Len(list) + 1 /\ i - 1 \in k + 1 .. Len(list) /\ list'[i] = list[i - 1]
  <2>1. CASE i <= k
    BY <2>1, <1>2
  <2>2. CASE i = k + 1
    BY <2>2, <1>2
  <2>3. CASE i > k + 1
    <3>1. i - 1 \in k + 1 .. Len(list) /\ (i - 1) + 1 = i
      BY <2>3, <1>4
    <3>2. list'[(i - 1) + 1] = list[i - 1]
      BY <3>1, <1>2
    <3>3. i \in k + 2 .. Len(list) + 1
      BY <2>3, <1>4
    <3>4. QED
      BY <3>1, <3>2, <3>3
  <2>4. QED
    BY <2>1, <2>2, <2>3, <1>4
<1>8. TypeOK'
  BY <1>2, <1>5 DEF IInv, TypeOK, gpu_syncobj_wait
<1>9. ListSorted'
  <2> SUFFICES ASSUME NEW i \in 1 .. Len(list) + 1, NEW j \in 1 .. Len(list) + 1, i < j
               PROVE  point'[list'[i]] <= point'[list'[j]]
    BY <1>4 DEF ListSorted
  <2>1. \A m, n \in 1 .. Len(list) : m < n => point[list[m]] <= point[list[n]]
    BY <1>4 DEF IInv, ListSorted
  <2>2. \A m \in k + 1 .. Len(list) : point[list[m]] > p
    BY <1>1 DEF InsertPosition
  <2>3. ASSUME NEW m \in 1 .. k
        PROVE  point[list[m]] <= p
    <3>1. k \in 1 .. Len(list) /\ m \in 1 .. Len(list) /\ point[list[k]] <= p
      BY <1>1, <1>4 DEF InsertPosition
    <3>2. m = k \/ point[list[m]] <= point[list[k]]
      BY <2>1, <3>1
    <3>3. QED
      BY <3>1, <3>2, <1>3, <1>6
  <2>4. CASE i \in 1 .. k
    <3>1. list'[i] = list[i] /\ i \in 1 .. Len(list) /\ point'[list'[i]] <= p
      BY <2>3, <2>4, <1>2, <1>4, <1>6
    <3>2. CASE j = k + 1
      BY <3>1, <3>2, <1>2, <1>5
    <3>3. CASE j # k + 1
      <4>1. CASE j \in 1 .. k
        <5>1. list'[i] = list[i] /\ list'[j] = list[j]
          BY <4>1, <2>4, <1>2
        <5>2. i \in 1 .. Len(list) /\ j \in 1 .. Len(list)
          BY <4>1, <3>1, <1>4
        <5>3. point[list[i]] <= point[list[j]]
          BY <5>2, <2>1
        <5>4. QED
          BY <5>1, <5>2, <5>3, <1>6
      <4>2. CASE j \in k + 2 .. Len(list) + 1
        <5>1. list'[j] = list[j - 1] /\ j - 1 \in 1 .. Len(list) /\ i < j - 1
          <6>1. j \notin 1 .. k /\ j # k + 1
            BY <4>2, <1>4
          <6>2. list'[j] = list[j - 1] /\ j - 1 \in k + 1 .. Len(list)
            BY <6>1, <1>7
          <6>3. QED
            BY <6>2, <2>4, <1>4
        <5>2. QED
          BY <5>1, <3>1, <2>1, <1>6
      <4>3. QED
        BY <4>1, <4>2, <3>3, <1>7
    <3>4. QED
      BY <3>2, <3>3
  <2>5. CASE i = k + 1
    <3>1. j - 1 \in k + 1 .. Len(list) /\ list'[j] = list[j - 1]
      BY <2>5, <1>7
    <3>2. j - 1 \in 1 .. Len(list)
      BY <3>1
    <3>3. point'[list'[j]] > p
      BY <3>1, <3>2, <2>2, <1>6
    <3>4. point'[list'[i]] = p
      BY <2>5, <1>2, <1>5
    <3>5. QED
      BY <3>1, <3>2, <3>3, <3>4, <1>3, <1>6
  <2>6. CASE i \in k + 2 .. Len(list) + 1
    <3>1. /\ i - 1 \in 1 .. Len(list) /\ list'[i] = list[i - 1]
          /\ j - 1 \in 1 .. Len(list) /\ list'[j] = list[j - 1]
          /\ i - 1 < j - 1
      BY <2>6, <1>4, <1>7
    <3>2. QED
      BY <3>1, <2>1, <1>6
  <2>7. QED
    BY <2>4, <2>5, <2>6, <1>7
<1>10. ListDistinct'
  <2>1. \A m, n \in 1 .. Len(list) : list[m] = list[n] => m = n
    BY <1>4 DEF IInv, ListDistinct
  <2>2. ASSUME NEW i \in 1 .. Len(list) + 1, NEW j \in 1 .. Len(list) + 1, list'[i] = list'[j]
        PROVE  i = j
    <3>1. \A n \in 1 .. Len(list) : list[n] # w
      BY <1>6
    <3>2. CASE i \in 1 .. k
      <4>1. list'[i] = list[i] /\ i \in 1 .. Len(list)
        BY <3>2, <1>2, <1>4
      <4>2. CASE j \in 1 .. k
        <5>1. list'[j] = list[j] /\ j \in 1 .. Len(list)
          BY <4>2, <1>2, <1>4
        <5>2. QED
          BY <5>1, <4>1, <2>1, <2>2
      <4>3. CASE j = k + 1
        BY <4>1, <4>3, <3>1, <2>2, <1>2
      <4>4. CASE j - 1 \in k + 1 .. Len(list) /\ list'[j] = list[j - 1]
        <5>1. j - 1 \in 1 .. Len(list) /\ list[j - 1] = list[i]
          BY <4>1, <4>4, <2>2, <1>4
        <5>2. i = j - 1
          BY <5>1, <4>1, <2>1
        <5>3. QED
          BY <5>2, <4>4, <3>2
      <4>5. QED
        BY <4>2, <4>3, <4>4, <2>2, <1>7
    <3>3. CASE i = k + 1
      <4>1. list'[j] = w
        BY <3>3, <2>2, <1>2
      <4>2. QED
        BY <4>1, <3>1, <3>3, <1>4, <1>7
    <3>4. CASE i \in k + 2 .. Len(list) + 1
      <4>1. i - 1 \in k + 1 .. Len(list) /\ i - 1 \in 1 .. Len(list) /\ list'[i] = list[i - 1]
        <5>1. i \notin 1 .. k /\ i # k + 1
          BY <3>4, <1>4
        <5>2. i - 1 \in k + 1 .. Len(list) /\ list'[i] = list[i - 1]
          BY <5>1, <1>7
        <5>3. QED
          BY <5>2, <1>4
      <4>2. CASE j \in 1 .. k
        <5>1. list[i - 1] = list[j] /\ j \in 1 .. Len(list)
          BY <4>1, <4>2, <2>2, <1>2, <1>4
        <5>2. i - 1 = j
          BY <5>1, <4>1, <2>1
        <5>3. QED
          BY <5>2, <4>1, <4>2
      <4>3. CASE j = k + 1
        BY <4>1, <4>3, <3>1, <2>2, <1>2
      <4>4. CASE j - 1 \in k + 1 .. Len(list) /\ list'[j] = list[j - 1]
        <5>1. j - 1 \in 1 .. Len(list) /\ list[i - 1] = list[j - 1]
          BY <4>1, <4>4, <2>2, <1>4
        <5>2. i - 1 = j - 1
          BY <5>1, <4>1, <2>1
        <5>3. QED
          BY <5>2
      <4>5. QED
        BY <4>2, <4>3, <4>4, <1>7
    <3>5. QED
      BY <3>2, <3>3, <3>4, <1>7
  <2>3. ASSUME NEW i \in 1 .. Len(list) + 1
        PROVE  list'[i] \in Registered' \ handled'
    BY <1>4, <1>5, <1>6, <1>7
  <2>4. QED
    BY <2>2, <2>3, <1>4 DEF ListDistinct
<1>11. EventsBalance'
  <2>1. IsFiniteSet(armed) /\ Cardinality(armed) \in Nat
    BY FS_CardinalityType DEF IInv, EventsBalance
  <2>2. IsFiniteSet(armed') /\ Cardinality(armed') = Cardinality(armed) + 1
    BY <2>1, <1>4, FS_AddElement
  <2>3. armed' \subseteq Registered'
    BY <1>4, <1>5
  <2>4. /\ Remaining' = Remaining /\ Remaining \in Nat
        /\ eventfd' = eventfd /\ eventfd \in Nat
        /\ skips' = skips /\ skips \in Nat /\ alive' = alive
    BY DEF Remaining, IInv, TypeOK, gpu_syncobj_wait
  <2>5. alive => Len(list) + skips = Cardinality(armed) + eventfd + Remaining
    BY DEF IInv, EventsBalance
  <2>6. QED
    BY <2>1, <2>2, <2>3, <2>4, <2>5, <1>2, <1>4 DEF EventsBalance
<1>12. UnreachedArmed'
  <2> SUFFICES ASSUME NEW i \in 1 .. Len(list) + 1, point'[list'[i]] > value
               PROVE  list'[i] \in armed'
    BY <1>4 DEF UnreachedArmed
  <2>1. \A m \in 1 .. Len(list) : point'[list[m]] > value => list[m] \in armed
    BY <1>4, <1>6 DEF IInv, UnreachedArmed
  <2>2. CASE list'[i] = w
    BY <2>2, <1>4
  <2>3. CASE list'[i] # w
    <3>1. CASE i \in 1 .. k
      BY <3>1, <2>1, <1>2, <1>4
    <3>2. CASE i - 1 \in k + 1 .. Len(list) /\ list'[i] = list[i - 1]
      <4>1. i - 1 \in 1 .. Len(list)
        BY <3>2
      <4>2. QED
        BY <4>1, <3>2, <2>1, <1>4
    <3>3. QED
      BY <3>1, <3>2, <2>3, <1>7
  <2>4. QED
    BY <2>2, <2>3
<1>13. ModeOK' /\ handled' \subseteq Registered' /\ HandledReached'
  BY <1>4, <1>5 DEF IInv, ModeOK, HandledReached, gpu_syncobj_wait
<1>14. QED
  BY <1>8, <1>9, <1>10, <1>11, <1>12, <1>13 DEF IInv

(* Popping the first wait, when it is reached, keeps the list sorted and   *)
(* distinct and calls a wait whose point is reached.                       *)
LEMMA PopKeepsList ==
  ASSUME IInv, PopFirst, point[Head(list)] <= value, UNCHANGED <<value, point, armed>>
  PROVE  /\ list' \in Seq(Wait) /\ handled' \subseteq Wait
         /\ Len(list') = Len(list) - 1 /\ Len(list) >= 1
         /\ ListSorted' /\ ListDistinct' /\ UnreachedArmed' /\ HandledReached'
         /\ handled' \subseteq Registered'
<1>1. /\ list \in Seq(Wait) /\ DOMAIN list = 1 .. Len(list)
      /\ handled \subseteq Wait /\ handled \subseteq Registered
      /\ handled' = handled \cup {Head(list)}
      /\ value' = value /\ point' = point /\ armed' = armed
  BY DEF IInv, TypeOK, PopFirst
<1>2. /\ list' \in Seq(Wait) /\ DOMAIN list' = 1 .. Len(list) - 1
      /\ Len(list) >= 1
      /\ Len(list') = Len(list) - 1
      /\ \A i \in 1 .. Len(list) - 1 : list'[i] = list[i + 1]
      /\ Head(list) = list[1] /\ Head(list) \in Wait /\ 1 \in DOMAIN list
  BY <1>1, TailProperties DEF PopFirst
<1>3. \A i \in 1 .. Len(list) - 1 :
        i + 1 \in DOMAIN list /\ i + 1 # 1 /\ list'[i] = list[i + 1]
  BY <1>1, <1>2
<1>4. Registered' = Registered
  BY <1>1 DEF Registered
<1>5. ListSorted'
  <2>1. \A i, j \in DOMAIN list : i < j => point[list[i]] <= point[list[j]]
    BY DEF IInv, ListSorted
  <2>2. ASSUME NEW i \in DOMAIN list', NEW j \in DOMAIN list', i < j
        PROVE  point'[list'[i]] <= point'[list'[j]]
    <3>1. i + 1 < j + 1 /\ i + 1 \in DOMAIN list /\ j + 1 \in DOMAIN list
      BY <2>2, <1>2, <1>3
    <3>2. QED
      BY <3>1, <2>1, <1>1, <1>2
  <2>3. QED
    BY <2>2 DEF ListSorted
<1>6. ListDistinct'
  <2>1. \A i, j \in DOMAIN list : list[i] = list[j] => i = j
    BY DEF IInv, ListDistinct
  <2>2. \A i \in DOMAIN list : list[i] \in Registered \ handled
    BY DEF IInv, ListDistinct
  <2>3. ASSUME NEW i \in DOMAIN list', NEW j \in DOMAIN list', list'[i] = list'[j]
        PROVE  i = j
    <3>1. i + 1 = j + 1
      BY <2>1, <2>3, <1>2, <1>3
    <3>2. i \in Int /\ j \in Int
      BY <1>2
    <3>3. QED
      BY <3>1, <3>2
  <2>4. ASSUME NEW i \in DOMAIN list'
        PROVE  list'[i] \in Registered' \ handled'
    <3>1. i + 1 \in DOMAIN list /\ list'[i] = list[i + 1] /\ list[i + 1] # list[1]
      BY <2>1, <1>2, <1>3
    <3>2. QED
      BY <3>1, <2>2, <1>1, <1>2, <1>4
  <2>5. QED
    BY <2>3, <2>4 DEF ListDistinct
<1>7. UnreachedArmed'
  BY <1>1, <1>2, <1>3 DEF IInv, UnreachedArmed
<1>8. HandledReached'
  BY <1>1 DEF IInv, HandledReached
<1>9. handled' \subseteq Wait /\ handled' \subseteq Registered'
  BY <1>1, <1>2, <1>4 DEF IInv, ListDistinct
<1>10. QED
  BY <1>2, <1>5, <1>6, <1>7, <1>8, <1>9

(* The events still to be seen after a pop.                                *)
LEMMA BalanceFacts ==
  ASSUME IInv
  PROVE  /\ IsFiniteSet(armed) /\ Cardinality(armed) \in Nat /\ Len(list) \in Nat
         /\ eventfd \in Nat /\ skips \in Nat /\ arg \in Nat /\ Remaining \in Nat
         /\ alive => Len(list) + skips = Cardinality(armed) + eventfd + Remaining
BY FS_CardinalityType DEF IInv, TypeOK, EventsBalance, Remaining

(* An armed wait that is signalled keeps the invariant.                    *)
LEMMA SignalEventKeepsIInv ==
  ASSUME IInv, NEW w \in Wait, SignalEvent(w)
  PROVE  IInv'
<1>1. IsFiniteSet(armed') /\ Cardinality(armed') = Cardinality(armed) - 1
  BY BalanceFacts, FS_RemoveElement DEF SignalEvent
<1>2. Registered' = Registered /\ Remaining' = Remaining
  BY DEF Registered, Remaining, SignalEvent
<1>3. EventsBalance'
  <2>1. armed' \subseteq Registered'
    BY <1>2 DEF IInv, EventsBalance, SignalEvent
  <2>2. /\ eventfd' = eventfd + 1 /\ list' = list /\ skips' = skips /\ alive' = alive
    BY DEF SignalEvent
  <2>3. QED
    BY <1>1, <1>2, <2>1, <2>2, BalanceFacts DEF EventsBalance
<1>4. TypeOK'
  BY DEF IInv, TypeOK, SignalEvent
<1>5. ListSorted' /\ ListDistinct' /\ ModeOK' /\ HandledReached' /\ handled' \subseteq Registered'
  BY <1>2 DEF IInv, ListSorted, ListDistinct, ModeOK, HandledReached, SignalEvent
<1>6. UnreachedArmed'
  <2> SUFFICES ASSUME NEW i \in DOMAIN list, point[list[i]] > value
               PROVE  list[i] \in armed \ {w}
    BY DEF UnreachedArmed, SignalEvent
  <2>1. list[i] \in armed /\ list[i] \in Wait
    BY DEF IInv, TypeOK, UnreachedArmed
  <2>2. list[i] # w
    BY <2>1 DEF SignalEvent, IInv, TypeOK
  <2>3. QED
    BY <2>1, <2>2
<1>7. QED
  BY <1>3, <1>4, <1>5, <1>6 DEF IInv

(* Signalling a value keeps the invariant.                                 *)
LEMMA SignalValueKeepsIInv ==
  ASSUME IInv, gpu_syncobj_signal_value
  PROVE  IInv'
<1>1. value' \in Nat /\ value' > value /\ value \in Nat
  BY MaxPointAssumption DEF IInv, TypeOK, gpu_syncobj_signal_value
<1>2. UNCHANGED <<point, list, armed, eventfd, skips, mode, arg, handled, alive>>
  BY DEF gpu_syncobj_signal_value
<1>3. TypeOK'
  BY <1>1, <1>2 DEF IInv, TypeOK
<1>4. Registered' = Registered /\ Remaining' = Remaining
  BY <1>2 DEF Registered, Remaining
<1>5. ListSorted' /\ ListDistinct' /\ EventsBalance' /\ handled' \subseteq Registered'
  BY <1>2, <1>4 DEF IInv, ListSorted, ListDistinct, EventsBalance
<1>6. UnreachedArmed'
  <2> SUFFICES ASSUME NEW i \in DOMAIN list, point[list[i]] > value'
               PROVE  list[i] \in armed
    BY <1>2 DEF UnreachedArmed
  <2>1. point[list[i]] \in Nat
    BY DEF IInv, TypeOK
  <2>2. QED
    BY <2>1, <1>1 DEF IInv, UnreachedArmed
<1>7. ModeOK'
  BY <1>1, <1>2 DEF IInv, TypeOK, ModeOK
<1>8. HandledReached'
  <2> SUFFICES ASSUME NEW w \in handled PROVE point[w] <= value'
    BY <1>2 DEF HandledReached
  <2>1. point[w] \in Nat /\ point[w] <= value
    BY DEF IInv, TypeOK, HandledReached
  <2>2. QED
    BY <2>1, <1>1
<1>9. QED
  BY <1>3, <1>5, <1>6, <1>7, <1>8 DEF IInv

(* The wait popped by handle_waits is reached: the owed events are fewer   *)
(* than those seen, so PrefixReached applies to the head of the list.      *)
LEMMA PopReached ==
  ASSUME IInv, list # <<>>,
         \/ handle_waits /\ eventfd > skips
         \/ handle_waits_next
         \/ gpu_wait_step /\ point[Head(list)] <= arg
  PROVE  alive /\ point[Head(list)] <= value
<1>1. 1 \in 1 .. Len(list) /\ Head(list) = list[1] /\ Head(list) \in Wait
  BY TailProperties DEF IInv, TypeOK
<1>2. CASE handle_waits /\ eventfd > skips
  <2>1. alive /\ 1 <= eventfd + Remaining - skips
    BY <1>2, BalanceFacts DEF handle_waits, Remaining
  <2>2. QED
    BY <1>1, <2>1, PrefixReached
<1>3. CASE handle_waits_next
  <2>1. alive /\ 1 <= eventfd + Remaining - skips
    BY <1>3, BalanceFacts DEF handle_waits_next, Remaining, IInv, ModeOK
  <2>2. QED
    BY <1>1, <2>1, PrefixReached
<1>4. CASE gpu_wait_step /\ point[Head(list)] <= arg
  <2>1. alive /\ arg <= value
    BY <1>4 DEF gpu_wait_step, IInv, ModeOK, TypeOK
  <2>2. point[Head(list)] \in Nat /\ arg \in Nat /\ value \in Nat
    BY <1>1 DEF IInv, TypeOK
  <2>3. QED
    BY <1>4, <2>1, <2>2
<1>5. QED
  BY <1>2, <1>3, <1>4

(* Entering handle_waits keeps the invariant.                              *)
LEMMA HandleWaitsKeepsIInv ==
  ASSUME IInv, handle_waits
  PROVE  IInv'
<1>1. CASE eventfd > skips
  <2>1. /\ PopFirst /\ list # <<>> /\ alive /\ alive' = alive
        /\ UNCHANGED <<value, point, armed>>
        /\ eventfd' = 0 /\ skips' = 0 /\ arg' = eventfd - skips - 1
        /\ mode' = IF arg' = 0 THEN "loop" ELSE "drain"
        /\ mode = "loop"
    BY <1>1, BalanceFacts DEF handle_waits, PopFirst
  <2>2. point[Head(list)] <= value
    BY <1>1, <2>1, PopReached
  <2>3. /\ list' \in Seq(Wait) /\ handled' \subseteq Wait
        /\ Len(list') = Len(list) - 1 /\ Len(list) >= 1
        /\ ListSorted' /\ ListDistinct' /\ UnreachedArmed' /\ HandledReached'
        /\ handled' \subseteq Registered'
    BY <2>1, <2>2, PopKeepsList
  <2>4. arg' \in Nat /\ Remaining = 0 /\ Remaining' = arg'
    BY <1>1, <2>1, BalanceFacts DEF Remaining
  <2>5. TypeOK'
    BY <2>1, <2>3, <2>4 DEF IInv, TypeOK
  <2>6. Registered' = Registered
    BY <2>1 DEF Registered
  <2>7. EventsBalance'
    BY <2>1, <2>3, <2>4, <2>6, BalanceFacts DEF IInv, EventsBalance
  <2>8. ModeOK'
    <3>1. alive'
      BY <2>1, Zenon
    <3>2. arg' = 0 \/ arg' > 0
      BY <2>4
    <3>3. QED
      BY <2>1, <3>1, <3>2 DEF ModeOK
  <2>9. QED
    BY <2>3, <2>5, <2>7, <2>8 DEF IInv
<1>2. CASE eventfd <= skips
  <2>1. /\ UNCHANGED <<value, point, list, armed, mode, arg, handled, alive>>
        /\ eventfd' = 0 /\ skips' = skips - eventfd /\ skips' \in Nat
    BY <1>2, BalanceFacts DEF handle_waits
  <2>2. TypeOK'
    BY <2>1 DEF IInv, TypeOK
  <2>3. Registered' = Registered /\ Remaining' = Remaining
    BY <2>1 DEF Registered, Remaining
  <2>4. EventsBalance'
    BY <2>1, <2>3, BalanceFacts DEF IInv, EventsBalance
  <2>5. /\ ListSorted' /\ ListDistinct' /\ UnreachedArmed' /\ HandledReached'
        /\ handled' \subseteq Registered'
    BY <2>1, <2>3 DEF IInv, ListSorted, ListDistinct, UnreachedArmed, HandledReached
  <2>6. ModeOK'
    BY <2>1, BalanceFacts DEF handle_waits, IInv, ModeOK
  <2>7. QED
    BY <2>2, <2>4, <2>5, <2>6 DEF IInv
<1>3. QED
  BY <1>1, <1>2, BalanceFacts

(* Each turn of handle_waits keeps the invariant.                          *)
LEMMA HandleWaitsNextKeepsIInv ==
  ASSUME IInv, handle_waits_next
  PROVE  IInv'
<1>1. /\ PopFirst /\ list # <<>>
      /\ UNCHANGED <<value, point, armed, eventfd, skips, alive>>
      /\ arg' = arg - 1 /\ mode = "drain"
      /\ mode' = IF arg' = 0 THEN "loop" ELSE "drain"
  BY DEF handle_waits_next, PopFirst
<1>2. point[Head(list)] <= value /\ alive
  BY <1>1, PopReached
<1>3. /\ list' \in Seq(Wait) /\ handled' \subseteq Wait
      /\ Len(list') = Len(list) - 1 /\ Len(list) >= 1
      /\ ListSorted' /\ ListDistinct' /\ UnreachedArmed' /\ HandledReached'
      /\ handled' \subseteq Registered'
  BY <1>1, <1>2, PopKeepsList
<1>4. arg' \in Nat /\ Remaining = arg /\ Remaining' = arg' /\ skips = 0 /\ arg > 0
  BY <1>1, BalanceFacts DEF Remaining, IInv, ModeOK
<1>5. TypeOK'
  BY <1>1, <1>3, <1>4 DEF IInv, TypeOK
<1>6. Registered' = Registered
  BY <1>1 DEF Registered
<1>7. EventsBalance'
  BY <1>1, <1>2, <1>3, <1>4, <1>6, BalanceFacts DEF IInv, EventsBalance
<1>8. ModeOK'
  <2>1. alive'
    BY <1>1, <1>2, Zenon
  <2>2. arg' = 0 \/ arg' > 0
    BY <1>4
  <2>3. QED
    BY <1>1, <1>4, <2>1, <2>2 DEF ModeOK
<1>9. QED
  BY <1>3, <1>5, <1>7, <1>8 DEF IInv

(* Each turn of gpu_wait keeps the invariant.                              *)
LEMMA GpuWaitStepKeepsIInv ==
  ASSUME IInv, gpu_wait_step
  PROVE  IInv'
<1>1. /\ UNCHANGED <<value, point, armed, eventfd, alive>>
      /\ mode \in {"block", "flush"} /\ arg <= value /\ alive
  BY DEF gpu_wait_step, IInv, ModeOK
<1>2. Registered' = Registered /\ Remaining = 0
  BY <1>1 DEF Registered, Remaining
<1>3. CASE list # <<>> /\ point[Head(list)] <= arg
  <2>1. PopFirst /\ skips' = skips + 1 /\ mode' = "flush" /\ arg' = arg
    BY <1>3 DEF gpu_wait_step
  <2>2. point[Head(list)] <= value
    BY <1>3, PopReached
  <2>3. /\ list' \in Seq(Wait) /\ handled' \subseteq Wait
        /\ Len(list') = Len(list) - 1 /\ Len(list) >= 1
        /\ ListSorted' /\ ListDistinct' /\ UnreachedArmed' /\ HandledReached'
        /\ handled' \subseteq Registered'
    BY <2>1, <2>2, <1>1, PopKeepsList
  <2>4. TypeOK'
    BY <1>1, <2>1, <2>3 DEF IInv, TypeOK
  <2>5. Remaining' = 0
    BY <2>1 DEF Remaining
  <2>6. EventsBalance'
    BY <1>1, <1>2, <2>1, <2>3, <2>5, BalanceFacts DEF IInv, EventsBalance
  <2>7. ModeOK'
    BY <1>1, <2>1 DEF ModeOK
  <2>8. QED
    BY <2>3, <2>4, <2>6, <2>7 DEF IInv
<1>4. CASE ~(list # <<>> /\ point[Head(list)] <= arg)
  <2>1. mode' = "loop" /\ arg' = 0 /\ UNCHANGED <<list, skips, handled>>
    BY <1>4 DEF gpu_wait_step
  <2>2. TypeOK'
    BY <1>1, <2>1 DEF IInv, TypeOK
  <2>3. Remaining' = 0
    BY <2>1 DEF Remaining
  <2>4. EventsBalance'
    BY <1>1, <1>2, <2>1, <2>3, BalanceFacts DEF IInv, EventsBalance
  <2>5. /\ ListSorted' /\ ListDistinct' /\ UnreachedArmed' /\ HandledReached'
        /\ handled' \subseteq Registered' /\ ModeOK'
    BY <1>1, <1>2, <2>1
    DEF IInv, ListSorted, ListDistinct, UnreachedArmed, HandledReached, ModeOK
  <2>6. QED
    BY <2>2, <2>4, <2>5 DEF IInv
<1>5. QED
  BY <1>3, <1>4

(* Calling gpu_wait keeps the invariant.                                   *)
LEMMA GpuWaitKeepsIInv ==
  ASSUME IInv, NEW p \in 1 .. MaxPoint, gpu_wait(p)
  PROVE  IInv'
<1>1. /\ UNCHANGED <<value, point, list, armed, eventfd, skips, handled, alive>>
      /\ mode = "loop" /\ mode' = "block" /\ arg' = p /\ p \in Nat /\ alive
  BY MaxPointAssumption DEF gpu_wait
<1>2. Registered' = Registered /\ Remaining' = 0 /\ Remaining = 0
  BY <1>1 DEF Registered, Remaining
<1>3. TypeOK'
  BY <1>1 DEF IInv, TypeOK
<1>4. /\ ListSorted' /\ ListDistinct' /\ UnreachedArmed' /\ HandledReached'
      /\ handled' \subseteq Registered' /\ ModeOK' /\ EventsBalance'
  BY <1>1, <1>2
  DEF IInv, ListSorted, ListDistinct, UnreachedArmed, HandledReached, ModeOK, EventsBalance
<1>5. QED
  BY <1>3, <1>4 DEF IInv

(* Destroying the syncobj keeps the invariant.                             *)
LEMMA DestroyKeepsIInv ==
  ASSUME IInv, DestroySyncobj
  PROVE  IInv'
<1>1. /\ UNCHANGED <<value, point, mode, arg, handled>>
      /\ alive' = FALSE /\ list' = <<>> /\ armed' = {} /\ eventfd' = 0
      /\ skips' = skips + Len(list) /\ mode = "loop"
  BY DEF DestroySyncobj
<1>2. Registered' = Registered /\ DOMAIN list' = {}
  BY <1>1 DEF Registered
<1>3. TypeOK'
  <2>1. skips' \in Nat /\ eventfd' \in Nat
    BY <1>1, BalanceFacts
  <2>2. list' \in Seq(Wait) /\ armed' \subseteq Wait
    BY <1>1
  <2>3. alive' \in BOOLEAN
    BY <1>1, Zenon
  <2>4. QED
    BY <1>1, <2>1, <2>2, <2>3 DEF IInv, TypeOK
<1>4. IsFiniteSet({})
  BY FS_EmptySet
<1>5. EventsBalance'
  BY <1>1, <1>4 DEF EventsBalance
<1>6. /\ ListSorted' /\ ListDistinct' /\ UnreachedArmed' /\ HandledReached'
      /\ handled' \subseteq Registered' /\ ModeOK'
  BY <1>1, <1>2
  DEF IInv, ListSorted, ListDistinct, UnreachedArmed, HandledReached, ModeOK
<1>7. QED
  BY <1>3, <1>5, <1>6 DEF IInv

-------------------------------------------------------------------------------
(* The invariant holds initially.                                          *)
LEMMA InitIInv == Init => IInv
<1> SUFFICES ASSUME Init PROVE IInv
  OBVIOUS
<1>1. TypeOK
  BY DEF Init, TypeOK
<1>2. Cardinality({}) = 0 /\ IsFiniteSet({})
  BY FS_EmptySet
<1>3. EventsBalance
  BY <1>2 DEF Init, EventsBalance, Remaining
<1>4. QED
  BY <1>1, <1>3
  DEF Init, IInv, ListSorted, ListDistinct, UnreachedArmed, ModeOK, HandledReached

(* Every step keeps the invariant.                                         *)
LEMMA NextIInv == IInv /\ [Next]_vars => IInv'
<1> SUFFICES ASSUME IInv, [Next]_vars PROVE IInv'
  OBVIOUS
<1>1. CASE gpu_syncobj_signal_value
  BY <1>1, SignalValueKeepsIInv
<1>2. ASSUME NEW w \in Wait, SignalEvent(w) PROVE IInv'
  BY <1>2, SignalEventKeepsIInv
<1>3. ASSUME NEW w \in Wait, NEW p \in 1 .. MaxPoint, gpu_syncobj_wait(w, p) PROVE IInv'
  BY <1>3, RegisterKeepsIInv
<1>4. CASE handle_waits
  BY <1>4, HandleWaitsKeepsIInv
<1>5. CASE handle_waits_next
  BY <1>5, HandleWaitsNextKeepsIInv
<1>6. ASSUME NEW p \in 1 .. MaxPoint, gpu_wait(p) PROVE IInv'
  BY <1>6, GpuWaitKeepsIInv
<1>7. CASE gpu_wait_step
  BY <1>7, GpuWaitStepKeepsIInv
<1>8. CASE DestroySyncobj
  BY <1>8, DestroyKeepsIInv
<1>9. CASE UNCHANGED vars
  BY <1>9
  DEF vars, IInv, TypeOK, ListSorted, ListDistinct, EventsBalance, UnreachedArmed,
      ModeOK, HandledReached, Remaining, Registered
<1>10. QED
  BY <1>1, <1>2, <1>3, <1>4, <1>5, <1>6, <1>7, <1>8, <1>9 DEF Next

(* The inductive invariant holds in every reachable state.                 *)
THEOREM Invariance == SafeSpec => []IInv
BY InitIInv, NextIInv, PTL DEF SafeSpec

(* The counters of wait.skips and of the pops of handle_waits never        *)
(* underflow and every variable keeps its type.                            *)
THEOREM TypeCorrect == SafeSpec => []TypeOK
<1>1. IInv => TypeOK
  BY DEF IInv
<1>2. QED
  BY <1>1, Invariance, PTL

(* The comment of handle_waits: the waits it pops "must have been reached",*)
(* whatever the order in which the kernel delivers its events.             *)
THEOREM OnlyReachedAreHandled == SafeSpec => []HandledReached
<1>1. IInv => HandledReached
  BY DEF IInv
<1>2. QED
  BY <1>1, Invariance, PTL

(* The debug_assert of handle_waits never fails: there is a wait to pop.   *)
THEOREM PopsAreCovered == SafeSpec => []PopsCovered
<1>1. IInv => PopsCovered
  BY BalanceFacts DEF IInv, ModeOK, PopsCovered, Remaining
<1>2. QED
  BY <1>1, Invariance, PTL

-------------------------------------------------------------------------------
(* What the phases of SyncobjAbs are while the invariant holds.            *)
LEMMA PhaseFacts ==
  ASSUME IInv, NEW w \in Wait
  PROVE  /\ phase[w] = "new" <=> w \notin Registered
         /\ phase[w] = "handled" <=> w \in handled
         /\ phase[w] = "pending" <=> w \in Pending
         /\ w \in Pending => w \in Registered \ handled
         /\ phase \in [Wait -> {"new", "pending", "handled", "dropped"}]
<1>1. w \in Registered <=> point[w] # 0
  BY DEF Registered
<1>2. w \in Pending => w \in Registered \ handled
  BY DEF Pending, IInv, ListDistinct
<1>3. w \in handled => w \in Registered
  BY DEF IInv
<1>4. QED
  BY <1>1, <1>2, <1>3 DEF phase

(* A pop of the first wait is the Handle step of the abstract syncobj.     *)
LEMMA PopRefines ==
  ASSUME IInv, IInv', PopFirst, point[Head(list)] <= value, UNCHANGED <<value, point>>
  PROVE  Abs!Handle(Head(list))
<1> DEFINE w == Head(list)
<1>1. /\ list \in Seq(Wait) /\ DOMAIN list = 1 .. Len(list) /\ Len(list) \in Nat
      /\ list' = Tail(list) /\ handled' = handled \cup {w}
  BY DEF IInv, TypeOK, PopFirst
<1>2. /\ w = list[1] /\ w \in Wait /\ 1 \in DOMAIN list
      /\ DOMAIN list' = 1 .. Len(list) - 1
      /\ \A i \in 1 .. Len(list) - 1 : list'[i] = list[i + 1]
  BY <1>1, TailProperties DEF PopFirst
<1> HIDE DEF w
<1>3. w \in Pending
  BY <1>2 DEF Pending
<1>4. Pending' = Pending \ {w}
  <2>1. ASSUME NEW u \in Pending' PROVE u \in Pending /\ u # w
    <3>1. PICK i \in DOMAIN list' : u = list'[i]
      BY DEF Pending
    <3>2. i + 1 \in DOMAIN list /\ u = list[i + 1] /\ i + 1 # 1
      BY <3>1, <1>1, <1>2
    <3>3. list[i + 1] # list[1]
      BY <3>2, <1>2 DEF IInv, ListDistinct
    <3>4. QED
      BY <3>2, <3>3, <1>2 DEF Pending
  <2>2. ASSUME NEW u \in Pending, u # w PROVE u \in Pending'
    <3>1. PICK i \in DOMAIN list : u = list[i]
      BY DEF Pending
    <3>2. i # 1
      BY <3>1, <2>2, <1>2
    <3>3. i - 1 \in 1 .. Len(list) - 1 /\ (i - 1) + 1 = i
      BY <3>2, <1>1
    <3>4. list'[i - 1] = u
      BY <3>1, <3>3, <1>2
    <3>5. QED
      BY <3>3, <3>4, <1>2 DEF Pending
  <2>3. QED
    BY <2>1, <2>2
<1>5. phase[w] = "pending" /\ point[w] <= value
  BY <1>2, <1>3, PhaseFacts DEF w
<1>6. ASSUME NEW u \in Wait, phase[u] = "pending"
      PROVE  point[w] <= point[u]
  <2>1. PICK i \in DOMAIN list : u = list[i]
    BY <1>6, PhaseFacts DEF Pending
  <2>2. i = 1 \/ 1 < i
    BY <1>1
  <2>3. point[w] \in Nat /\ point[u] \in Nat
    BY <1>2 DEF IInv, TypeOK
  <2>4. QED
    BY <2>1, <2>2, <2>3, <1>2 DEF IInv, ListSorted
<1>7. phase' = [phase EXCEPT ![w] = "handled"]
  <2>1. ASSUME NEW u \in Wait
        PROVE  phase'[u] = IF u = w THEN "handled" ELSE phase[u]
    <3>1. point' = point
      OBVIOUS
    <3>2. u = w => u \in handled' /\ point[u] # 0
      BY <1>1, <1>3, PhaseFacts DEF Registered
    <3>3. u # w => (u \in handled' <=> u \in handled) /\ (u \in Pending' <=> u \in Pending)
      BY <1>1, <1>4
    <3>4. QED
      BY <3>1, <3>2, <3>3 DEF phase
  <2>2. phase' = [u \in Wait |-> phase'[u]] /\ phase = [u \in Wait |-> phase[u]]
    BY DEF phase
  <2>3. QED
    BY <2>1, <2>2, Zenon
<1>8. QED
  BY <1>5, <1>6, <1>7 DEF Abs!Handle, w

(* A registration is the Register step of the abstract syncobj.            *)
LEMMA RegisterRefines ==
  ASSUME IInv, IInv', NEW w \in Wait, NEW p \in 1 .. MaxPoint, gpu_syncobj_wait(w, p)
  PROVE  Abs!Register(w)
<1>1. p \in Nat \ {0}
  BY MaxPointAssumption
<1>2. /\ w \notin Registered /\ point \in [Wait -> Nat]
      /\ point' = [point EXCEPT ![w] = p] /\ value' = value /\ handled' = handled
  BY DEF gpu_syncobj_wait, IInv, TypeOK
<1>3. PICK k \in 0 .. Len(list) : list' = InsertAt(list, k + 1, w)
  BY DEF gpu_syncobj_wait
<1>4. /\ list \in Seq(Wait) /\ list' \in Seq(Wait)
      /\ Len(list') = Len(list) + 1
      /\ \A i \in 1 .. k : list'[i] = list[i]
      /\ list'[k + 1] = w
      /\ \A i \in k + 1 .. Len(list) : list'[i + 1] = list[i]
  <2>1. list \in Seq(Wait)
    BY DEF IInv, TypeOK
  <2> DEFINE l == InsertAt(list, k + 1, w)
  <2>2. l \in Seq(Wait) /\ Len(l) = Len(list) + 1 /\ l[k + 1] = w
    <3>1. l \in Seq(Wait)
      BY <2>1, InsertAtProperties
    <3>2. Len(l) = Len(list) + 1
      BY <2>1, InsertAtProperties
    <3>3. l[k + 1] = w
      BY <2>1, InsertAtProperties
    <3>4. QED
      BY <3>1, <3>2, <3>3
  <2>3. \A i \in 1 .. k : l[i] = list[i]
    BY <2>1, InsertAtProperties
  <2>4. \A i \in k + 1 .. Len(list) : l[i + 1] = list[i]
    BY <2>1, InsertAtProperties
  <2>5. list' = l
    BY <1>3
  <2> HIDE DEF l
  <2>6. QED
    BY <2>1, <2>2, <2>3, <2>4, <2>5
<1>5. /\ Len(list) \in Nat /\ DOMAIN list = 1 .. Len(list)
      /\ DOMAIN list' = 1 .. Len(list) + 1
  BY <1>4
<1>6. Pending' = Pending \cup {w}
  <2>1. w \in Pending'
    BY <1>4, <1>5 DEF Pending
  <2>2. ASSUME NEW u \in Pending PROVE u \in Pending'
    <3>1. PICK i \in 1 .. Len(list) : u = list[i]
      BY <1>5 DEF Pending
    <3>2. CASE i \in 1 .. k
      BY <3>1, <3>2, <1>4, <1>5 DEF Pending
    <3>3. CASE i \in k + 1 .. Len(list)
      <4>1. i + 1 \in DOMAIN list' /\ list'[i + 1] = u
        BY <3>1, <3>3, <1>4, <1>5
      <4>2. QED
        BY <4>1 DEF Pending
    <3>4. QED
      BY <3>2, <3>3
  <2>3. ASSUME NEW u \in Pending', u # w PROVE u \in Pending
    <3>1. PICK i \in 1 .. Len(list) + 1 : u = list'[i]
      BY <1>5 DEF Pending
    <3>2. CASE i \in 1 .. k
      BY <3>1, <3>2, <1>4, <1>5 DEF Pending
    <3>3. CASE i \in k + 2 .. Len(list) + 1
      <4>1. i - 1 \in k + 1 .. Len(list) /\ (i - 1) + 1 = i
        BY <3>3, <1>5
      <4>2. i - 1 \in DOMAIN list /\ list[i - 1] = u
        BY <4>1, <3>1, <1>4, <1>5
      <4>3. QED
        BY <4>2 DEF Pending
    <3>4. i # k + 1
      BY <3>1, <2>3, <1>4
    <3>5. QED
      BY <3>2, <3>3, <3>4
  <2>4. QED
    BY <2>1, <2>2, <2>3
<1>7. phase[w] = "new" /\ w \notin handled
  BY <1>2, PhaseFacts DEF IInv
<1>8. phase' = [phase EXCEPT ![w] = "pending"]
  <2>1. ASSUME NEW u \in Wait
        PROVE  phase'[u] = IF u = w THEN "pending" ELSE phase[u]
    <3>1. point'[u] = IF u = w THEN p ELSE point[u]
      BY <1>2
    <3>2. QED
      BY <3>1, <1>1, <1>2, <1>6, <1>7 DEF phase
  <2>2. phase' = [u \in Wait |-> phase'[u]] /\ phase = [u \in Wait |-> phase[u]]
    BY DEF phase
  <2>3. QED
    BY <2>1, <2>2, Zenon
<1>9. point'[w] = p
  BY <1>2
<1>10. QED
  BY <1>1, <1>2, <1>7, <1>8, <1>9 DEF Abs!Register

(* Destroying the syncobj drops what is pending.                           *)
LEMMA DestroyRefines ==
  ASSUME IInv, DestroySyncobj
  PROVE  Abs!Drop
<1>1. /\ UNCHANGED <<value, point, handled>> /\ Pending' = {}
  BY DEF DestroySyncobj, Pending
<1>2. ASSUME NEW u \in Wait
      PROVE  phase'[u] = IF phase[u] = "pending" THEN "dropped" ELSE phase[u]
  <2>1. u \in Pending => u \in Registered \ handled
    BY PhaseFacts
  <2>2. QED
    BY <2>1, <1>1 DEF phase, Registered
<1>3. phase' = [u \in Wait |-> phase'[u]]
  BY DEF phase
<1>4. phase' = [u \in Wait |-> IF phase[u] = "pending" THEN "dropped" ELSE phase[u]]
  BY <1>2, <1>3, Zenon
<1>5. QED
  BY <1>1, <1>4 DEF Abs!Drop

(* Steps that leave the list, the points and the history alone stutter.    *)
LEMMA PhaseUnchanged ==
  ASSUME UNCHANGED <<point, list, handled>>
  PROVE  UNCHANGED phase
BY DEF phase, Pending

(* Every step is one of the abstract specification, or none.               *)
LEMMA NextRefines ==
  ASSUME IInv, IInv', [Next]_vars
  PROVE  [Abs!Next]_Abs!vars
<1>1. CASE gpu_syncobj_signal_value
  <2>1. value' \in Nat /\ value' > value
    BY <1>1, MaxPointAssumption DEF gpu_syncobj_signal_value, IInv, TypeOK
  <2>2. UNCHANGED <<point, list, handled>>
    BY <1>1 DEF gpu_syncobj_signal_value
  <2>3. Abs!Advance
    BY <2>1, <2>2, PhaseUnchanged DEF Abs!Advance
  <2>4. QED
    BY <2>3 DEF Abs!Next
<1>2. ASSUME NEW w \in Wait, SignalEvent(w) PROVE UNCHANGED Abs!vars
  <2>1. UNCHANGED <<value, point, list, handled>>
    BY <1>2 DEF SignalEvent
  <2>2. QED
    BY <2>1, PhaseUnchanged DEF Abs!vars
<1>3. ASSUME NEW w \in Wait, NEW p \in 1 .. MaxPoint, gpu_syncobj_wait(w, p)
      PROVE  Abs!Next
  BY <1>3, RegisterRefines DEF Abs!Next
<1>4. ASSUME PopFirst, UNCHANGED <<value, point>>, point[Head(list)] <= value
      PROVE  Abs!Next
  <2>1. Abs!Handle(Head(list))
    BY <1>4, PopRefines
  <2>2. Head(list) \in Wait
    BY <1>4, TailProperties DEF PopFirst, IInv, TypeOK
  <2>3. QED
    BY <2>1, <2>2 DEF Abs!Next
<1>5. CASE handle_waits
  <2>1. CASE eventfd > skips
    <3>1. PopFirst /\ UNCHANGED <<value, point>> /\ list # <<>>
      BY <1>5, <2>1, BalanceFacts DEF handle_waits, PopFirst
    <3>2. QED
      BY <3>1, <2>1, <1>4, <1>5, PopReached
  <2>2. CASE ~(eventfd > skips)
    <3>1. UNCHANGED <<value, point, list, handled>>
      BY <1>5, <2>2 DEF handle_waits
    <3>2. QED
      BY <3>1, PhaseUnchanged DEF Abs!vars
  <2>3. QED
    BY <2>1, <2>2
<1>6. CASE handle_waits_next
  <2>1. PopFirst /\ UNCHANGED <<value, point>> /\ list # <<>>
    BY <1>6 DEF handle_waits_next, PopFirst
  <2>2. QED
    BY <2>1, <1>4, <1>6, PopReached
<1>7. ASSUME NEW p \in 1 .. MaxPoint, gpu_wait(p) PROVE UNCHANGED Abs!vars
  <2>1. UNCHANGED <<value, point, list, handled>>
    BY <1>7 DEF gpu_wait
  <2>2. QED
    BY <2>1, PhaseUnchanged DEF Abs!vars
<1>8. CASE gpu_wait_step
  <2>1. CASE list # <<>> /\ point[Head(list)] <= arg
    <3>1. PopFirst /\ UNCHANGED <<value, point>>
      BY <1>8, <2>1 DEF gpu_wait_step
    <3>2. QED
      BY <3>1, <2>1, <1>4, <1>8, PopReached
  <2>2. CASE ~(list # <<>> /\ point[Head(list)] <= arg)
    <3>1. UNCHANGED <<value, point, list, handled>>
      BY <1>8, <2>2 DEF gpu_wait_step
    <3>2. QED
      BY <3>1, PhaseUnchanged DEF Abs!vars
  <2>3. QED
    BY <2>1, <2>2
<1>9. CASE DestroySyncobj
  BY <1>9, DestroyRefines DEF Abs!Next
<1>10. CASE UNCHANGED vars
  <2>1. UNCHANGED <<value, point, list, handled>>
    BY <1>10 DEF vars
  <2>2. QED
    BY <2>1, PhaseUnchanged DEF Abs!vars
<1>11. QED
  BY <1>1, <1>2, <1>3, <1>5, <1>6, <1>7, <1>8, <1>9, <1>10 DEF Next

(* The eventfd counting protocol implements the abstract syncobj: a wait   *)
(* is handled at most once, only when its point is reached, and never      *)
(* before a pending wait for an earlier point.                             *)
THEOREM Refinement == SafeSpec => AbsSpec
<1>1. Init => Abs!Init
  BY DEF Init, Abs!Init, phase
<1>2. IInv /\ IInv' /\ [Next]_vars => [Abs!Next]_Abs!vars
  BY NextRefines
<1>3. QED
  BY <1>1, <1>2, Invariance, PTL DEF SafeSpec, AbsSpec

-------------------------------------------------------------------------------
(* Buffers: damage.                                                        *)

(* A set of numbers that is not empty has a least one.                     *)
LEMMA LeastNumber ==
  ASSUME NEW S, S \subseteq Nat, S # {}
  PROVE  \E m \in S : \A k \in S : m <= k
<1> DEFINE R == {p \in Nat \X Nat : p[1] < p[2]}
<1>1. IsWellFoundedOn(R, Nat)
  <2>1. R = OpToRel(<, Nat)
    BY DEF OpToRel
  <2> QED
    BY <2>1, NatLessThanWellFounded
<1>2. \A a, b \in Nat : a < b => <<a, b>> \in R
  OBVIOUS
<1> HIDE DEF R
<1>3. PICK m \in S : \A k \in S : ~ (<<k, m>> \in R)
  BY <1>1, WFMin
<1>4. ASSUME NEW k \in S PROVE m <= k
  <2>1. k \in Nat /\ m \in Nat
    OBVIOUS
  <2>2. ~ (k < m)
    BY <1>2, <1>3, <2>1
  <2> QED
    BY <2>1, <2>2
<1> QED
  BY <1>4

(* Bounds of a set of numbers that ends somewhere are in it.               *)
LEMMA BoundsAreMembers ==
  ASSUME NEW R, R \subseteq Nat, NEW n \in Nat, \A x \in R : x <= n, R # {}
  PROVE  Min(R) \in R /\ Max(R) \in R /\ R \subseteq Min(R) .. Max(R)
<1>1. PICK m \in R : \A x \in R : m <= x
  BY LeastNumber
<1> DEFINE D == {n - x : x \in R}
<1>2. D \subseteq Nat /\ D # {}
  <2>1. \A x \in R : n - x \in Nat
    OBVIOUS
  <2> QED
    BY <2>1
<1>3. PICK d \in D : \A e \in D : d <= e
  BY <1>2, LeastNumber
<1>4. PICK M \in R : d = n - M
  BY <1>3
<1>5. \A x \in R : M >= x
  <2> SUFFICES ASSUME NEW x \in R PROVE M >= x
    OBVIOUS
  <2>1. d <= n - x
    BY <1>3
  <2>2. x \in Nat /\ M \in Nat
    BY <1>4
  <2> QED
    BY <1>4, <2>1, <2>2
<1>6. Min(R) \in R /\ \A x \in R : Min(R) <= x
  BY <1>1 DEF Min
<1>7. Max(R) \in R /\ \A x \in R : Max(R) >= x
  BY <1>5 DEF Max
<1>8. \A x \in R : x \in Min(R) .. Max(R)
  <2> SUFFICES ASSUME NEW x \in R PROVE x \in Min(R) .. Max(R)
    OBVIOUS
  <2>1. x \in Nat /\ Min(R) \in Nat /\ Max(R) \in Nat
    BY <1>6, <1>7
  <2> QED
    BY <1>6, <1>7, <2>1
<1> QED
  BY <1>6, <1>7, <1>8

(* Bounds are around what they bound.                                      *)
LEMMA BoundsContain ==
  ASSUME NEW R, R \subseteq Nat, NEW n \in Nat, \A x \in R : x <= n
  PROVE  R \subseteq Bounds(R)
<1>1. CASE R = {}
  BY <1>1
<1>2. CASE R # {}
  BY <1>2, BoundsAreMembers DEF Bounds
<1> QED
  BY <1>1, <1>2

(* What division by a scale forgets.                                       *)
LEMMA DivFacts ==
  ASSUME NEW x \in Nat, NEW k \in Nat \ {0}
  PROVE  /\ x \div k \in Nat
         /\ (x \div k) * k <= x
         /\ x <= ((x \div k) + 1) * k - 1
  OBVIOUS

(* Scaling keeps the order.                                                *)
LEMMA TimesMore ==
  ASSUME NEW m \in Nat, NEW q \in Nat, m <= q, NEW k \in Nat \ {0}
  PROVE  m * k <= q * k
  OBVIOUS

(* A product of numbers is a number.                                       *)
LEMMA TimesType ==
  ASSUME NEW m \in Nat, NEW k \in Nat \ {0}
  PROVE  m * k \in Nat
  OBVIOUS

(* Surface damage that stands for changed pixels, scaled back, has them.   *)
LEMMA ScaledContains ==
  ASSUME NEW C, NEW n \in Nat, C \subseteq 0 .. n, NEW k \in Nat \ {0}
  PROVE  LET R == {x \div k : x \in C}
         IN  /\ C \subseteq Scaled(R, k)
             /\ Scaled(R, k) \subseteq Nat
             /\ \E N \in Nat : \A y \in Scaled(R, k) : y <= N
<1> DEFINE R == {x \div k : x \in C}
<1>1. CASE C = {}
  <2>1. R = {}
    BY <1>1
  <2>2. Scaled(R, k) = {}
    BY <2>1 DEF Scaled, Empty
  <2> QED
    BY <1>1, <2>2
<1>2. CASE C # {}
  <2>1. \A x \in C : x \in Nat /\ x <= n /\ x \div k \in Nat
    BY DivFacts
  <2>2. \A x \in C : x \div k <= n
    <3> SUFFICES ASSUME NEW x \in C PROVE x \div k <= n
      OBVIOUS
    <3>1. (x \div k) * k <= x /\ x <= n /\ x \div k \in Nat /\ x \in Nat
      BY <2>1, DivFacts
    <3>2. (x \div k) * 1 <= (x \div k) * k
      BY <3>1
    <3> QED
      BY <3>1, <3>2
  <2>3. R \subseteq Nat /\ R # {} /\ \A q \in R : q <= n
    BY <1>2, <2>1, <2>2
  <2>4. R \subseteq Bounds(R)
    BY <2>3, BoundsContain
  <2>5. Bounds(R) = Min(R) .. Max(R)
    BY <2>3 DEF Bounds
  <2>6. Min(R) \in R /\ Max(R) \in R
    BY <2>3, BoundsAreMembers
  <2> HIDE DEF R
  <2>7. Scaled(R, k) = (Min(R) * k) .. ((Max(R) + 1) * k - 1)
    BY <2>3 DEF Scaled
  <2>8. Min(R) \in Nat /\ Max(R) \in Nat
    BY <2>3, <2>6
  <2>9. Min(R) * k \in Nat /\ (Max(R) + 1) * k \in Nat
    BY <2>8, TimesType
  <2>10. \A x \in C : x \in Scaled(R, k)
    <3> SUFFICES ASSUME NEW x \in C PROVE x \in Scaled(R, k)
      OBVIOUS
    <3>1. PICK q \in Nat : q = x \div k
      BY <2>1
    <3>2. q \in R
      BY <3>1 DEF R
    <3>3. Min(R) <= q /\ q <= Max(R)
      BY <2>4, <2>5, <2>8, <3>1, <3>2
    <3>4. Min(R) * k <= q * k
      BY <2>8, <3>3, TimesMore
    <3>5. (q + 1) * k <= (Max(R) + 1) * k
      <4>1. q + 1 \in Nat /\ Max(R) + 1 \in Nat /\ q + 1 <= Max(R) + 1
        BY <2>8, <3>3
      <4> QED
        BY <4>1, TimesMore
    <3>6. x \in Nat /\ q * k <= x /\ x <= (q + 1) * k - 1
      BY <2>1, <3>1, DivFacts
    <3>7. q * k \in Nat /\ (q + 1) * k \in Nat
      BY TimesType
    <3> QED
      BY <2>7, <2>9, <3>4, <3>5, <3>6, <3>7
  <2>11. Scaled(R, k) \subseteq Nat
    BY <2>7, <2>9
  <2>12. \A y \in Scaled(R, k) : y <= (Max(R) + 1) * k
    BY <2>7, <2>9
  <2> QED
    BY <2>9, <2>10, <2>11, <2>12 DEF R
<1> QED
  BY <1>1, <1>2

(* Damage in the coordinates the compositor reads it in has all that       *)
(* changed, in whichever coordinates the client sent it.                   *)
LEMMA DamageContains ==
  ASSUME NEW C, C \subseteq Pixel, NEW k \in Nat \ {0}
  PROVE  /\ C \subseteq BufferDamage({x \div k : x \in C}, Empty, k)
         /\ C \subseteq BufferDamage(Empty, C, k)
<1>0. Width \in Nat /\ Width # 0
  BY WidthAssumption
<1>1. PICK n \in Nat : n = Width - 1
  BY <1>0
<1>2. C \subseteq 0 .. n
  BY <1>1 DEF Pixel
<1>3. C \subseteq BufferDamage({x \div k : x \in C}, Empty, k)
  <2> DEFINE T == Scaled({x \div k : x \in C}, k)
  <2>1. C \subseteq T /\ T \subseteq Nat /\ \E N \in Nat : \A y \in T : y <= N
    BY <1>2, ScaledContains
  <2> HIDE DEF T
  <2>2. T \subseteq Bounds(T)
    BY <2>1, BoundsContain
  <2>3. Empty \cup T = T
    BY DEF Empty
  <2>4. BufferDamage({x \div k : x \in C}, Empty, k) = Bounds(T)
    BY <2>3 DEF BufferDamage, T
  <2> QED
    BY <2>1, <2>2, <2>4
<1>4. C \subseteq BufferDamage(Empty, C, k)
  <2>1. C \cup Scaled(Empty, k) = C
    BY DEF Scaled, Empty
  <2>2. C \subseteq Nat /\ \A x \in C : x <= n
    BY <1>2
  <2>3. C \subseteq Bounds(C)
    BY <2>2, BoundsContain
  <2> QED
    BY <2>1, <2>3 DEF BufferDamage
<1> QED
  BY <1>3, <1>4

-------------------------------------------------------------------------------
(* Buffers: planes and leases.                                             *)

(* All planes that were added have the one modifier that is kept.          *)
ParamsOK ==
  /\ params = [planes |-> params.planes, modifier |-> params.modifier,
               poisoned |-> params.poisoned]
  /\ \A i \in DOMAIN params.planes : params.planes[i] = params.modifier

(* A frame protects what it draws.                                         *)
ProtectedOK ==
  /\ protected \in Seq([draws : SUBSET Dma, objects : SUBSET Dma])
  /\ \A i \in DOMAIN protected : protected[i].draws \subseteq protected[i].objects

(* A dmabuf that a client can be told of is its again only without lease.  *)
HeldIsBusy ==
  \A b \in Dma :
    b \in wl_buffer \cup Explicit /\ b \in Held(current, texture, protected) => b \in busy

(* The images a surface or a texture may have.                             *)
ImageOK(i) == i \in Dma \cup {Copy(s) : s \in Surface} \cup {Null}

(* UsedIsBusy is not inductive: what a frame draws is only kept because    *)
(* the frame protects it, and a lease has more holders than those that     *)
(* draw the image.                                                         *)
BufferIInv ==
  /\ BufferTypeOK
  /\ ParamsOK
  /\ mixed = {}
  /\ ProtectedOK
  /\ HeldIsBusy

(* What the assumptions say of names.                                      *)
LEMMA BufferNames ==
  /\ Null \notin Dma /\ Null \notin Shm
  /\ \A b \in Shm : b \notin Dma
  /\ \A s \in Surface : Copy(s) \notin Dma /\ Copy(s) # Null
  BY BufferAssumption, CopyAssumption DEF Buffer

(* Whoever holds a lease after a step held it before or takes it; what is  *)
(* let go of is all that is given back.                                    *)
LEMMA LeaseStep ==
  ASSUME HeldIsBusy, NEW cur, NEW tex, NEW prot, NEW taken,
         Held(cur, tex, prot) \cap Dma \subseteq Held(current, texture, protected) \cup taken,
         NEW given, given = (busy \cup taken) \ Released(cur, tex, prot, wl_buffer)
  PROVE  \A b \in Dma : b \in wl_buffer \cup Explicit /\ b \in Held(cur, tex, prot) => b \in given
<1> SUFFICES ASSUME NEW b \in Dma, b \in wl_buffer \cup Explicit, b \in Held(cur, tex, prot)
             PROVE  b \in given
  OBVIOUS
<1>1. b \in busy \cup taken
  BY DEF HeldIsBusy
<1>2. b \notin Released(cur, tex, prot, wl_buffer)
  BY DEF Released
<1> QED
  BY <1>1, <1>2

(* Who holds what, element by element.                                     *)
LEMMA HeldFacts ==
  ASSUME NEW cur, NEW tex, NEW prot, NEW b
  PROVE  b \in Held(cur, tex, prot)
           <=> \/ \E s \in Surface : cur[s].image = b
               \/ \E s \in Surface : tex[s] = b
               \/ \E i \in DOMAIN prot : b \in prot[i].objects
  BY DEF Held, Range

(* Releasing takes buffers away.                                           *)
LEMMA BusyType ==
  ASSUME BufferTypeOK, NEW b \in Buffer, NEW gone
  PROVE  (busy \cup {b}) \ gone \subseteq Buffer /\ busy \ gone \subseteq Buffer
  BY DEF BufferTypeOK

-------------------------------------------------------------------------------
(* Buffers: the steps.                                                     *)

(* Nothing is held at first.                                               *)
LEMMA BufferInitIInv == BufferInit => BufferIInv
<1> SUFFICES ASSUME BufferInit PROVE BufferIInv
  OBVIOUS
<1>0. NoState \in [buffer : Buffer \cup {Null}, image : {Null}, pixels : [Pixel -> {0, 1, Null}],
                  scale : Scales \cup {1}]
  BY DEF NoState
<1>1. BufferTypeOK
  BY <1>0 DEF BufferInit, BufferTypeOK, Buffer
<1>2. ParamsOK
  <2>1. DOMAIN <<>> = {}
    OBVIOUS
  <2> QED
    BY <2>1 DEF BufferInit, ParamsOK, NoParams
<1>3. ProtectedOK
  BY DEF BufferInit, ProtectedOK
<1>4. HeldIsBusy
  <2> SUFFICES ASSUME NEW b \in Dma, b \in Held(current, texture, protected) PROVE FALSE
    BY DEF HeldIsBusy
  <2>1. b # Null
    BY BufferNames
  <2>2. \A s \in Surface : current[s].image = Null /\ texture[s] = Null
    BY DEF BufferInit, NoState
  <2>3. DOMAIN protected = {}
    BY DEF BufferInit
  <2> QED
    BY <2>1, <2>2, <2>3, HeldFacts
<1> QED
  BY <1>1, <1>2, <1>3, <1>4 DEF BufferIInv, BufferInit

(* What the states of a surface may be.                                    *)
StateSet ==
  [buffer : Buffer \cup {Null}, image : Dma \cup {Copy(s) : s \in Surface} \cup {Null},
   pixels : [Pixel -> {0, 1, Null}], scale : Scales \cup {1}]

(* A step that leaves the leases and what is given back.                   *)
LEMMA LeavesLeases ==
  ASSUME BufferIInv, UNCHANGED <<current, texture, protected>>,
         \A b \in Dma : b \in busy /\ b \in wl_buffer' \cup Explicit
                         /\ b \in Held(current, texture, protected) => b \in busy',
         \A b \in Dma : b \in wl_buffer' /\ b \in Held(current, texture, protected) => b \in wl_buffer
  PROVE  HeldIsBusy' /\ ProtectedOK'
<1>1. ProtectedOK'
  BY DEF BufferIInv, ProtectedOK
<1>2. HeldIsBusy'
  BY DEF BufferIInv, HeldIsBusy
<1> QED
  BY <1>1, <1>2

(* Adding a plane keeps the planes of one modifier.                        *)
LEMMA ParamsAddKeeps ==
  ASSUME BufferIInv, NEW idx, NEW modifier, params_add(idx, modifier)
  PROVE  BufferIInv'
<1>1. BufferTypeOK'
  BY DEF params_add, BufferIInv, BufferTypeOK
<1>2. ParamsOK'
  <2> DEFINE p == WithPlane(idx, modifier)
  <2>1. DOMAIN p = DOMAIN params.planes \cup {idx}
    BY DEF WithPlane
  <2>2. \A i \in DOMAIN p : p[i] = IF i = idx THEN modifier ELSE params.planes[i]
    BY DEF WithPlane
  <2>3. CASE params.planes # <<>> /\ params.modifier # modifier
    <3>1. params' = [planes |-> <<>>, modifier |-> Null, poisoned |-> TRUE]
      BY <2>3 DEF params_add, NoParams
    <3>2. DOMAIN <<>> = {}
      OBVIOUS
    <3> QED
      BY <3>1, <3>2 DEF ParamsOK
  <2>4. CASE ~(params.planes # <<>> /\ params.modifier # modifier)
    <3> HIDE DEF p
    <3>1. params' = [planes |-> p, modifier |-> modifier, poisoned |-> params.poisoned]
      BY <2>4 DEF params_add, BufferIInv, ParamsOK, p
    <3>2. \A i \in DOMAIN params.planes : params.planes[i] = modifier
      <4>1. DOMAIN <<>> = {}
        OBVIOUS
      <4> QED
        BY <2>4, <4>1 DEF BufferIInv, ParamsOK
    <3>3. \A i \in DOMAIN p : p[i] = modifier
      BY <2>1, <2>2, <3>2
    <3> QED
      BY <3>1, <3>3 DEF ParamsOK
  <2> QED
    BY <2>3, <2>4
<1>3. ProtectedOK' /\ HeldIsBusy'
  BY LeavesLeases DEF params_add
<1> QED
  BY <1>1, <1>2, <1>3 DEF BufferIInv, params_add

(* A new dmabuf has no lease, and planes of one modifier.                  *)
LEMMA CreateDmabufKeeps ==
  ASSUME BufferIInv, NEW b \in Dma, create_dmabuf(b)
  PROVE  BufferIInv'
<1>1. BufferTypeOK'
  BY DEF create_dmabuf, BufferIInv, BufferTypeOK, Buffer
<1>2. ParamsOK'
  <2>1. DOMAIN <<>> = {}
    OBVIOUS
  <2> QED
    BY <2>1 DEF create_dmabuf, NoParams, ParamsOK
<1>3. ProtectedOK' /\ HeldIsBusy'
  <2>1. b \notin Held(current, texture, protected)
    BY DEF create_dmabuf
  <2> QED
    BY <2>1, LeavesLeases DEF create_dmabuf
<1>4. mixed' = {}
  <2>1. PICK i \in DOMAIN params.planes : TRUE
    BY DEF create_dmabuf, Complete
  <2>2. Range(params.planes) = {params.modifier}
    BY <2>1 DEF Range, BufferIInv, ParamsOK
  <2>3. Cardinality(Range(params.planes)) = 1
    BY <2>2, FS_Singleton
  <2> QED
    BY <2>3 DEF create_dmabuf, BufferIInv
<1> QED
  BY <1>1, <1>2, <1>3, <1>4 DEF BufferIInv

(* A buffer that is destroyed is given back, but for explicit ones.        *)
LEMMA OtherRequestsKeep ==
  ASSUME BufferIInv,
         \/ \E b \in Shm : create_shm_buffer(b)
         \/ \E b \in Buffer : destroy_buffer(b)
         \/ \E b \in Shm, x \in Pixel : Write(b, x)
  PROVE  BufferIInv'
<1>1. ASSUME NEW b \in Shm, create_shm_buffer(b) PROVE BufferIInv'
  <2>1. BufferTypeOK'
    BY <1>1 DEF create_shm_buffer, BufferIInv, BufferTypeOK, Buffer
  <2>2. ParamsOK'
    BY <1>1 DEF create_shm_buffer, BufferIInv, ParamsOK
  <2>3. ProtectedOK' /\ HeldIsBusy'
    BY <1>1, LeavesLeases, BufferNames DEF create_shm_buffer
  <2> QED
    BY <1>1, <2>1, <2>2, <2>3 DEF BufferIInv, create_shm_buffer
<1>2. ASSUME NEW b \in Buffer, destroy_buffer(b) PROVE BufferIInv'
  <2>1. BufferTypeOK'
    BY <1>2 DEF destroy_buffer, BufferIInv, BufferTypeOK, Buffer
  <2>2. ParamsOK'
    BY <1>2 DEF destroy_buffer, BufferIInv, ParamsOK
  <2>3. ProtectedOK' /\ HeldIsBusy'
    BY <1>2, LeavesLeases DEF destroy_buffer
  <2> QED
    BY <1>2, <2>1, <2>2, <2>3 DEF BufferIInv, destroy_buffer
<1>3. ASSUME NEW b \in Shm, NEW x \in Pixel, Write(b, x) PROVE BufferIInv'
  <2>1. BufferTypeOK'
    <3>1. memory[b][x] \in {0, 1} /\ memory[b] \in [Pixel -> {0, 1}]
      BY DEF BufferIInv, BufferTypeOK
    <3>2. 1 - memory[b][x] \in {0, 1}
      BY <3>1
    <3>3. PICK v \in {0, 1} : v = 1 - memory[b][x]
      BY <3>2
    <3>4. memory' = [memory EXCEPT ![b] = [memory[b] EXCEPT ![x] = v]]
      BY <1>3, <3>3 DEF Write, BufferIInv, BufferTypeOK
    <3>5. PICK row \in [Pixel -> {0, 1}] : row = [memory[b] EXCEPT ![x] = v]
      BY <3>1
    <3>6. memory' \in [Shm -> [Pixel -> {0, 1}]]
      BY <3>4, <3>5 DEF BufferIInv, BufferTypeOK
    <3> QED
      BY <1>3, <3>6 DEF Write, BufferIInv, BufferTypeOK
  <2>2. ParamsOK'
    BY <1>3 DEF Write, BufferIInv, ParamsOK
  <2>3. ProtectedOK' /\ HeldIsBusy'
    BY <1>3, LeavesLeases DEF Write
  <2> QED
    BY <1>3, <2>1, <2>2, <2>3 DEF BufferIInv, Write
<1> QED
  BY <1>1, <1>2, <1>3

(* A surface gets a state and an image, and what nobody holds any more is  *)
(* given back.                                                             *)
SurfaceStep(s, state, img, taken) ==
  /\ current' = [current EXCEPT ![s] = state]
  /\ texture' = [texture EXCEPT ![s] = img]
  /\ busy' = (busy \cup taken) \ Released(current', texture', protected, wl_buffer)
  /\ crashed' \in BOOLEAN
  /\ UNCHANGED <<wl_buffer, mixed, imported, params, protected, memory>>

(* What a surface gets is leased before or now.                            *)
Leased(i, taken) == i \in Dma => i \in Held(current, texture, protected) \cup taken

(* What changes between two commits of a surface is what BufferIInv says.  *)
LEMMA SurfaceStepKeeps ==
  ASSUME BufferIInv, NEW s \in Surface, NEW state \in StateSet, NEW img, ImageOK(img),
         NEW taken, taken \subseteq Buffer,
         Leased(state.image, taken), Leased(img, taken), SurfaceStep(s, state, img, taken)
  PROVE  BufferIInv'
<1> USE DEF SurfaceStep, Leased
<1>1. BufferTypeOK'
  BY DEF BufferIInv, BufferTypeOK, StateSet, ImageOK
<1>2. \A t \in Surface : /\ current'[t] = IF t = s THEN state ELSE current[t]
                       /\ texture'[t] = IF t = s THEN img ELSE texture[t]
  BY DEF BufferIInv, BufferTypeOK
<1>3. ASSUME NEW b \in Dma, b \in Held(current', texture', protected')
      PROVE  b \in Held(current, texture, protected) \cup taken
  <2>1. PICK cur, tex : cur = current' /\ tex = texture'
    OBVIOUS
  <2>2. b \in Held(cur, tex, protected)
    BY <1>3, <2>1
  <2>3. \/ \E t \in Surface : cur[t].image = b
        \/ \E t \in Surface : tex[t] = b
        \/ \E i \in DOMAIN protected : b \in protected[i].objects
    BY <2>2, HeldFacts
  <2>4. CASE \E t \in Surface : cur[t].image = b
    BY <1>2, <2>1, <2>4, HeldFacts
  <2>5. CASE \E t \in Surface : tex[t] = b
    BY <1>2, <2>1, <2>5, HeldFacts
  <2>6. CASE \E i \in DOMAIN protected : b \in protected[i].objects
    BY <2>6, HeldFacts
  <2> QED
    BY <2>3, <2>4, <2>5, <2>6
<1>4. HeldIsBusy'
  <2>1. PICK cur, tex, given : cur = current' /\ tex = texture' /\ given = busy'
    OBVIOUS
  <2>2. \A b \in Dma : b \in wl_buffer \cup Explicit /\ b \in Held(cur, tex, protected) => b \in given
    <3>1. Held(cur, tex, protected) \cap Dma \subseteq Held(current, texture, protected) \cup taken
      BY <1>3, <2>1
    <3>2. given = (busy \cup taken) \ Released(cur, tex, protected, wl_buffer)
      BY <2>1
    <3> QED
      BY <3>1, <3>2, LeaseStep DEF BufferIInv
  <2> QED
    BY <2>1, <2>2 DEF HeldIsBusy
<1>5. ParamsOK' /\ ProtectedOK' /\ mixed' = {}
  BY DEF BufferIInv, ParamsOK, ProtectedOK
<1> QED
  BY <1>1, <1>4, <1>5 DEF BufferIInv

(* A copy of shared memory: an image of two values a pixel.                *)
LEMMA CopiedType ==
  ASSUME BufferTypeOK, NEW s \in Surface, NEW b \in Shm, NEW damage
  PROVE  Copied(s, b, damage) \in [Pixel -> {0, 1, Null}]
<1>1. memory[b] \in [Pixel -> {0, 1}]
  BY DEF BufferTypeOK
<1>2. current[s].pixels \in [Pixel -> {0, 1, Null}]
  BY DEF BufferTypeOK
<1> QED
  BY <1>1, <1>2 DEF Copied

(* A commit leases the dmabuf, or leaves a copy and no lease.              *)
LEMMA CommitKeeps ==
  ASSUME BufferIInv, NEW s \in Surface, NEW b \in Buffer, NEW in_surface \in BOOLEAN,
         NEW set_scale \in Scales \cup {Null}, Commit(s, b, in_surface, set_scale)
  PROVE  BufferIInv'
<1>1. PICK k : k = IF set_scale = Null THEN 1 ELSE set_scale
  OBVIOUS
<1>2. PICK scale : scale = IF set_scale = Null THEN current[s].scale ELSE set_scale
  OBVIOUS
<1>3. scale \in Scales \cup {1}
  BY <1>2 DEF BufferIInv, BufferTypeOK
<1>4. UNCHANGED <<wl_buffer, mixed, imported, params, protected, memory>>
  BY DEF Commit
<1>5. CASE b \in Shm
  <2>1. PICK damage : ShmAcquire(s, b, damage, scale)
    BY <1>2, <1>5 DEF Commit
  <2> DEFINE state == [buffer |-> b, image |-> Copy(s), pixels |-> Copied(s, b, damage),
                       scale |-> scale]
  <2>2. state \in StateSet
    <3>1. Copied(s, b, damage) \in [Pixel -> {0, 1, Null}]
      BY <1>5, CopiedType DEF BufferIInv
    <3> QED
      BY <1>3, <3>1 DEF StateSet
  <2>3. current' = [current EXCEPT ![s] = state] /\ texture' = [texture EXCEPT ![s] = Copy(s)]
    BY <2>1 DEF ShmAcquire
  <2>4. busy' = (busy \cup {}) \ Released(current', texture', protected, wl_buffer)
    BY <2>1 DEF ShmAcquire
  <2>5. crashed' \in BOOLEAN
    BY <2>1 DEF ShmAcquire, BufferIInv, BufferTypeOK
  <2>6. state.image = Copy(s) /\ Copy(s) \notin Dma /\ ImageOK(Copy(s))
    BY BufferNames DEF ImageOK
  <2> HIDE DEF state
  <2>7. SurfaceStep(s, state, Copy(s), {})
    BY <1>4, <2>3, <2>4, <2>5 DEF SurfaceStep
  <2>8. Leased(state.image, {}) /\ Leased(Copy(s), {})
    BY <2>6 DEF Leased
  <2> QED
    BY <2>2, <2>6, <2>7, <2>8, SurfaceStepKeeps
<1>6. CASE b \notin Shm
  <2>1. b \in Dma
    BY <1>6 DEF Buffer
  <2>2. DmaAcquire(s, b, scale)
    BY <1>2, <1>6 DEF Commit
  <2>0. PICK p \in [Pixel -> {0, 1, Null}] : p = NoState.pixels
    BY DEF NoState
  <2> DEFINE state == [buffer |-> b, image |-> b, pixels |-> p, scale |-> scale]
  <2>3. state \in StateSet
    BY <1>3, <2>1 DEF StateSet
  <2>4. current' = [current EXCEPT ![s] = state] /\ texture' = [texture EXCEPT ![s] = b]
    BY <2>0, <2>2 DEF DmaAcquire
  <2>5. busy' = (busy \cup {b}) \ Released(current', texture', protected, wl_buffer)
    BY <2>2 DEF DmaAcquire
  <2>6. crashed' \in BOOLEAN
    BY <2>2 DEF DmaAcquire
  <2>7. state.image = b /\ ImageOK(b)
    BY <2>1 DEF ImageOK
  <2> HIDE DEF state
  <2>8. SurfaceStep(s, state, b, {b})
    BY <1>4, <2>4, <2>5, <2>6 DEF SurfaceStep
  <2>9. Leased(state.image, {b}) /\ Leased(b, {b})
    BY <2>7 DEF Leased
  <2> QED
    BY <2>3, <2>7, <2>8, <2>9, SurfaceStepKeeps
<1> QED
  BY <1>5, <1>6

(* Without a buffer the texture lets go, the image of the state stays.     *)
LEMMA CommitNullKeeps ==
  ASSUME BufferIInv, NEW s \in Surface, CommitNull(s)
  PROVE  BufferIInv'
<1>1. current[s] \in StateSet
  BY DEF BufferIInv, BufferTypeOK, StateSet
<1>2. PICK state : state = [current[s] EXCEPT !.buffer = Null]
  OBVIOUS
<1>3. state \in StateSet /\ state.image = current[s].image
  BY <1>1, <1>2 DEF StateSet
<1>4. current' = [current EXCEPT ![s] = state]
  BY <1>2 DEF CommitNull, BufferIInv, BufferTypeOK
<1>5. state.image \in Held(current, texture, protected)
  BY <1>3, HeldFacts
<1>6. Null \notin Dma /\ ImageOK(Null)
  BY BufferNames DEF ImageOK
<1>7. busy' = (busy \cup {}) \ Released(current', texture', protected, wl_buffer)
  BY DEF CommitNull
<1>8. texture' = [texture EXCEPT ![s] = Null] /\ crashed' \in BOOLEAN
  BY DEF CommitNull, BufferIInv, BufferTypeOK
<1>9. UNCHANGED <<wl_buffer, mixed, imported, params, protected, memory>>
  BY DEF CommitNull
<1>10. SurfaceStep(s, state, Null, {})
  BY <1>4, <1>7, <1>8, <1>9 DEF SurfaceStep
<1>11. Leased(state.image, {}) /\ Leased(Null, {})
  BY <1>5, <1>6 DEF Leased
<1> QED
  BY <1>3, <1>6, <1>10, <1>11, SurfaceStepKeeps

(* A frame protects images that textures hold already.                     *)
LEMMA RenderKeeps ==
  ASSUME BufferIInv, scene_render
  PROVE  BufferIInv'
<1> DEFINE frame == [draws |-> Drawn, objects |-> Drawn]
<1>1. BufferTypeOK' /\ ParamsOK' /\ mixed' = {}
  BY DEF scene_render, BufferIInv, BufferTypeOK, ParamsOK
<1>2. Drawn \subseteq Dma /\ \A b \in Drawn : \E s \in Surface : texture[s] = b
  BY DEF Drawn
<1>3. frame \in [draws : SUBSET Dma, objects : SUBSET Dma]
  BY <1>2
<1> HIDE DEF frame
<1>4. PICK n \in Nat : n = Len(protected)
  BY DEF BufferIInv, ProtectedOK
<1>5. /\ protected' \in Seq([draws : SUBSET Dma, objects : SUBSET Dma])
      /\ DOMAIN protected = 1 .. n /\ DOMAIN protected' = 1 .. n + 1
      /\ \A i \in 1 .. n : protected'[i] = protected[i]
      /\ protected'[n + 1] = frame
  BY <1>3, <1>4 DEF scene_render, BufferIInv, ProtectedOK, frame
<1>6. frame.draws = Drawn /\ frame.objects = Drawn
  BY DEF frame
<1>7. ProtectedOK'
  <2> SUFFICES ASSUME NEW i \in DOMAIN protected'
               PROVE  protected'[i].draws \subseteq protected'[i].objects
    BY <1>5 DEF ProtectedOK
  <2>1. CASE i \in 1 .. n
    BY <1>5, <2>1 DEF BufferIInv, ProtectedOK
  <2>2. CASE i = n + 1
    BY <1>5, <1>6, <2>2
  <2> QED
    BY <1>5, <2>1, <2>2
<1>8. HeldIsBusy'
  <2> SUFFICES ASSUME NEW b \in Dma, b \in wl_buffer \cup Explicit,
                      b \in Held(current, texture, protected')
               PROVE  b \in busy
    BY DEF HeldIsBusy, scene_render
  <2>1. PICK prot : prot = protected'
    OBVIOUS
  <2>2. \/ \E s \in Surface : current[s].image = b
        \/ \E s \in Surface : texture[s] = b
        \/ \E i \in DOMAIN prot : b \in prot[i].objects
    BY <2>1, HeldFacts
  <2>3. ASSUME NEW i \in DOMAIN prot, b \in prot[i].objects
        PROVE  b \in Held(current, texture, protected)
    <3>1. CASE i \in 1 .. n
      BY <1>5, <2>1, <2>3, <3>1, HeldFacts
    <3>2. CASE i = n + 1
      BY <1>2, <1>5, <1>6, <2>1, <2>3, <3>2, HeldFacts
    <3> QED
      BY <1>5, <2>1, <3>1, <3>2
  <2>4. b \in Held(current, texture, protected)
    BY <2>2, <2>3, HeldFacts
  <2> QED
    BY <2>4 DEF BufferIInv, HeldIsBusy
<1> QED
  BY <1>1, <1>7, <1>8 DEF BufferIInv

(* The objects of finished commands are let go of.                         *)
LEMMA FinishedKeeps ==
  ASSUME BufferIInv, Finished
  PROVE  BufferIInv'
<1>1. BufferTypeOK' /\ ParamsOK' /\ mixed' = {}
  BY DEF Finished, BufferIInv, BufferTypeOK, ParamsOK
<1>2. /\ protected' \in Seq([draws : SUBSET Dma, objects : SUBSET Dma])
      /\ \A i \in DOMAIN protected' : i + 1 \in DOMAIN protected /\ protected'[i] = protected[i + 1]
  BY DEF Finished, BufferIInv, ProtectedOK
<1>3. ProtectedOK'
  BY <1>2 DEF BufferIInv, ProtectedOK
<1>4. PICK prot, given : prot = protected' /\ given = busy'
  OBVIOUS
<1>5. Held(current, texture, prot) \subseteq Held(current, texture, protected)
  <2> SUFFICES ASSUME NEW b \in Held(current, texture, prot)
               PROVE  b \in Held(current, texture, protected)
    OBVIOUS
  <2>1. (\E i \in DOMAIN prot : b \in prot[i].objects)
          => \E i \in DOMAIN protected : b \in protected[i].objects
    BY <1>2, <1>4
  <2> QED
    BY <2>1, HeldFacts
<1>6. given = (busy \cup {}) \ Released(current, texture, prot, wl_buffer)
  BY <1>4 DEF Finished
<1>7. \A b \in Dma : b \in wl_buffer \cup Explicit /\ b \in Held(current, texture, prot) => b \in given
  <2>1. Held(current, texture, prot) \cap Dma \subseteq Held(current, texture, protected) \cup {}
    BY <1>5
  <2> QED
    BY <1>6, <2>1, LeaseStep DEF BufferIInv
<1>8. HeldIsBusy'
  BY <1>4, <1>7 DEF HeldIsBusy, Finished
<1> QED
  BY <1>1, <1>3, <1>8 DEF BufferIInv

(* Every step keeps the leases.                                            *)
LEMMA BufferStepKeeps == BufferIInv /\ [BufferNext]_buffer_vars => BufferIInv'
<1> SUFFICES ASSUME BufferIInv, [BufferNext]_buffer_vars PROVE BufferIInv'
  OBVIOUS
<1>1. CASE Request
  BY <1>1, ParamsAddKeeps, CreateDmabufKeeps, OtherRequestsKeep, CommitKeeps, CommitNullKeeps
  DEF Request
<1>2. CASE \E b \in Shm, x \in Pixel : Write(b, x)
  BY <1>2, OtherRequestsKeep
<1>3. CASE scene_render
  BY <1>3, RenderKeeps
<1>4. CASE Finished
  BY <1>4, FinishedKeeps
<1>5. CASE UNCHANGED buffer_vars
  <2>1. BufferTypeOK' /\ ParamsOK' /\ ProtectedOK' /\ mixed' = {}
    BY <1>5 DEF buffer_vars, BufferIInv, BufferTypeOK, ParamsOK, ProtectedOK
  <2>2. HeldIsBusy'
    BY <1>5 DEF buffer_vars, BufferIInv, HeldIsBusy
  <2> QED
    BY <2>1, <2>2 DEF BufferIInv
<1> QED
  BY <1>1, <1>2, <1>3, <1>4, <1>5 DEF BufferNext

(* Whatever clients do with buffers and however long the GPU works, all    *)
(* planes have one modifier and nothing that is leased was given back.     *)
THEOREM BufferInvariance == BufferSpec => []BufferIInv
<1>1. BufferSpec => BufferInit /\ [][BufferNext]_buffer_vars
  BY PTL DEF BufferSpec
<1> QED
  BY <1>1, BufferInitIInv, BufferStepKeeps, PTL

(* params_add and create_buffer: a dmabuf is only made of planes 0, 1, ..  *)
(* without a gap that were all sent with one modifier.                     *)
THEOREM PlanesAlwaysAgree == BufferSpec => []PlanesAgree
<1>1. BufferIInv => PlanesAgree
  BY DEF BufferIInv, PlanesAgree
<1> QED
  BY <1>1, BufferInvariance, PTL

(* WayDmaBuffer: no dmabuf is given back to its client while a surface, a  *)
(* texture or a frame the GPU works on uses its image.                     *)
THEOREM UsedAreNeverReleased == BufferSpec => []UsedIsBusy
<1>1. BufferIInv => UsedIsBusy
  <2> SUFFICES ASSUME BufferIInv, NEW b \in Dma, b \in wl_buffer \cup Explicit,
                      \/ \E s \in Surface : b \in {current[s].image, texture[s]}
                      \/ \E frame \in Range(protected) : b \in frame.draws
               PROVE  b \in busy
    BY DEF UsedIsBusy
  <2>1. CASE \E s \in Surface : b \in {current[s].image, texture[s]}
    BY <2>1, HeldFacts DEF BufferIInv, HeldIsBusy
  <2>2. CASE \E frame \in Range(protected) : b \in frame.draws
    <3>1. PICK i \in DOMAIN protected : b \in protected[i].draws
      BY <2>2 DEF Range
    <3>2. b \in protected[i].objects
      BY <3>1 DEF BufferIInv, ProtectedOK
    <3> QED
      BY <3>2, HeldFacts DEF BufferIInv, HeldIsBusy
  <2> QED
    BY <2>1, <2>2
<1> QED
  BY <1>1, BufferInvariance, PTL

-------------------------------------------------------------------------------
(* Buffers: what is copied.                                                *)

(* A commit of shared memory copies all that changed, if its damage is in  *)
(* the scale the code reads it in.                                         *)
LEMMA CommitShows ==
  ASSUME BufferIInv, ~Sticky, NEW s \in Surface, NEW b \in Shm, NEW in_surface \in BOOLEAN,
         NEW set_scale \in Scales \cup {Null}, Commit(s, b, in_surface, set_scale)
  PROVE  current'[s].pixels = memory[b]
<1>1. PICK k : k = IF set_scale = Null THEN 1 ELSE set_scale
  OBVIOUS
<1>2. PICK scale : scale = IF set_scale = Null THEN current[s].scale ELSE set_scale
  OBVIOUS
<1>3. k \in Nat \ {0}
  BY <1>1, WidthAssumption
<1>4. PICK C : C = Changed(s, b)
  OBVIOUS
<1>5. C \subseteq Pixel /\ \A x \in Pixel : x \notin C /\ try_steal(s) => current[s].pixels[x] = memory[b][x]
  BY <1>4 DEF Changed, try_steal
<1>6. PICK damage : /\ ShmAcquire(s, b, damage, scale)
                    /\ damage = BufferDamage(IF in_surface THEN {x \div scale : x \in C} ELSE Empty,
                                             IF in_surface THEN Empty ELSE C, k)
  BY <1>1, <1>2, <1>4 DEF Commit
<1>7. C \subseteq damage
  <2>1. CASE in_surface
    <3>1. scale = k
      BY <1>1, <1>2, <2>1 DEF Commit
    <3>2. damage = BufferDamage({x \div k : x \in C}, Empty, k)
      BY <1>6, <2>1, <3>1
    <3> QED
      BY <1>3, <1>5, <3>2, DamageContains
  <2>2. CASE ~in_surface
    <3>1. damage = BufferDamage(Empty, C, k)
      BY <1>6, <2>2
    <3> QED
      BY <1>3, <1>5, <3>1, DamageContains
  <2> QED
    BY <2>1, <2>2
<1>8. current'[s].pixels = Copied(s, b, damage)
  BY <1>6 DEF ShmAcquire, BufferIInv, BufferTypeOK
<1>9. memory[b] \in [Pixel -> {0, 1}]
  BY DEF BufferIInv, BufferTypeOK
<1>10. \A x \in Pixel : (IF x \in damage \/ ~try_steal(s) THEN memory[b][x] ELSE current[s].pixels[x])
                         = memory[b][x]
  BY <1>5, <1>7
<1>11. Copied(s, b, damage) = [x \in Pixel |-> memory[b][x]]
  BY <1>10 DEF Copied
<1> QED
  BY <1>8, <1>9, <1>11

(* WayShmBuffer::acquire: after a commit the surface's image is the buffer *)
(* with all its pixels, although only what is damaged was copied, when no  *)
(* surface damage counts in a scale of an earlier commit (~Sticky).        *)
THEOREM CommitsAreShown == ~Sticky => (BufferSpec => ShmShown)
<1>1. ASSUME ~Sticky PROVE BufferSpec => ShmShown
  <2> DEFINE Shown == \A s \in Surface :
               current'[s] # current[s] /\ current'[s].buffer \in Shm
                 => current'[s].pixels = memory[current'[s].buffer]
  <2>1. BufferIInv /\ [BufferNext]_buffer_vars => [Shown]_buffer_vars
    <3> SUFFICES ASSUME BufferIInv, BufferNext, NEW s \in Surface,
                        current'[s] # current[s], current'[s].buffer \in Shm
                 PROVE  current'[s].pixels = memory[current'[s].buffer]
      OBVIOUS
    <3>1. \/ \E t \in Surface, b \in Buffer, in_surface \in BOOLEAN, set_scale \in Scales \cup {Null} :
               Commit(t, b, in_surface, set_scale)
          \/ \E t \in Surface : CommitNull(t)
      BY DEF BufferNext, Request, params_add, create_dmabuf, create_shm_buffer, destroy_buffer,
             Write, scene_render, Finished
    <3>2. ASSUME NEW t \in Surface, CommitNull(t) PROVE FALSE
      <4>1. current'[t].buffer = Null /\ \A u \in Surface \ {t} : current'[u] = current[u]
        BY <3>2 DEF CommitNull, BufferIInv, BufferTypeOK
      <4> QED
        BY <4>1, BufferNames
    <3>3. ASSUME NEW t \in Surface, NEW b \in Buffer, NEW in_surface \in BOOLEAN,
                 NEW set_scale \in Scales \cup {Null}, Commit(t, b, in_surface, set_scale)
          PROVE  current'[s].pixels = memory[current'[s].buffer]
      <4>1. /\ \A u \in Surface \ {t} : current'[u] = current[u]
            /\ current'[t].buffer = b
        <5>1. PICK damage, scale : ShmAcquire(t, b, damage, scale) \/ DmaAcquire(t, b, scale)
          BY <3>3 DEF Commit
        <5>2. CASE ShmAcquire(t, b, damage, scale)
          BY <5>2 DEF ShmAcquire, BufferIInv, BufferTypeOK
        <5>3. CASE DmaAcquire(t, b, scale)
          BY <5>3 DEF DmaAcquire, BufferIInv, BufferTypeOK
        <5> QED
          BY <5>1, <5>2, <5>3
      <4>2. t = s /\ b \in Shm
        BY <4>1
      <4>3. Commit(s, b, in_surface, set_scale)
        BY <3>3, <4>2
      <4>4. current'[s].pixels = memory[b]
        BY <1>1, <4>2, <4>3, CommitShows
      <4> QED
        BY <4>1, <4>2, <4>4
    <3> QED
      BY <3>1, <3>2, <3>3
  <2>2. BufferSpec => [][BufferNext]_buffer_vars
    BY PTL DEF BufferSpec
  <2> QED
    BY <2>1, <2>2, BufferInvariance, PTL DEF ShmShown
<1> QED
  BY <1>1
===============================================================================
