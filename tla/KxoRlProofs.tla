---------------------------- MODULE KxoRlProofs -----------------------------
(***************************************************************************)
(* Proofs about the RL agent: the store of positions, for any capacity and *)
(* any lookups, and the values it learns, for any unit, discount and even  *)
(* learning rate.                                                          *)
(***************************************************************************)
EXTENDS KxoRlStore, KxoRlLearn, FiniteSetTheorems, SequenceTheorems, TLAPS

-----------------------------------------------------------------------------
(* The inductive invariant of the store.  Nothing is asked of the          *)
(* positions that are looked up.                                           *)
Listing ==
  /\ orders \in Seq(Stored) /\ IsInjective(orders) /\ ToSet(orders) = Stored
  /\ Len(orders) < MAX_STATES

Slotted ==
  /\ \A t \in Stored : slot[t] \in Slot
  /\ \A t, u \in Stored : slot[t] = slot[u] => t = u
  /\ st_map = {slot[t] : t \in Stored}

(* EvictionOrder, with the place where the positions that were looked up   *)
(* again begin.                                                            *)
NewestFirst(o, n, r) == \A i, j \in 1 .. n : i < j => <<o[j], o[i]>> \in r
OldestFirst(o, n, r) == \A i, j \in n + 1 .. Len(o) : i < j => <<o[i], o[j]>> \in r
Ordering(o, n, r) == n \in 0 .. Len(o) /\ NewestFirst(o, n, r) /\ OldestFirst(o, n, r)

StoreInv == Listing /\ Slotted /\ EvictionOrder

(* How the parts of the eviction order are read below.                     *)
LEMMA OrderingIs == EvictionOrder <=> \E n \in 0 .. Len(orders) : Ordering(orders, n, older)
BY DEF EvictionOrder, Ordering, NewestFirst, OldestFirst

(* What is listed once is counted by the length of the list.               *)
LEMMA InjectiveCount ==
  ASSUME NEW S, NEW q \in Seq(S), IsInjective(q)
  PROVE  IsFiniteSet(ToSet(q)) /\ Cardinality(ToSet(q)) = Len(q)
<1>1. Len(q) \in Nat /\ DOMAIN q = 1 .. Len(q) /\ q \in [1 .. Len(q) -> S]
  OBVIOUS
<1>2. q \in [1 .. Len(q) -> ToSet(q)]
  BY <1>1 DEF ToSet
<1>3. \A x \in ToSet(q) : \E i \in 1 .. Len(q) : q[i] = x
  BY <1>1 DEF ToSet
<1>4. q \in Bijection(1 .. Len(q), ToSet(q))
  BY <1>2, <1>3 DEF Bijection, Injection, Surjection
<1>5. ExistsBijection(1 .. Len(q), ToSet(q))
  BY <1>4, Zenon DEF ExistsBijection
<1> QED
  BY <1>1, <1>5, FS_NatBijection, FS_CountingElements

(* As many slots are used as positions are stored.                         *)
LEMMA SlotCount ==
  ASSUME Listing, Slotted
  PROVE  /\ IsFiniteSet(Stored) /\ Cardinality(Stored) = Len(orders)
         /\ IsFiniteSet(st_map) /\ Cardinality(st_map) = Len(orders)
<1>1. IsFiniteSet(Stored) /\ Cardinality(Stored) = Len(orders)
  BY InjectiveCount DEF Listing
<1> DEFINE f == [t \in Stored |-> slot[t]]
<1>2. f \in [Stored -> st_map]
  BY DEF Slotted
<1>3. IsInjective(f)
  BY DEF Slotted, IsInjective
<1>4. \A p \in st_map : \E t \in Stored : f[t] = p
  BY DEF Slotted
<1> HIDE DEF f
<1>5. f \in Bijection(Stored, st_map)
  BY <1>2, <1>3, <1>4 DEF Bijection, Injection, Surjection
<1>6. ExistsBijection(Stored, st_map)
  BY <1>5, Zenon DEF ExistsBijection
<1> QED
  BY <1>1, <1>6, FS_Bijection

(* There is a first among some slots.                                      *)
LEMMA FirstSlot ==
  ASSUME StoreAssumption, NEW T \in SUBSET Slot, T # {}
  PROVE  \E p \in T : \A q \in T : p <= q
<1> DEFINE below == {0 .. p : p \in T}
           Smaller == StrictSubsetOrdering(Slot)
<1>1. MAX_STATES \in Nat /\ Slot \subseteq Nat
  BY DEF StoreAssumption, Slot
<1>2. IsWellFoundedOn(Smaller, SUBSET Slot)
  <2>1. IsFiniteSet(Slot)
    BY <1>1, FS_Interval DEF Slot
  <2> QED
    BY <2>1, FS_FiniteSubsetsOfFinite, FS_StrictSubsetOrderingWellFounded
<1>3. below \subseteq SUBSET Slot /\ below # {}
  <2>1. \A p \in T : 0 .. p \in SUBSET Slot
    BY <1>1 DEF Slot
  <2> QED
    BY <2>1
<1>4. \E x \in below : \A y \in below : <<y, x>> \notin Smaller
  <2> HIDE DEF below, Smaller
  <2> QED
    BY <1>2, <1>3, WFMin
<1>5. PICK p \in T : \A q \in T : <<0 .. q, 0 .. p>> \notin Smaller
  BY <1>4
<1>6. ASSUME NEW q \in T PROVE p <= q
  <2> SUFFICES ASSUME q < p PROVE FALSE
    BY <1>1
  <2>1. 0 .. q \subseteq 0 .. p /\ 0 .. q # 0 .. p /\ 0 .. p \subseteq Slot
    BY <1>1 DEF Slot
  <2>2. <<0 .. q, 0 .. p>> \in Smaller
    BY <2>1 DEF StrictSubsetOrdering
  <2> QED
    BY <1>5, <2>2
<1> QED
  BY <1>6

(* With a slot to spare, the bitmap has a first zero bit.                  *)
LEMMA FreeSlot ==
  ASSUME StoreAssumption, NEW map, IsFiniteSet(map), Cardinality(map) < MAX_STATES
  PROVE  find_first_zero_bit(map) \in Slot \ map
<1>1. MAX_STATES \in Nat /\ MAX_STATES >= 2
  BY DEF StoreAssumption
<1>2. IsFiniteSet(Slot) /\ Cardinality(Slot) = MAX_STATES
  BY <1>1, FS_Interval DEF Slot
<1>3. Cardinality(map) \in Nat
  BY FS_CardinalityType
<1>4. ~(Slot \subseteq map)
  <2>1. SUFFICES ASSUME Slot \subseteq map PROVE FALSE
    OBVIOUS
  <2>2. Cardinality(Slot) <= Cardinality(map)
    BY <2>1, FS_Subset
  <2> QED
    BY <1>1, <1>2, <1>3, <2>2
<1>5. PICK T : T = Slot \ map
  OBVIOUS
<1>6. PICK p \in T : \A q \in T : p <= q
  <2>1. T \in SUBSET Slot /\ T # {}
    BY <1>4, <1>5
  <2> QED
    BY <2>1, FirstSlot
<1>7. (CHOOSE x \in T : \A q \in T : x <= q) \in T
  BY <1>6
<1>8. find_first_zero_bit(map) = CHOOSE x \in T : \A q \in T : x <= q
  BY <1>4, <1>5, Zenon DEF find_first_zero_bit
<1> QED
  BY <1>5, <1>7, <1>8

(* What a lookup adds to the history, and what it keeps of it.             *)
LEMMA UsedFacts ==
  ASSUME NEW t, NEW others
  PROVE  /\ \A x, y \in others : <<x, y>> \in older => <<x, y>> \in UsedNow(t, others)
         /\ \A x \in others : <<x, t>> \in UsedNow(t, others)
BY DEF UsedNow, Among

(* list_move_tail: the entries behind the i-th come up, and it is last.    *)
Moved(o, i) ==
  /\ o \in Seq(Stored) /\ Len(o) = Len(orders)
  /\ \A j \in 1 .. Len(o) : j < i => o[j] = orders[j]
  /\ \A j \in 1 .. Len(o) : i <= j /\ j < Len(o) => o[j] = orders[j + 1]
  /\ o[Len(o)] = orders[i]

(* move_to_tail takes one entry to the end and keeps the others in order.  *)
LEMMA MoveTailMoves ==
  ASSUME Listing, NEW i \in 1 .. Len(orders)
  PROVE  Moved(MoveTail(i), i)
<1>1. orders \in Seq(Stored) /\ Len(orders) \in Nat /\ i \in Int
  BY DEF Listing
<1>2. PICK a : a = SubSeq(orders, 1, i - 1)
  OBVIOUS
<1>3. PICK b : b = SubSeq(orders, i + 1, Len(orders))
  OBVIOUS
<1>4. /\ a \in Seq(Stored) /\ Len(a) = i - 1
      /\ \A j \in 1 .. i - 1 : a[j] = orders[j]
  BY <1>1, <1>2
<1>5. /\ b \in Seq(Stored) /\ Len(b) = Len(orders) - i
      /\ \A j \in 1 .. Len(orders) - i : b[j] = orders[i + j]
  BY <1>1, <1>3
<1>6. PICK c : c = a \o b
  OBVIOUS
<1>7. /\ c \in Seq(Stored) /\ Len(c) = Len(orders) - 1
      /\ \A j \in 1 .. i - 1 : c[j] = a[j]
      /\ \A j \in i .. Len(orders) - 1 : c[j] = b[j - (i - 1)]
  BY <1>1, <1>4, <1>5, <1>6
<1>8. PICK o : o = Append(c, orders[i])
  OBVIOUS
<1>9. /\ o \in Seq(Stored) /\ Len(o) = Len(orders)
      /\ \A j \in 1 .. Len(orders) - 1 : o[j] = c[j]
      /\ o[Len(orders)] = orders[i]
  BY <1>1, <1>7, <1>8
<1>10. MoveTail(i) = o
  BY <1>2, <1>3, <1>6, <1>8, Zenon DEF MoveTail, RemoveAt
<1>11. ASSUME NEW j \in 1 .. Len(o), j < i PROVE o[j] = orders[j]
  BY <1>1, <1>4, <1>7, <1>9, <1>11
<1>12. ASSUME NEW j \in 1 .. Len(o), i <= j, j < Len(o) PROVE o[j] = orders[j + 1]
  <2>1. PICK k \in 1 .. Len(orders) - i : k = j - (i - 1) /\ i + k = j + 1
    <3>1. j - (i - 1) \in 1 .. Len(orders) - i
      BY <1>1, <1>9, <1>12
    <3> QED
      BY <1>1, <3>1
  <2>2. o[j] = c[j] /\ c[j] = b[k]
    BY <1>1, <1>7, <1>9, <1>12, <2>1
  <2> QED
    BY <1>5, <2>1, <2>2
<1> QED
  BY <1>9, <1>10, <1>11, <1>12 DEF Moved

(* An entry other than the last of the moved list, and where it was.       *)
LEMMA MovedFrom ==
  ASSUME Listing, NEW i \in 1 .. Len(orders), NEW o, Moved(o, i),
         NEW j \in 1 .. Len(orders), j < Len(orders)
  PROVE  \E k \in 1 .. Len(orders) :
           /\ o[j] = orders[k] /\ k # i
           /\ k = IF j < i THEN j ELSE j + 1
<1>1. orders \in Seq(Stored) /\ Len(orders) \in Nat
  BY DEF Listing
<1>2. CASE j < i
  BY <1>1, <1>2 DEF Moved
<1>3. CASE ~(j < i)
  <2>1. j + 1 \in 1 .. Len(orders) /\ j + 1 # i
    BY <1>1, <1>3
  <2>2. o[j] = orders[j + 1]
    BY <1>1, <1>3 DEF Moved
  <2> QED
    BY <1>3, <2>1, <2>2
<1> QED
  BY <1>2, <1>3

(* A hit: the entry goes to the end of the list, the latest used.          *)
LEMMA HitKept ==
  ASSUME StoreInv, NEW t, Hit(t)
  PROVE  StoreInv'
<1>0. Len(orders) \in Nat
  BY DEF StoreInv, Listing
<1>1. Listing /\ Slotted /\ EvictionOrder
  BY DEF StoreInv
<1>2. /\ orders \in Seq(Stored) /\ DOMAIN orders = 1 .. Len(orders) /\ Len(orders) \in Nat
      /\ IsInjective(orders) /\ ToSet(orders) = Stored
  BY <1>1 DEF Listing
<1>3. PICK i \in 1 .. Len(orders) : orders[i] = t /\ orders' = MoveTail(i)
  BY <1>2, Zenon DEF Hit
<1>4. PICK o : o = orders' /\ Moved(o, i)
  BY <1>1, <1>3, MoveTailMoves, Zenon
<1>5. slot' = slot /\ st_map' = st_map /\ Stored' = Stored
  BY DEF Hit, Stored
<1>6. o \in Seq(Stored) /\ Len(o) = Len(orders) /\ DOMAIN o = 1 .. Len(orders) /\ o[Len(o)] = t
  BY <1>2, <1>3, <1>4 DEF Moved
<1>7. ASSUME NEW j \in 1 .. Len(orders), j < Len(orders) PROVE o[j] # t
  <2>1. PICK k \in 1 .. Len(orders) : o[j] = orders[k] /\ k # i
    BY <1>1, <1>4, <1>7, MovedFrom
  <2> QED
    BY <1>2, <1>3, <2>1 DEF IsInjective
<1>8. IsInjective(o)
  <2> SUFFICES ASSUME NEW j \in 1 .. Len(orders), NEW k \in 1 .. Len(orders), j < k
               PROVE  o[j] # o[k]
    BY <1>2, <1>6 DEF IsInjective
  <2>1. j < Len(orders)
    BY <1>2
  <2>2. PICK a \in 1 .. Len(orders) : o[j] = orders[a] /\ a = IF j < i THEN j ELSE j + 1
    BY <1>1, <1>4, <2>1, MovedFrom
  <2>3. CASE k = Len(orders)
    BY <1>6, <1>7, <2>1, <2>3
  <2>4. CASE k < Len(orders)
    <3>1. PICK b \in 1 .. Len(orders) : o[k] = orders[b] /\ b = IF k < i THEN k ELSE k + 1
      BY <1>1, <1>4, <2>4, MovedFrom
    <3>2. a # b
      BY <2>2, <3>1
    <3> QED
      BY <1>2, <2>2, <3>1, <3>2 DEF IsInjective
  <2> QED
    BY <1>0, <2>3, <2>4
<1>9. ToSet(o) = Stored
  <2>1. ToSet(o) \subseteq Stored
    BY <1>6 DEF ToSet
  <2>2. ASSUME NEW u \in Stored PROVE u \in ToSet(o)
    <3>1. PICK k \in 1 .. Len(orders) : orders[k] = u
      BY <1>2 DEF ToSet
    <3>2. CASE k = i
      <4>1. Len(o) \in 1 .. Len(orders) /\ o[Len(o)] = u
        BY <1>2, <1>3, <1>6, <3>1, <3>2
      <4> QED
        BY <1>6, <4>1 DEF ToSet
    <3>3. CASE k < i
      <4>1. o[k] = u
        BY <1>2, <1>4, <1>6, <3>1, <3>3 DEF Moved
      <4> QED
        BY <1>6, <4>1 DEF ToSet
    <3>4. CASE k > i
      <4>1. PICK j \in 1 .. Len(orders) : k = j + 1 /\ i <= j /\ j < Len(o)
        <5>1. k - 1 \in 1 .. Len(orders) /\ k = (k - 1) + 1 /\ i <= k - 1 /\ k - 1 < Len(o)
          BY <1>2, <1>6, <3>4
        <5> QED
          BY <5>1
      <4>2. o[j] = u
        BY <1>4, <1>6, <3>1, <4>1 DEF Moved
      <4> QED
        BY <1>6, <4>2 DEF ToSet
    <3> QED
      BY <1>2, <3>2, <3>3, <3>4
  <2> QED
    BY <2>1, <2>2
<1>10. Listing'
  BY <1>1, <1>4, <1>5, <1>6, <1>8, <1>9 DEF Listing
<1>11. Slotted'
  BY <1>1, <1>5 DEF Slotted
<1>12. EvictionOrder'
  <2>1. PICK n \in 0 .. Len(orders) : Ordering(orders, n, older)
    BY <1>1, OrderingIs
  <2>2. PICK r : /\ r = older'
                 /\ \A x, y \in Stored \ {t} : <<x, y>> \in older => <<x, y>> \in r
                 /\ \A x \in Stored \ {t} : <<x, t>> \in r
    <3>1. older' = UsedNow(t, Stored \ {t})
      BY DEF Hit
    <3> QED
      BY <3>1, UsedFacts
  <2>3. PICK m \in 0 .. Len(orders) : m = IF i <= n THEN n - 1 ELSE n
    BY <1>2
  <2>4. ASSUME NEW j \in 1 .. Len(orders), NEW k \in 1 .. Len(orders), j < k, k < Len(orders)
        PROVE  \E a, b \in 1 .. Len(orders) :
                 /\ o[j] = orders[a] /\ o[k] = orders[b] /\ a < b
                 /\ o[j] \in Stored \ {t} /\ o[k] \in Stored \ {t}
                 /\ (k <= m => b <= n) /\ (j > m => a > n)
    <3>1. j < Len(orders)
      BY <1>2, <2>4
    <3>2. PICK a \in 1 .. Len(orders) : o[j] = orders[a] /\ a = IF j < i THEN j ELSE j + 1
      BY <1>1, <1>4, <3>1, MovedFrom
    <3>3. PICK b \in 1 .. Len(orders) : o[k] = orders[b] /\ b = IF k < i THEN k ELSE k + 1
      BY <1>1, <1>4, <2>4, MovedFrom
    <3>4. a < b /\ (k <= m => b <= n) /\ (j > m => a > n)
      BY <1>2, <2>3, <2>4, <3>2, <3>3
    <3>5. o[j] \in Stored \ {t} /\ o[k] \in Stored \ {t}
      BY <1>2, <1>6, <1>7, <2>4, <3>1
    <3> QED
      BY <3>2, <3>3, <3>4, <3>5
  <2>5. NewestFirst(o, m, r)
    <3> SUFFICES ASSUME NEW j \in 1 .. m, NEW k \in 1 .. m, j < k
                 PROVE  <<o[k], o[j]>> \in r
      BY DEF NewestFirst
    <3>1. j \in 1 .. Len(orders) /\ k \in 1 .. Len(orders) /\ k < Len(orders)
      BY <1>2, <2>3
    <3>2. PICK a \in 1 .. Len(orders), b \in 1 .. Len(orders) :
            /\ o[j] = orders[a] /\ o[k] = orders[b] /\ a < b
            /\ o[j] \in Stored \ {t} /\ o[k] \in Stored \ {t}
            /\ (k <= m => b <= n) /\ (j > m => a > n)
      BY <2>4, <3>1, Zenon
    <3>4. b <= n
      BY <2>3, <3>2
    <3>3. <<orders[b], orders[a]>> \in older
      BY <1>0, <2>1, <3>2, <3>4 DEF Ordering, NewestFirst
    <3> QED
      BY <2>2, <3>2, <3>3
  <2>6. OldestFirst(o, m, r)
    <3> SUFFICES ASSUME NEW j \in m + 1 .. Len(o), NEW k \in m + 1 .. Len(o), j < k
                 PROVE  <<o[j], o[k]>> \in r
      BY DEF OldestFirst
    <3>1. j \in 1 .. Len(orders) /\ k \in 1 .. Len(orders) /\ j > m
      BY <1>2, <1>6, <2>3
    <3>2. CASE k = Len(orders)
      <4>1. o[j] \in Stored \ {t}
        BY <1>2, <1>6, <1>7, <3>1, <3>2
      <4> QED
        BY <1>6, <2>2, <3>2, <4>1
    <3>3. CASE k < Len(orders)
      <4>1. PICK a \in 1 .. Len(orders), b \in 1 .. Len(orders) :
              /\ o[j] = orders[a] /\ o[k] = orders[b] /\ a < b /\ a > n
              /\ o[j] \in Stored \ {t} /\ o[k] \in Stored \ {t}
        BY <2>4, <3>1, <3>3, Zenon
      <4>2. <<orders[a], orders[b]>> \in older
        BY <1>2, <2>1, <4>1 DEF Ordering, OldestFirst
      <4> QED
        BY <2>2, <4>1, <4>2
    <3> QED
      BY <1>0, <3>1, <3>2, <3>3
  <2>7. Ordering(o, m, r)
    BY <1>6, <2>3, <2>5, <2>6 DEF Ordering
  <2>8. \E l \in 0 .. Len(orders') : Ordering(orders', l, older')
    BY <1>4, <1>6, <2>2, <2>3, <2>7
  <2> QED
    BY <2>8 DEF EvictionOrder, Ordering, NewestFirst, OldestFirst
<1> QED
  BY <1>10, <1>11, <1>12 DEF StoreInv

(* A new entry t at the head, the first n others gone.                     *)
Headed(o, t, n) ==
  /\ Len(o) = Len(orders) - n + 1 /\ DOMAIN o = 1 .. Len(o) /\ o[1] = t
  /\ \A j \in 1 .. Len(orders) - n : o[j + 1] = orders[n + j]

(* Where an entry put at the head leaves those that are not evicted.       *)
LEMMA InsertHeads ==
  ASSUME Listing, NEW t, NEW n \in 0 .. Len(orders)
  PROVE  Headed(<<t>> \o SubSeq(orders, n + 1, Len(orders)), t, n)
<1>1. orders \in Seq(Stored) /\ Len(orders) \in Nat
  BY DEF Listing
<1>2. PICK S : S = Stored \cup {t}
  OBVIOUS
<1>3. PICK b : b = SubSeq(orders, n + 1, Len(orders))
  OBVIOUS
<1>4. /\ b \in Seq(Stored) /\ Len(b) = Len(orders) - n
      /\ \A j \in 1 .. Len(orders) - n : b[j] = orders[n + j]
  BY <1>1, <1>3
<1>5. b \in Seq(S)
  BY <1>2, <1>4
<1>6. PICK a \in Seq(S) : a = <<t>> /\ Len(a) = 1 /\ a[1] = t
  <2>1. PICK a : a = <<t>>
    OBVIOUS
  <2>2. a \in Seq(S) /\ Len(a) = 1 /\ a[1] = t
    BY <1>2, <2>1
  <2> QED
    BY <2>1, <2>2, Zenon
<1>7. PICK o : o = a \o b
  OBVIOUS
<1>8. /\ o \in Seq(S) /\ Len(o) = 1 + Len(b) /\ o[1] = a[1]
      /\ \A j \in 1 .. Len(b) : o[1 + j] = b[j]
  BY <1>5, <1>6, <1>7
<1>9. DOMAIN o = 1 .. Len(o)
  BY <1>8
<1>10. Headed(o, t, n)
  BY <1>1, <1>4, <1>6, <1>8, <1>9 DEF Headed
<1> QED
  BY <1>3, <1>6, <1>7, <1>10, Zenon

(* A miss: the first n entries are evicted and t takes a free slot at the  *)
(* head.                                                                   *)
LEMMA InsertKept ==
  ASSUME StoreAssumption, StoreInv, NEW t, t \notin Stored, NEW n \in 0 .. Len(orders),
         Len(orders) - n + 1 < MAX_STATES, Insert(t, n)
  PROVE  StoreInv'
<1>0. Len(orders) \in Nat /\ MAX_STATES \in Nat
  BY DEF StoreInv, Listing, StoreAssumption
<1>1. Listing /\ Slotted /\ EvictionOrder
  BY DEF StoreInv
<1>2. /\ orders \in Seq(Stored) /\ DOMAIN orders = 1 .. Len(orders)
      /\ IsInjective(orders) /\ ToSet(orders) = Stored
  BY <1>1 DEF Listing
<1>3. PICK gone : gone = {orders[i] : i \in 1 .. n}
  OBVIOUS
<1>4. PICK kept : kept = Stored \ gone
  OBVIOUS
<1>5. PICK map : map = st_map \ {slot[u] : u \in gone}
  OBVIOUS
<1>6. PICK pos : pos = find_first_zero_bit(map)
  OBVIOUS
<1>7. /\ orders' = <<t>> \o SubSeq(orders, n + 1, Len(orders))
      /\ slot' = [u \in kept \cup {t} |-> IF u = t THEN pos ELSE slot[u]]
      /\ st_map' = map \cup {pos}
      /\ older' = UsedNow(t, kept)
  BY <1>3, <1>4, <1>5, <1>6, Zenon DEF Insert
<1>8. PICK o : o = orders' /\ Headed(o, t, n)
  BY <1>1, <1>7, InsertHeads, Zenon
<1>9. Stored' = kept \cup {t}
  BY <1>7 DEF Stored
<1>10. gone \subseteq Stored
  BY <1>0, <1>2, <1>3 DEF ToSet
<1>11. \A j \in 1 .. Len(orders) - n : orders[n + j] \in kept
  <2> SUFFICES ASSUME NEW j \in 1 .. Len(orders) - n PROVE orders[n + j] \in kept
    OBVIOUS
  <2>1. PICK k \in 1 .. Len(orders) : k = n + j /\ k > n
    BY <1>0
  <2>2. orders[k] \in Stored
    BY <1>2
  <2>3. \A i \in 1 .. n : orders[i] # orders[k]
    BY <1>0, <1>2, <2>1 DEF IsInjective
  <2> QED
    BY <1>3, <1>4, <2>1, <2>2, <2>3
<1>12. \A u \in kept : \E j \in 1 .. Len(orders) - n : orders[n + j] = u
  <2> SUFFICES ASSUME NEW u \in kept PROVE \E j \in 1 .. Len(orders) - n : orders[n + j] = u
    OBVIOUS
  <2>1. PICK k \in 1 .. Len(orders) : orders[k] = u
    BY <1>2, <1>4 DEF ToSet
  <2>2. k > n
    BY <1>0, <1>3, <1>4, <2>1
  <2>3. PICK j \in 1 .. Len(orders) - n : k = n + j
    <3>1. k - n \in 1 .. Len(orders) - n /\ k = n + (k - n)
      BY <1>0, <2>2
    <3> QED
      BY <3>1
  <2> QED
    BY <2>1, <2>3
(* The new list.                                                           *)
<1>13. /\ Len(o) = Len(orders) - n + 1 /\ Len(o) \in Nat /\ DOMAIN o = 1 .. Len(o)
       /\ o[1] = t /\ \A j \in 1 .. Len(orders) - n : o[j + 1] = orders[n + j]
  BY <1>0, <1>8 DEF Headed
<1>14. ASSUME NEW j \in 1 .. Len(o), j # 1
       PROVE  \E k \in 1 .. Len(orders) - n : j = k + 1 /\ o[j] = orders[n + k] /\ o[j] \in kept
  <2>1. PICK k \in 1 .. Len(orders) - n : j = k + 1
    <3>1. j - 1 \in 1 .. Len(orders) - n /\ j = (j - 1) + 1
      BY <1>0, <1>13, <1>14
    <3> QED
      BY <3>1
  <2>2. o[j] = orders[n + k] /\ orders[n + k] \in kept
    BY <1>11, <1>13, <2>1
  <2> QED
    BY <2>1, <2>2
<1>15. t \notin kept
  BY <1>4
<1>16. orders' \in Seq(Stored')
  <2>1. PICK S : S = kept \cup {t}
    OBVIOUS
  <2>2. \A j \in 1 .. Len(o) : o[j] \in S
    BY <1>13, <1>14, <2>1
  <2>3. PICK b : b = SubSeq(orders, n + 1, Len(orders))
    OBVIOUS
  <2>4. b \in Seq(Stored)
    BY <1>0, <1>2, <2>3
  <2>5. o = <<t>> \o b
    BY <1>7, <1>8, <2>3, Zenon
  <2>6. o \in Seq(Stored \cup {t})
    BY <2>4, <2>5
  <2>7. o = [j \in 1 .. Len(o) |-> o[j]]
    BY <2>6
  <2>8. [j \in 1 .. Len(o) |-> o[j]] \in [1 .. Len(o) -> S]
    BY <2>2
  <2>9. o \in Seq(S)
    BY <1>13, <2>7, <2>8
  <2> QED
    BY <1>8, <1>9, <2>1, <2>9, Zenon
<1>17. IsInjective(o)
  <2> SUFFICES ASSUME NEW i \in 1 .. Len(o), NEW j \in 1 .. Len(o), i < j PROVE o[i] # o[j]
    BY <1>13 DEF IsInjective
  <2>1. PICK k \in 1 .. Len(orders) - n : j = k + 1 /\ o[j] = orders[n + k] /\ o[j] \in kept
    BY <1>13, <1>14
  <2>2. CASE i = 1
    BY <1>13, <1>15, <2>1, <2>2
  <2>3. CASE i # 1
    <3>1. PICK l \in 1 .. Len(orders) - n : i = l + 1 /\ o[i] = orders[n + l]
      BY <1>14, <2>3
    <3>2. n + l \in 1 .. Len(orders) /\ n + k \in 1 .. Len(orders) /\ n + l # n + k
      BY <1>0, <2>1, <3>1
    <3> QED
      BY <1>2, <2>1, <3>1, <3>2 DEF IsInjective
  <2> QED
    BY <2>2, <2>3
<1>18. ToSet(o) = kept \cup {t}
  <2>1. ASSUME NEW x \in ToSet(o) PROVE x \in kept \cup {t}
    <3>1. PICK j \in 1 .. Len(o) : x = o[j]
      BY <1>13 DEF ToSet
    <3> QED
      BY <1>13, <1>14, <3>1
  <2>2. t \in ToSet(o)
    <3>1. 1 \in 1 .. Len(o)
      BY <1>0, <1>13
    <3> QED
      BY <1>13, <3>1 DEF ToSet
  <2>3. ASSUME NEW x \in kept PROVE x \in ToSet(o)
    <3>1. PICK j \in 1 .. Len(orders) - n : orders[n + j] = x
      BY <1>12
    <3>2. j + 1 \in 1 .. Len(o) /\ o[j + 1] = x
      BY <1>0, <1>13, <3>1
    <3> QED
      BY <1>13, <3>2 DEF ToSet
  <2> QED
    BY <2>1, <2>2, <2>3
<1>19. Listing'
  <2>1. Len(orders') < MAX_STATES
    BY <1>8, <1>13
  <2>2. IsInjective(orders') /\ ToSet(orders') = Stored'
    BY <1>8, <1>9, <1>17, <1>18, Zenon
  <2> QED
    BY <1>16, <2>1, <2>2 DEF Listing
(* The slots: the evicted ones are free again.                             *)
<1>20. map = {slot[u] : u \in kept}
  <2>1. \A u \in gone, v \in kept : slot[u] # slot[v]
    BY <1>1, <1>4, <1>10 DEF Slotted
  <2> QED
    BY <1>1, <1>4, <1>5, <1>10, <2>1 DEF Slotted
<1>21. IsFiniteSet(map) /\ Cardinality(map) < MAX_STATES
  <2>1. /\ IsFiniteSet(st_map) /\ Cardinality(st_map) = Len(orders) /\ Len(orders) < MAX_STATES
        /\ map \in SUBSET st_map
    BY <1>1, <1>5, SlotCount DEF Listing
  <2>2. IsFiniteSet(map) /\ Cardinality(map) <= Cardinality(st_map)
    BY <2>1, FS_Subset
  <2>3. Cardinality(map) \in Nat
    BY <2>2, FS_CardinalityType
  <2> QED
    BY <1>0, <2>1, <2>2, <2>3
<1>22. pos \in Slot /\ pos \notin map
  BY <1>6, <1>21, FreeSlot
<1>23. /\ slot'[t] = pos
       /\ \A u \in kept : slot'[u] = slot[u]
  BY <1>7, <1>15
<1>24. Slotted'
  <2>1. \A u \in kept : slot[u] \in Slot /\ slot[u] # pos
    BY <1>1, <1>4, <1>20, <1>22 DEF Slotted
  <2>2. \A u, v \in kept : slot[u] = slot[v] => u = v
    BY <1>1, <1>4 DEF Slotted
  <2>3. \A u \in Stored' : slot'[u] \in Slot
    BY <1>9, <1>22, <1>23, <2>1
  <2>4. \A u, v \in Stored' : slot'[u] = slot'[v] => u = v
    BY <1>9, <1>23, <2>1, <2>2
  <2>5. st_map' = {slot'[u] : u \in Stored'}
    BY <1>7, <1>9, <1>20, <1>23
  <2> QED
    BY <2>3, <2>4, <2>5 DEF Slotted
(* The order: what is left of it moves down behind the new entry.          *)
<1>25. EvictionOrder'
  <2>1. PICK m \in 0 .. Len(orders) : Ordering(orders, m, older)
    BY <1>1, OrderingIs
  <2>2. PICK r : /\ r = older'
                 /\ \A x, y \in kept : <<x, y>> \in older => <<x, y>> \in r
                 /\ \A x \in kept : <<x, t>> \in r
    BY <1>7, UsedFacts
  <2>3. PICK l \in 0 .. Len(o) : l = IF n <= m THEN m - n + 1 ELSE 1
    <3>1. PICK l : l = IF n <= m THEN m - n + 1 ELSE 1
      OBVIOUS
    <3>2. l \in 0 .. Len(o)
      BY <1>0, <1>13, <3>1
    <3> QED
      BY <3>1, <3>2
  <2>4. ASSUME NEW i \in 1 .. Len(o), NEW j \in 1 .. Len(o), i < j, i # 1
        PROVE  \E a \in 1 .. Len(orders), b \in 1 .. Len(orders) :
                 /\ o[i] = orders[a] /\ o[j] = orders[b] /\ a < b
                 /\ a = n + i - 1 /\ b = n + j - 1
                 /\ o[i] \in kept /\ o[j] \in kept
    <3>1. PICK c \in 1 .. Len(orders) - n : i = c + 1 /\ o[i] = orders[n + c] /\ o[i] \in kept
      BY <1>14, <2>4
    <3>2. PICK d \in 1 .. Len(orders) - n : j = d + 1 /\ o[j] = orders[n + d] /\ o[j] \in kept
      <4>1. j # 1
        BY <1>13, <2>4
      <4> QED
        BY <1>14, <4>1
    <3>3. /\ n + c \in 1 .. Len(orders) /\ n + d \in 1 .. Len(orders) /\ n + c < n + d
          /\ n + c = n + i - 1 /\ n + d = n + j - 1
      BY <1>0, <2>4, <3>1, <3>2
    <3> QED
      BY <3>1, <3>2, <3>3
  <2>5. NewestFirst(o, l, r)
    <3> SUFFICES ASSUME NEW i \in 1 .. l, NEW j \in 1 .. l, i < j PROVE <<o[j], o[i]>> \in r
      BY DEF NewestFirst
    <3>1. i \in 1 .. Len(o) /\ j \in 1 .. Len(o) /\ j # 1
      BY <1>13, <2>3
    <3>2. CASE i = 1
      <4>1. o[j] \in kept
        BY <1>14, <3>1
      <4> QED
        BY <1>13, <2>2, <3>2, <4>1
    <3>3. CASE i # 1
      <4>1. PICK a \in 1 .. Len(orders), b \in 1 .. Len(orders) :
              /\ o[i] = orders[a] /\ o[j] = orders[b] /\ a < b
              /\ a = n + i - 1 /\ b = n + j - 1
              /\ o[i] \in kept /\ o[j] \in kept
        BY <2>4, <3>1, <3>3
      <4>2. a \in 1 .. m /\ b \in 1 .. m
        <5>1. l \in Int /\ j <= l /\ j > 1
          BY <2>3, <3>1
        <5>2. l = m - n + 1
          BY <2>3, <5>1
        <5>3. a \in Int /\ b \in Int /\ 1 <= a /\ a < b /\ b <= m
          <6>1. a \in Int /\ b \in Int /\ 1 <= a /\ m \in Int /\ n \in Int /\ j \in Int
            BY <1>0
          <6>2. a < b /\ b = n + j - 1
            BY <4>1
          <6> QED
            BY <5>1, <5>2, <6>1, <6>2
        <5> QED
          BY <1>0, <5>3
      <4>3. <<orders[b], orders[a]>> \in older
        BY <2>1, <4>1, <4>2 DEF Ordering, NewestFirst
      <4> QED
        BY <2>2, <4>1, <4>3
    <3> QED
      BY <3>2, <3>3
  <2>6. OldestFirst(o, l, r)
    <3> SUFFICES ASSUME NEW i \in l + 1 .. Len(o), NEW j \in l + 1 .. Len(o), i < j
                 PROVE  <<o[i], o[j]>> \in r
      BY DEF OldestFirst
    <3>1. i \in 1 .. Len(o) /\ j \in 1 .. Len(o) /\ i # 1
      BY <1>13, <2>3
    <3>2. PICK a \in 1 .. Len(orders), b \in 1 .. Len(orders) :
            /\ o[i] = orders[a] /\ o[j] = orders[b] /\ a < b
            /\ a = n + i - 1 /\ b = n + j - 1
            /\ o[i] \in kept /\ o[j] \in kept
      BY <2>4, <3>1
    <3>3. a > m /\ b > m
      <4>1. i \in Int /\ l < i
        BY <1>13, <2>3
      <4>2. a > m
        BY <1>0, <2>3, <3>2, <4>1
      <4> QED
        BY <1>0, <3>2, <4>2
    <3>4. <<orders[a], orders[b]>> \in older
      <4>1. a \in m + 1 .. Len(orders) /\ b \in m + 1 .. Len(orders) /\ a < b
        BY <1>0, <3>2, <3>3
      <4> QED
        BY <2>1, <4>1 DEF Ordering, OldestFirst
    <3> QED
      BY <2>2, <3>2, <3>4
  <2>7. Ordering(o, l, r)
    BY <2>3, <2>5, <2>6 DEF Ordering
  <2>8. \E k \in 0 .. Len(orders') : Ordering(orders', k, older')
    BY <1>8, <2>2, <2>7
  <2> QED
    BY <2>8 DEF EvictionOrder, Ordering, NewestFirst, OldestFirst
<1> QED
  BY <1>19, <1>24, <1>25 DEF StoreInv

(* find_rl_state keeps the store in order, whatever it looks for: cleaning *)
(* always frees a slot.                                                    *)
LEMMA LookupKept ==
  ASSUME StoreAssumption, StoreInv, NEW t, find_rl_state(t)
  PROVE  StoreInv'
<1>1. CASE t \in Stored
  BY <1>1, HitKept DEF find_rl_state
<1>2. CASE t \notin Stored
  <2>0. /\ Len(orders) \in Nat /\ Len(orders) < MAX_STATES /\ MAX_STATES \in Nat /\ MAX_STATES >= 2
        /\ Cardinality(st_map) = Len(orders)
    BY SlotCount DEF StoreInv, Listing, StoreAssumption
  <2>1. CASE Full
    <3>1. Insert(t, clean_state)
      BY <1>2, <2>1, Zenon DEF find_rl_state
    <3>2. CLEAN_N_STATES \in Nat /\ CLEAN_N_STATES >= 1
      BY <2>0 DEF CLEAN_N_STATES
    <3>3. Len(orders) = MAX_STATES - 1
      BY <2>0, <2>1 DEF Full
    <3>4. clean_state \in 0 .. Len(orders) /\ Len(orders) - clean_state + 1 < MAX_STATES
      BY <2>0, <3>2, <3>3 DEF clean_state
    <3> QED
      BY <1>2, <3>1, <3>4, InsertKept
  <2>2. CASE ~Full
    <3>1. Insert(t, 0)
      BY <1>2, <2>2, Zenon DEF find_rl_state
    <3>2. 0 \in 0 .. Len(orders) /\ Len(orders) - 0 + 1 < MAX_STATES
      BY <2>0, <2>2 DEF Full
    <3> QED
      BY <1>2, <3>1, <3>2, InsertKept
  <2> QED
    BY <2>1, <2>2
<1> QED
  BY <1>1, <1>2

(* An empty store, whatever its memory holds.                              *)
LEMMA StoreInitially == StoreAssumption /\ StoreInit => StoreInv
<1> SUFFICES ASSUME StoreAssumption, StoreInit PROVE StoreInv
  OBVIOUS
<1>1. orders = <<>> /\ Stored = {} /\ st_map = {} /\ MAX_STATES \in Nat /\ MAX_STATES >= 2
  BY DEF StoreInit, Stored, StoreAssumption
<1>2. Len(orders) = 0 /\ DOMAIN orders = {} /\ orders \in Seq({})
  BY <1>1
<1>3. ToSet(orders) = {} /\ IsInjective(orders)
  BY <1>2 DEF ToSet, IsInjective
<1>4. Listing
  BY <1>1, <1>2, <1>3 DEF Listing
<1>5. Slotted
  BY <1>1 DEF Slotted
<1>6. Ordering(orders, 0, older)
  BY <1>2 DEF Ordering, NewestFirst, OldestFirst
<1>7. EvictionOrder
  BY <1>2, <1>6, OrderingIs
<1> QED
  BY <1>4, <1>5, <1>7 DEF StoreInv

(* The store of positions, for any capacity and any sequence of lookups    *)
(* (rl.c, find_rl_state and what it calls): it never overfills, no two     *)
(* positions share a slot, the bitmap holds the slots in use, and an       *)
(* eviction takes what its order says.                                     *)
THEOREM StoreKept ==
  ASSUME StoreAssumption
  PROVE  StoreSpec => []StoreTrue
<1>1. StoreInv /\ [StoreNext]_storeVars => StoreInv'
  <2> SUFFICES ASSUME StoreInv, [StoreNext]_storeVars PROVE StoreInv'
    OBVIOUS
  <2>1. CASE LookUp
    <3>1. PICK t : find_rl_state(t)
      BY <2>1 DEF LookUp
    <3> QED
      BY <3>1, LookupKept
  <2>2. CASE UNCHANGED <<orders, slot, st_map, older, lru>>
    BY <2>2 DEF StoreInv, Listing, Slotted, EvictionOrder, Stored
  <2>3. UNCHANGED <<orders, slot, st_map, older, lru>> \/ LookUp
    BY DEF StoreNext, PlayRl, Learn, play_rl, update_state_value, LocksFor, storeVars
  <2> QED
    BY <2>1, <2>2, <2>3
<1>2. StoreInv => StoreTrue
  <2> SUFFICES ASSUME StoreInv PROVE StoreTrue
    OBVIOUS
  <2>1. Listing /\ Slotted /\ EvictionOrder
    BY DEF StoreInv
  <2>2. Cardinality(Stored) = Len(orders)
    BY <2>1, SlotCount
  <2> QED
    BY <2>1, <2>2 DEF Listing, Slotted, StoreTrue, StoreConsistent
<1> QED
  BY <1>1, <1>2, StoreInitially, PTL DEF StoreSpec

-----------------------------------------------------------------------------
(* A product does not leave the bounds of its factors.                     *)
LEMMA ProductOrder ==
  ASSUME NEW x \in Int, NEW y \in Int, NEW c \in Nat, x <= y
  PROVE  x * c <= y * c
<1>1. PICK d \in Nat : y = x + d
  <2>1. y - x \in Nat /\ y = x + (y - x)
    OBVIOUS
  <2> QED
    BY <2>1
<1>2. y * c = x * c + d * c /\ d * c \in Nat /\ x * c \in Int
  BY <1>1
<1> QED
  BY <1>2

(* A quotient, rounded down, does not either.                              *)
LEMMA QuotientBounds ==
  ASSUME NEW x \in Int, NEW m \in Int, NEW u \in Nat \ {0}
  PROVE  /\ x \div u \in Int
         /\ m * u <= x => m <= x \div u
         /\ x <= m * u => x \div u <= m
<1>1. PICK q \in Int, r \in 0 .. u - 1 : q = x \div u /\ x = q * u + r
  <2>1. PICK q \in Int, r \in Int : q = x \div u /\ r = x % u
    OBVIOUS
  <2>2. r \in 0 .. u - 1
    BY <2>1
  <2>3. x = u * q + r
    BY <2>1
  <2>4. u * q = q * u
    OBVIOUS
  <2> QED
    BY <2>1, <2>2, <2>3, <2>4
<1>2. ASSUME m * u <= x, q < m PROVE FALSE
  <2>1. (q + 1) * u <= m * u
    BY <1>2, ProductOrder
  <2>2. (q + 1) * u = q * u + u /\ q * u \in Int
    OBVIOUS
  <2> QED
    BY <1>1, <1>2, <2>1, <2>2
<1>3. ASSUME x <= m * u, m < q PROVE FALSE
  <2>1. (m + 1) * u <= q * u
    BY <1>3, ProductOrder
  <2>2. (m + 1) * u = m * u + u /\ m * u \in Int /\ q * u \in Int
    OBVIOUS
  <2> QED
    BY <1>1, <1>3, <2>1, <2>2
<1> QED
  BY <1>1, <1>2, <1>3

(* The unit is two halves.                                                 *)
LEMMA UnitFacts ==
  ASSUME LearnAssumption
  PROVE  /\ HALF \in Nat \ {0} /\ RL_FIXED_1 = HALF + HALF
         /\ LEARNING_RATE \in 0 .. RL_FIXED_1 /\ GAMMA \in 0 .. RL_FIXED_1
         /\ InRange \subseteq Int
<1>1. RL_FIXED_1 \in Nat \ {0} /\ RL_FIXED_1 % 2 = 0
  BY DEF LearnAssumption
<1>2. HALF \in Nat \ {0} /\ RL_FIXED_1 = HALF + HALF
  BY <1>1 DEF HALF
<1> QED
  BY <1>1, <1>2 DEF LearnAssumption, InRange

(* A weight of values is the weight of a value, rounded down: between minus *)
(* half of it, when it is even, and it.                                    *)
LEMMA Weighted ==
  ASSUME LearnAssumption, NEW k \in Nat, NEW v \in InRange
  PROVE  /\ fixed_mul(k + k, v) \in Int
         /\ -k <= fixed_mul(k + k, v) /\ fixed_mul(k + k, v) <= k + k
<1>1. /\ HALF \in Nat \ {0} /\ RL_FIXED_1 = HALF + HALF /\ RL_FIXED_1 \in Nat \ {0}
      /\ v \in Int /\ -HALF <= v /\ v <= RL_FIXED_1
  BY UnitFacts DEF InRange
<1>2. PICK c \in Nat : c = k + k
  OBVIOUS
<1>3. (-HALF) * c <= v * c /\ v * c <= RL_FIXED_1 * c
  BY <1>1, ProductOrder
<1>4. (-HALF) * c = (-k) * RL_FIXED_1
  <2>1. (-HALF) * (k + k) = (-k) * (HALF + HALF)
    BY <1>1
  <2> QED
    BY <1>1, <1>2, <2>1
<1>5. PICK x \in Int : x = c * v
  BY <1>1
<1>6. v * c = x /\ RL_FIXED_1 * c = c * RL_FIXED_1
  BY <1>1, <1>5
<1>7. (-k) * RL_FIXED_1 <= x /\ x <= c * RL_FIXED_1
  BY <1>3, <1>4, <1>6
<1>8. /\ x \div RL_FIXED_1 \in Int
      /\ -k <= x \div RL_FIXED_1 /\ x \div RL_FIXED_1 <= c
  BY <1>1, <1>7, QuotientBounds
<1> QED
  BY <1>2, <1>5, <1>8 DEF fixed_mul

(* What step_update_state_value gives a position stays in range.           *)
LEMMA NewScoreInRange ==
  ASSUME LearnAssumption, NEW old \in InRange, NEW curr \in InRange
  PROVE  NewScore(old, curr) \in InRange
<1>1. /\ HALF \in Nat \ {0} /\ RL_FIXED_1 = HALF + HALF
      /\ LEARNING_RATE \in 0 .. RL_FIXED_1 /\ LEARNING_RATE % 2 = 0
  BY UnitFacts DEF LearnAssumption
<1>2. PICK k \in 0 .. HALF : LEARNING_RATE = k + k
  <2>1. LEARNING_RATE \div 2 \in 0 .. HALF
        /\ LEARNING_RATE = LEARNING_RATE \div 2 + LEARNING_RATE \div 2
    BY <1>1
  <2> QED
    BY <2>1
<1>3. PICK l \in Nat : l = HALF - k
  <2>1. HALF - k \in Nat
    BY <1>1
  <2> QED
    BY <2>1
<1>4. RL_FIXED_1 - LEARNING_RATE = l + l
  BY <1>1, <1>2, <1>3
<1>5. PICK a \in Int, b \in Int :
        a = fixed_mul(RL_FIXED_1 - LEARNING_RATE, old) /\ b = fixed_mul(LEARNING_RATE, curr)
        /\ -l <= a /\ a <= l + l /\ -k <= b /\ b <= k + k
  BY <1>2, <1>4, Weighted
<1>6. a + b \in InRange
  BY <1>1, <1>2, <1>3, <1>5 DEF InRange
<1> QED
  BY <1>5, <1>6 DEF NewScore

(* The value of a move is its reward less what the move after is worth.    *)
LEMMA ValueInRange ==
  ASSUME LearnAssumption, NEW v \in InRange, NEW p, p = Won => v = 0
  PROVE  /\ Reward(p) - fixed_mul(GAMMA, v) \in InRange
         /\ p = Won => Reward(p) - fixed_mul(GAMMA, v) = RL_FIXED_1
<1>1. /\ HALF \in Nat \ {0} /\ RL_FIXED_1 = HALF + HALF /\ RL_FIXED_1 \in Nat \ {0}
      /\ GAMMA \in 0 .. RL_FIXED_1 /\ v \in Int /\ -HALF <= v /\ v <= RL_FIXED_1
  BY UnitFacts DEF InRange
<1>2. CASE p = Won
  <2>1. v = 0 /\ fixed_mul(GAMMA, v) = 0
    <3>1. v = 0 /\ GAMMA * 0 = 0 /\ 0 \div RL_FIXED_1 = 0
      BY <1>1, <1>2
    <3> QED
      BY <3>1 DEF fixed_mul
  <2> QED
    BY <1>1, <1>2, <2>1 DEF Reward, InRange
<1>3. CASE p # Won
  <2>1. PICK x \in Int : x = GAMMA * v
    BY <1>1
  <2>2. (-HALF) * RL_FIXED_1 <= x
    <3>1. (-HALF) * GAMMA <= v * GAMMA /\ v * GAMMA = x
      BY <1>1, <2>1, ProductOrder
    <3>2. GAMMA * HALF <= RL_FIXED_1 * HALF
      BY <1>1, ProductOrder
    <3>3. (-HALF) * GAMMA = -(GAMMA * HALF) /\ (-HALF) * RL_FIXED_1 = -(RL_FIXED_1 * HALF)
      BY <1>1
    <3>4. GAMMA * HALF \in Int /\ RL_FIXED_1 * HALF \in Int
      BY <1>1
    <3> QED
      BY <3>1, <3>2, <3>3, <3>4
  <2>3. x <= RL_FIXED_1 * RL_FIXED_1
    <3>1. v * GAMMA <= RL_FIXED_1 * GAMMA /\ v * GAMMA = x
      BY <1>1, <2>1, ProductOrder
    <3>2. GAMMA * RL_FIXED_1 <= RL_FIXED_1 * RL_FIXED_1
      BY <1>1, ProductOrder
    <3>3. GAMMA * RL_FIXED_1 = RL_FIXED_1 * GAMMA /\ GAMMA * RL_FIXED_1 \in Int
          /\ RL_FIXED_1 * RL_FIXED_1 \in Int
      BY <1>1
    <3> QED
      BY <3>1, <3>2, <3>3
  <2>4. x \div RL_FIXED_1 \in -HALF .. RL_FIXED_1
    <3>1. PICK m \in Int : m = -HALF
      BY <1>1
    <3>2. m <= x \div RL_FIXED_1
      BY <1>1, <2>2, <3>1, QuotientBounds
    <3>3. x \div RL_FIXED_1 <= RL_FIXED_1 /\ x \div RL_FIXED_1 \in Int
      BY <1>1, <2>3, QuotientBounds
    <3> QED
      BY <1>1, <3>1, <3>2, <3>3
  <2> QED
    BY <1>1, <1>3, <2>1, <2>4 DEF Reward, fixed_mul, InRange
<1> QED
  BY <1>2, <1>3

(* The move that won is worth the most there is: its value does not fall.  *)
LEMMA WinScore ==
  ASSUME LearnAssumption, NEW old \in InRange
  PROVE  NewScore(old, RL_FIXED_1) >= old
<1>1. /\ RL_FIXED_1 \in Nat \ {0} /\ old \in Int /\ old <= RL_FIXED_1
      /\ LEARNING_RATE \in 0 .. RL_FIXED_1
  BY UnitFacts DEF InRange
<1>2. LEARNING_RATE <= (LEARNING_RATE * RL_FIXED_1) \div RL_FIXED_1
  <2>1. PICK x \in Int : x = LEARNING_RATE * RL_FIXED_1
    BY <1>1
  <2> QED
    BY <1>1, <2>1, QuotientBounds
<1>3. old - LEARNING_RATE <= ((RL_FIXED_1 - LEARNING_RATE) * old) \div RL_FIXED_1
  <2>1. PICK x \in Int : x = (RL_FIXED_1 - LEARNING_RATE) * old
    BY <1>1
  <2>2. (old - LEARNING_RATE) * RL_FIXED_1 <= x
    <3>1. old * LEARNING_RATE <= RL_FIXED_1 * LEARNING_RATE
      BY <1>1, ProductOrder
    <3>2. (old - LEARNING_RATE) * RL_FIXED_1 = old * RL_FIXED_1 - RL_FIXED_1 * LEARNING_RATE
      BY <1>1
    <3>3. x = old * RL_FIXED_1 - old * LEARNING_RATE
      BY <1>1, <2>1
    <3>4. /\ old * LEARNING_RATE \in Int /\ RL_FIXED_1 * LEARNING_RATE \in Int
          /\ old * RL_FIXED_1 \in Int
      BY <1>1
    <3> QED
      BY <3>1, <3>2, <3>3, <3>4
  <2>3. old - LEARNING_RATE \in Int
    BY <1>1
  <2> QED
    BY <1>1, <2>1, <2>2, <2>3, QuotientBounds
<1>4. PICK a \in Int, b \in Int :
        /\ a = fixed_mul(RL_FIXED_1 - LEARNING_RATE, old)
        /\ b = fixed_mul(LEARNING_RATE, RL_FIXED_1)
        /\ old - LEARNING_RATE <= a /\ LEARNING_RATE <= b
  <2>1. /\ (LEARNING_RATE * RL_FIXED_1) \div RL_FIXED_1 \in Int
        /\ ((RL_FIXED_1 - LEARNING_RATE) * old) \div RL_FIXED_1 \in Int
    BY <1>1
  <2> QED
    BY <1>2, <1>3, <2>1 DEF fixed_mul
<1> QED
  BY <1>1, <1>4 DEF NewScore

(* The inductive invariant: what is won ends the episode, and nothing is   *)
(* worth anything after it.                                                *)
LearnInv ==
  /\ scores \in [Position -> InRange] /\ next \in InRange
  /\ episode \in Seq(Position)
  /\ \A i \in 1 .. Len(episode) : episode[i] = Won => i = Len(episode) /\ next = 0

(* The values start from the estimate of init_rl_agent, which is in range. *)
LEMMA LearnInitially == LearnAssumption /\ LearnInit => LearnInv
<1> SUFFICES ASSUME LearnAssumption, LearnInit PROVE LearnInv
  OBVIOUS
<1>1. 0 \in InRange /\ InitialValues \subseteq InRange
  BY UnitFacts DEF InRange, LearnAssumption
<1>2. scores \in [Position -> InRange]
  BY <1>1 DEF LearnInit
<1>3. episode \in Seq(Position) /\ Len(episode) = 0
  BY DEF LearnInit
<1> QED
  BY <1>1, <1>2, <1>3 DEF LearnInit, LearnInv

(* An episode is a game that this player won by its last move.             *)
LEMMA EpisodeEndsWon ==
  ASSUME LearnAssumption, NEW e \in WonEpisodes
  PROVE  /\ e \in Seq(Position)
         /\ \A i \in 1 .. Len(e) : e[i] = Won => i = Len(e)
<1>1. PICK s \in Seq(OnWay) : e = s \o <<Won>>
  <2>1. PICK n \in 0 .. Won : \E s \in [1 .. n -> OnWay] : e = s \o <<Won>>
    BY Zenon DEF WonEpisodes
  <2>2. n \in Nat
    BY <2>1 DEF LearnAssumption
  <2>3. PICK s \in [1 .. n -> OnWay] : e = s \o <<Won>>
    BY <2>1
  <2>4. s \in Seq(OnWay)
    BY <2>2
  <2> QED
    BY <2>3, <2>4, Zenon
<1>2. Won \notin OnWay
  BY DEF LearnAssumption
<1>3. s \in Seq(Position) /\ <<Won>> \in Seq(Position) /\ Len(<<Won>>) = 1
  BY DEF Position
<1>4. /\ e \in Seq(Position) /\ Len(e) = Len(s) + 1
      /\ \A i \in 1 .. Len(s) : e[i] = s[i]
  BY <1>1, <1>3
<1>5. \A i \in 1 .. Len(s) : s[i] \in OnWay
  BY <1>1
<1>6. ASSUME NEW i \in 1 .. Len(e), e[i] = Won PROVE i = Len(e)
  <2>1. Len(s) \in Nat
    BY <1>1
  <2>2. i \notin 1 .. Len(s)
    BY <1>2, <1>4, <1>5, <1>6
  <2> QED
    BY <1>4, <2>1, <2>2
<1> QED
  BY <1>4, <1>6

(* The move that step_update_state_value comes to.                         *)
LEMMA StepValues ==
  ASSUME LearnAssumption, LearnInv, step_update_state_value
  PROVE  \E p \in Position :
           /\ p = episode[Len(episode)] /\ (p = Won => next = 0)
           /\ next' = NewScore(scores[p], Reward(p) - fixed_mul(GAMMA, next))
           /\ next' \in InRange
           /\ scores' = [scores EXCEPT ![p] = next']
<1>1. /\ episode \in Seq(Position) /\ episode # <<>> /\ next \in InRange
      /\ scores \in [Position -> InRange]
  BY DEF LearnInv, step_update_state_value
<1>2. Len(episode) \in 1 .. Len(episode)
  BY <1>1
<1>3. PICK p \in Position : p = episode[Len(episode)]
  BY <1>1, <1>2
<1>4. p = Won => next = 0
  BY <1>2, <1>3 DEF LearnInv
<1>5. /\ next' = NewScore(scores[p], Reward(p) - fixed_mul(GAMMA, next))
      /\ scores' = [scores EXCEPT ![p] = next']
  BY <1>3, Zenon DEF step_update_state_value
<1>6. Reward(p) - fixed_mul(GAMMA, next) \in InRange
  BY <1>1, <1>4, ValueInRange
<1>7. PICK c \in InRange : c = Reward(p) - fixed_mul(GAMMA, next)
  BY <1>6
<1>8. next' \in InRange
  BY <1>1, <1>5, <1>7, NewScoreInRange
<1> QED
  BY <1>3, <1>4, <1>5, <1>8

(* Every step of an update, and the end of a game.                         *)
LEMMA LearnStep == LearnAssumption /\ LearnInv /\ [LearnNext]_learnVars => LearnInv'
<1> SUFFICES ASSUME LearnAssumption, LearnInv, [LearnNext]_learnVars PROVE LearnInv'
  OBVIOUS
<1>1. CASE LearnEpisode
  <2>1. PICK e \in WonEpisodes : episode' = e
    BY <1>1 DEF LearnEpisode
  <2>2. next' = 0 /\ scores' = scores /\ 0 \in InRange
    BY <1>1, UnitFacts DEF LearnEpisode, InRange
  <2> QED
    BY <2>1, <2>2, EpisodeEndsWon DEF LearnInv
<1>2. CASE step_update_state_value
  <2>1. PICK p \in Position :
          next' \in InRange /\ scores' = [scores EXCEPT ![p] = next']
    BY <1>2, StepValues
  <2>2. scores' \in [Position -> InRange]
    BY <2>1 DEF LearnInv
  <2>3. PICK n \in Nat : n + 1 = Len(episode) /\ episode' = SubSeq(episode, 1, n)
    <3>1. Len(episode) - 1 \in Nat
      BY <1>2 DEF LearnInv, step_update_state_value
    <3> QED
      BY <1>2, <3>1 DEF LearnInv, step_update_state_value
  <2>4. /\ episode' \in Seq(Position) /\ Len(episode') = n
        /\ \A i \in 1 .. n : episode'[i] = episode[i]
    BY <2>3 DEF LearnInv
  <2>5. \A i \in 1 .. Len(episode') : episode'[i] # Won
    BY <2>3, <2>4 DEF LearnInv
  <2> QED
    BY <2>1, <2>2, <2>4, <2>5 DEF LearnInv
<1>3. CASE \E p \in Position : Evict(p)
  BY <1>3 DEF Evict, LearnInv, LearnAssumption
<1>4. CASE UNCHANGED learnVars
  BY <1>4 DEF learnVars, LearnInv
<1> QED
  BY <1>1, <1>2, <1>3, <1>4 DEF LearnNext

(* The value of a position stays between minus a half and one, whatever    *)
(* the order and the number of the games, for any unit, any discount and   *)
(* any even learning rate (rl.c, step_update_state_value and fixed_mul):   *)
(* an update does not overflow.                                            *)
THEOREM LearnBounded ==
  ASSUME LearnAssumption
  PROVE  LearnSpec => []ValuesBounded
<1>1. LearnInv => ValuesBounded
  BY DEF LearnInv, ValuesBounded
<1> QED
  BY <1>1, LearnInitially, LearnStep, PTL DEF LearnSpec

(* No update lowers the value of a position that was won, from the reward  *)
(* of 1 that it is given each time.                                        *)
THEOREM LearnWins ==
  ASSUME LearnAssumption
  PROVE  LearnSpec => WinNeverLowered
<1>1. ASSUME LearnInv, step_update_state_value PROVE scores'[Won] >= scores[Won]
  <2>1. PICK p \in Position :
          /\ p = Won => next = 0
          /\ next' = NewScore(scores[p], Reward(p) - fixed_mul(GAMMA, next))
          /\ scores' = [scores EXCEPT ![p] = next']
    BY <1>1, StepValues
  <2>2. scores \in [Position -> InRange] /\ next \in InRange /\ Won \in Position
    BY <1>1 DEF LearnInv, Position
  <2>3. CASE p = Won
    <3>1. Reward(p) - fixed_mul(GAMMA, next) = RL_FIXED_1
      BY <2>1, <2>2, <2>3, ValueInRange
    <3>2. next' = NewScore(scores[Won], RL_FIXED_1) /\ scores'[Won] = next'
      BY <2>1, <2>2, <2>3, <3>1
    <3> QED
      BY <2>2, <3>2, WinScore
  <2>4. CASE p # Won
    <3>1. scores'[Won] = scores[Won] /\ scores[Won] \in Int
      BY <2>1, <2>2, <2>4, UnitFacts
    <3> QED
      BY <3>1
  <2> QED
    BY <2>3, <2>4
<1>2. LearnInv /\ [LearnNext]_learnVars =>
        [step_update_state_value => scores'[Won] >= scores[Won]]_learnVars
  BY <1>1
<1> QED
  BY <1>2, LearnInitially, LearnStep, PTL DEF LearnSpec, WinNeverLowered
=============================================================================
