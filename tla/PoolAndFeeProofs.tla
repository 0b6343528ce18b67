-------------------------- MODULE PoolAndFeeProofs --------------------------
(***************************************************************************)
(* Proofs about two parts of the program that keep their own state: the     *)
(* slots of an intent book (NodePool) with the seats and intents in them    *)
(* (Storage), and the fee schedule with the volumes that place a trader on  *)
(* it (FeeTiers).                                                           *)
(***************************************************************************)
EXTENDS Storage, FeeTiers, TotalsProofs, WellFoundedInduction

-----------------------------------------------------------------------------
(* The node pool *)

PoolType ==
  /\ pool \in [freelist : Seq(Slots), nodeCount : Nat, capacity : Nat]
  /\ node \in [Slots -> Occupants \cup {Vacant}]
  /\ 1 <= pool.nodeCount /\ pool.nodeCount <= pool.capacity
  /\ InitialCapacity <= pool.capacity /\ pool.capacity <= MaxCapacity

PoolInv == PoolType /\ Partition

(* A new book: every slot lies beyond node_count. *)
LEMMA PoolInit == InitPool => PoolInv
BY PoolAssumption DEF InitPool, PoolInv, PoolType, Partition, Touched, Slots

(* Touched, of the header fields p. *)
Seen(p, idx) == idx < p.nodeCount \/ (InitialCapacity <= idx /\ idx < p.capacity)

(* The same of any header fields p and slots nd: a post that also makes a     *)
(* seat allocates twice, the second time from what the first one left.        *)
Split(p, nd) ==
  LET free == p.freelist
  IN  /\ \A j, k \in DOMAIN free : free[j] = free[k] => j = k
      /\ \A k \in DOMAIN free : nd[free[k]] = Vacant /\ Seen(p, free[k])
      /\ \A idx \in Slots : nd[idx] # Vacant => Seen(p, idx)
      /\ \A idx \in Slots : Seen(p, idx) /\ nd[idx] = Vacant =>
           \E k \in DOMAIN free : free[k] = idx

HeaderOK(p) ==
  /\ p \in [freelist : Seq(Slots), nodeCount : Nat, capacity : Nat]
  /\ 1 <= p.nodeCount /\ p.nodeCount <= p.capacity
  /\ InitialCapacity <= p.capacity /\ p.capacity <= MaxCapacity

PoolOK(p, nd) ==
  /\ HeaderOK(p)
  /\ nd \in [Slots -> Occupants \cup {Vacant}]
  /\ p.nodeCount <= InitialCapacity => Split(p, nd)

(* The invariant says that of the pool, before and after a step. *)
LEMMA PoolInvForm == (PoolInv <=> PoolOK(pool, node)) /\ (PoolInv' <=> PoolOK(pool', node'))
BY Zenon DEF PoolInv, PoolType, PoolOK, HeaderOK, Partition, Split, Touched, Seen

(* alloc_node returns a slot of the account, from the freelist if it has one. *)
LEMMA AllocForms ==
  ASSUME NEW p, HeaderOK(p), CanAlloc(p), NEW q, q = AfterAlloc(p)
  PROVE  /\ AllocIdx(p) \in Slots
         /\ q.capacity = p.capacity
         /\ \/ /\ p.freelist # <<>>
               /\ AllocIdx(p) = p.freelist[1]
               /\ q.nodeCount = p.nodeCount
               /\ Len(q.freelist) = Len(p.freelist) - 1
               /\ \A k \in 1..Len(q.freelist) : q.freelist[k] = p.freelist[k + 1]
            \/ /\ p.freelist = <<>>
               /\ AllocIdx(p) = p.nodeCount
               /\ q.nodeCount = p.nodeCount + 1
               /\ q.freelist = <<>>
         /\ q \in [freelist : Seq(Slots), nodeCount : Nat, capacity : Nat]
<1> DEFINE free == p.freelist
<1>0. free \in Seq(Slots) /\ p.nodeCount \in Nat /\ p.capacity \in Nat
  BY DEF HeaderOK
<1>1. CASE free # <<>>
  <2>1. q = [p EXCEPT !.freelist = Tail(free)] /\ AllocIdx(p) = Head(free)
    BY <1>1 DEF AfterAlloc, AllocIdx
  <2>2. /\ Tail(free) \in Seq(Slots)
        /\ Head(free) = free[1]
        /\ free[1] \in Slots
        /\ Len(Tail(free)) = Len(free) - 1
        /\ \A k \in 1..Len(Tail(free)) : Tail(free)[k] = free[k + 1]
    BY <1>0, <1>1
  <2> QED BY <1>1, <2>1, <2>2, <1>0 DEF HeaderOK
<1>2. CASE free = <<>>
  <2>1. q = [p EXCEPT !.nodeCount = p.nodeCount + 1] /\ AllocIdx(p) = p.nodeCount
    BY <1>2 DEF AfterAlloc, AllocIdx
  <2>2. p.nodeCount < p.capacity
    BY <1>2 DEF CanAlloc
  <2>3. p.nodeCount \in Slots
    BY <1>0, <2>2, PoolAssumption DEF HeaderOK, Slots
  <2> QED BY <1>2, <2>1, <2>3, <1>0 DEF HeaderOK
<1> QED BY <1>1, <1>2

(* The members of a concatenation, from either part. *)
LEMMA ConcatForm ==
  ASSUME NEW S, NEW s \in Seq(S), NEW t \in Seq(S), NEW n \in Nat, Len(s) = n
  PROVE  /\ s \o t \in Seq(S) /\ Len(s \o t) = Len(t) + n
         /\ \A k \in 1..n : (s \o t)[k] = s[k]
         /\ \A k \in (n + 1)..Len(s \o t) : (s \o t)[k] = t[k - n]
OBVIOUS

(* The slots nd with o written into the one at at. *)
Written(nd, at, o) == [nd EXCEPT ![at] = o]

(* Writing into the slot that alloc_node chose, which was vacant as long as   *)
(* node_count has not passed the initial capacity.                            *)
LEMMA AllocKeeps ==
  ASSUME NEW p, NEW nd, PoolOK(p, nd), CanAlloc(p), NEW o \in Occupants,
         NEW q, q = AfterAlloc(p), NEW mid, mid = Written(nd, AllocIdx(p), o)
  PROVE  /\ PoolOK(q, mid)
         /\ AllocIdx(p) \in Slots
         /\ p.nodeCount <= q.nodeCount /\ q.nodeCount \in Nat
         /\ q.nodeCount <= InitialCapacity => nd[AllocIdx(p)] = Vacant
         /\ \A idx \in Slots : mid[idx] = IF idx = AllocIdx(p) THEN o ELSE nd[idx]
<1> DEFINE at == AllocIdx(p)
           free == p.freelist
           freeN == q.freelist
<1>1. HeaderOK(p) /\ nd \in [Slots -> Occupants \cup {Vacant}]
  BY DEF PoolOK
<1>2. /\ at \in Slots
      /\ q.capacity = p.capacity
      /\ q \in [freelist : Seq(Slots), nodeCount : Nat, capacity : Nat]
  BY <1>1, AllocForms
<1>3. free # <<>> =>
        /\ at = free[1]
        /\ q.nodeCount = p.nodeCount
        /\ Len(freeN) = Len(free) - 1
        /\ \A k \in 1..Len(freeN) : freeN[k] = free[k + 1]
  BY <1>1, AllocForms
<1>4. free = <<>> => at = p.nodeCount /\ q.nodeCount = p.nodeCount + 1 /\ freeN = <<>>
  BY <1>1, AllocForms
<1>5. /\ p.nodeCount \in Nat /\ p.capacity \in Nat /\ p.nodeCount <= p.capacity
      /\ 1 <= p.nodeCount /\ free \in Seq(Slots) /\ freeN \in Seq(Slots)
      /\ InitialCapacity \in Nat /\ o # Vacant
  BY <1>1, <1>2, PoolAssumption DEF HeaderOK
<1>6. p.nodeCount < p.capacity \/ free # <<>>
  BY DEF CanAlloc
<1>7. mid \in [Slots -> Occupants \cup {Vacant}]
  BY <1>1, <1>2 DEF Written
<1>8. HeaderOK(q)
  BY <1>1, <1>2, <1>3, <1>4, <1>5, <1>6 DEF HeaderOK
<1>9. \A idx \in Slots : mid[idx] = IF idx = at THEN o ELSE nd[idx]
  BY <1>1, <1>2 DEF Written
<1>10. p.nodeCount <= q.nodeCount /\ q.nodeCount \in Nat
  BY <1>3, <1>4, <1>5
<1>11. SUFFICES ASSUME q.nodeCount <= InitialCapacity
               PROVE  nd[at] = Vacant /\ Split(q, mid)
  BY <1>2, <1>7, <1>8, <1>9, <1>10 DEF PoolOK
<1>12. /\ \A j, k \in DOMAIN free : free[j] = free[k] => j = k
       /\ \A k \in DOMAIN free : nd[free[k]] = Vacant /\ Seen(p, free[k])
       /\ \A idx \in Slots : nd[idx] # Vacant => Seen(p, idx)
       /\ \A idx \in Slots : Seen(p, idx) /\ nd[idx] = Vacant =>
            \E k \in DOMAIN free : free[k] = idx
  <2>1. p.nodeCount <= InitialCapacity
    BY <1>5, <1>10, <1>11
  <2> QED BY <2>1, Zenon DEF PoolOK, Split
<1>13. DOMAIN free = 1..Len(free) /\ DOMAIN freeN = 1..Len(freeN)
  BY <1>5
<1>14. CASE free # <<>>
  <2>1. \A idx \in Slots : Seen(q, idx) <=> Seen(p, idx)
    BY <1>14, <1>3, <1>2 DEF Seen
  <2>2. Len(free) \in Nat /\ 1 \in DOMAIN free /\ Len(free) >= 1
    BY <1>5, <1>14, <1>13
  <2>3. nd[at] = Vacant /\ Seen(p, at)
    BY <1>3, <1>12, <1>14, <2>2
  <2>4. \A k \in DOMAIN freeN : k \in Nat /\ k + 1 \in DOMAIN free /\ k + 1 # 1 /\ freeN[k] = free[k + 1] /\ freeN[k] \in Slots
    BY <1>3, <1>5, <1>13, <1>14, <2>2
  <2>5. \A j, k \in DOMAIN freeN : freeN[j] = freeN[k] => j = k
    BY <2>4, <1>12
  <2>6. \A k \in DOMAIN freeN : freeN[k] # at
    BY <2>4, <2>2, <1>12, <1>3, <1>14
  <2>7. \A k \in DOMAIN freeN : mid[freeN[k]] = Vacant /\ Seen(q, freeN[k])
    BY <2>4, <2>6, <1>9, <1>12, <2>1
  <2>8. \A idx \in Slots : mid[idx] # Vacant => Seen(q, idx)
    BY <2>1, <2>3, <1>9, <1>12
  <2>9. ASSUME NEW idx \in Slots, Seen(q, idx), mid[idx] = Vacant
        PROVE  \E k \in DOMAIN freeN : freeN[k] = idx
    <3>1. idx # at /\ nd[idx] = Vacant /\ Seen(p, idx)
      BY <2>9, <2>1, <1>9, <1>5
    <3>2. PICK k \in DOMAIN free : free[k] = idx
      BY <3>1, <1>12
    <3>3. k # 1
      BY <3>1, <3>2, <1>3, <1>14
    <3>4. k \in Nat /\ k - 1 \in 1..Len(freeN) /\ (k - 1) + 1 = k
      BY <3>3, <1>13, <1>3, <1>14, <2>2
    <3>5. freeN[k - 1] = free[(k - 1) + 1]
      BY <3>4, <1>3, <1>14
    <3> QED BY <3>2, <3>4, <3>5, <1>13
  <2> HIDE DEF at
  <2> QED BY <2>3, <2>5, <2>7, <2>8, <2>9 DEF Split
<1>15. CASE free = <<>>
  <2>1. DOMAIN free = {} /\ DOMAIN freeN = {}
    BY <1>15, <1>4, <1>13
  <2>2. at = p.nodeCount /\ q.nodeCount = p.nodeCount + 1
    BY <1>15, <1>4
  <2>3. \A idx \in Slots : Seen(q, idx) <=> (Seen(p, idx) \/ idx = at)
    BY <2>2, <1>2, <1>5 DEF Seen, Slots
  <2>4. ~Seen(p, at)
    BY <2>2, <1>5, <1>11 DEF Seen
  <2>5. nd[at] = Vacant
    BY <2>4, <1>2, <1>12
  <2> QED BY <2>1, <2>3, <2>5, <1>9, <1>12, <1>5 DEF Split
<1> QED BY <1>14, <1>15

(* Storing an occupant. *)
LEMMA StoreInv ==
  ASSUME PoolInv, NEW o \in Occupants, Store(o)
  PROVE  PoolInv' /\ (pool'.nodeCount <= InitialCapacity => ~Overwrites)
<1> DEFINE q == pool'
           mid == node'
<1>1. /\ CanAlloc(pool) /\ q = AfterAlloc(pool) /\ mid = Written(node, AllocIdx(pool), o)
      /\ PoolOK(pool, node)
  BY PoolInvForm DEF Store, Written
<1> HIDE DEF q, mid
<1>2. /\ PoolOK(q, mid)
      /\ q.nodeCount <= InitialCapacity => node[AllocIdx(pool)] = Vacant
      /\ \A idx \in Slots : mid[idx] = IF idx = AllocIdx(pool) THEN o ELSE node[idx]
  BY <1>1, AllocKeeps
<1> QED BY <1>2, PoolInvForm DEF Overwrites, q, mid

(* free_node puts a slot that was in use, so not free yet, on the freelist. *)
LEMMA ReleaseInv ==
  ASSUME PoolInv, NEW at \in Slots, Release(at)
  PROVE  PoolInv' /\ ~Overwrites
<1> DEFINE free == pool.freelist
           freeN == pool'.freelist
<1>1. /\ node[at] # Vacant /\ node' = [node EXCEPT ![at] = Vacant]
      /\ pool' = [pool EXCEPT !.freelist = <<at>> \o free]
      /\ PoolType
  BY DEF Release, AfterFree, PoolInv
<1>2. free \in Seq(Slots)
  BY <1>1 DEF PoolType
<1>3. /\ freeN = <<at>> \o free
      /\ pool'.nodeCount = pool.nodeCount /\ pool'.capacity = pool.capacity
  BY <1>1 DEF PoolType
<1>4. /\ freeN \in Seq(Slots) /\ Len(freeN) = Len(free) + 1
      /\ freeN[1] = at
      /\ \A k \in 2..Len(freeN) : freeN[k] = free[k - 1]
  BY <1>2, <1>3
<1>5. node' \in [Slots -> Occupants \cup {Vacant}]
  BY <1>1 DEF PoolType
<1>6. PoolType'
  BY <1>1, <1>3, <1>4, <1>5 DEF PoolType
<1>7. \A idx \in Slots : node'[idx] = IF idx = at THEN Vacant ELSE node[idx]
  BY <1>1 DEF PoolType
<1>8. ~Overwrites
  BY <1>7 DEF Overwrites
<1>9. SUFFICES ASSUME pool.nodeCount <= InitialCapacity
               PROVE  /\ \A j, k \in DOMAIN freeN : freeN[j] = freeN[k] => j = k
                      /\ \A k \in DOMAIN freeN : node'[freeN[k]] = Vacant /\ Seen(pool', freeN[k])
                      /\ \A idx \in Slots : node'[idx] # Vacant => Seen(pool', idx)
                      /\ \A idx \in Slots : Seen(pool', idx) /\ node'[idx] = Vacant =>
                           \E k \in DOMAIN freeN : freeN[k] = idx
  BY <1>6, <1>8, <1>3 DEF PoolInv, Partition, Touched, Seen
<1>10. /\ \A j, k \in DOMAIN free : free[j] = free[k] => j = k
       /\ \A k \in DOMAIN free : node[free[k]] = Vacant /\ Seen(pool, free[k])
       /\ \A idx \in Slots : node[idx] # Vacant => Seen(pool, idx)
       /\ \A idx \in Slots : Seen(pool, idx) /\ node[idx] = Vacant =>
            \E k \in DOMAIN free : free[k] = idx
  BY <1>9 DEF PoolInv, Partition, Touched, Seen
<1>11. DOMAIN free = 1..Len(free) /\ DOMAIN freeN = 1..Len(freeN) /\ Len(free) \in Nat
  BY <1>2, <1>4
<1>12. \A idx : Seen(pool', idx) <=> Seen(pool, idx)
  BY <1>3 DEF Seen
<1>13. \A k \in DOMAIN freeN : k = 1 \/ (k - 1 \in DOMAIN free /\ freeN[k] = free[k - 1])
  BY <1>4, <1>11
<1>14. \A k \in DOMAIN free : free[k] # at /\ free[k] \in Slots
  BY <1>1, <1>2, <1>10, <1>11
<1> HIDE DEF free, freeN
<1>15. \A j, k \in DOMAIN freeN : freeN[j] = freeN[k] => j = k
  <2> SUFFICES ASSUME NEW j \in DOMAIN freeN, NEW k \in DOMAIN freeN, freeN[j] = freeN[k]
               PROVE  j = k
    OBVIOUS
  <2>1. j \in Nat /\ k \in Nat
    BY <1>11
  <2>2. CASE j = 1 \/ k = 1
    BY <2>2, <1>4, <1>13, <1>14
  <2>3. CASE j # 1 /\ k # 1
    <3>1. j - 1 = k - 1
      BY <2>3, <1>13, <1>10
    <3> QED BY <2>1, <3>1
  <2> QED BY <2>2, <2>3
<1>16. \A k \in DOMAIN freeN : node'[freeN[k]] = Vacant /\ Seen(pool', freeN[k])
  <2> SUFFICES ASSUME NEW k \in DOMAIN freeN
               PROVE  node'[freeN[k]] = Vacant /\ Seen(pool', freeN[k])
    OBVIOUS
  <2>1. CASE k = 1
    BY <2>1, <1>1, <1>4, <1>7, <1>10, <1>12
  <2>2. CASE k - 1 \in DOMAIN free /\ freeN[k] = free[k - 1]
    BY <2>2, <1>7, <1>10, <1>12, <1>14
  <2> QED BY <2>1, <2>2, <1>13
<1>17. \A idx \in Slots : node'[idx] # Vacant => Seen(pool', idx)
  BY <1>7, <1>10, <1>12
<1>18. ASSUME NEW idx \in Slots, Seen(pool', idx), node'[idx] = Vacant
       PROVE  \E k \in DOMAIN freeN : freeN[k] = idx
  <2>1. CASE idx = at
    BY <2>1, <1>4, <1>11
  <2>2. CASE idx # at
    <3>1. PICK k \in DOMAIN free : free[k] = idx
      BY <2>2, <1>18, <1>7, <1>10, <1>12
    <3>2. k + 1 \in DOMAIN freeN /\ k + 1 \in 2..Len(freeN) /\ k + 1 - 1 = k
      BY <1>4, <1>11
    <3>3. freeN[k + 1] = free[k]
      BY <3>2, <1>4
    <3> QED BY <3>1, <3>2, <3>3
  <2> QED BY <2>1, <2>2
<1> QED BY <1>15, <1>16, <1>17, <1>18

(* ExpandIntentBook adds slots beyond the capacity, which nobody had. *)
LEMMA ExpandInv ==
  ASSUME PoolInv, NEW n \in Expansions, ExpandIntentBook(n)
  PROVE  PoolInv' /\ ~Overwrites
<1> DEFINE free == pool.freelist
           freeN == pool'.freelist
           cap == pool.capacity
           fresh == [k \in 1..n |-> pool.capacity + n - k]
<1>1. /\ n > 0 /\ cap + n <= MaxCapacity /\ node' = node
      /\ pool' = [pool EXCEPT !.capacity = cap + n, !.freelist = fresh \o free]
      /\ PoolType
  BY DEF ExpandIntentBook, Expanded, PoolInv
<1>2. /\ free \in Seq(Slots) /\ n \in Nat /\ cap \in Nat /\ InitialCapacity \in Nat
      /\ 1 <= cap /\ InitialCapacity <= cap /\ MaxCapacity \in Nat
      /\ pool.nodeCount \in Nat /\ pool.nodeCount <= cap
  BY <1>1, PoolAssumption DEF PoolType
<1>3. /\ freeN = fresh \o free
      /\ pool'.nodeCount = pool.nodeCount /\ pool'.capacity = cap + n
  BY <1>1 DEF PoolType
<1>4. fresh \in Seq(Slots) /\ Len(fresh) = n /\ \A k \in 1..n : fresh[k] = cap + n - k
  <2>1. \A k \in 1..n : cap + n - k \in Slots
    BY <1>1, <1>2 DEF Slots
  <2>2. fresh \in [1..n -> Slots]
    BY <2>1
  <2> QED BY <2>2, <1>2
<1> HIDE DEF fresh
<1>5. /\ freeN \in Seq(Slots) /\ Len(freeN) = Len(free) + n
      /\ \A k \in 1..n : freeN[k] = cap + n - k
      /\ \A k \in (n + 1)..Len(freeN) : freeN[k] = free[k - n]
  <2>1. /\ fresh \o free \in Seq(Slots) /\ Len(fresh \o free) = Len(free) + n
        /\ \A k \in 1..n : (fresh \o free)[k] = fresh[k]
        /\ \A k \in (n + 1)..Len(fresh \o free) : (fresh \o free)[k] = free[k - n]
    BY <1>2, <1>4, ConcatForm
  <2> QED BY <2>1, <1>3, <1>4
<1>6. PoolType'
  <2>1. pool' \in [freelist : Seq(Slots), nodeCount : Nat, capacity : Nat]
    <3> HIDE DEF free, freeN
    <3>1. fresh \o free \in Seq(Slots) /\ cap + n \in Nat
      BY <1>2, <1>3, <1>5
    <3> DEFINE all == fresh \o free
               total == cap + n
    <3>2. pool' = [pool EXCEPT !.capacity = total, !.freelist = all]
      BY <1>1
    <3> HIDE DEF all, total
    <3> QED BY <3>2, <3>1, <1>1 DEF PoolType, all, total
  <2> QED BY <2>1, <1>1, <1>2, <1>3 DEF PoolType
<1>7. ~Overwrites
  BY <1>1 DEF Overwrites
<1>8. SUFFICES ASSUME pool.nodeCount <= InitialCapacity
               PROVE  /\ \A j, k \in DOMAIN freeN : freeN[j] = freeN[k] => j = k
                      /\ \A k \in DOMAIN freeN : node[freeN[k]] = Vacant /\ Seen(pool', freeN[k])
                      /\ \A idx \in Slots : node[idx] # Vacant => Seen(pool', idx)
                      /\ \A idx \in Slots : Seen(pool', idx) /\ node[idx] = Vacant =>
                           \E k \in DOMAIN freeN : freeN[k] = idx
  BY <1>1, <1>6, <1>7, <1>3 DEF PoolInv, Partition, Touched, Seen
<1>9. /\ \A j, k \in DOMAIN free : free[j] = free[k] => j = k
      /\ \A k \in DOMAIN free : node[free[k]] = Vacant /\ Seen(pool, free[k])
      /\ \A idx \in Slots : node[idx] # Vacant => Seen(pool, idx)
      /\ \A idx \in Slots : Seen(pool, idx) /\ node[idx] = Vacant =>
           \E k \in DOMAIN free : free[k] = idx
  BY <1>8 DEF PoolInv, Partition, Touched, Seen
<1>10. DOMAIN free = 1..Len(free) /\ DOMAIN freeN = 1..Len(freeN) /\ Len(free) \in Nat
  BY <1>2, <1>5
<1> HIDE DEF free, freeN
<1>11. \A idx \in Slots : Seen(pool', idx) <=> (Seen(pool, idx) \/ (cap <= idx /\ idx < cap + n))
  BY <1>2, <1>3 DEF Seen, Slots
<1>12. \A idx \in Slots : Seen(pool, idx) => idx < cap
  BY <1>2 DEF Seen, Slots
<1>13. \A k \in DOMAIN freeN :
         \/ k \in 1..n /\ freeN[k] = cap + n - k
         \/ k - n \in DOMAIN free /\ freeN[k] = free[k - n] /\ k \notin 1..n
  BY <1>2, <1>5, <1>10
<1>14. \A k \in DOMAIN free : free[k] \in Slots /\ free[k] < cap
  BY <1>2, <1>9, <1>10, <1>12
<1>15. \A j, k \in DOMAIN freeN : freeN[j] = freeN[k] => j = k
  <2> SUFFICES ASSUME NEW j \in DOMAIN freeN, NEW k \in DOMAIN freeN, freeN[j] = freeN[k]
               PROVE  j = k
    OBVIOUS
  <2>0. j \in Nat /\ k \in Nat
    BY <1>10
  <2>1. CASE j \in 1..n /\ k \in 1..n
    BY <2>0, <2>1, <1>2, <1>5
  <2>2. CASE j \in 1..n /\ k \notin 1..n
    <3>1. freeN[j] = cap + n - j /\ freeN[k] \in Slots /\ freeN[k] < cap
      BY <2>2, <1>2, <1>5, <1>13, <1>14
    <3> QED BY <2>0, <2>2, <3>1, <1>2 DEF Slots
  <2>3. CASE j \notin 1..n /\ k \in 1..n
    <3>1. freeN[k] = cap + n - k /\ freeN[j] \in Slots /\ freeN[j] < cap
      BY <2>3, <1>2, <1>5, <1>13, <1>14
    <3> QED BY <2>0, <2>3, <3>1, <1>2 DEF Slots
  <2>4. CASE j \notin 1..n /\ k \notin 1..n
    <3>1. j - n \in DOMAIN free /\ k - n \in DOMAIN free /\ free[j - n] = free[k - n]
      BY <2>4, <1>13
    <3>2. j - n = k - n
      BY <3>1, <1>9
    <3> QED BY <2>0, <3>2, <1>2
  <2> QED BY <2>1, <2>2, <2>3, <2>4
<1>16. \A k \in DOMAIN freeN : node[freeN[k]] = Vacant /\ Seen(pool', freeN[k])
  <2> SUFFICES ASSUME NEW k \in DOMAIN freeN
               PROVE  node[freeN[k]] = Vacant /\ Seen(pool', freeN[k])
    OBVIOUS
  <2>1. freeN[k] \in Slots
    BY <1>5, <1>10
  <2>2. CASE k \in 1..n /\ freeN[k] = cap + n - k
    <3>1. cap <= freeN[k] /\ freeN[k] < cap + n
      BY <2>2, <1>2
    <3>2. ~Seen(pool, freeN[k])
      BY <2>1, <3>1, <1>12, <1>2 DEF Slots
    <3> QED BY <2>1, <3>1, <3>2, <1>9, <1>11
  <2>3. CASE k - n \in DOMAIN free /\ freeN[k] = free[k - n]
    BY <2>1, <2>3, <1>9, <1>11
  <2> QED BY <2>2, <2>3, <1>13
<1>17. \A idx \in Slots : node[idx] # Vacant => Seen(pool', idx)
  BY <1>9, <1>11
<1>18. ASSUME NEW idx \in Slots, Seen(pool', idx), node[idx] = Vacant
       PROVE  \E k \in DOMAIN freeN : freeN[k] = idx
  <2>1. CASE Seen(pool, idx)
    <3>1. PICK k \in DOMAIN free : free[k] = idx
      BY <2>1, <1>18, <1>9
    <3>2. k + n \in DOMAIN freeN /\ k + n \in (n + 1)..Len(freeN) /\ (k + n) - n = k
      BY <1>2, <1>5, <1>10
    <3>3. freeN[k + n] = free[(k + n) - n]
      BY <3>2, <1>5
    <3> QED BY <3>1, <3>2, <3>3
  <2>2. CASE cap <= idx /\ idx < cap + n
    <3>1. idx \in Nat
      BY DEF Slots
    <3>2. cap + n - idx \in 1..n /\ cap + n - (cap + n - idx) = idx
      BY <2>2, <3>1, <1>2
    <3>3. cap + n - idx \in DOMAIN freeN
      BY <3>2, <1>2, <1>5, <1>10
    <3> QED BY <3>2, <3>3, <1>5
  <2> QED BY <2>1, <2>2, <1>18, <1>11
<1> QED BY <1>15, <1>16, <1>17, <1>18

(* Every step keeps the pool's invariant, and what is in use. *)
LEMMA PoolStep ==
  PoolInv /\ [NextPool]_poolVars =>
    PoolInv' /\ (pool'.nodeCount <= InitialCapacity => ~Overwrites)
<1> SUFFICES ASSUME PoolInv, [NextPool]_poolVars
             PROVE  PoolInv' /\ (pool'.nodeCount <= InitialCapacity => ~Overwrites)
  OBVIOUS
<1>1. ASSUME NEW o \in Occupants, Store(o)
      PROVE  PoolInv' /\ (pool'.nodeCount <= InitialCapacity => ~Overwrites)
  BY <1>1, StoreInv
<1>2. ASSUME NEW idx \in Slots, Release(idx)
      PROVE  PoolInv' /\ ~Overwrites
  BY <1>2, ReleaseInv
<1>3. ASSUME NEW n \in Expansions, ExpandIntentBook(n)
      PROVE  PoolInv' /\ ~Overwrites
  BY <1>3, ExpandInv
<1>4. CASE UNCHANGED poolVars
  BY <1>4 DEF poolVars, PoolInv, PoolType, Partition, Touched, Overwrites
<1> QED BY <1>1, <1>2, <1>3, <1>4 DEF NextPool

(* No slot of an intent book leaks and none is free and in use at once, for   *)
(* every capacity and every order of alloc_node, free_node and                *)
(* ExpandIntentBook, until node_count passes the capacity the book was made   *)
(* with.                                                                      *)
THEOREM SlotsPartitioned == PoolSpec => []Partition
<1>1. PoolInv /\ [NextPool]_poolVars => PoolInv'
  BY PoolStep
<1>2. PoolInv => Partition
  BY DEF PoolInv
<1> QED BY PoolInit, <1>1, <1>2, PTL DEF PoolSpec

(* alloc_node hands out no slot that is in use, unless it takes one at        *)
(* node_count beyond the capacity the book was made with: the slots           *)
(* ExpandIntentBook put on the freelist are the only ones it can hand out     *)
(* twice.                                                                     *)
THEOREM InUseKept ==
  PoolSpec => [][pool'.nodeCount <= InitialCapacity => ~Overwrites]_poolVars
<1>1. PoolInv /\ [NextPool]_poolVars => PoolInv'
  BY PoolStep
<1>2. PoolInv /\ [NextPool]_poolVars => [pool'.nodeCount <= InitialCapacity => ~Overwrites]_poolVars
  BY PoolStep
<1> QED BY PoolInit, <1>1, <1>2, PTL DEF PoolSpec

-----------------------------------------------------------------------------
(* Seats and intents *)

(* Slot idx of nd is the seat of trader. *)
Sits(nd, idx, trader) == nd[idx] # Vacant /\ nd[idx].kind = "seat" /\ nd[idx].trader = trader

(* SeatsResolve, of any slots nd. *)
Resolves(nd) ==
  /\ \A i, j \in Slots : \A trader : Sits(nd, i, trader) /\ Sits(nd, j, trader) => i = j
  /\ \A idx \in Slots : nd[idx] # Vacant /\ nd[idx].kind = "intent" =>
       nd[idx].ownerSeat \in Slots /\ Sits(nd, nd[idx].ownerSeat, nd[idx].owner)

(* Seats are resolved in the book's own slots, before and after a step. *)
LEMMA ResolvesForm ==
  (SeatsResolve <=> Resolves(node)) /\ (SeatsResolve' <=> Resolves(node'))
BY DEF SeatsResolve, Resolves, Sits, SeatsOf, IsSeat, IsIntent

(* A seat in a vacant slot, for a trader without one. *)
LEMMA SeatPlaced ==
  ASSUME NEW nd, Resolves(nd), NEW at \in Slots, nd[at] = Vacant, NEW trader,
         \A idx \in Slots : ~Sits(nd, idx, trader), Seat(trader) # Vacant,
         NEW mid, \A idx \in Slots : mid[idx] = IF idx = at THEN Seat(trader) ELSE nd[idx]
  PROVE  Resolves(mid) /\ Sits(mid, at, trader)
<1>1. \A idx \in Slots : \A t : Sits(mid, idx, t) <=> (Sits(nd, idx, t) \/ (idx = at /\ t = trader))
  BY DEF Sits, Seat
<1>2. \A i, j \in Slots : \A t : Sits(mid, i, t) /\ Sits(mid, j, t) => i = j
  BY <1>1 DEF Resolves
<1>3. ASSUME NEW idx \in Slots, mid[idx] # Vacant, mid[idx].kind = "intent"
      PROVE  mid[idx].ownerSeat \in Slots /\ Sits(mid, mid[idx].ownerSeat, mid[idx].owner)
  <2>1. mid[idx] = nd[idx]
    BY <1>3 DEF Seat
  <2> QED BY <2>1, <1>1, <1>3 DEF Resolves
<1> QED BY <1>1, <1>2, <1>3 DEF Resolves

(* An intent in a vacant slot, with the seat of its trader. *)
LEMMA IntentPlaced ==
  ASSUME NEW nd, Resolves(nd), NEW at \in Slots, nd[at] = Vacant, NEW trader,
         NEW seat \in Slots, Sits(nd, seat, trader), NEW side, NEW price, NEW seq,
         NEW mid, \A idx \in Slots : mid[idx] = IF idx = at
                                               THEN Intent(trader, side, price, seat, seq)
                                               ELSE nd[idx]
  PROVE  Resolves(mid)
<1>1. \A idx \in Slots : \A t : Sits(mid, idx, t) <=> Sits(nd, idx, t)
  BY DEF Sits, Intent
<1>2. \A i, j \in Slots : \A t : Sits(mid, i, t) /\ Sits(mid, j, t) => i = j
  BY <1>1 DEF Resolves
<1>3. ASSUME NEW idx \in Slots, mid[idx] # Vacant, mid[idx].kind = "intent"
      PROVE  mid[idx].ownerSeat \in Slots /\ Sits(mid, mid[idx].ownerSeat, mid[idx].owner)
  <2>1. CASE idx = at
    <3>1. mid[idx].ownerSeat = seat /\ mid[idx].owner = trader
      BY <2>1 DEF Intent
    <3> QED BY <3>1, <1>1
  <2>2. CASE idx # at
    BY <2>2, <1>1, <1>3 DEF Resolves
  <2> QED BY <2>1, <2>2
<1> QED BY <1>2, <1>3 DEF Resolves

(* An intent taken out. *)
LEMMA IntentTaken ==
  ASSUME NEW nd, Resolves(nd), NEW at \in Slots, nd[at].kind = "intent",
         NEW mid, \A idx \in Slots : mid[idx] = IF idx = at THEN Vacant ELSE nd[idx]
  PROVE  Resolves(mid)
<1>1. \A idx \in Slots : \A t : Sits(mid, idx, t) <=> Sits(nd, idx, t)
  BY DEF Sits
<1>2. \A i, j \in Slots : \A t : Sits(mid, i, t) /\ Sits(mid, j, t) => i = j
  BY <1>1 DEF Resolves
<1>3. ASSUME NEW idx \in Slots, mid[idx] # Vacant, mid[idx].kind = "intent"
      PROVE  mid[idx].ownerSeat \in Slots /\ Sits(mid, mid[idx].ownerSeat, mid[idx].owner)
  BY <1>1, <1>3 DEF Resolves
<1> QED BY <1>2, <1>3 DEF Resolves

(* Seats stay resolved because no post overwrites a slot in use, which the    *)
(* partition of the slots gives as long as node_count is within the capacity  *)
(* the book was made with.                                                    *)
StorageInv ==
  /\ PoolInv
  /\ Sound(pool)
  /\ nextSeq \in Nat \ {0}
  /\ SeatsResolve

(* An empty book. *)
LEMMA StorageInit == InitStorage => StorageInv
<1> SUFFICES ASSUME InitStorage PROVE StorageInv
  OBVIOUS
<1>1. InitPool /\ nextSeq = 1
  BY DEF InitStorage
<1>2. PoolInv
  BY <1>1, PoolInit
<1>3. Sound(pool)
  BY <1>1, PoolAssumption DEF InitPool, Sound
<1>4. SeatsResolve
  BY <1>1 DEF InitPool, SeatsResolve, IsSeat, IsIntent
<1> QED BY <1>1, <1>2, <1>3, <1>4 DEF StorageInv

(* A post by a trader that has a seat. *)
LEMMA StoreIntentKeeps ==
  ASSUME PoolInv, SeatsResolve, nextSeq \in Nat \ {0}, nextSeq <= MaxSeq,
         NEW p \in PostInputs(nextSeq), StoreIntent(p.trader, p.side, p.price), Sound(pool')
  PROVE  PoolInv' /\ SeatsResolve' /\ ~Overwrites
<1>1. PICK seat \in SeatsOf(p.trader) :
        /\ CanAlloc(pool)
        /\ node' = [node EXCEPT ![AllocIdx(pool)] = Intent(p.trader, p.side, p.price, seat, nextSeq)]
        /\ pool' = AfterAlloc(pool)
  BY Zenon DEF StoreIntent
<1> DEFINE q == pool'
           mid == node'
           o == Intent(p.trader, p.side, p.price, seat, nextSeq)
           trader == p.trader
<1>2. seat \in Slots /\ Sits(node, seat, trader)
  BY DEF SeatsOf, IsSeat, Sits
<1>3. o \in Occupants
  BY <1>2, StorageAssumption
<1>4. q = AfterAlloc(pool) /\ mid = Written(node, AllocIdx(pool), o)
  BY <1>1 DEF Written
<1>5. PoolOK(pool, node) /\ Resolves(node)
  BY PoolInvForm, ResolvesForm
<1>6. q.nodeCount <= InitialCapacity
  BY DEF Sound
<1> HIDE DEF q, mid, o
<1>7. /\ PoolOK(q, mid)
      /\ AllocIdx(pool) \in Slots
      /\ node[AllocIdx(pool)] = Vacant
      /\ \A idx \in Slots : mid[idx] = IF idx = AllocIdx(pool) THEN o ELSE node[idx]
  BY <1>1, <1>3, <1>4, <1>5, <1>6, AllocKeeps
<1> DEFINE at == AllocIdx(pool)
           side == p.side
           price == p.price
<1>8. \A idx \in Slots : mid[idx] = IF idx = at THEN Intent(trader, side, price, seat, nextSeq) ELSE node[idx]
  BY <1>7 DEF o
<1>9. at \in Slots /\ node[at] = Vacant
  BY <1>7
<1> HIDE DEF at, side, price, trader
<1>10. Resolves(mid)
  BY <1>2, <1>5, <1>8, <1>9, IntentPlaced
<1>11. ~Overwrites
  BY <1>8, <1>9 DEF Overwrites, mid
<1> QED BY <1>7, <1>10, <1>11, PoolInvForm, ResolvesForm DEF q, mid

(* A trader's first post, which allocates twice. *)
LEMMA StoreSeatAndIntentKeeps ==
  ASSUME PoolInv, SeatsResolve, nextSeq \in Nat \ {0}, nextSeq <= MaxSeq,
         NEW p \in PostInputs(nextSeq), StoreSeatAndIntent(p.trader, p.side, p.price), Sound(pool')
  PROVE  PoolInv' /\ SeatsResolve' /\ ~Overwrites
<1> DEFINE trader == p.trader
           side == p.side
           price == p.price
           seat == AllocIdx(pool)
           rest == AfterAlloc(pool)
           at == AllocIdx(rest)
           s == Seat(trader)
           seated == Written(node, seat, s)
           o == Intent(trader, side, price, seat, nextSeq)
           q == pool'
           mid == node'
<1>1. /\ SeatsOf(trader) = {}
      /\ CanAlloc(pool) /\ CanAlloc(rest)
      /\ mid = [node EXCEPT ![seat] = s, ![at] = o]
      /\ q = AfterAlloc(rest)
  BY DEF StoreSeatAndIntent
<1>2. mid = Written(seated, at, o)
  BY <1>1 DEF Written
<1>3. PoolOK(pool, node) /\ Resolves(node)
  BY PoolInvForm, ResolvesForm
<1>4. q.nodeCount <= InitialCapacity
  BY DEF Sound
<1>5. \A idx \in Slots : ~Sits(node, idx, trader)
  BY <1>1 DEF SeatsOf, IsSeat, Sits
<1>6. s \in Occupants /\ s # Vacant /\ \A i \in Slots : Intent(trader, side, price, i, nextSeq) \in Occupants
  BY StorageAssumption, PoolAssumption
<1> HIDE DEF trader, side, price, seat, at, rest, s, seated, o, q, mid
<1>7. /\ PoolOK(rest, seated)
      /\ seat \in Slots
      /\ rest.nodeCount \in Nat
      /\ rest.nodeCount <= InitialCapacity => node[seat] = Vacant
      /\ \A idx \in Slots : seated[idx] = IF idx = seat THEN s ELSE node[idx]
  BY <1>1, <1>3, <1>6, AllocKeeps DEF seat, rest, seated
<1>8. o \in Occupants
  BY <1>6, <1>7 DEF o
<1>9. /\ PoolOK(q, mid)
      /\ at \in Slots
      /\ rest.nodeCount <= q.nodeCount /\ q.nodeCount \in Nat
      /\ q.nodeCount <= InitialCapacity => seated[at] = Vacant
      /\ \A idx \in Slots : mid[idx] = IF idx = at THEN o ELSE seated[idx]
  <2>1. CanAlloc(rest) /\ q = AfterAlloc(rest) /\ mid = Written(seated, AllocIdx(rest), o)
    BY <1>1, <1>2 DEF at
  <2>2. PoolOK(rest, seated)
    BY <1>7
  <2> QED BY <2>1, <2>2, <1>8, AllocKeeps DEF at
<1>10. node[seat] = Vacant /\ seated[at] = Vacant
  BY <1>4, <1>7, <1>9, PoolAssumption
<1>11. \A idx \in Slots : seated[idx] = IF idx = seat THEN Seat(trader) ELSE node[idx]
  BY <1>7 DEF s
<1>12. Seat(trader) # Vacant
  BY <1>6 DEF s
<1>13. Resolves(seated) /\ Sits(seated, seat, trader)
  BY <1>3, <1>5, <1>7, <1>10, <1>11, <1>12, SeatPlaced
<1>14. \A idx \in Slots : mid[idx] = IF idx = at THEN Intent(trader, side, price, seat, nextSeq) ELSE seated[idx]
  BY <1>9 DEF o
<1>15. Resolves(mid)
  BY <1>7, <1>9, <1>10, <1>13, <1>14, IntentPlaced
<1>16. ~Overwrites
  BY <1>6, <1>7, <1>9, <1>10 DEF Overwrites, mid
<1> QED BY <1>9, <1>15, <1>16, PoolInvForm, ResolvesForm DEF q, mid

(* Every step of the storage keeps its invariant, and what is in use. *)
LEMMA StorageStep == StorageInv /\ [NextStorage]_storageVars => StorageInv' /\ ~Overwrites
<1> SUFFICES ASSUME StorageInv, [NextStorage]_storageVars
             PROVE  StorageInv' /\ ~Overwrites
  OBVIOUS
<1>0. PoolInv /\ Sound(pool) /\ nextSeq \in Nat \ {0} /\ SeatsResolve
  BY DEF StorageInv
<1>1. ASSUME NEW p \in PostInputs(nextSeq), StorePost(p.trader, p.side, p.price)
      PROVE  StorageInv' /\ ~Overwrites
  <2>1. /\ nextSeq <= MaxSeq /\ Sound(pool') /\ nextSeq' = nextSeq + 1
        /\ StoreIntent(p.trader, p.side, p.price) \/ StoreSeatAndIntent(p.trader, p.side, p.price)
    BY <1>1 DEF StorePost
  <2>2. PoolInv' /\ SeatsResolve' /\ ~Overwrites
    BY <2>1, <1>0, StoreIntentKeeps, StoreSeatAndIntentKeeps
  <2>3. nextSeq' \in Nat \ {0}
    BY <2>1, <1>0
  <2> QED BY <2>1, <2>2, <2>3 DEF StorageInv, Sound
<1>2. ASSUME NEW at \in Slots, Discard(at)
      PROVE  StorageInv' /\ ~Overwrites
  <2>1. IsIntent(at) /\ Release(at) /\ nextSeq' = nextSeq
    BY <1>2 DEF Discard
  <2>2. PoolInv' /\ ~Overwrites
    BY <2>1, <1>0, ReleaseInv
  <2>3. pool'.nodeCount = pool.nodeCount
    BY <2>1, <1>0 DEF Release, AfterFree, PoolInv, PoolType
  <2> DEFINE mid == node'
  <2>4. \A idx \in Slots : mid[idx] = IF idx = at THEN Vacant ELSE node[idx]
    BY <2>1, <1>0 DEF Release, PoolInv, PoolType
  <2>5. node[at].kind = "intent" /\ Resolves(node)
    BY <2>1, <1>0, ResolvesForm DEF IsIntent
  <2> HIDE DEF mid
  <2>6. Resolves(mid)
    BY <2>4, <2>5, IntentTaken
  <2>7. SeatsResolve'
    BY <2>6, ResolvesForm DEF mid
  <2> QED BY <2>1, <2>2, <2>3, <2>7, <1>0 DEF StorageInv, Sound
<1>3. ASSUME NEW n \in Expansions, ExpandIntentBook(n), UNCHANGED nextSeq
      PROVE  StorageInv' /\ ~Overwrites
  <2>1. PoolInv' /\ ~Overwrites
    BY <1>0, <1>3, ExpandInv
  <2>2. pool'.nodeCount = pool.nodeCount /\ node' = node
    BY <1>0, <1>3 DEF ExpandIntentBook, Expanded, PoolInv, PoolType
  <2>3. SeatsResolve'
    BY <2>2, <1>0, ResolvesForm
  <2> QED BY <2>1, <2>2, <2>3, <1>0, <1>3 DEF StorageInv, Sound
<1>4. CASE UNCHANGED storageVars
  <2>1. pool' = pool /\ node' = node /\ nextSeq' = nextSeq
    BY <1>4 DEF storageVars
  <2> QED BY <2>1, <1>0, PoolInvForm, ResolvesForm DEF StorageInv, Sound, Overwrites
<1> QED BY <1>1, <1>2, <1>3, <1>4 DEF NextStorage

(* Refunds and fills reach the trader that posted: no trader ever has two     *)
(* seats and every resting intent points at the seat of its owner, for any    *)
(* number of traders, posts, removals and expansions, in any order, while the *)
(* book has not grown past the capacity it was made with.                     *)
THEOREM SeatsAlwaysResolve == StorageSpec => []SeatsResolve
<1>1. StorageInv => SeatsResolve
  BY DEF StorageInv
<1> QED BY StorageInit, StorageStep, <1>1, PTL DEF StorageSpec

(* The slots of the book stay partitioned, though a trader's first post takes *)
(* two of them in one step.                                                   *)
THEOREM StorageSlotsPartitioned == StorageSpec => []Partition
<1>1. StorageInv => Partition
  BY DEF StorageInv, PoolInv
<1> QED BY StorageInit, StorageStep, <1>1, PTL DEF StorageSpec

(* No post, removal or expansion overwrites a seat or an intent in use, as    *)
(* long as the book has not grown past the capacity it was made with: what    *)
(* the pool alone does not guarantee beyond it.                               *)
THEOREM StorageKeepsInUse == StorageSpec => NoDoubleUse
<1>1. StorageInv /\ [NextStorage]_storageVars => [~Overwrites]_poolVars
  BY StorageStep
<1> QED BY StorageInit, StorageStep, <1>1, PTL DEF StorageSpec, NoDoubleUse

-----------------------------------------------------------------------------
(* A set of numbers that is not empty and has a bound has a greatest member. *)
LEMMA Greatest ==
  ASSUME NEW S \in SUBSET Nat, S # {}, NEW b \in Nat, \A x \in S : x <= b
  PROVE  \E m \in S : \A x \in S : x <= m
<1> DEFINE T == {b - x : x \in S}
           R == OpToRel(<, Nat)
<1>1. T \subseteq Nat /\ T # {}
  <2>1. \A x \in S : x \in Nat /\ b - x \in Nat
    OBVIOUS
  <2>2. PICK x \in S : TRUE
    OBVIOUS
  <2>3. b - x \in T
    OBVIOUS
  <2>4. T \subseteq Nat
    BY <2>1
  <2> HIDE DEF T
  <2> QED BY <2>3, <2>4
<1>2. IsWellFoundedOn(R, Nat)
  BY NatLessThanWellFounded
<1> HIDE DEF T, R
<1>3. PICK z \in T : \A y \in T : ~(<<y, z>> \in R)
  BY <1>1, <1>2, WFMin
<1>4. \A y \in T : ~(y < z)
  BY <1>1, <1>3 DEF R, OpToRel
<1>5. PICK m \in S : z = b - m
  BY DEF T
<1>6. \A x \in S : ~(b - x < b - m)
  BY <1>4, <1>5 DEF T
<1> QED BY <1>5, <1>6

-----------------------------------------------------------------------------
(* The fee schedule *)

(* The highest fee of the schedule in force bounds its tiers, and is bounded  *)
(* by that of every schedule before it.                                       *)
ScheduleInv ==
  /\ announced \subseteq Nat
  /\ schedule.tiers = <<>> => announced = {}
  /\ schedule.tiers # <<>> =>
       /\ schedule.tiers \in Seq([threshold : Nat, fee : Nat])
       /\ schedule.max \in Nat
       /\ \A k \in DOMAIN schedule.tiers : schedule.tiers[k].fee <= schedule.max
       /\ \A m \in announced : schedule.max <= m

(* Fees are numbers. *)
LEMMA FeeNat ==
  ASSUME NEW tiers \in Seq([threshold : Nat, fee : Nat]), NEW k \in DOMAIN tiers
  PROVE  tiers[k].fee \in Nat
<1> DEFINE T == [threshold : Nat, fee : Nat]
<1>1. tiers \in Seq(T)
  OBVIOUS
<1>2. \A x \in T : x.fee \in Nat
  OBVIOUS
<1> HIDE DEF T
<1>3. k \in 1..Len(tiers)
  BY <1>1
<1>4. tiers[k] \in T
  BY <1>1, <1>3
<1> QED BY <1>2, <1>4

(* The table that is installed bounds its own fees. *)
LEMMA MaxOfTable ==
  ASSUME NEW tiers \in Tables, ValidateTiers(tiers)
  PROVE  /\ tiers \in Seq([threshold : Nat, fee : Nat]) /\ tiers # <<>>
         /\ ComputeMaxFeeBps(tiers) \in Nat
         /\ \A k \in DOMAIN tiers : tiers[k].fee <= ComputeMaxFeeBps(tiers)
<1> DEFINE S == {tiers[k].fee : k \in DOMAIN tiers}
           Bounds(m) == \A k \in DOMAIN tiers : tiers[k].fee <= m
<1>1. tiers \in Seq([threshold : Nat, fee : Nat]) /\ tiers # <<>> /\ MaxTierBps \in Nat
  BY TiersAssumption
<1>2. \A k \in DOMAIN tiers : tiers[k].fee \in Nat /\ tiers[k].fee <= MaxTierBps
  BY <1>1, FeeNat DEF ValidateTiers
<1>3. 1 \in DOMAIN tiers
  BY <1>1
<1>4. S \in SUBSET Nat /\ S # {} /\ \A x \in S : x <= MaxTierBps
  BY <1>2, <1>3
<1>5. \A m : Bounds(m) <=> \A x \in S : x <= m
  OBVIOUS
<1> HIDE DEF S
<1>6. \E m \in S : \A x \in S : x <= m
  BY <1>1, <1>4, Greatest
<1>7. \E m \in S : Bounds(m)
  BY <1>5, <1>6
<1>8. ComputeMaxFeeBps(tiers) = CHOOSE m \in S : Bounds(m)
  BY DEF ComputeMaxFeeBps, S
<1> HIDE DEF Bounds
<1>9. ComputeMaxFeeBps(tiers) \in S /\ Bounds(ComputeMaxFeeBps(tiers))
  BY <1>7, <1>8
<1> QED BY <1>1, <1>4, <1>9 DEF Bounds

(* The fee of a volume is one of the table. *)
LEMMA FeeOfTable ==
  ASSUME NEW tiers \in Seq([threshold : Nat, fee : Nat]), tiers # <<>>, NEW v
  PROVE  \E k \in DOMAIN tiers : FeeForVolume(tiers, v) = tiers[k].fee
<1> DEFINE reached == {k \in DOMAIN tiers : v >= tiers[k].threshold}
<1>1. DOMAIN tiers = 1..Len(tiers) /\ Len(tiers) \in Nat /\ 1 \in DOMAIN tiers
  OBVIOUS
<1>2. reached \in SUBSET Nat /\ reached \subseteq DOMAIN tiers /\ \A k \in reached : k <= Len(tiers)
  BY <1>1
<1>3. FeeForVolume(tiers, v) = IF reached = {} THEN tiers[1].fee
                               ELSE tiers[CHOOSE k \in reached : \A j \in reached : j <= k].fee
  BY DEF FeeForVolume
<1> HIDE DEF reached
<1>4. CASE reached = {}
  BY <1>1, <1>3, <1>4
<1>5. CASE reached # {}
  <2>1. \E k \in reached : \A j \in reached : j <= k
    BY <1>1, <1>2, <1>5, Greatest
  <2>2. (CHOOSE k \in reached : \A j \in reached : j <= k) \in reached
    BY <2>1
  <2> QED BY <1>2, <1>3, <1>5, <2>2
<1> QED BY <1>4, <1>5

(* Schedules are installed in the order their bounds fall. *)
LEMMA ScheduleStep == ScheduleInv /\ [Next]_vars => ScheduleInv'
<1> SUFFICES ASSUME ScheduleInv, [Next]_vars PROVE ScheduleInv'
  OBVIOUS
<1>1. ASSUME NEW tiers \in Tables, ValidateTiers(tiers), Install(tiers),
             schedule.tiers # <<>> => ComputeMaxFeeBps(tiers) <= schedule.max
      PROVE  ScheduleInv'
  <2> DEFINE m == ComputeMaxFeeBps(tiers)
  <2>1. /\ tiers \in Seq([threshold : Nat, fee : Nat]) /\ tiers # <<>>
        /\ m \in Nat /\ \A k \in DOMAIN tiers : tiers[k].fee <= m
    BY <1>1, MaxOfTable
  <2>2. /\ schedule' = [tiers |-> tiers, max |-> m]
        /\ announced' = announced \cup {m}
    BY <1>1 DEF Install
  <2>3. schedule.tiers # <<>> => m <= schedule.max
    BY <1>1
  <2> HIDE DEF m
  <2>4. \A x \in announced \cup {m} : x \in Nat /\ m <= x
    BY <2>1, <2>3 DEF ScheduleInv
  <2> QED BY <2>1, <2>2, <2>4 DEF ScheduleInv
<1>2. ASSUME NEW tiers \in Tables, InitFeeSchedule(tiers) \/ SetFeeSchedule(tiers)
      PROVE  ScheduleInv'
  BY <1>1, <1>2, Zenon DEF InitFeeSchedule, SetFeeSchedule
<1>3. CASE UNCHANGED <<schedule, announced>>
  BY <1>3 DEF ScheduleInv
<1>4. CASE \E taker, maker \in Traders, amount \in Amounts :
             \/ MatchChecked(taker, maker, amount)
             \/ \E tiers \in Supplied \cup {schedule.tiers} :
                  MatchInline(tiers, taker, maker, amount)
  <2>1. \A tiers, taker, maker, amount :
          MatchFee(tiers, taker, maker, amount) => UNCHANGED <<schedule, announced>>
    BY DEF MatchFee
  <2> QED BY <1>3, <1>4, <2>1, Zenon DEF MatchChecked, MatchInline
<1>5. CASE Tick \/ UNCHANGED vars
  BY <1>3, <1>5 DEF Tick, vars
<1> QED BY <1>2, <1>4, <1>5 DEF Next

(* MatchPair and MatchBestAvailable charge at most the highest fee of every   *)
(* schedule there has been: the comparison of the schedule account with the   *)
(* program's, the check new_max <= old_max of fees.rs and the choice of the   *)
(* tier together, for every sequence of tables and every history of volumes,  *)
(* whatever schedules the inline matches in between are charged by.           *)
THEOREM ChargesBounded == Spec => NeverAboveAnEarlierMax
<1> DEFINE Step == credited' # credited /\ checked' => \A m \in announced : charged' <= m
<1>1. Init => ScheduleInv
  BY DEF Init, ScheduleInv
<1>2. ScheduleInv /\ [Next]_vars => [Step]_vars
  <2> SUFFICES ASSUME ScheduleInv, [Next]_vars, credited' # credited, checked',
                      NEW m \in announced
               PROVE  charged' <= m
    OBVIOUS
  <2>1. PICK taker \in Traders, maker \in Traders, amount \in Amounts :
          MatchChecked(taker, maker, amount)
    BY DEF Next, InitFeeSchedule, SetFeeSchedule, Install, MatchInline, Tick, vars
  <2>2. schedule.tiers # <<>> /\ \E v : charged' = FeeForVolume(schedule.tiers, v)
    BY <2>1 DEF MatchChecked, MatchFee
  <2>3. /\ schedule.tiers \in Seq([threshold : Nat, fee : Nat])
        /\ schedule.max \in Nat /\ m \in Nat /\ schedule.max <= m
        /\ \A k \in DOMAIN schedule.tiers : schedule.tiers[k].fee <= schedule.max
    BY <2>2 DEF ScheduleInv
  <2> DEFINE tiers == schedule.tiers
  <2> HIDE DEF tiers
  <2>4. PICK k \in DOMAIN tiers : charged' = tiers[k].fee
    BY <2>2, <2>3, FeeOfTable DEF tiers
  <2>5. tiers[k].fee \in Nat /\ tiers[k].fee <= schedule.max
    BY <2>3, <2>4, FeeNat DEF tiers
  <2> QED BY <2>3, <2>4, <2>5
<1>3. Spec => [][Step]_vars
  BY <1>1, <1>2, ScheduleStep, PTL DEF Spec
<1> QED BY <1>3, PTL DEF NeverAboveAnEarlierMax

-----------------------------------------------------------------------------
(* The volume of a trader *)

Ledgers == [SlotsSoFar -> Nat]

Between(a, b) == {s \in SlotsSoFar : a <= s /\ s < b}

(* What the ledger c credits from slot a until before slot b. *)
Window(c, a, b) == Total(Between(a, b), c)

(* The account v holds what c credits in its epoch and in the one before; and *)
(* nothing was credited later.                                                *)
Tracks(v, c, slot) ==
  /\ v \in Accounts
  /\ v.start <= slot
  /\ v.prev = Window(c, v.start - EpochSlots, v.start)
  /\ v.current = Window(c, v.start, v.start + EpochSlots)
  /\ \A s \in SlotsSoFar : s >= v.start + EpochSlots \/ s > slot => c[s] = 0
  /\ ~v.exists => \A s \in SlotsSoFar : c[s] = 0

(* A window is a finite set, with a total. *)
LEMMA WindowType ==
  ASSUME NEW c \in Ledgers, NEW a \in Int, NEW b \in Int
  PROVE  /\ Between(a, b) \subseteq SlotsSoFar /\ IsFiniteSet(Between(a, b))
         /\ \A s \in Between(a, b) : c[s] \in Nat
         /\ Window(c, a, b) \in Nat
<1>1. IsFiniteSet(SlotsSoFar)
  <2>1. 0 \in Int /\ MaxSlot \in Int
    BY TiersAssumption
  <2> QED BY <2>1, FS_Interval DEF SlotsSoFar
<1>2. Between(a, b) \subseteq SlotsSoFar
  BY DEF Between
<1>3. IsFiniteSet(Between(a, b))
  BY <1>1, <1>2, FS_Subset
<1>4. \A s \in Between(a, b) : c[s] \in Nat
  BY <1>2 DEF Ledgers
<1> QED BY <1>2, <1>3, <1>4, TotalType DEF Window

(* A window without credits. *)
LEMMA WindowEmpty ==
  ASSUME NEW c, NEW a, NEW b, \A s \in Between(a, b) : c[s] = 0
  PROVE  Window(c, a, b) = 0
BY TotalZero DEF Window

(* The slots are numbers. *)
LEMMA SlotsNat == /\ \A s \in SlotsSoFar : s \in Nat
                  /\ EpochSlots \in Nat \ {0}
BY TiersAssumption DEF SlotsSoFar

(* A roll starts the epoch that the slot is in, some number k of epochs later. *)
LEMMA RollForms ==
  ASSUME NEW v \in Accounts, NEW slot \in Nat, v.start <= slot
  PROVE  LET r == MaybeRollEpoch(v, slot)
         IN  /\ r \in Accounts /\ r.exists = v.exists
             /\ r.start <= slot /\ slot < r.start + EpochSlots
             /\ \/ r = v
                \/ /\ r.start = v.start + EpochSlots
                   /\ r.prev = v.current /\ r.current = 0
                \/ /\ r.start >= v.start + 2 * EpochSlots
                   /\ r.prev = 0 /\ r.current = 0
<1> DEFINE r == MaybeRollEpoch(v, slot)
           e == EpochSlots
           d == slot - v.start
           k == d \div e
<1>t. /\ e \in Nat \ {0} /\ v.start \in Nat /\ v.current \in Nat /\ v.prev \in Nat
      /\ v.exists \in BOOLEAN /\ d \in Nat
  BY SlotsNat DEF Accounts
<1>1. CASE slot < v.start + e
  <2>1. r = v
    BY <1>1 DEF MaybeRollEpoch
  <2> QED BY <1>1, <2>1
<1>2. CASE ~(slot < v.start + e)
  <2>1. r = [v EXCEPT !.prev = IF k = 1 THEN v.current ELSE 0, !.current = 0,
                      !.start = v.start + k * e]
    BY <1>2 DEF MaybeRollEpoch
  <2>2. k \in Nat /\ e * k <= d /\ d < e * k + e
    <3> HIDE DEF d, e
    <3> QED BY <1>t, DivNat
  <2>3. e <= d
    BY <1>2, <1>t
  <2> HIDE DEF k, e
  <2> DEFINE j == e * k
  <2>4. j \in Nat /\ k * e = j /\ (k = 1 => j = e) /\ (k # 1 => j >= 2 * e)
    <3>1. j \in Nat /\ k * e = j
      BY <1>t, <2>2
    <3>2. k # 0
      <4> SUFFICES ASSUME k = 0 PROVE FALSE
        OBVIOUS
      <4>1. e * k = 0
        BY <1>t
      <4> HIDE DEF d
      <4> QED BY <1>t, <2>2, <2>3, <4>1
    <3>3. ASSUME k # 1 PROVE j >= 2 * e
      <4> DEFINE q == k - 2
      <4>1. q \in Nat /\ k = q + 2
        BY <2>2, <3>2, <3>3
      <4> HIDE DEF q
      <4>2. e * k = e * q + 2 * e /\ e * q \in Nat
        BY <1>t, <4>1
      <4> QED BY <1>t, <4>2
    <3> QED BY <1>t, <3>1, <3>3
  <2>5. j <= d /\ d < j + e
    BY <2>2
  <2> HIDE DEF j
  <2>6. /\ r.start = v.start + j /\ r.current = 0 /\ r.exists = v.exists
        /\ r.prev = IF k = 1 THEN v.current ELSE 0
        /\ r \in Accounts
    <3> HIDE DEF r
    <3>1. r = [v EXCEPT !.prev = IF k = 1 THEN v.current ELSE 0, !.current = 0,
                        !.start = v.start + j]
      BY <2>1, <2>4
    <3>2. v.start + j \in Nat /\ (IF k = 1 THEN v.current ELSE 0) \in Nat
      BY <1>t, <2>4
    <3> QED BY <3>1, <3>2 DEF Accounts
  <2> HIDE DEF r
  <2>7. r.start <= slot /\ slot < r.start + e
    BY <1>t, <2>4, <2>5, <2>6
  <2>8. CASE k = 1
    BY <1>t, <2>4, <2>6, <2>7, <2>8 DEF r, e
  <2>9. CASE k # 1
    BY <1>t, <2>4, <2>6, <2>7, <2>9 DEF r, e
  <2> QED BY <2>8, <2>9
<1> QED BY <1>1, <1>2

(* Rolling the epoch keeps track of the credits. *)
LEMMA RollTracks ==
  ASSUME NEW v, NEW c \in Ledgers, NEW slot \in Nat, Tracks(v, c, slot)
  PROVE  /\ Tracks(MaybeRollEpoch(v, slot), c, slot)
         /\ slot < MaybeRollEpoch(v, slot).start + EpochSlots
         /\ MaybeRollEpoch(v, slot).exists = v.exists
<1> DEFINE r == MaybeRollEpoch(v, slot)
           e == EpochSlots
<1>t. /\ v \in Accounts /\ v.start <= slot /\ v.start \in Nat
      /\ v.prev = Window(c, v.start - e, v.start)
      /\ v.current = Window(c, v.start, v.start + e)
      /\ \A s \in SlotsSoFar : s >= v.start + e \/ s > slot => c[s] = 0
      /\ ~v.exists => \A s \in SlotsSoFar : c[s] = 0
      /\ e \in Nat
  BY SlotsNat DEF Tracks, Accounts
<1>1. /\ r \in Accounts /\ r.exists = v.exists
      /\ r.start <= slot /\ slot < r.start + e
      /\ \/ r = v
         \/ r.start = v.start + e /\ r.prev = v.current /\ r.current = 0
         \/ r.start >= v.start + 2 * e /\ r.prev = 0 /\ r.current = 0
  BY <1>t, RollForms
<1> HIDE DEF r, e
<1>2. r.start \in Nat
  BY <1>1 DEF Accounts
<1>3. ASSUME r.start >= v.start + e
      PROVE  /\ \A s \in SlotsSoFar : s >= r.start + e \/ s > slot => c[s] = 0
             /\ Window(c, r.start, r.start + e) = 0
  <2>1. \A s \in SlotsSoFar : s >= r.start => c[s] = 0
    BY <1>t, <1>2, <1>3, SlotsNat
  <2>2. \A s \in SlotsSoFar : s >= r.start + e => s >= r.start
    BY <1>t, <1>2, SlotsNat
  <2>3. \A s \in Between(r.start, r.start + e) : c[s] = 0
    BY <2>1 DEF Between
  <2> QED BY <1>t, <2>1, <2>2, <2>3, WindowEmpty
<1>4. CASE r = v
  BY <1>t, <1>1, <1>4 DEF Tracks, r, e
<1>5. CASE r.start = v.start + e /\ r.prev = v.current /\ r.current = 0
  <2>1. r.start - e = v.start /\ r.start >= v.start + e
    BY <1>t, <1>2, <1>5
  <2>2. r.prev = Window(c, r.start - e, r.start)
    BY <1>t, <1>5, <2>1
  <2> QED BY <1>t, <1>1, <1>3, <1>5, <2>1, <2>2 DEF Tracks, r, e
<1>6. CASE r.start >= v.start + 2 * e /\ r.prev = 0 /\ r.current = 0
  <2>1. r.start >= v.start + e
    BY <1>t, <1>2, <1>6
  <2>2. \A s \in Between(r.start - e, r.start) : c[s] = 0
    <3> SUFFICES ASSUME NEW s \in Between(r.start - e, r.start) PROVE c[s] = 0
      OBVIOUS
    <3>1. s \in SlotsSoFar /\ r.start - e <= s /\ s \in Nat
      BY SlotsNat DEF Between
    <3>2. s >= v.start + e
      BY <1>t, <1>2, <1>6, <3>1
    <3> QED BY <1>t, <3>1, <3>2
  <2>3. Window(c, r.start - e, r.start) = 0
    BY <2>2, WindowEmpty
  <2> QED BY <1>t, <1>1, <1>3, <1>6, <2>1, <2>3 DEF Tracks, r, e
<1> QED BY <1>1, <1>4, <1>5, <1>6 DEF r, e

(* So does creating the account of a trader who had no credits. *)
LEMMA EnsureTracks ==
  ASSUME NEW v, NEW c \in Ledgers, NEW slot \in Nat, Tracks(v, c, slot)
  PROVE  /\ Tracks(EnsureUserVolume(v, slot), c, slot)
         /\ EnsureUserVolume(v, slot).exists
<1>1. CASE v.exists
  BY <1>1 DEF EnsureUserVolume
<1>2. CASE ~v.exists
  <2> DEFINE r == EnsureUserVolume(v, slot)
  <2>1. r = [exists |-> TRUE, current |-> 0, prev |-> 0, start |-> slot]
    BY <1>2 DEF EnsureUserVolume
  <2>2. /\ r \in Accounts /\ r.start = slot /\ r.current = 0 /\ r.prev = 0 /\ r.exists
        /\ \A s \in SlotsSoFar : c[s] = 0
    BY <1>2, <2>1 DEF Accounts, Tracks
  <2> HIDE DEF r
  <2>3. \A a, b : Window(c, a, b) = 0
    <3> TAKE a, b
    <3>1. \A s \in Between(a, b) : c[s] = 0
      BY <2>2 DEF Between
    <3> QED BY <3>1, WindowEmpty
  <2>4. Tracks(r, c, slot)
    BY <2>2, <2>3 DEF Tracks
  <2> QED BY <2>2, <2>4 DEF r
<1> QED BY <1>1, <1>2

(* And so does adding a volume, with the credit that it is for. *)
LEMMA AddTracks ==
  ASSUME NEW v, NEW c \in Ledgers, NEW slot \in SlotsSoFar, Tracks(v, c, slot), v.exists,
         NEW amount \in Nat
  PROVE  LET w == AddVolume(v, amount, slot)
             d == [c EXCEPT ![slot] = @ + amount]
         IN  w.exists /\ d \in Ledgers /\ Tracks(w, d, slot)
<1> DEFINE r == MaybeRollEpoch(v, slot)
           e == EpochSlots
           w == AddVolume(v, amount, slot)
           d == [c EXCEPT ![slot] = @ + amount]
<1>1. slot \in Nat /\ e \in Nat \ {0} /\ SlotsSoFar \subseteq Nat
  BY SlotsNat
<1>2. Tracks(r, c, slot) /\ slot < r.start + e /\ r.exists
  BY <1>1, RollTracks
<1>3. w = [r EXCEPT !.current = @ + amount]
  BY DEF AddVolume
<1> HIDE DEF r, e, w
<1>4. /\ r \in Accounts /\ r.start \in Nat /\ r.current \in Nat /\ r.start <= slot
      /\ r.prev = Window(c, r.start - e, r.start)
      /\ r.current = Window(c, r.start, r.start + e)
      /\ \A s \in SlotsSoFar : s >= r.start + e \/ s > slot => c[s] = 0
  BY <1>2 DEF Tracks, Accounts, e
<1>5. /\ w \in Accounts /\ w.exists /\ w.start = r.start /\ w.prev = r.prev
      /\ w.current = r.current + amount
  BY <1>2, <1>3, <1>4 DEF Accounts
<1>6. /\ d \in Ledgers /\ d[slot] = c[slot] + amount
      /\ \A s \in SlotsSoFar \ {slot} : d[s] = c[s]
  BY DEF Ledgers
<1> HIDE DEF d
<1>7. Window(d, r.start - e, r.start) = Window(c, r.start - e, r.start)
  <2> DEFINE S == Between(r.start - e, r.start)
  <2>1. \A s \in S : d[s] = c[s]
    BY <1>1, <1>4, <1>6 DEF Between
  <2> HIDE DEF S
  <2>2. Total(S, d) = Total(S, c)
    BY <2>1, TotalAgree
  <2> QED BY <2>2 DEF S, Window
<1>8. Window(d, r.start, r.start + e) = Window(c, r.start, r.start + e) + amount
  <2> DEFINE S == Between(r.start, r.start + e)
  <2>1. /\ slot \in S /\ S \subseteq SlotsSoFar
    BY <1>2, <1>4 DEF Between
  <2>2. IsFiniteSet(S) /\ \A s \in S : c[s] \in Nat /\ d[s] \in Nat
    <3>1. r.start \in Int /\ r.start + e \in Int
      BY <1>1, <1>4
    <3> QED BY <1>6, <3>1, WindowType
  <2>3. \A s \in S \ {slot} : d[s] = c[s]
    BY <1>6, <2>1
  <2> HIDE DEF S
  <2>4. Total(S, d) = Total(S, c) - c[slot] + d[slot] /\ Total(S, c) \in Nat
    BY <2>1, <2>2, <2>3, TotalUpdate, TotalType
  <2>5. Total(S, d) = Total(S, c) + amount
    <3>1. c[slot] \in Nat
      BY <2>1, <2>2
    <3> QED BY <1>6, <2>4, <3>1
  <2> QED BY <2>5 DEF S, Window
<1>9. \A s \in SlotsSoFar : s >= w.start + e \/ s > slot => d[s] = 0
  <2> SUFFICES ASSUME NEW s \in SlotsSoFar, s >= r.start + e \/ s > slot PROVE d[s] = 0
    BY <1>5
  <2>1. s # slot
    BY <1>1, <1>2, <1>4
  <2> QED BY <1>4, <1>6, <2>1
<1>10. Tracks(w, d, slot)
  BY <1>4, <1>5, <1>7, <1>8, <1>9 DEF Tracks, e
<1> QED BY <1>5, <1>6, <1>10 DEF w, d

(* Every account tracks its trader's credits. *)
AllTrack(vol, cr, slot) ==
  /\ vol \in [Traders -> Accounts]
  /\ cr \in [Traders -> Ledgers]
  /\ \A t \in Traders : Tracks(vol[t], cr[t], slot)

VolumeInv == now \in SlotsSoFar /\ AllTrack(volume, credited, now)

(* One side of a match is credited. *)
LEMMA SideTracks ==
  ASSUME NEW vol, NEW cr, now \in SlotsSoFar, AllTrack(vol, cr, now),
         NEW t \in Traders, vol[t].exists, NEW amount \in Nat
  PROVE  /\ AllTrack([vol EXCEPT ![t] = AddVolume(@, amount, now)], Credit(cr, t, amount), now)
         /\ \A u \in Traders : vol[u].exists =>
              [vol EXCEPT ![t] = AddVolume(@, amount, now)][u].exists
<1> DEFINE w == AddVolume(vol[t], amount, now)
           d == [cr[t] EXCEPT ![now] = @ + amount]
<1>1. vol \in [Traders -> Accounts] /\ cr \in [Traders -> Ledgers]
      /\ \A u \in Traders : Tracks(vol[u], cr[u], now)
  BY DEF AllTrack
<1>2. w.exists /\ d \in Ledgers /\ Tracks(w, d, now)
  <2>1. cr[t] \in Ledgers /\ Tracks(vol[t], cr[t], now)
    BY <1>1
  <2> QED BY <2>1, AddTracks
<1>3. w \in Accounts
  BY <1>2 DEF Tracks
<1>4. Credit(cr, t, amount) = [cr EXCEPT ![t] = d]
  BY DEF Credit
<1> HIDE DEF w, d
<1>5. AllTrack([vol EXCEPT ![t] = w], [cr EXCEPT ![t] = d], now)
  BY <1>1, <1>2, <1>3 DEF AllTrack
<1>6. \A u \in Traders : vol[u].exists => [vol EXCEPT ![t] = w][u].exists
  BY <1>1, <1>2
<1> QED BY <1>4, <1>5, <1>6 DEF w

(* Nothing was credited before the first step. *)
LEMMA VolumeInit == Init => VolumeInv
<1> SUFFICES ASSUME Init PROVE VolumeInv
  OBVIOUS
<1> DEFINE v == [exists |-> FALSE, current |-> 0, prev |-> 0, start |-> 0]
           c == [s \in SlotsSoFar |-> 0]
<1>1. v \in Accounts /\ c \in Ledgers /\ 0 \in SlotsSoFar
  BY TiersAssumption DEF Accounts, Ledgers, SlotsSoFar
<1>2. /\ v.start = 0 /\ v.prev = 0 /\ v.current = 0
      /\ \A s \in SlotsSoFar : c[s] = 0
  OBVIOUS
<1>3. /\ now = 0 /\ volume = [t \in Traders |-> v] /\ credited = [t \in Traders |-> c]
  BY DEF Init
<1> HIDE DEF v, c
<1>4. \A a, b : Window(c, a, b) = 0
  <2> TAKE a, b
  <2>1. \A s \in Between(a, b) : c[s] = 0
    BY <1>2 DEF Between
  <2> QED BY <2>1, WindowEmpty
<1>5. Tracks(v, c, 0)
  BY <1>1, <1>2, <1>4 DEF Tracks
<1> QED BY <1>1, <1>3, <1>5 DEF VolumeInv, AllTrack

(* Accounts keep track in every step, however many slots lie between two. *)
LEMMA VolumeStep == VolumeInv /\ [Next]_vars => VolumeInv'
<1> SUFFICES ASSUME VolumeInv, [Next]_vars PROVE VolumeInv'
  OBVIOUS
<1>t. now \in SlotsSoFar /\ now \in Nat /\ AllTrack(volume, credited, now)
  BY SlotsNat DEF VolumeInv
<1>1. CASE UNCHANGED <<volume, now, credited>>
  BY <1>1 DEF VolumeInv
<1>2. CASE Tick
  <2>1. now' = now + 1 /\ now + 1 \in SlotsSoFar /\ UNCHANGED <<volume, credited>>
    BY <1>2, <1>t, TiersAssumption DEF Tick, SlotsSoFar
  <2>2. ASSUME NEW t \in Traders PROVE Tracks(volume[t], credited[t], now + 1)
    <3>1. Tracks(volume[t], credited[t], now)
      BY <1>t DEF AllTrack
    <3>2. volume[t].start <= now + 1
      BY <1>t, <3>1 DEF Tracks, Accounts
    <3>3. \A s \in SlotsSoFar : s > now + 1 => s > now
      BY <1>t, SlotsNat
    <3> QED BY <3>1, <3>2, <3>3 DEF Tracks
  <2>3. AllTrack(volume, credited, now + 1)
    BY <1>t, <2>2 DEF AllTrack
  <2> QED BY <2>1, <2>3 DEF VolumeInv
<1>3. ASSUME NEW tiers, NEW taker \in Traders, NEW maker \in Traders, NEW amount \in Amounts,
             MatchFee(tiers, taker, maker, amount)
      PROVE  VolumeInv'
  <2> DEFINE opened == [t \in Traders |-> IF t \in {taker, maker}
                                          THEN EnsureUserVolume(volume[t], now) ELSE volume[t]]
             first == [opened EXCEPT ![taker] = AddVolume(@, amount, now)]
             cr == Credit(credited, taker, amount)
  <2>1. /\ volume' = [first EXCEPT ![maker] = AddVolume(@, amount, now)]
        /\ credited' = Credit(cr, maker, amount)
        /\ now' = now
    BY <1>3 DEF MatchFee
  <2>2. amount \in Nat
    BY TiersAssumption
  <2>3. ASSUME NEW t \in Traders
        PROVE  /\ Tracks(opened[t], credited[t], now)
               /\ opened[t] \in Accounts
               /\ t \in {taker, maker} => opened[t].exists
    <3>1. Tracks(volume[t], credited[t], now) /\ credited[t] \in Ledgers
      BY <1>t DEF AllTrack
    <3>2. /\ Tracks(EnsureUserVolume(volume[t], now), credited[t], now)
          /\ EnsureUserVolume(volume[t], now).exists
      BY <1>t, <3>1, EnsureTracks
    <3>3. opened[t] = IF t \in {taker, maker} THEN EnsureUserVolume(volume[t], now) ELSE volume[t]
      OBVIOUS
    <3> HIDE DEF opened
    <3> QED BY <3>1, <3>2, <3>3 DEF Tracks
  <2>4. AllTrack(opened, credited, now) /\ opened[taker].exists /\ opened[maker].exists
    <3>1. opened \in [Traders -> Accounts]
      BY <2>3
    <3> HIDE DEF opened
    <3> QED BY <1>t, <2>3, <3>1 DEF AllTrack
  <2> HIDE DEF opened
  <2>5. AllTrack(first, cr, now) /\ first[maker].exists
    BY <1>t, <2>2, <2>4, SideTracks
  <2> HIDE DEF first, cr
  <2>6. AllTrack([first EXCEPT ![maker] = AddVolume(@, amount, now)], Credit(cr, maker, amount), now)
    BY <1>t, <2>2, <2>5, SideTracks
  <2> QED BY <1>t, <2>1, <2>6 DEF VolumeInv
<1>4. CASE \E taker, maker \in Traders, amount \in Amounts :
             \/ MatchChecked(taker, maker, amount)
             \/ \E tiers \in Supplied \cup {schedule.tiers} :
                  MatchInline(tiers, taker, maker, amount)
  BY <1>3, <1>4, Zenon DEF MatchChecked, MatchInline
<1> QED BY <1>1, <1>2, <1>4 DEF Next, InitFeeSchedule, SetFeeSchedule, Install, vars

(* What an account that keeps track says of the last epochs. *)
LEMMA TracksBounds ==
  ASSUME NEW v, NEW c \in Ledgers, NEW slot \in Nat, Tracks(v, c, slot)
  PROVE  LET eff == Effective30dVolume(v, slot)
             Last(n) == Total({s \in SlotsSoFar : slot - n < s /\ s <= slot}, c)
         IN  eff <= Last(2 * EpochSlots) /\ 2 * eff >= Last(EpochSlots)
<1> DEFINE r == MaybeRollEpoch(v, slot)
           e == EpochSlots
           L(n) == {s \in SlotsSoFar : slot - n < s /\ s <= slot}
           P == Between(r.start - e, r.start)
           Q == Between(r.start, r.start + e)
           eff == Effective30dVolume(v, slot)
<1>1. /\ Tracks(r, c, slot) /\ slot < r.start + e /\ e \in Nat \ {0}
  BY RollTracks, SlotsNat
<1>2. eff = IF r.current >= r.prev THEN r.current ELSE r.prev
  BY DEF Effective30dVolume
<1>3. /\ r.start \in Nat /\ r.start <= slot
      /\ r.prev = Total(P, c) /\ r.current = Total(Q, c)
      /\ \A s \in SlotsSoFar : s > slot => c[s] = 0
  BY <1>1 DEF Tracks, Accounts, Window
<1> HIDE DEF r, e
<1>4. /\ IsFiniteSet(P) /\ IsFiniteSet(Q) /\ P \subseteq SlotsSoFar /\ Q \subseteq SlotsSoFar
      /\ \A s \in P \cup Q : c[s] \in Nat
      /\ Total(P, c) \in Nat /\ Total(Q, c) \in Nat
  <2>1. r.start - e \in Int /\ r.start \in Int /\ r.start + e \in Int
    BY <1>1, <1>3
  <2> QED BY <2>1, WindowType DEF Window
<1>5. ASSUME NEW n \in Nat
      PROVE  IsFiniteSet(L(n)) /\ \A s \in L(n) : c[s] \in Nat /\ Total(L(n), c) \in Nat
  <2>1. L(n) \subseteq SlotsSoFar /\ L(n) = Between(slot - n + 1, slot + 1)
    BY <1>5, SlotsNat DEF Between
  <2>2. slot - n + 1 \in Int /\ slot + 1 \in Int
    BY <1>5
  <2>3. IsFiniteSet(Between(slot - n + 1, slot + 1))
        /\ Window(c, slot - n + 1, slot + 1) \in Nat
    BY <2>2, WindowType
  <2> QED BY <2>1, <2>3 DEF Ledgers, Window
<1>6. \A s \in P : s \in L(2 * e)
  BY <1>1, <1>3, SlotsNat DEF Between
<1>7. \A s \in Q : c[s] = 0 \/ s \in L(2 * e)
  BY <1>1, <1>3, SlotsNat DEF Between
<1>8. \A s \in L(e) : s \in P \cup Q
  BY <1>1, <1>3, SlotsNat DEF Between
<1>9. P \cap Q = {}
  BY <1>3, SlotsNat DEF Between
<1>10. 2 * e \in Nat
  BY <1>1
<1> DEFINE A == L(2 * e)
           B == L(e)
<1>11. IsFiniteSet(A) /\ \A s \in A : c[s] \in Nat
  BY <1>5, <1>10 DEF Ledgers
<1>12. \A s \in P : c[s] = 0 \/ s \in A
  BY <1>6
<1>13. \A s \in Q : c[s] = 0 \/ s \in A
  BY <1>7
<1>14. \A s \in B : c[s] = 0 \/ s \in P \cup Q
  BY <1>8
<1>15. eff <= Total(A, c) /\ 2 * eff >= Total(B, c)
  <2> HIDE DEF A, B, P, Q, eff, L
  <2>1. Total(P, c) <= Total(A, c) /\ Total(Q, c) <= Total(A, c)
    BY <1>11, <1>12, <1>13, TotalWithin
  <2>2. IsFiniteSet(P \cup Q)
    BY <1>4, FS_Union
  <2>3. Total(B, c) <= Total(P \cup Q, c)
    BY <1>4, <1>14, <2>2, TotalWithin
  <2>4. Total(P \cup Q, c) = Total(P, c) + Total(Q, c)
    BY <1>4, <1>9, TotalUnion
  <2>5. Total(A, c) \in Nat /\ Total(P \cup Q, c) \in Nat
    BY <1>4, <1>11, <2>4, TotalType
  <2>6. Total(B, c) \in Nat
    <3>1. IsFiniteSet(B) /\ \A s \in B : c[s] \in Nat
      BY <1>1, <1>5 DEF B, Ledgers, L
    <3> QED BY <3>1, TotalType
  <2> QED BY <1>2, <1>3, <1>4, <2>1, <2>3, <2>4, <2>5, <2>6
<1> QED BY <1>15 DEF e

(* The volume that selects a taker's tier is its volume of the last epoch up  *)
(* to a factor of two, and never counts what is older than two epochs,        *)
(* whenever the account was created and however long it lay idle.             *)
THEOREM VolumesTracked == Spec => []VolumeTracksWindow
<1>1. VolumeInv => VolumeTracksWindow
  <2> SUFFICES ASSUME VolumeInv, NEW t \in Traders
               PROVE  LET v == Effective30dVolume(volume[t], now)
                      IN  v <= Recent(t, 2 * EpochSlots) /\ 2 * v >= Recent(t, EpochSlots)
    BY DEF VolumeTracksWindow
  <2>1. /\ now \in Nat /\ credited[t] \in Ledgers /\ Tracks(volume[t], credited[t], now)
    BY SlotsNat DEF VolumeInv, AllTrack
  <2> QED BY <2>1, TracksBounds DEF Recent
<1> QED BY <1>1, VolumeInit, VolumeStep, PTL DEF Spec
=============================================================================
