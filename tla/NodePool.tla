------------------------------ MODULE NodePool ------------------------------
(***************************************************************************)
(* The node pool of an intent book: intents and seats live in the slots of  *)
(* one array, handed out by alloc_node and returned by free_node.  pool     *)
(* holds the fields of the header that the allocator uses; the freelist,    *)
(* linked through the free slots, is a sequence of indices.  node[idx] is   *)
(* what was written into the slot last, or Vacant.                          *)
(***************************************************************************)
EXTENDS Integers, Sequences, FiniteSets

CONSTANTS
  Occupants,         \* the intents and seats that may be stored
  Vacant,            \* a slot tagged NODE_TAG_FREE
  InitialCapacity,   \* initial_capacity of CreateInstrument, the sentinel included
  Expansions,        \* additional_nodes of ExpandIntentBook
  MaxCapacity        \* bound on the slots of the account

ASSUME PoolAssumption ==
  /\ Vacant \notin Occupants
  /\ InitialCapacity \in Nat \ {0}
  /\ Expansions \subseteq Nat
  /\ MaxCapacity \in Nat
  /\ InitialCapacity <= MaxCapacity

VARIABLES pool, node

poolVars == <<pool, node>>

Slots == 1..(MaxCapacity - 1)

InitPool ==
  /\ pool = [freelist |-> <<>>, nodeCount |-> 1, capacity |-> InitialCapacity]
  /\ node = [idx \in Slots |-> Vacant]

-----------------------------------------------------------------------------
(* The allocator, on the header fields p *)

CanAlloc(p) == p.freelist # <<>> \/ p.nodeCount < p.capacity

AllocIdx(p) == IF p.freelist # <<>> THEN Head(p.freelist) ELSE p.nodeCount

AfterAlloc(p) ==
  IF p.freelist # <<>> THEN [p EXCEPT !.freelist = Tail(@)]
  ELSE [p EXCEPT !.nodeCount = @ + 1]

AfterFreeLeaks(p, idx) == p

AfterFree(p, idx) == [p EXCEPT !.freelist = <<idx>> \o @]

(* Every new slot is put on the freelist, the last one ending up at its head; *)
(* node_count stays where it is.                                              *)
Expanded(p, n) ==
  [p EXCEPT !.capacity = @ + n,
            !.freelist = [k \in 1..n |-> p.capacity + n - k] \o @]

-----------------------------------------------------------------------------
Absent(o) == \A idx \in Slots : node[idx] # o

Store(o) ==
  /\ Absent(o)
  /\ CanAlloc(pool)
  /\ node' = [node EXCEPT ![AllocIdx(pool)] = o]
  /\ pool' = AfterAlloc(pool)

(* A handler frees a slot it has found by the occupant in it. *)
Release(idx) ==
  /\ node[idx] # Vacant
  /\ node' = [node EXCEPT ![idx] = Vacant]
  /\ pool' = AfterFree(pool, idx)

ExpandIntentBook(n) ==
  /\ n > 0
  /\ pool.capacity + n <= MaxCapacity
  /\ pool' = Expanded(pool, n)
  /\ UNCHANGED node

NextPool ==
  \/ \E o \in Occupants : Store(o)
  \/ \E idx \in Slots : Release(idx)
  \/ \E n \in Expansions : ExpandIntentBook(n)

PoolSpec == InitPool /\ [][NextPool]_poolVars

-----------------------------------------------------------------------------
(* The slots handed out so far, and not still waiting beyond node_count. *)
Touched(idx) == idx < pool.nodeCount \/ (InitialCapacity <= idx /\ idx < pool.capacity)

(* While allocation has not grown past the initial capacity, each slot below  *)
(* node_count or added by an expansion is either on the freelist, once, or    *)
(* occupied; every other slot is neither.  No slot leaks and none is free     *)
(* and in use at once.                                                        *)
Partition ==
  pool.nodeCount <= InitialCapacity =>
    LET free == pool.freelist
    IN  /\ \A j, k \in DOMAIN free : free[j] = free[k] => j = k
        /\ \A k \in DOMAIN free : node[free[k]] = Vacant /\ Touched(free[k])
        /\ \A idx \in Slots : node[idx] # Vacant => Touched(idx)
        /\ \A idx \in Slots : Touched(idx) /\ node[idx] = Vacant =>
             \E k \in DOMAIN free : free[k] = idx

Overwrites == \E idx \in Slots : node[idx] # Vacant /\ node'[idx] \notin {node[idx], Vacant}

(* alloc_node never hands out a slot that is in use. *)
NoDoubleUse == [][~Overwrites]_poolVars
=============================================================================
