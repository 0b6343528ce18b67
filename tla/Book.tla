-------------------------------- MODULE Book --------------------------------
(***************************************************************************)
(* The storage of an intent book: the node pool, and the red-black trees    *)
(* of bids, asks and seats threaded through its nodes.  The handlers reach  *)
(* it by two operations: an intent is posted, with a seat for its trader if *)
(* that has none, or it is removed (a cancel, a prune, the last fill).      *)
(***************************************************************************)
EXTENDS Storage, IntentTree

VARIABLE forest      \* the links and colors of the nodes, and the roots

vars == <<pool, node, forest, nextSeq>>

Init == InitStorage /\ forest = EmptyForest(Slots)

FindOrCreateAlways(b, trader) ==
  LET idx == AllocIdx(b.pool)
      written == [b.node EXCEPT ![idx] = Seat(trader)]
  IN  [seat |-> idx, pool |-> AfterAlloc(b.pool), node |-> written,
       forest |-> InsertSeat(b.forest, written, idx)]

(* find_or_create on the book b, which has a slot if one is needed *)
FindOrCreate(b, trader) ==
  LET found == Find(b.forest, b.node, trader)
      idx == AllocIdx(b.pool)
      written == [b.node EXCEPT ![idx] = Seat(trader)]
  IN  IF found # NULL_IDX
      THEN [seat |-> found, pool |-> b.pool, node |-> b.node, forest |-> b.forest]
      ELSE [seat |-> idx, pool |-> AfterAlloc(b.pool), node |-> written,
            forest |-> InsertSeat(b.forest, written, idx)]

(* The seat comes first; without a slot for the intent as well, the whole     *)
(* instruction fails.                                                         *)
PostIntent(trader, side, price) ==
  LET b == FindOrCreate([pool |-> pool, node |-> node, forest |-> forest], trader)
      idx == AllocIdx(b.pool)
  IN  /\ nextSeq <= MaxSeq
      /\ Find(forest, node, trader) # NULL_IDX \/ CanAlloc(pool)
      /\ CanAlloc(b.pool)
      /\ Sound(AfterAlloc(b.pool))
      /\ node' = [b.node EXCEPT ![idx] = Intent(trader, side, price, b.seat, nextSeq)]
      /\ forest' = Insert(b.forest, node', side, idx)
      /\ pool' = AfterAlloc(b.pool)
      /\ nextSeq' = nextSeq + 1

(* remove, then free_node, which clears the slot. *)
RemoveIntent(idx) ==
  /\ IsIntent(idx)
  /\ forest' = Blank(Remove(forest, node[idx].side, idx), idx)
  /\ Release(idx)
  /\ UNCHANGED nextSeq

Expand(n) ==
  /\ ExpandIntentBook(n)
  /\ UNCHANGED <<forest, nextSeq>>

Next ==
  \/ \E p \in PostInputs(nextSeq) : PostIntent(p.trader, p.side, p.price)
  \/ \E idx \in Slots : RemoveIntent(idx)
  \/ \E n \in Expansions : Expand(n)

Spec == Init /\ [][Next]_vars

-----------------------------------------------------------------------------
Walk(tree) == BestFirst(forest, forest.root[tree])

(* Every tree is a red-black tree: a black root without a parent, children    *)
(* that point back, no red node with a red child, and as many black nodes on  *)
(* every path.  Hence no path has more than 2 log2(n + 1) of its n nodes,     *)
(* which keeps for_each_best_first within its stack of 64 entries for every   *)
(* n that a u32 can index.                                                    *)
RedBlack ==
  \A tree \in Trees :
    LET root == forest.root[tree]
    IN  /\ forest.color[root] = "black"
        /\ forest.parent[root] = NULL_IDX
        /\ BlackHeight(forest, root) # 0

(* find reaches the seat of a trader that posts, if there is one, whatever    *)
(* was inserted in the tree of seats and in whatever order: a post takes a    *)
(* second slot exactly for a trader without a seat, the intent gets the       *)
(* trader's own seat, and no step touches any other slot.                     *)
ImplementsStorage == StorageSpec

Queue(side) ==
  LET walk == Walk(side)
  IN  [k \in DOMAIN walk |-> [id |-> node[walk[k]].seq, price |-> node[walk[k]].price]]

Index == INSTANCE PriceTime
           WITH queue <- [side \in {"long", "short"} |-> Queue(side)],
                Orders <- [id : 1..MaxSeq, price : {p.price : p \in UNION {PostInputs(n) : n \in 1..MaxSeq}}]

(* The walk over each tree is the queue of that side in price-time priority:  *)
(* a post puts the intent at its place in it, a removal takes one out, and    *)
(* neither ever moves, loses or repeats another intent.                       *)
ImplementsPriceTime == Index!Spec
=============================================================================
