------------------------------ MODULE Storage -------------------------------
(***************************************************************************)
(* What the slots of an intent book hold: the seats of the traders and      *)
(* their intents.  An intent does not name its trader but the slot of the   *)
(* trader's seat, in a pool where every other slot is freed and reused.     *)
(* How find reaches a seat, and in which order the intents are walked, is   *)
(* left to Book, whose trees are shown to implement this module.            *)
(***************************************************************************)
EXTENDS NodePool

CONSTANTS
  PostInputs(_),     \* the traders, sides and prices the n-th intent may have
  MaxSeq             \* bound on the intents posted

Seat(trader) == [kind |-> "seat", trader |-> trader]

(* owner is the trader that posts, kept to be compared with what the seat     *)
(* says later; the node holds the seat alone.                                 *)
Intent(trader, side, price, seat, seq) ==
  [kind |-> "intent", side |-> side, price |-> price, seq |-> seq,
   ownerSeat |-> seat, owner |-> trader]

ASSUME StorageAssumption ==
  /\ MaxSeq \in Nat
  /\ \A n \in 1..MaxSeq : \A p \in PostInputs(n) :
       /\ Seat(p.trader) \in Occupants
       /\ \A seat \in Slots : Intent(p.trader, p.side, p.price, seat, n) \in Occupants

VARIABLE nextSeq     \* next_seq of the header

storageVars == <<pool, node, nextSeq>>

InitStorage == InitPool /\ nextSeq = 1

IsSeat(idx) == node[idx] # Vacant /\ node[idx].kind = "seat"
IsIntent(idx) == node[idx] # Vacant /\ node[idx].kind = "intent"

SeatsOf(trader) == {idx \in Slots : IsSeat(idx) /\ node[idx].trader = trader}

(* The slots that alloc_node hands out a second time are left to NodePool:    *)
(* here the book is never grown past its initial capacity.                    *)
Sound(p) == p.nodeCount <= InitialCapacity

-----------------------------------------------------------------------------
StoreIntent(trader, side, price) ==
  \E seat \in SeatsOf(trader) :
    /\ CanAlloc(pool)
    /\ node' = [node EXCEPT ![AllocIdx(pool)] = Intent(trader, side, price, seat, nextSeq)]
    /\ pool' = AfterAlloc(pool)

(* The seat takes the first slot; without a second one for the intent, the    *)
(* whole instruction fails.                                                   *)
StoreSeatAndIntent(trader, side, price) ==
  LET seat == AllocIdx(pool)
      rest == AfterAlloc(pool)
  IN  /\ SeatsOf(trader) = {}
      /\ CanAlloc(pool) /\ CanAlloc(rest)
      /\ node' = [node EXCEPT ![seat] = Seat(trader),
                              ![AllocIdx(rest)] = Intent(trader, side, price, seat, nextSeq)]
      /\ pool' = AfterAlloc(rest)

StorePost(trader, side, price) ==
  /\ nextSeq <= MaxSeq
  /\ \/ StoreIntent(trader, side, price)
     \/ StoreSeatAndIntent(trader, side, price)
  /\ Sound(pool')
  /\ nextSeq' = nextSeq + 1

(* Only intents are removed: a seat is for good. *)
Discard(idx) ==
  /\ IsIntent(idx)
  /\ Release(idx)
  /\ UNCHANGED nextSeq

NextStorage ==
  \/ \E p \in PostInputs(nextSeq) : StorePost(p.trader, p.side, p.price)
  \/ \E idx \in Slots : Discard(idx)
  \/ \E n \in Expansions : ExpandIntentBook(n) /\ UNCHANGED nextSeq

StorageSpec == InitStorage /\ [][NextStorage]_storageVars

-----------------------------------------------------------------------------
(* No trader has two seats, and the seat an intent was posted with is its     *)
(* owner's still: refunds and fills, which follow owner_seat_idx, go to       *)
(* whoever posted, however the slots were freed, reused and added in between. *)
SeatsResolve ==
  /\ \A i, j \in Slots :
       IsSeat(i) /\ IsSeat(j) /\ node[i].trader = node[j].trader => i = j
  /\ \A idx \in Slots : IsIntent(idx) => node[idx].ownerSeat \in SeatsOf(node[idx].owner)
=============================================================================
