----------------------------- MODULE PriceTime ------------------------------
(***************************************************************************)
(* What the index of an intent book promises: on each side a queue in which *)
(* an intent stands behind every intent of a price as good as its own that  *)
(* came before it, and ahead of every intent of a worse price.  An intent   *)
(* enters at its place and leaves without disturbing the others.            *)
(***************************************************************************)
EXTENDS Integers, SequencesExt

CONSTANT Orders        \* intents, with an id and a price

VARIABLE queue         \* side -> the intents resting on it, best first

Init == queue = [side \in {"long", "short"} |-> <<>>]

Better(side, p, q) == IF side = "long" THEN p > q ELSE p < q

Resting(q) == UNION {{q[side][k].id : k \in DOMAIN q[side]} : side \in DOMAIN q}

(* The queue of a side after i took its place behind all that is not worse. *)
Entered(side, q, i) ==
  InsertAt(q, 1 + Cardinality({k \in DOMAIN q : ~Better(side, i.price, q[k].price)}), i)

Next ==
  \E before \in {queue}, after \in {queue'}, side \in {"long", "short"} :
    \/ \E i \in Orders :
         /\ after = [before EXCEPT ![side] = Entered(side, @, i)]
         /\ i.id \notin Resting(before)
    \/ \E k \in DOMAIN before[side] :
         after = [before EXCEPT ![side] = RemoveAt(@, k)]

Spec == Init /\ [][Next]_queue
=============================================================================
