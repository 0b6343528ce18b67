----------------------------- MODULE IntentTree -----------------------------
(***************************************************************************)
(* The red-black trees threaded through the nodes of an intent book: one of *)
(* the bids, one of the asks and one of the seats.  A forest f holds what   *)
(* the nodes and the header store for them: f.root[tree], and for each slot *)
(* f.left, f.right, f.parent and f.color.  Row 0 is the null node, which is *)
(* black, has no neighbours and ignores writes.                             *)
(*                                                                         *)
(* The code spells out every case twice, once mirrored; here the side the   *)
(* case is about is a parameter, "left" or "right".  seat_tree.rs repeats   *)
(* intent_tree.rs without its removal.                                      *)
(***************************************************************************)
EXTENDS Integers, Sequences

NULL_IDX == 0

Trees == {"long", "short", "seats"}

Mirror(dir) == IF dir = "left" THEN "right" ELSE "left"

EmptyForest(slots) ==
  LET rows == {NULL_IDX} \cup slots
  IN  [root   |-> [tree \in Trees |-> NULL_IDX],
       left   |-> [i \in rows |-> NULL_IDX],
       right  |-> [i \in rows |-> NULL_IDX],
       parent |-> [i \in rows |-> NULL_IDX],
       color  |-> [i \in rows |-> IF i = NULL_IDX THEN "black" ELSE "red"]]

CmpKeyNewestFirst(tree, a, b) ==
  CASE tree = "long"  -> a.price > b.price \/ (a.price = b.price /\ a.seq > b.seq)
    [] tree = "short" -> a.price < b.price \/ (a.price = b.price /\ a.seq > b.seq)
    [] tree = "seats" -> a.trader < b.trader

(* Does node a come before node b?  The best price comes first, then the        *)
(* earlier intent; sequence numbers differ, so that ids are never compared.   *)
CmpKey(tree, a, b) ==
  CASE tree = "long"  -> a.price > b.price \/ (a.price = b.price /\ a.seq < b.seq)
    [] tree = "short" -> a.price < b.price \/ (a.price = b.price /\ a.seq < b.seq)
    [] tree = "seats" -> a.trader < b.trader

Set(f, field, i, value) == IF i = NULL_IDX THEN f ELSE [f EXCEPT ![field][i] = value]

Paint(f, i, color) == Set(f, "color", i, color)

-----------------------------------------------------------------------------
(* Rotations *)

(* Subtree v takes the place of subtree u. *)
Transplant(f, tree, u, v) ==
  LET up == f.parent[u]
      hung == IF up = NULL_IDX THEN [f EXCEPT !.root[tree] = v]
              ELSE Set(f, IF f.left[up] = u THEN "left" ELSE "right", up, v)
  IN  Set(hung, "parent", v, up)

(* rotate_left or rotate_right around x: its child on the other side rises.   *)
(* That there is one follows from the balance of the tree.                    *)
Rotate(f, tree, x, dir) ==
  LET y == f[Mirror(dir)][x]
      inner == f[dir][y]
      freed == Set(Set(f, Mirror(dir), x, inner), "parent", inner, x)
      risen == Transplant(freed, tree, x, y)
  IN  Set(Set(risen, dir, y, x), "parent", x, y)

-----------------------------------------------------------------------------
(* Insertion *)

(* Where the descent of the node in slot idx from r ends: its parent, and on  *)
(* which side of it the node goes.                                            *)
RECURSIVE Descend(_, _, _, _, _)
Descend(f, node, tree, idx, r) ==
  LET dir == IF CmpKey(tree, node[idx], node[r]) THEN "left" ELSE "right"
  IN  IF f[dir][r] = NULL_IDX THEN <<r, dir>> ELSE Descend(f, node, tree, idx, f[dir][r])

RotateUpKeepsColors(f, tree, z, dir) ==
  LET p == f.parent[z]
      turned == IF z = f[Mirror(dir)][p] THEN Rotate(f, tree, p, dir) ELSE f
      low == IF z = f[Mirror(dir)][p] THEN p ELSE z
  IN  Rotate(turned, tree, turned.parent[turned.parent[low]], Mirror(dir))

(* Case 3, after case 2 if z is an inner grandchild: p and its parent swap    *)
(* their colors and their places.                                             *)
RotateUp(f, tree, z, dir) ==
  LET p == f.parent[z]
      turned == IF z = f[Mirror(dir)][p] THEN Rotate(f, tree, p, dir) ELSE f
      low == IF z = f[Mirror(dir)][p] THEN p ELSE z
      top == turned.parent[low]
      gp == turned.parent[top]
  IN  Rotate(Paint(Paint(turned, top, "black"), gp, "red"), tree, gp, Mirror(dir))

RECURSIVE InsertFixup(_, _, _)
InsertFixup(f, tree, z) ==
  LET p == f.parent[z]
      gp == f.parent[p]
      dir == IF p = f.left[gp] THEN "left" ELSE "right"
      uncle == f[Mirror(dir)][gp]
      turned == RotateUp(f, tree, z, dir)
  IN  IF f.color[p] = "black" THEN Paint(f, f.root[tree], "black")
      ELSE IF f.color[uncle] = "red"
      THEN InsertFixup(Paint(Paint(Paint(f, p, "black"), uncle, "black"), gp, "red"), tree, gp)
      ELSE Paint(turned, turned.root[tree], "black")

Blank(f, idx) ==
  [f EXCEPT !.left[idx] = NULL_IDX, !.right[idx] = NULL_IDX, !.parent[idx] = NULL_IDX,
            !.color[idx] = "red"]

(* insert, of the node written into slot idx *)
Insert(f, node, tree, idx) ==
  LET blank == Blank(f, idx)
      root == f.root[tree]
      at == Descend(blank, node, tree, idx, root)
  IN  IF root = NULL_IDX THEN [Paint(blank, idx, "black") EXCEPT !.root[tree] = idx]
      ELSE InsertFixup(Set(Set(blank, "parent", idx, at[1]), at[2], at[1], idx), tree, idx)

(* seat_tree::insert, of a trader that has no seat yet *)
InsertSeat(f, node, idx) == Insert(f, node, "seats", idx)

-----------------------------------------------------------------------------
(* Removal *)

RECURSIVE TreeMinimum(_, _)
TreeMinimum(f, i) == IF f.left[i] = NULL_IDX THEN i ELSE TreeMinimum(f, f.left[i])

RECURSIVE RemoveFixup(_, _, _, _)
RemoveFixup(f, tree, x, xp) ==
  LET dir == IF x = f.left[xp] THEN "left" ELSE "right"
      far == Mirror(dir)
      (* Case 1: a red sibling is rotated away. *)
      g == IF f.color[f[far][xp]] = "red"
           THEN Rotate(Paint(Paint(f, f[far][xp], "black"), xp, "red"), tree, xp, dir)
           ELSE f
      w == g[far][xp]
      (* Case 3: the sibling's red child on this side moves to the far side. *)
      h == IF g.color[g[far][w]] = "black"
           THEN Rotate(Paint(Paint(g, g[dir][w], "black"), w, "red"), tree, w, far)
           ELSE g
      v == h[far][xp]
      (* Case 4. *)
      done == Rotate(Paint(Paint(Paint(h, v, h.color[xp]), xp, "black"), h[far][v], "black"),
                     tree, xp, dir)
  IN  IF x = f.root[tree] \/ f.color[x] = "red" THEN Paint(f, x, "black")
      ELSE IF g.color[g.left[w]] = "black" /\ g.color[g.right[w]] = "black"
      THEN RemoveFixup(Paint(g, w, "red"), tree, xp, g.parent[xp])
      ELSE Paint(done, done.root[tree], "black")

(* A node with two children gives its place and color to its successor, whose *)
(* own place is what becomes unbalanced.                                      *)
Remove(f, tree, z) ==
  LET inner == f.left[z] # NULL_IDX /\ f.right[z] # NULL_IDX
      y == IF inner THEN TreeMinimum(f, f.right[z]) ELSE z
      x == IF inner THEN f.right[y] ELSE IF f.left[z] = NULL_IDX THEN f.right[z] ELSE f.left[z]
      xp == IF inner /\ f.parent[y] = z THEN y ELSE f.parent[y]
      lifted == IF f.parent[y] = z THEN f
                ELSE Set(Set(Transplant(f, tree, y, x), "right", y, f.right[z]),
                         "parent", f.right[z], y)
      out == IF ~inner THEN Transplant(f, tree, z, x)
             ELSE Paint(Set(Set(Transplant(lifted, tree, z, y), "left", y, f.left[z]),
                            "parent", f.left[z], y), y, f.color[z])
  IN  IF f.color[y] = "black" THEN RemoveFixup(out, tree, x, xp) ELSE out

-----------------------------------------------------------------------------
(* Walks *)

(* The nodes for_each_best_first visits, in its order. *)
RECURSIVE BestFirst(_, _)
BestFirst(f, i) ==
  IF i = NULL_IDX THEN <<>> ELSE BestFirst(f, f.left[i]) \o <<i>> \o BestFirst(f, f.right[i])

RECURSIVE FindFrom(_, _, _, _)
FindFrom(f, node, trader, i) ==
  IF i = NULL_IDX \/ node[i].trader = trader THEN i
  ELSE FindFrom(f, node, trader, IF trader < node[i].trader THEN f.left[i] ELSE f.right[i])

FindAtRoot(f, node, trader) ==
  LET root == f.root["seats"]
  IN  IF root # NULL_IDX /\ node[root].trader = trader THEN root ELSE NULL_IDX

(* The seat of a trader, or the null node. *)
Find(f, node, trader) == FindFrom(f, node, trader, f.root["seats"])

-----------------------------------------------------------------------------
(* The number of black nodes on every path down from i, or 0 if two paths     *)
(* differ, a red node has a red child or a child does not point back.         *)
RECURSIVE BlackHeight(_, _)
BlackHeight(f, i) ==
  LET l == f.left[i]
      r == f.right[i]
      lh == BlackHeight(f, l)
  IN  IF i = NULL_IDX THEN 1
      ELSE IF \/ f.color[i] = "red" /\ "red" \in {f.color[l], f.color[r]}
              \/ \E child \in {l, r} \ {NULL_IDX} : f.parent[child] # i
              \/ lh = 0
              \/ lh # BlackHeight(f, r)
      THEN 0
      ELSE lh + (IF f.color[i] = "black" THEN 1 ELSE 0)
=============================================================================
