------------------------------ MODULE FeeTiers ------------------------------
(***************************************************************************)
(* The fee schedule and the volumes that select a taker's tier: the admin's *)
(* two handlers, and the part of match_pair_core that looks the fee up and  *)
(* credits both sides.  A match that an inline post swallows after that     *)
(* point leaves the volumes credited; the same action stands for it.        *)
(*                                                                         *)
(* MatchPair and MatchBestAvailable compare the schedule account with the    *)
(* program's own; an inline match takes the one that the post presents.     *)
(***************************************************************************)
EXTENDS Totals, Sequences

CONSTANTS
  Traders,
  Tables,            \* the tier tables the admin submits
  Supplied,          \* the tables of other accounts that an inline post presents
  MaxTierBps,        \* the hard cap of validate_tiers, 1000
  EpochSlots,        \* USER_VOLUME_EPOCH_SLOTS
  Amounts,           \* per_side_collateral of a match
  (* Bounds. *)
  MaxSlot, MaxCredit

ASSUME TiersAssumption ==
  /\ \A tiers \in Tables \cup Supplied :
       tiers \in Seq([threshold : Nat, fee : Nat]) /\ tiers # <<>>
  /\ EpochSlots \in Nat \ {0}
  /\ Amounts \subseteq Nat
  /\ {MaxTierBps, MaxSlot, MaxCredit} \subseteq Nat

VARIABLES
  schedule,          \* the FeeSchedule account: its tiers (none before InitFeeSchedule), its max
  volume,            \* trader -> its UserVolume account
  now,               \* slot
  charged,           \* the bps the last match charged its taker
  (* History. *)
  credited,          \* trader -> slot -> the atoms credited in it
  announced,         \* every max_tier_fee_bps the schedule has had
  checked            \* whether the last match compared its schedule with the program's

vars == <<schedule, volume, now, charged, credited, announced, checked>>

SlotsSoFar == 0..MaxSlot

Accounts ==
  [exists : BOOLEAN, current : Nat, prev : Nat, start : Nat]

Init ==
  /\ schedule = [tiers |-> <<>>, max |-> 0]
  /\ volume = [t \in Traders |-> [exists |-> FALSE, current |-> 0, prev |-> 0, start |-> 0]]
  /\ now = 0
  /\ credited = [t \in Traders |-> [s \in SlotsSoFar |-> 0]]
  /\ charged = 0
  /\ announced = {}
  /\ checked = FALSE

-----------------------------------------------------------------------------
(* The schedule *)

ValidateTiers(tiers) ==
  /\ \A j, k \in DOMAIN tiers : j <= k => tiers[j].threshold <= tiers[k].threshold
  /\ \A k \in DOMAIN tiers : tiers[k].fee <= MaxTierBps

ComputeMaxFeeBps(tiers) ==
  CHOOSE m \in {tiers[k].fee : k \in DOMAIN tiers} : \A k \in DOMAIN tiers : tiers[k].fee <= m

(* The last tier whose threshold is reached; the first one if none is.  (The  *)
(* first threshold need not be 0.)                                            *)
FeeForVolume(tiers, v) ==
  LET reached == {k \in DOMAIN tiers : v >= tiers[k].threshold}
  IN  IF reached = {} THEN tiers[1].fee
      ELSE tiers[CHOOSE k \in reached : \A j \in reached : j <= k].fee

Install(tiers) ==
  /\ schedule' = [tiers |-> tiers, max |-> ComputeMaxFeeBps(tiers)]
  /\ announced' = announced \cup {ComputeMaxFeeBps(tiers)}
  /\ UNCHANGED <<volume, now, charged, credited, checked>>

InitFeeSchedule(tiers) ==
  /\ ValidateTiers(tiers)
  /\ schedule.tiers = <<>>
  /\ Install(tiers)

SetFeeScheduleUnbounded(tiers) ==
  /\ ValidateTiers(tiers)
  /\ schedule.tiers # <<>>
  /\ Install(tiers)

SetFeeSchedule(tiers) ==
  /\ ValidateTiers(tiers)
  /\ schedule.tiers # <<>>
  /\ ComputeMaxFeeBps(tiers) <= schedule.max
  /\ Install(tiers)

-----------------------------------------------------------------------------
(* Volumes *)

MaybeRollEpochKeepsPrev(v, slot) ==
  IF slot < v.start + EpochSlots THEN v
  ELSE [v EXCEPT !.prev = v.current, !.current = 0,
                 !.start = @ + ((slot - @) \div EpochSlots) * EpochSlots]

(* One epoch gone by: the current volume becomes the previous one.  More:     *)
(* both are stale.                                                            *)
MaybeRollEpoch(v, slot) ==
  LET epochs == (slot - v.start) \div EpochSlots
  IN  IF slot < v.start + EpochSlots THEN v
      ELSE [v EXCEPT !.prev = IF epochs = 1 THEN v.current ELSE 0,
                     !.current = 0,
                     !.start = v.start + epochs * EpochSlots]

Effective30dVolume(v, slot) ==
  LET rolled == MaybeRollEpoch(v, slot)
  IN  IF rolled.current >= rolled.prev THEN rolled.current ELSE rolled.prev

AddVolume(v, amount, slot) ==
  LET rolled == MaybeRollEpoch(v, slot)
  IN  [rolled EXCEPT !.current = @ + amount]

EnsureUserVolume(v, slot) ==
  IF v.exists THEN v ELSE [exists |-> TRUE, current |-> 0, prev |-> 0, start |-> slot]

Credit(f, t, amount) == [f EXCEPT ![t][now] = @ + amount]

(* The taker's tier is looked up before the match itself counts.  When one    *)
(* trader is on both sides, its one account is credited twice.                *)
MatchFee(tiers, taker, maker, amount) ==
  LET opened == [t \in Traders |-> IF t \in {taker, maker}
                                   THEN EnsureUserVolume(volume[t], now) ELSE volume[t]]
      first == [opened EXCEPT ![taker] = AddVolume(@, amount, now)]
  IN  /\ tiers # <<>>
      /\ charged' = FeeForVolume(tiers, Effective30dVolume(opened[taker], now))
      /\ volume' = [first EXCEPT ![maker] = AddVolume(@, amount, now)]
      /\ credited' = Credit(Credit(credited, taker, amount), maker, amount)
      /\ \A t \in {taker, maker} : Total(SlotsSoFar, credited[t]) + amount <= MaxCredit
      /\ UNCHANGED <<schedule, now, announced>>

(* MatchPair and MatchBestAvailable. *)
MatchChecked(taker, maker, amount) ==
  /\ MatchFee(schedule.tiers, taker, maker, amount)
  /\ checked' = TRUE

(* The inline match of a post: any account of the right kind will do. *)
MatchInline(tiers, taker, maker, amount) ==
  /\ MatchFee(tiers, taker, maker, amount)
  /\ checked' = FALSE

Tick ==
  /\ now < MaxSlot
  /\ now' = now + 1
  /\ UNCHANGED <<schedule, volume, charged, credited, announced, checked>>

Next ==
  \/ \E tiers \in Tables : InitFeeSchedule(tiers) \/ SetFeeSchedule(tiers)
  \/ \E taker, maker \in Traders, amount \in Amounts :
       \/ MatchChecked(taker, maker, amount)
       \/ \E tiers \in Supplied \cup {schedule.tiers} : MatchInline(tiers, taker, maker, amount)
  \/ Tick

Spec == Init /\ [][Next]_vars

-----------------------------------------------------------------------------
(* The atoms credited to t in the last n slots, the present one included. *)
Recent(t, n) == Total({s \in SlotsSoFar : now - n < s /\ s <= now}, credited[t])

(* The "30-day volume" of user_volume.rs is one, up to a factor of two: it is *)
(* never more than what was credited in the last two epochs' time, and never  *)
(* less than half of what was credited in the last one, whenever the account  *)
(* was created and however many epochs passed between two matches.            *)
VolumeTracksWindow ==
  \A t \in Traders :
    LET v == Effective30dVolume(volume[t], now)
    IN  /\ v <= Recent(t, 2 * EpochSlots)
        /\ 2 * v >= Recent(t, EpochSlots)

(* What fees.rs requires new_max <= old_max for: MatchPair and               *)
(* MatchBestAvailable charge at most the highest fee of every schedule there  *)
(* has been, whichever tier the taker has reached, also through volume it was *)
(* credited in inline matches.  Of an inline match the code promises no such  *)
(* thing.                                                                     *)
NeverAboveAnEarlierMax ==
  [][credited' # credited /\ checked' => \A m \in announced : charged' <= m]_vars
=============================================================================
