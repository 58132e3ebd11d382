----------------------------- MODULE HoldemTable -----------------------------
(***************************************************************************)
(* One multiplayer Hold'em table: the Coordinator actor of                 *)
(* internal/doors/holdem/multiplayer/coordinator.go around the engine of   *)
(* HoldemEngine.                                                           *)
(*                                                                         *)
(* The actor handles one command at a time, so a command is one action     *)
(* here, and the order in which the sessions' commands arrive is the       *)
(* nondeterminism of Next.  What is not serialised by the actor is the     *)
(* pause after a hand: handleEnd leaves a goroutine behind that asks for a *)
(* StartHand three seconds later, and `timers' counts those.               *)
(***************************************************************************)
EXTENDS HoldemEngine, Sequences

CONSTANTS
  BuyIns,     (* chips a player may bring to the table                      *)
  MaxNet,     (* bound: chips brought and not taken away                    *)
  MaxHands,   (* bound: hands dealt                                         *)
  MaxTimers,  (* bound: delayed StartHand commands in flight                *)
  SitInHand,  (* may a player sit while a hand or a pause is running?       *)
  StandInHand,(* may a player leave while a hand is running?                *)
  Careless    (* may a player fold with nothing to call, or bet when the    *)
              (* engine asks him to act although he folded?                 *)

ASSUME BuyInAssumption == BuyIns \subseteq Nat
ASSUME BoundAssumption == MaxNet \in Nat /\ MaxHands \in Nat /\ MaxTimers \in Nat
ASSUME EnvAssumption ==
  SitInHand \in BOOLEAN /\ StandInHand \in BOOLEAN /\ Careless \in BOOLEAN

VARIABLES
  game,     (* the Coordinator's Game                                       *)
  timers,   (* delayed StartHand commands not yet handled                   *)
  settled,  (* hand numbers handed to onSettlement, in order                *)
  net       (* history: chips brought to the table minus chips taken away   *)

vars == <<game, timers, settled, net>>

-----------------------------------------------------------------------------
Running == game.street # "Ended"

Seated(u) == {i \in Seats : game.user[i] = u}

\* maybeStart, called by the Sit command only.
MaybeStart(g) == IF g.street = "Ended" /\ CanStart(g) THEN StartHand(g) ELSE g

(***************************************************************************)
(* cmdSit.  The engine looks at the seat only: the same user may hold      *)
(* several.                                                                *)
(***************************************************************************)
SitCmd(u, i, chips) ==
  /\ CanSit(game, i, chips)
  /\ SitInHand \/ (~Running /\ timers = 0)
  /\ net + chips <= MaxNet
  /\ game' = MaybeStart(Sit(game, i, u, chips))
  /\ game'.hand <= MaxHands
  /\ net' = net + chips
  /\ UNCHANGED <<timers, settled>>

(***************************************************************************)
(* cmdStand.  The chips go back to the caller; a hand that ends here ends  *)
(* without handleEnd: nothing is settled and no next hand is asked for.    *)
(***************************************************************************)
StandCmd(u) ==
  /\ Seated(u) # {}
  /\ StandInHand \/ ~Running
  /\ LET i == Min(Seated(u))
     IN  /\ game' = Stand(game, i)
         /\ net'  = net - game.chips[i]
  /\ UNCHANGED <<timers, settled>>

(***************************************************************************)
(* buildSettlement: a movement for each seat that is taken and put chips   *)
(* into the hand or was paid from it.  The cards and the wording are left  *)
(* out.                                                                    *)
(***************************************************************************)
Movements(g) ==
  [i \in {i \in Occupied(g) : g.com[i] # 0 \/ g.paid[i] # 0} |->
     [user |-> g.user[i], wagered |-> g.com[i], payout |-> g.paid[i], stack |-> g.chips[i]]]

(***************************************************************************)
(* cmdAction.  A hand that ends is settled and the next one asked for.  An *)
(* illegal action changes nothing.                                         *)
(***************************************************************************)
ActionCmd(u, a) ==
  /\ Seated(u) # {}
  /\ LET i == Min(Seated(u))
     IN  /\ IsLegal(game, i)
         /\ Careless \/ IF game.folded[i] THEN a = "CheckCall"
                        ELSE a = "Fold" => ToCall(game, i) > 0
         /\ game' \in PlayerAction(game, i, a)
  /\ IF game'.street = "Ended"
     THEN /\ timers < MaxTimers
          /\ timers' = timers + 1
          /\ settled' = Append(settled, game.hand)
     ELSE UNCHANGED <<timers, settled>>
  /\ UNCHANGED net

(***************************************************************************)
(* cmdStartHand, sent by the goroutine of handleEnd.  The engine does not  *)
(* ask whether a hand is running.                                          *)
(***************************************************************************)
StartHandCmd ==
  /\ timers > 0
  /\ timers' = timers - 1
  /\ game' = IF CanStart(game) THEN StartHand(game) ELSE game
  /\ game'.hand <= MaxHands
  /\ UNCHANGED <<settled, net>>

Next ==
  \/ \E u \in Users, i \in Seats, c \in BuyIns : SitCmd(u, i, c)
  \/ \E u \in Users : StandCmd(u)
  \/ \E u \in Users, a \in Actions : ActionCmd(u, a)
  \/ StartHandCmd

Init ==
  /\ game = NewGame
  /\ timers = 0 /\ settled = <<>> /\ net = 0

Spec == Init /\ [][Next]_vars

(***************************************************************************)
(* A table that Registry.Restore brought back: one seat for each player of *)
(* the snapshot, with a stack he may have bought in for.                   *)
(***************************************************************************)
Snapshots ==
  {s \in [user : [Seats -> Users \union {NoUser}], chips : [Seats -> BuyIns],
          button : Seats, hand : {0}] :
     \A i, j \in Seats : s.user[i] = s.user[j] /\ i # j => s.user[i] = NoUser}

RestoredTables == {RestoreFromSnapshot(s) : s \in Snapshots}

RestoredInit ==
  /\ game \in RestoredTables
  /\ timers = 0 /\ settled = <<>>
  /\ net = Total(game.chips) /\ net <= MaxNet

RestoredSpec == RestoredInit /\ [][Next]_vars

-----------------------------------------------------------------------------
(* Properties.                                                             *)

\* The state stays within its types: stacks, bets and the pot never go
\* negative and indices stay on the table.
TypeOK ==
  /\ game \in Games
  /\ timers \in 0 .. MaxTimers
  /\ settled \in Seq(Nat)
  /\ net \in 0 .. MaxNet

\* However commands interleave with the delayed StartHand, with players
\* sitting and leaving in the middle of a hand, the table never pays out more
\* than was brought to it (engine.go endByFold, resolveShowdown).
ChipsNeverMinted == TableChips(game) <= net

\* In orderly play every chip stays on the table, through side pots, split
\* pots and short all-ins.
ChipsConserved == TableChips(game) = net

\* What the seats have committed is in the pot until the hand is over, so the
\* side pots of resolveShowdown never promise more than there is.
PotCoversCommitments == Running => Total(game.com) <= game.pot

\* At a showdown (two players still in the hand that ends) nobody wins more from
\* an opponent than he matched himself: a short all-in is paid only from the
\* side pots it is part of.
MatchedBy(g, i) ==
  MapThenSumSet(LAMBDA j : IF g.com[j] < g.com[i] THEN g.com[j] ELSE g.com[i], Seats)

SidePotCap ==
  [][Running /\ game'.street = "Ended" /\ Cardinality(Live(game')) >= 2
       => \A i \in Seats : game'.paid[i] <= MatchedBy(game', i)]_vars

\* Between two hands and within one, a seat's money (stack and street bet)
\* goes down only by its own action, by a blind, or by the street's bets
\* moving to the pot: never by what another player does.
OnlyOwnChips ==
  [][\A i \in Seats :
       /\ game.user[i] # NoUser /\ game'.user[i] = game.user[i]
       /\ game'.chips[i] < game.chips[i]
       => \/ game.toAct = i
          \/ game'.hand > game.hand]_vars

\* A hand is settled at most once, and in the order the hands were dealt: the
\* unique index of multiplayer_hands on (game_key, table_id, hand_no) sees
\* each number of this table once (coordinator.go handleEnd).
SettledOncePerHand ==
  \A k, l \in DOMAIN settled : k < l => settled[k] < settled[l]

\* Whoever is to act is at the table, so that a hand can always go on.
ActorPresent == Running => game.toAct \in Occupied(game)

-----------------------------------------------------------------------------
(* What the comments of the code say, and the code does not do: TLC shows  *)
(* it with the configurations the README gives.                            *)

\* engine.go:177 "chips committed to the pot stay there": what a player who
\* leaves had bet remains on the table.
LeftChipsStay ==
  [][\A i \in Seats :
       Running /\ game.user[i] # NoUser /\ game'.user[i] = NoUser
       => TableChips(game') = TableChips(game) - game.chips[i]]_vars

\* coordinator.go:192 "starts a hand when at least 2 seats are filled and
\* we're idle": no hand is dealt over a running one.
DealtWhenIdle == [][game'.hand > game.hand => ~Running]_vars

\* engine.go:511 "Folded seats' committed chips fund the pots they paid into":
\* when a hand ends, everything that was in its pot is paid out.
PotPaidOut ==
  [][Running /\ game'.street = "Ended" => TableChips(game') = TableChips(game)]_vars

\* coordinator.go:345 "the per-hand audit payload": in a hand that is handed to the
\* ledger what the players won and lost sums to nothing.
SettlementBalances ==
  [][settled' # settled =>
       LET m == Movements(game')
       IN  Total([i \in Seats |-> IF i \in DOMAIN m
                                  THEN m[i].wagered - m[i].payout ELSE 0]) = 0]_vars

\* engine.go:391 "once everyone either matches the high bet or is all-in,
\* close the street": a player who just put chips in is not the next to act.
NotAskedAgain ==
  [][\A i \in Seats :
       /\ Running /\ game'.street = game.street /\ game'.hand = game.hand
       /\ game.toAct = i /\ game'.chips[i] < game.chips[i]
       => game'.toAct # i]_vars

\* engine.go:700 "roll the live bets into ChipsHand so the restore is a clean
\* between-hands state": the snapshot holds the chips of the table.
SnapshotHoldsTheChips == Total(SnapshotState(game).chips) = TableChips(game)

\* coordinator.go:303 "hole cards masked for everyone other than viewerUserID,
\* except at showdown": the cards of another player are seen only when the
\* board is complete.
Shown(u, i) ==
  \/ game.user[i] = u
  \/ /\ game.street \in {"Showdown", "Ended"}
     /\ i \in Live(game)

HolesHidden ==
  \A u \in Users, i \in Seats :
    game.dealt[i] /\ Shown(u, i) => game.user[i] = u \/ game.board = 5

\* engine.go:715 "the coordinator will auto-start the next hand as soon as >=2
\* seats are still occupied": a table with two players does not stay idle.
\* The coordinator does on its own what StartHandCmd does, and that is fair.
FairSpec == RestoredSpec /\ WF_vars(StartHandCmd)

IdleTableStarts == CanStart(game) ~> (Running \/ ~CanStart(game))
=============================================================================
