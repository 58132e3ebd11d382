---------------------------- MODULE HoldemEngine ----------------------------
(***************************************************************************)
(* The N-seat Hold'em engine of internal/doors/holdem/multiplayer/         *)
(* engine.go: the state of a Game as a record, and each method that        *)
(* changes it as an operator from game to game.                            *)
(*                                                                         *)
(* Cards are abstracted to the order they induce: a hand that reaches the  *)
(* showdown is decided by a function from seats to Strengths (the result   *)
(* of cards.EvaluateBest), chosen by whoever deals.                        *)
(***************************************************************************)
EXTENDS Integers, FiniteSets, FiniteSetsExt

CONSTANTS
  N,          (* number of seats, NewGame's cap                             *)
  Users,      (* user ids that may sit                                      *)
  NoUser,     (* UserID 0: the seat is empty                                *)
  SmallBlind,
  BigBlind,
  Strengths   (* hand values of EvaluateBest, ordered by <=                 *)

ASSUME SeatAssumption == N \in 2..9
ASSUME UserAssumption == NoUser \notin Users
ASSUME BlindAssumption == SmallBlind \in Nat /\ BigBlind \in Nat \ {0}
ASSUME StrengthAssumption == Strengths \subseteq Nat /\ Strengths # {}

Seats == 0 .. N - 1

Streets == {"Preflop", "Flop", "Turn", "River", "Showdown", "Ended"}
Actions == {"Fold", "CheckCall", "Raise", "AllIn"}

Zero == [i \in Seats |-> 0]
None == [i \in Seats |-> FALSE]

(***************************************************************************)
(* type Seat is spread over the functions user, chips, bet, com, folded,   *)
(* allin and dealt (does the seat hold hole cards); board is the number of *)
(* community cards, paid is lastPayouts, raiser is lastRaiserIdx.          *)
(***************************************************************************)
Games ==
  [user   : [Seats -> Users \union {NoUser}],
   chips  : [Seats -> Nat],
   bet    : [Seats -> Nat],
   com    : [Seats -> Nat],
   folded : [Seats -> BOOLEAN],
   allin  : [Seats -> BOOLEAN],
   dealt  : [Seats -> BOOLEAN],
   button : Seats,
   toAct  : Seats \union {-1},
   raiser : Seats,
   pot    : Nat,
   street : Streets,
   board  : {0, 3, 4, 5},
   paid   : [Seats -> Nat],
   hand   : Nat]

NewGame ==
  [user |-> [i \in Seats |-> NoUser], chips |-> Zero, bet |-> Zero,
   com |-> Zero, folded |-> None, allin |-> None, dealt |-> None,
   button |-> 0, toAct |-> 0, raiser |-> 0, pot |-> 0, street |-> "Ended",
   board |-> 0, paid |-> Zero, hand |-> 0]

-----------------------------------------------------------------------------
(* Reading the table.                                                      *)

Occupied(g) == {i \in Seats : g.user[i] # NoUser}
Live(g)     == {i \in Occupied(g) : ~g.folded[i]}     \* activeCount counts these
CanAct(g)   == {i \in Live(g) : ~g.allin[i]}

Total(f) == MapThenSumSet(LAMBDA i : f[i], Seats)

\* Go's Pot(): what has been collected and what lies before the seats.
PotShown(g) == g.pot + Total(g.bet)

\* Every chip on the table.
TableChips(g) == Total(g.chips) + PotShown(g)

\* The first seat of S met walking clockwise from the one after `from', which
\* itself comes last; `from' when S is empty.
NextIn(S, from) ==
  LET steps == {k \in 1..N : (from + k) % N \in S}
  IN  IF steps = {} THEN from ELSE (from + Min(steps)) % N

NextOccupied(g, from) == NextIn(Occupied(g), from)

\* Mutant of FirstActiveAfter: nobody, not `from', when everyone is all-in.
FirstActiveOrNobody(g, from) ==
  IF CanAct(g) = {} THEN -1 ELSE NextIn(CanAct(g), from)

FirstActiveAfter(g, from) == NextIn(CanAct(g), from)

ToCall(g, i) ==
  LET owe == Max({g.bet[j] : j \in Seats}) - g.bet[i]
  IN  IF owe < 0 THEN 0 ELSE owe

\* Put `want' chips in front of seat i, or the whole stack when that is less.
Wager(g, i, want) ==
  LET put == IF want >= g.chips[i] THEN g.chips[i] ELSE want
  IN  [g EXCEPT !.chips[i] = @ - put,
                !.bet[i]   = @ + put,
                !.allin[i] = @ \/ put = g.chips[i]]

-----------------------------------------------------------------------------
(* Sitting down, and starting a hand.                                      *)

CanSit(g, i, chips) == g.user[i] = NoUser /\ chips > 0

Sit(g, i, u, chips) ==
  [g EXCEPT !.user[i] = u, !.chips[i] = chips, !.bet[i] = 0, !.com[i] = 0,
            !.folded[i] = FALSE, !.allin[i] = FALSE, !.dealt[i] = FALSE]

CanStart(g) == Cardinality(Occupied(g)) >= 2

PostBlind(g, i, amount) == Wager(g, i, amount)

\* Everything of the last hand is forgotten, whether or not it was over.
StartHand(g) ==
  LET headsUp == Cardinality(Occupied(g)) = 2
      button  == NextOccupied(g, g.button)
      sb      == IF headsUp THEN button ELSE NextOccupied(g, button)
      bb      == NextOccupied(g, sb)
      fresh   == [g EXCEPT !.bet = Zero, !.com = Zero, !.folded = None,
                           !.allin = None, !.paid = Zero, !.pot = 0,
                           !.hand = @ + 1, !.board = 0, !.button = button,
                           !.dealt = [i \in Seats |-> i \in Occupied(g)],
                           !.street = "Preflop", !.raiser = bb,
                           !.toAct = IF headsUp THEN sb ELSE NextOccupied(g, bb)]
  IN  PostBlind(PostBlind(fresh, sb, SmallBlind), bb, BigBlind)

-----------------------------------------------------------------------------
(* The end of a hand.                                                      *)

Collect(g) == [g EXCEPT !.com = [i \in Seats |-> @[i] + g.bet[i]], !.bet = Zero]

\* Mutant of EndByFold: the pot is paid and not emptied.
EndByFoldKeepsPot(g) ==
  IF Live(g) = {}
  THEN [g EXCEPT !.street = "Ended"]
  ELSE LET w == Min(Live(g))
       IN  [Collect(g) EXCEPT !.chips[w] = @ + PotShown(g),
                              !.paid[w]  = PotShown(g),
                              !.street   = "Ended"]

\* The lowest live seat takes everything on the table.
EndByFold(g) ==
  IF Live(g) = {}
  THEN [g EXCEPT !.street = "Ended"]
  ELSE LET w == Min(Live(g))
       IN  [Collect(g) EXCEPT !.chips[w] = @ + PotShown(g),
                              !.paid[w]  = PotShown(g),
                              !.pot      = 0,
                              !.street   = "Ended"]

\* seatDistance: positions clockwise from the button, the button itself last.
SeatDistance(g, i) ==
  LET d == (i - g.button + N) % N IN IF d = 0 THEN N ELSE d

Levels(g) == {g.com[i] : i \in Occupied(g)} \ {0}

\* Mutants of Award: every live seat competes for every side pot; the odd
\* chips of a split pot are not handed out.
AwardOpen(g, str, lvl, i) ==
  LET below   == {l \in Levels(g) : l < lvl}
      size    == lvl - (IF below = {} THEN 0 ELSE Max(below))
      payers  == {j \in Occupied(g) : g.com[j] >= lvl}
      winners == {j \in Live(g) : \A k \in Live(g) : str[k] <= str[j]}
  IN  IF i \notin winners
      THEN 0
      ELSE (size * Cardinality(payers)) \div Cardinality(winners)

AwardNoOdd(g, str, lvl, i) ==
  LET below   == {l \in Levels(g) : l < lvl}
      size    == lvl - (IF below = {} THEN 0 ELSE Max(below))
      payers  == {j \in Occupied(g) : g.com[j] >= lvl}
      rivals  == payers \intersect Live(g)
      winners == {j \in rivals : \A k \in rivals : str[k] <= str[j]}
  IN  IF i \notin winners
      THEN 0
      ELSE (size * Cardinality(payers)) \div Cardinality(winners)

\* What seat i wins of the side pot that ends at commitment `lvl'.
Award(g, str, lvl, i) ==
  LET below   == {l \in Levels(g) : l < lvl}
      size    == lvl - (IF below = {} THEN 0 ELSE Max(below))
      payers  == {j \in Occupied(g) : g.com[j] >= lvl}
      rivals  == payers \intersect Live(g)
      winners == {j \in rivals : \A k \in rivals : str[k] <= str[j]}
      chips   == size * Cardinality(payers)
      nearer  == {j \in winners : SeatDistance(g, j) < SeatDistance(g, i)}
  IN  IF i \notin winners
      THEN 0
      ELSE chips \div Cardinality(winners)
           + (IF Cardinality(nearer) < chips % Cardinality(winners) THEN 1 ELSE 0)

Winnings(g, str) ==
  [i \in Seats |-> MapThenSumSet(LAMBDA lvl : Award(g, str, lvl, i), Levels(g))]

\* Mutant of ResolveShowdown: the stack becomes the winnings.
ResolveShowdownSets(g, str) ==
  [g EXCEPT !.chips = Winnings(g, str), !.paid = Winnings(g, str),
            !.pot = 0, !.street = "Ended"]

\* lastPayouts is written only for the seats that won something.
ResolveShowdown(g, str) ==
  LET won == Winnings(g, str)
  IN  [g EXCEPT !.chips  = [i \in Seats |-> @[i] + won[i]],
                !.paid   = [i \in Seats |-> IF won[i] > 0 THEN won[i] ELSE @[i]],
                !.pot    = 0,
                !.street = "Ended"]

-----------------------------------------------------------------------------
(* Betting.                                                                *)

NextStreet ==
  [Preflop |-> "Flop", Flop |-> "Turn", Turn |-> "River", River |-> "Showdown"]

CardsOut ==
  [Preflop |-> 0, Flop |-> 3, Turn |-> 4, River |-> 5, Showdown |-> 5]

\* Mutant of CloseStreet: the street's bets are recorded and not collected.
CloseStreetNoPot(g) ==
  LET c    == Collect(g)
      next == NextStreet[g.street]
      a    == FirstActiveAfter(g, g.button)
  IN  IF next = "Showdown"
      THEN [c EXCEPT !.street = next]
      ELSE [c EXCEPT !.street = next, !.board = CardsOut[next],
                     !.toAct = a, !.raiser = a]

\* After the river the game is left at "Showdown", for ResolveShowdown.
CloseStreet(g) ==
  LET c    == [Collect(g) EXCEPT !.pot = PotShown(g)]
      next == NextStreet[g.street]
      a    == FirstActiveAfter(g, g.button)
  IN  IF next = "Showdown"
      THEN [c EXCEPT !.street = next]
      ELSE [c EXCEPT !.street = next, !.board = CardsOut[next],
                     !.toAct = a, !.raiser = a]

AfterAction(g) ==
  LET c == FirstActiveAfter(g, g.toAct)
  IN  IF Cardinality(Live(g)) <= 1 THEN EndByFold(g)
      ELSE IF CanAct(g) = {} \/ (c = g.raiser /\ ToCall(g, c) = 0)
           THEN CloseStreet(g)
           ELSE [g EXCEPT !.toAct = c]

\* Mutant of IsLegal: whether the hand is over is not asked.
IsLegalAnytime(g, i) == i = g.toAct

IsLegal(g, i) == i = g.toAct /\ g.street # "Ended"

\* What the chosen action does to the seat, before afterAction.
Play(g, i, a) ==
  CASE a = "Fold"      -> [g EXCEPT !.folded[i] = TRUE]
    [] a = "CheckCall" -> IF ToCall(g, i) = 0 THEN g ELSE Wager(g, i, ToCall(g, i))
    [] a = "Raise"     -> [Wager(g, i, ToCall(g, i) + BigBlind) EXCEPT !.raiser = i]
    [] a = "AllIn"     -> LET w == Wager(g, i, g.chips[i])
                          IN  IF ToCall(w, i) = 0 /\ w.bet[i] > 0
                              THEN [w EXCEPT !.raiser = i]
                              ELSE w

\* The games one call of PlayerAction may leave, over the cards dealt.
PlayerAction(g, i, a) ==
  LET r == AfterAction(Play(g, i, a))
  IN  IF r.street = "Showdown"
      THEN {ResolveShowdown(r, str) : str \in [Seats -> Strengths]}
      ELSE {r}

\* advanceAction: pass the turn on, or to nobody.
AdvanceAction(g) ==
  [g EXCEPT !.toAct = IF Cardinality(Live(g)) <= 1 \/ CanAct(g) = {}
                      THEN -1 ELSE FirstActiveAfter(g, g.toAct)]

\* Stand empties the seat, whatever it had in front of it.
Stand(g, i) ==
  LET gone == [g EXCEPT !.user[i] = NoUser, !.chips[i] = 0, !.bet[i] = 0,
                        !.com[i] = 0, !.folded[i] = FALSE, !.allin[i] = FALSE,
                        !.dealt[i] = FALSE]
      next == IF g.toAct = i THEN AdvanceAction(gone) ELSE gone
  IN  IF g.street = "Ended" THEN gone
      ELSE IF Cardinality(Live(next)) <= 1 THEN EndByFold(next) ELSE next

-----------------------------------------------------------------------------
(* Persistence.                                                            *)

\* SnapshotState: bets and commitments go back to the stacks.
SnapshotState(g) ==
  [user |-> g.user, button |-> g.button, hand |-> g.hand,
   chips |-> [i \in Seats |-> g.chips[i] + g.bet[i] + g.com[i]]]

\* RestoreFromSnapshot: seats without chips are dropped, toAct is nobody.
RestoreFromSnapshot(s) ==
  LET kept(i) == s.user[i] # NoUser /\ s.chips[i] > 0
  IN  [NewGame EXCEPT
         !.user   = [i \in Seats |-> IF kept(i) THEN s.user[i] ELSE NoUser],
         !.chips  = [i \in Seats |-> IF kept(i) THEN s.chips[i] ELSE 0],
         !.button = s.button, !.toAct = -1, !.hand = s.hand]
=============================================================================
