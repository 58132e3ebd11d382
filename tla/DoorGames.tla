------------------------------ MODULE DoorGames ------------------------------
(***************************************************************************)
(* The rules of the single-player doors: internal/doors/slots, blackjack,  *)
(* videopoker and holdem (heads-up against a bot), as pure operators on    *)
(* the value a game has between two calls.  A card is drawn from a         *)
(* shuffled deck, so a draw is a choice among the cards of a small set; a  *)
(* hand of poker is its class.                                             *)
(***************************************************************************)
EXTENDS Integers, Sequences, FiniteSets

CONSTANTS
  Symbols,   (* slots: the symbols on the reels, of 0 (Cherry) .. 6 (Seven) *)
  Points,    (* blackjack: the values of the cards, an ace being 1          *)
  PokerHands (* video poker: the classes a drawn hand may have              *)

-----------------------------------------------------------------------------
(* Slots: three reels, a payout for three or two of a kind.                *)
ThreeOfAKind == <<5, 10, 15, 25, 50, 100, 250>>
TwoOfAKind   == <<2, 2, 2, 3, 3, 5, 10>>

Multiplier(reels) ==
  CASE reels[1] = reels[2] /\ reels[2] = reels[3] -> ThreeOfAKind[reels[1] + 1]
    [] Cardinality({reels[1], reels[2], reels[3]}) = 2 ->
         TwoOfAKind[(IF reels[2] = reels[3] THEN reels[2] ELSE reels[1]) + 1]
    [] OTHER -> 0

SpinPayouts(bet) == {bet * Multiplier(r) : r \in [1 .. 3 -> Symbols]}

-----------------------------------------------------------------------------
(* Blackjack.  A hand is its cards' number and sum, aces counted as one,   *)
(* and whether it has an ace.                                              *)
EmptyHand == [n |-> 0, sum |-> 0, ace |-> FALSE]
Hit(h, c) == [n |-> h.n + 1, sum |-> h.sum + c, ace |-> h.ace \/ c = 1]

\* An ace counts eleven as long as the hand does not go over with it.
IsSoft(h)    == h.ace /\ h.sum <= 11
HandValue(h) == IF IsSoft(h) THEN h.sum + 10 ELSE h.sum

TwoCards == {Hit(Hit(EmptyHand, c), d) : c, d \in Points}

\* Nothing asks for the cards of a hand that is over, only for its outcome.
Settle(g, outcome) ==
  [g EXCEPT !.finished = TRUE, !.outcome = outcome, !.player = EmptyHand, !.dealer = EmptyHand]

NewBlackjack ==
  {LET g == [player |-> p, dealer |-> d, doubled |-> FALSE, finished |-> FALSE,
             outcome |-> "InProgress"]
   IN  IF HandValue(p) # 21 THEN g
       ELSE Settle(g, IF HandValue(d) = 21 THEN "Push" ELSE "PlayerBlackjack") :
     p, d \in TwoCards}

\* The dealer draws to 17 and hits a soft 17: the hands he may end with.
DealerHands == [n : 2 .. 12, sum : 2 .. 26, ace : BOOLEAN]
DealerEnds[h \in DealerHands] ==
  IF HandValue(h) < 17 \/ (HandValue(h) = 17 /\ IsSoft(h))
  THEN UNION {DealerEnds[Hit(h, c)] : c \in Points}
  ELSE {h}

Against(pv, dv) ==
  CASE dv > 21 -> "DealerBust"
    [] dv <= 21 /\ pv > dv -> "PlayerWin"
    [] dv <= 21 /\ pv < dv -> "DealerWin"
    [] OTHER -> "Push"

DealerPlay(g) ==
  {Settle([g EXCEPT !.dealer = d], Against(HandValue(g.player), HandValue(d))) :
     d \in DealerEnds[g.dealer]}

\* The player draws one card and may go over with it.
Drawn(g) == {[g EXCEPT !.player = Hit(@, c)] : c \in Points}
Busted(g) == HandValue(g.player) > 21

PlayerHits(g) == {IF Busted(h) THEN Settle(h, "PlayerBust") ELSE h : h \in Drawn(g)}

CanDouble(g) == ~g.finished /\ g.player.n = 2

PlayerDoubles(g) ==
  UNION {IF Busted(h) THEN {Settle(h, "PlayerBust")} ELSE DealerPlay(h) :
           h \in Drawn([g EXCEPT !.doubled = TRUE])}

Wins == {"PlayerWin", "DealerBust"}

BlackjackPayout(bet, doubled, outcome) ==
  LET stake == IF doubled THEN 2 * bet ELSE bet
  IN  CASE outcome = "PlayerBlackjack" -> 2 * bet + bet \div 2
        [] outcome \in Wins -> 2 * stake
        [] outcome = "Push" -> stake
        [] OTHER -> 0

-----------------------------------------------------------------------------
(* Video poker, 9/6 Jacks or Better.                                       *)
PayTable ==
  [HighCard |-> 0, JacksOrBetter |-> 1, TwoPair |-> 2, ThreeOfAKind |-> 3, Straight |-> 4,
   Flush |-> 6, FullHouse |-> 9, FourOfAKind |-> 25, StraightFlush |-> 50, RoyalFlush |-> 800]

NewVideoPoker == [drawn |-> FALSE, payout |-> 0]

\* A second Draw returns the result of the first.
DrawHands(g, bet) ==
  IF g.drawn THEN {g} ELSE {[drawn |-> TRUE, payout |-> bet * PayTable[r]] : r \in PokerHands}

-----------------------------------------------------------------------------
(* Heads-up Hold'em: seat 1 is the player, seat 2 the bot.                 *)
Player == 1
Bot    == 2
Other(s) == 3 - s
Ended    == 5

\* postBet: as much of the amount as the stack has.
PostBet(g, s, amount) ==
  LET a == IF amount > g.stacks[s] THEN g.stacks[s] ELSE amount
  IN  [g EXCEPT !.stacks[s] = @ - a, !.bets[s] = @ + a]

NewHeadsUp(stack, bb) ==
  [stacks |-> <<stack, stack>>, bets |-> <<0, 0>>, pot |-> 0, button |-> Bot,
   toAct |-> Bot, street |-> Ended, bb |-> bb]

\* The button posts the small blind and acts first.
StartHand(g) ==
  LET clean == [g EXCEPT !.bets = <<0, 0>>, !.pot = 0, !.street = 1, !.toAct = g.button]
  IN  PostBet(PostBet(clean, g.button, g.bb \div 2), Other(g.button), g.bb)

AdvanceButton(g) == [g EXCEPT !.button = Other(@)]

ToCall(g, s) == g.bets[Other(s)] - g.bets[s]
Called(g, s) == IF ToCall(g, s) > 0 THEN PostBet(g, s, ToCall(g, s)) ELSE g

InPlay(g) == g.pot + g.bets[1] + g.bets[2]

\* Mutant: the bets of the street are cleared and not paid.
WonPot(g, s) ==
  [g EXCEPT !.stacks[s] = @ + g.pot, !.pot = 0, !.bets = <<0, 0>>, !.street = Ended]

\* The whole pot to one seat, or halves with the odd chip to the player.
Won(g, s) ==
  [g EXCEPT !.stacks[s] = @ + InPlay(g), !.pot = 0, !.bets = <<0, 0>>, !.street = Ended]
Split(g) ==
  [g EXCEPT !.stacks = <<@[1] + g.pot \div 2 + (g.pot % 2), @[2] + g.pot \div 2>>,
            !.pot = 0, !.street = Ended]

\* The bets go to the pot; the river ends in a showdown.
CloseStreet(g) ==
  LET c == [g EXCEPT !.pot = InPlay(g), !.bets = <<0, 0>>]
  IN  IF g.street = 4 THEN {Won(c, Player), Won(c, Bot), Split(c)}
      ELSE {[c EXCEPT !.street = @ + 1, !.toAct = Other(g.button)]}

\* Uneven bets pass the turn, also to a seat that has no chips left.
AfterAction(g) ==
  IF g.bets[1] # g.bets[2] THEN {[g EXCEPT !.toAct = Other(@)]} ELSE CloseStreet(g)

ApplyAction(g, s, a) ==
  CASE a = "Fold"      -> {Won(g, Other(s))}
    [] a = "CheckCall" -> AfterAction(Called(g, s))
    [] a = "Raise"     -> AfterAction(PostBet(Called(g, s), s, g.bb))
    [] a = "AllIn"     -> AfterAction(PostBet(g, s, g.stacks[s]))

HeadsUpActions == {"Fold", "CheckCall", "Raise", "AllIn"}

\* botPolicy: he calls or raises, and folds only to more than a big blind, or
\* two after the flop.
BotPolicy(g) ==
  {"CheckCall", "Raise"}
    \union {a \in {"Fold"} : ToCall(g, Bot) > (IF g.street = 1 THEN 1 ELSE 2) * g.bb}

StepBot(g) == UNION {ApplyAction(g, Bot, a) : a \in BotPolicy(g)}
=============================================================================
