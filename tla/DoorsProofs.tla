----------------------------- MODULE DoorsProofs -----------------------------
(***************************************************************************)
(* Theorems about the single-player doors, for any ladder, purse, paytable *)
(* and any number of visits, games, commands and bot moves, and about the  *)
(* Web screen.                                                             *)
(*                                                                         *)
(* HeadsUpChips: EvenTable says that the stacks, the bets and the pot of a *)
(* heads-up table are the two buy-ins, and that nothing is in play between *)
(* hands; every rule of the engine keeps it (Even), and HeadsUpInv adds    *)
(* what a hand is started with.                                            *)
(*                                                                         *)
(* WalletAgreesWithRecord: the inductive invariant is PurseInv.  With a    *)
(* player who waits, one thing is under way at a time: nothing, with a     *)
(* screen that has what is in the row (AtTheDoor), a natural still to be   *)
(* settled (Natural), reels still turning (Turning); or one command, whose *)
(* statement says how far the row (Level) and the record have got (Loads,  *)
(* Buys, Draws, Pays).                                                     *)
(*                                                                         *)
(* DoorTypes is the type of the state both rest on; Keeps is what a step   *)
(* may not undo: a failed statement, a doubled hand.                       *)
(*                                                                         *)
(* ListsAgree and DeletesWhatWasNamed: the Web screen, for any addresses,  *)
(* rows and limits.  WebInv says of every id that a list, a question or a  *)
(* command holds that it is the id of the address it was read with, or of  *)
(* no row any more (Known): ids are not given twice.  With a user who      *)
(* waits, a list that is not the table's has a command under way that will *)
(* bring it (PatientOk).                                                   *)
(***************************************************************************)
EXTENDS Doors, WebScreen, SequenceTheorems, FiniteSetTheorems, TLAPS

DoorHands == [n : Nat, sum : Nat, ace : BOOLEAN]
Outcomes  == {"InProgress", "Push", "PlayerBlackjack", "PlayerWin", "DealerWin", "PlayerBust", "DealerBust"}
BlackjackHands ==
  [player : DoorHands, dealer : DoorHands, doubled : BOOLEAN, finished : BOOLEAN,
   outcome : Outcomes, stake : Nat]
PokerRounds   == [drawn : BOOLEAN, payout : Nat, stake : Nat]
HeadsUpTables ==
  [stacks : [1 .. 2 -> Nat], bets : [1 .. 2 -> Nat], pot : Nat, button : 1 .. 2, toAct : 1 .. 2,
   street : 1 .. 5, bb : Nat, stake : Nat]

DoorGameSet ==
  CASE door = "blackjack" -> BlackjackHands [] door = "videopoker" -> PokerRounds
    [] door = "holdem" -> HeadsUpTables [] OTHER -> {}
DoorScreens ==
  [open : BOOLEAN, wallet : Int, pending : Int, bet : Range(Ladder), game : Nat, spinning : BOOLEAN,
   cashedOut : BOOLEAN, dealing : BOOLEAN, ticks : Nat, advances : Nat]
DoorKinds ==
  CASE door = "slots" -> {"load", "spin"} [] door = "blackjack" -> {"load", "deal", "double", "settle"}
    [] door = "videopoker" -> {"load", "deal", "draw"} [] OTHER -> {"load", "buyin", "cashout"}
DoorCmds ==
  [kind : DoorKinds, st : {"load", "bet", "draw", "credit", "record", "done"}, copy : Int, bet : Nat,
   g : Nat, pay : Nat, err : BOOLEAN]

\* A command's game is on the heap.
CmdsOk(s, n) ==
  /\ s \in Seq(DoorCmds)
  /\ \A i \in DOMAIN s : s[i].g <= n /\ (s[i].st = "draw" => s[i].g # 0 /\ s[i].kind = "draw")
DoorTypes ==
  /\ door \in {"slots", "blackjack", "videopoker", "holdem"}
  /\ balance \in Int /\ ledger \in Int /\ lost \in Int
  /\ screen \in DoorScreens /\ screen.game <= Len(games) /\ (door # "holdem" => screen.advances = 0)
  /\ games \in Seq(DoorGameSet)
  /\ CmdsOk(cmds, Len(games))
  /\ failed \in BOOLEAN

\* A heads-up table has the chips of the two buy-ins, and none of them in play between hands.
EvenTable(g) ==
  g.stacks[1] + g.stacks[2] + InPlay(g) = 2 * g.stake /\ (g.street = Ended => InPlay(g) = 0)
HeadsUpInv ==
  door = "holdem" =>
    /\ \A i \in DOMAIN games : EvenTable(games[i])
    /\ Len(cmds) <= 1
    /\ \A i \in DOMAIN cmds : cmds[i].kind = "buyin" => cmds[i].bet = screen.bet

\* The row is what the record makes it, less n that a round under way has taken.
Level(n) == balance = Purse + ledger - lost - n
Still == screen.ticks = 0 /\ screen.advances = 0
Away  == Still /\ screen.game = 0 /\ ~screen.spinning

\* Nothing under way: a screen that has what is in the row, and shows the bet of its game; a
\* natural that is settled when its cards have been shown; reels that still turn.
GameOn(g) == door = "blackjack" => ~g.finished
AtTheDoor ==
  /\ screen.wallet = balance /\ ~screen.spinning /\ Level(AtStake)
  /\ screen.cashedOut => door = "holdem" /\ screen.game = 0
  /\ door = "slots" => screen.ticks = 0 /\ screen.game = 0
  /\ door = "blackjack" /\ screen.ticks > 0 => HasGame /\ ~Here.finished
  /\ HasGame /\ GameOn(Here) => screen.bet = Here.stake
Natural ==
  /\ door = "blackjack" /\ screen.ticks = 1 /\ HasGame /\ Here.finished /\ ~screen.spinning
  /\ ~screen.cashedOut
  /\ screen.wallet = balance /\ screen.bet = Here.stake /\ Level(Here.stake)
Turning ==
  /\ door = "slots" /\ screen.ticks = 1 /\ screen.game = 0 /\ screen.spinning
  /\ ~screen.cashedOut
  /\ screen.pending = balance /\ Level(0)
AtRest ==
  \/ ~screen.open /\ Away /\ Level(0)
  \/ screen.open /\ (AtTheDoor \/ Natural \/ Turning)

Loads(c) ==
  /\ c.kind = "load" /\ c.st \in {"load", "done"} /\ Away /\ Level(0)
  /\ screen.open => screen.wallet = 0 /\ ~screen.cashedOut
  /\ c.st = "done" => c.copy = balance
Buys(c) ==
  /\ c.kind \in {"spin", "deal", "buyin"} /\ screen.open /\ Still /\ screen.game = 0
  /\ c.bet = screen.bet /\ c.copy = balance /\ (screen.spinning <=> door = "slots")
  /\ ~screen.cashedOut
  /\ \/ c.st = "bet" /\ Level(0)
     \/ /\ c.kind # "spin" /\ c.st = "done" /\ Level(c.bet)
        /\ c.kind = "deal" => /\ c.g # 0 /\ games[c.g].stake = c.bet
                              /\ door = "videopoker" => ~games[c.g].drawn
Draws(c) ==
  /\ c.kind = "draw" /\ c.st = "draw" /\ screen.open /\ Still /\ HasGame /\ c.g = screen.game
  /\ ~Here.drawn /\ c.bet = Here.stake /\ c.bet = screen.bet /\ c.copy = balance /\ Level(c.bet)
  /\ ~screen.spinning /\ ~screen.cashedOut
\* A round that is over: what it won is on its way into the row, then into the record.
Pays(c) ==
  /\ c.kind \in {"spin", "settle", "draw", "cashout"} /\ Still /\ c.copy = balance
  /\ \/ c.st = "credit" /\ Level(c.bet)
     \/ c.st = "record" /\ Level(c.bet - c.pay)
     \/ c.st = "done" /\ Level(0)
  /\ c.kind # "cashout" => screen.open /\ ~screen.cashedOut
  /\ c.kind = "settle" => c.g # 0
  /\ screen.spinning <=> door = "slots"
  /\ door = "slots" => screen.game = 0
  /\ door = "blackjack" => HasGame /\ Here.finished
  /\ door = "videopoker" => HasGame /\ Here.drawn /\ screen.bet = Here.stake
  /\ ~screen.open => Away
UnderWay ==
  IF cmds = <<>> THEN AtRest
  ELSE Len(cmds) = 1 /\ ~cmds[1].err
       /\ (Loads(cmds[1]) \/ Buys(cmds[1]) \/ Draws(cmds[1]) \/ Pays(cmds[1]))
PurseInv == Undisturbed => UnderWay
-----------------------------------------------------------------------------
LEMMA LadderFacts ==
  /\ Range(Ladder) \subseteq Nat \ {0}
  /\ Ladder[1] \in Range(Ladder) /\ Head(Ladder) = Ladder[1]
  /\ \A i \in DOMAIN Ladder : Ladder[i] \in Range(Ladder)
BY DoorAssumption DEF Range

\* The rules of the heads-up table: chips move, and none is made.
LEMMA PostBetEven ==
  ASSUME NEW g \in HeadsUpTables, NEW s \in 1 .. 2, NEW amount \in Nat
  PROVE  /\ PostBet(g, s, amount) \in HeadsUpTables
         /\ LET h == PostBet(g, s, amount)
            IN  /\ h.stacks[1] + h.stacks[2] + InPlay(h) = g.stacks[1] + g.stacks[2] + InPlay(g)
                /\ h.stake = g.stake /\ h.street = g.street
<1> DEFINE a == IF amount > g.stacks[s] THEN g.stacks[s] ELSE amount
           h == PostBet(g, s, amount)
<1>1. g.stacks \in [1 .. 2 -> Nat] /\ g.bets \in [1 .. 2 -> Nat] /\ g.pot \in Nat BY DEF HeadsUpTables
<1>2. a \in Nat /\ a <= g.stacks[s] BY <1>1
<1>3. h = [g EXCEPT !.stacks[s] = @ - a, !.bets[s] = @ + a] BY DEF PostBet
<1> HIDE DEF a, h
<1>4. h.stacks = [g.stacks EXCEPT ![s] = @ - a] /\ h.bets = [g.bets EXCEPT ![s] = @ + a]
      /\ h.pot = g.pot /\ h.stake = g.stake /\ h.street = g.street
  BY <1>3 DEF HeadsUpTables
<1>5. h.stacks \in [1 .. 2 -> Nat] /\ h.bets \in [1 .. 2 -> Nat] BY <1>1, <1>2, <1>4
<1>6. h \in HeadsUpTables BY <1>3, <1>5, <1>4 DEF HeadsUpTables
<1>7. h.stacks[1] + h.stacks[2] + h.bets[1] + h.bets[2] = g.stacks[1] + g.stacks[2] + g.bets[1] + g.bets[2]
  <2>1. CASE s = 1 BY <1>1, <1>2, <1>4, <2>1
  <2>2. CASE s = 2 BY <1>1, <1>2, <1>4, <2>2
  <2>3. QED BY <2>1, <2>2
<1>8. QED BY <1>1, <1>4, <1>5, <1>6, <1>7 DEF InPlay, h

\* Half an amount, and a pot in two halves with the odd chip.
LEMMA Halves == \A n \in Nat : n \div 2 \in Nat /\ n % 2 \in Nat /\ n \div 2 + (n % 2) + n \div 2 = n
BY SMT

Even(g, h) ==
  /\ h \in HeadsUpTables /\ h.stake = g.stake
  /\ h.stacks[1] + h.stacks[2] + InPlay(h) = g.stacks[1] + g.stacks[2] + InPlay(g)
  /\ h.street = Ended => InPlay(h) = 0

LEMMA WonEven ==
  ASSUME NEW g \in HeadsUpTables, NEW s \in 1 .. 2
  PROVE  Even(g, Won(g, s))
<1> DEFINE h == Won(g, s)
           n == InPlay(g)
<1>1. g.stacks \in [1 .. 2 -> Nat] /\ g.bets \in [1 .. 2 -> Nat] /\ g.pot \in Nat BY DEF HeadsUpTables
<1>2. n \in Nat BY <1>1 DEF InPlay
<1>3. h = [g EXCEPT !.stacks[s] = @ + n, !.pot = 0, !.bets = <<0, 0>>, !.street = 5] BY DEF Won, Ended
<1> HIDE DEF h, n
<1>4. h.stacks = [g.stacks EXCEPT ![s] = @ + n] /\ h.bets = <<0, 0>> /\ h.pot = 0
      /\ h.stake = g.stake /\ h.street = 5
  BY <1>3 DEF HeadsUpTables
<1>5. h.stacks \in [1 .. 2 -> Nat] /\ h.bets \in [1 .. 2 -> Nat] BY <1>1, <1>2, <1>4
<1>6. h \in HeadsUpTables
  <2>1. h = [stacks |-> h.stacks, bets |-> h.bets, pot |-> 0, button |-> g.button, toAct |-> g.toAct,
             street |-> 5, bb |-> g.bb, stake |-> g.stake]
    BY <1>3 DEF HeadsUpTables
  <2>2. QED BY <1>5, <2>1 DEF HeadsUpTables
<1>7. h.stacks[1] + h.stacks[2] = g.stacks[1] + g.stacks[2] + n
  <2>1. CASE s = 1 BY <1>1, <1>2, <1>4, <2>1
  <2>2. CASE s = 2 BY <1>1, <1>2, <1>4, <2>2
  <2>3. QED BY <2>1, <2>2
<1>8. InPlay(h) = 0 BY <1>4 DEF InPlay
<1>9. h.stacks[1] \in Nat /\ h.stacks[2] \in Nat BY <1>5
<1>10. Even(g, h) BY <1>4, <1>6, <1>7, <1>8, <1>9 DEF Even, n
<1>11. QED BY <1>10 DEF h

LEMMA SplitEven ==
  ASSUME NEW g \in HeadsUpTables, g.bets = <<0, 0>>
  PROVE  Even(g, Split(g))
<1> DEFINE h == Split(g)
           a == g.pot \div 2 + (g.pot % 2)
           b == g.pot \div 2
<1>1. g.stacks \in [1 .. 2 -> Nat] /\ g.bets \in [1 .. 2 -> Nat] /\ g.pot \in Nat BY DEF HeadsUpTables
<1>2. a \in Nat /\ b \in Nat /\ a + b = g.pot BY <1>1, Halves
<1>3. h = [g EXCEPT !.stacks = <<g.stacks[1] + a, g.stacks[2] + b>>, !.pot = 0, !.street = 5]
  <2>1. g.stacks[1] + g.pot \div 2 + (g.pot % 2) = g.stacks[1] + a BY <1>1, Halves
  <2>2. QED BY <2>1 DEF Split, Ended
<1> HIDE DEF h, a, b
<1>4. h.stacks = <<g.stacks[1] + a, g.stacks[2] + b>> /\ h.bets = g.bets /\ h.pot = 0
      /\ h.stake = g.stake /\ h.street = 5
  BY <1>3 DEF HeadsUpTables
<1>5. h.stacks \in [1 .. 2 -> Nat] /\ h.stacks[1] = g.stacks[1] + a /\ h.stacks[2] = g.stacks[2] + b
  BY <1>1, <1>2, <1>4
<1>6. h \in HeadsUpTables
  <2>1. h = [stacks |-> h.stacks, bets |-> g.bets, pot |-> 0, button |-> g.button, toAct |-> g.toAct,
             street |-> 5, bb |-> g.bb, stake |-> g.stake]
    BY <1>3 DEF HeadsUpTables
  <2>2. QED BY <1>1, <1>5, <2>1 DEF HeadsUpTables
<1>7. g.bets[1] = 0 /\ g.bets[2] = 0 OBVIOUS
<1>8. InPlay(h) = 0 /\ InPlay(g) = g.pot BY <1>1, <1>4, <1>7 DEF InPlay
<1>9. Even(g, h) BY <1>1, <1>2, <1>4, <1>5, <1>6, <1>8 DEF Even
<1>10. QED BY <1>9 DEF h

\* The bets go to the pot.
LEMMA CloseStreetEven ==
  ASSUME NEW g \in HeadsUpTables, g.street # Ended, NEW h \in CloseStreet(g)
  PROVE  Even(g, h)
<1> DEFINE c == [g EXCEPT !.pot = InPlay(g), !.bets = <<0, 0>>]
<1>1. g.stacks \in [1 .. 2 -> Nat] /\ g.bets \in [1 .. 2 -> Nat] /\ g.pot \in Nat
      /\ g.button \in 1 .. 2 /\ g.street \in 1 .. 4
  BY DEF HeadsUpTables, Ended
<1>2. InPlay(g) \in Nat BY <1>1 DEF InPlay
<1>3. c.stacks = g.stacks /\ c.bets = <<0, 0>> /\ c.pot = InPlay(g) /\ c.stake = g.stake /\ c.street = g.street
  BY DEF HeadsUpTables
<1>4. <<0, 0>> \in [1 .. 2 -> Nat] OBVIOUS
<1>5. c \in HeadsUpTables BY <1>2, <1>4 DEF HeadsUpTables
<1>6. h \in IF g.street = 4 THEN {Won(c, Player), Won(c, Bot), Split(c)}
            ELSE {[c EXCEPT !.street = @ + 1, !.toAct = Other(g.button)]}
  BY DEF CloseStreet
<1> HIDE DEF c
<1>7. InPlay(c) = InPlay(g) BY <1>2, <1>3 DEF InPlay
<1>8. CASE g.street = 4
  <2>1. h \in {Won(c, 1), Won(c, 2), Split(c)} BY <1>6, <1>8 DEF Player, Bot
  <2>2. Even(c, h) BY <2>1, <1>3, <1>5, WonEven, SplitEven
  <2>3. QED BY <2>2, <1>3, <1>7 DEF Even
<1>9. CASE g.street # 4
  <2>1. h = [c EXCEPT !.street = @ + 1, !.toAct = Other(g.button)] BY <1>6, <1>9
  <2>2. c.street + 1 \in 1 .. 4 /\ Other(g.button) \in 1 .. 2 BY <1>1, <1>3, <1>9 DEF Other
  <2>3. h \in HeadsUpTables
    <3>1. h = [stacks |-> c.stacks, bets |-> c.bets, pot |-> c.pot, button |-> c.button,
               toAct |-> Other(g.button), street |-> c.street + 1, bb |-> c.bb, stake |-> c.stake]
      BY <2>1, <1>5 DEF HeadsUpTables
    <3>2. QED BY <3>1, <2>2, <1>5 DEF HeadsUpTables
  <2>4. h.stacks = c.stacks /\ h.bets = c.bets /\ h.pot = c.pot /\ h.stake = c.stake /\ h.street = c.street + 1
    BY <2>1, <1>5 DEF HeadsUpTables
  <2>5. h.street # Ended BY <2>2, <2>4 DEF Ended
  <2>6. InPlay(h) = InPlay(c) BY <2>4 DEF InPlay
  <2>7. QED BY <2>3, <2>4, <2>5, <2>6, <1>3, <1>7 DEF Even
<1>10. QED BY <1>8, <1>9

LEMMA AfterActionEven ==
  ASSUME NEW g \in HeadsUpTables, g.street # Ended, NEW h \in AfterAction(g)
  PROVE  Even(g, h)
<1>1. CASE g.bets[1] # g.bets[2]
  <2>1. h = [g EXCEPT !.toAct = Other(@)] BY <1>1 DEF AfterAction
  <2>2. Other(g.toAct) \in 1 .. 2 BY DEF HeadsUpTables, Other
  <2>3. h \in HeadsUpTables BY <2>1, <2>2 DEF HeadsUpTables
  <2>4. h.stacks = g.stacks /\ h.bets = g.bets /\ h.pot = g.pot /\ h.stake = g.stake /\ h.street = g.street
    BY <2>1 DEF HeadsUpTables
  <2>5. QED BY <2>3, <2>4 DEF Even, InPlay
<1>2. CASE ~(g.bets[1] # g.bets[2]) BY <1>2, CloseStreetEven DEF AfterAction
<1>3. QED BY <1>1, <1>2

\* Whatever a seat does.
LEMMA ApplyActionEven ==
  ASSUME NEW g \in HeadsUpTables, g.street # Ended, NEW s \in 1 .. 2, NEW a \in HeadsUpActions,
         NEW h \in ApplyAction(g, s, a)
  PROVE  Even(g, h)
<1>1. /\ g.bets[1] \in Nat /\ g.bets[2] \in Nat /\ g.bb \in Nat /\ g.stacks[s] \in Nat
      /\ Other(s) \in 1 .. 2
  BY DEF HeadsUpTables, Other
<1>2. ToCall(g, s) \in Int BY <1>1 DEF ToCall, Other
<1>3. /\ Called(g, s) \in HeadsUpTables /\ Called(g, s).street # Ended /\ Called(g, s).stake = g.stake
      /\ Called(g, s).stacks[1] + Called(g, s).stacks[2] + InPlay(Called(g, s))
           = g.stacks[1] + g.stacks[2] + InPlay(g)
  <2>1. CASE ToCall(g, s) > 0
    <3>1. ToCall(g, s) \in Nat BY <2>1, <1>2
    <3>2. Called(g, s) = PostBet(g, s, ToCall(g, s)) BY <2>1 DEF Called
    <3>3. QED BY <3>1, <3>2, PostBetEven
  <2>2. CASE ~(ToCall(g, s) > 0) BY <2>2 DEF Called
  <2>3. QED BY <2>1, <2>2
<1>4. CASE a = "Fold" BY <1>1, <1>4, WonEven DEF ApplyAction
<1>5. CASE a = "CheckCall"
  <2>1. h \in AfterAction(Called(g, s)) BY <1>5 DEF ApplyAction
  <2>2. Even(Called(g, s), h) BY <2>1, <1>3, AfterActionEven
  <2>3. QED BY <2>2, <1>3 DEF Even
<1>6. CASE a = "Raise"
  <2> DEFINE r == PostBet(Called(g, s), s, g.bb)
  <2>1. h \in AfterAction(r) BY <1>6 DEF ApplyAction
  <2>2. /\ r \in HeadsUpTables /\ r.street # Ended /\ r.stake = g.stake
        /\ r.stacks[1] + r.stacks[2] + InPlay(r) = g.stacks[1] + g.stacks[2] + InPlay(g)
    BY <1>1, <1>3, PostBetEven
  <2> HIDE DEF r
  <2>3. Even(r, h) BY <2>1, <2>2, AfterActionEven
  <2>4. QED BY <2>2, <2>3 DEF Even
<1>7. CASE a = "AllIn"
  <2> DEFINE r == PostBet(g, s, g.stacks[s])
  <2>1. h \in AfterAction(r) BY <1>7 DEF ApplyAction
  <2>2. /\ r \in HeadsUpTables /\ r.street # Ended /\ r.stake = g.stake
        /\ r.stacks[1] + r.stacks[2] + InPlay(r) = g.stacks[1] + g.stacks[2] + InPlay(g)
    BY <1>1, PostBetEven
  <2> HIDE DEF r
  <2>3. Even(r, h) BY <2>1, <2>2, AfterActionEven
  <2>4. QED BY <2>2, <2>3 DEF Even
<1>8. QED BY <1>4, <1>5, <1>6, <1>7 DEF HeadsUpActions

LEMMA StartHandEven ==
  ASSUME NEW g \in HeadsUpTables
  PROVE  LET h == StartHand(g)
         IN  /\ h \in HeadsUpTables /\ h.stake = g.stake /\ h.street # Ended
             /\ h.stacks[1] + h.stacks[2] + InPlay(h) = g.stacks[1] + g.stacks[2]
<1> DEFINE clean == [g EXCEPT !.bets = <<0, 0>>, !.pot = 0, !.street = 1, !.toAct = g.button]
           p == PostBet(clean, g.button, g.bb \div 2)
           h == PostBet(p, Other(g.button), g.bb)
<1>1. /\ g.stacks \in [1 .. 2 -> Nat] /\ g.button \in 1 .. 2 /\ g.bb \in Nat /\ Other(g.button) \in 1 .. 2
      /\ g.bb \div 2 \in Nat
  BY Halves DEF HeadsUpTables, Other
<1>2. <<0, 0>> \in [1 .. 2 -> Nat] OBVIOUS
<1>3. clean \in HeadsUpTables
  <2>0. clean = [g EXCEPT !.bets = <<0, 0>>, !.pot = 0, !.street = 1, !.toAct = g.button] OBVIOUS
  <2> HIDE DEF clean
  <2>1. clean = [stacks |-> g.stacks, bets |-> <<0, 0>>, pot |-> 0, button |-> g.button,
                 toAct |-> g.button, street |-> 1, bb |-> g.bb, stake |-> g.stake]
    BY <2>0 DEF HeadsUpTables
  <2>2. QED BY <2>1, <1>1, <1>2 DEF HeadsUpTables
<1>4. clean.stacks = g.stacks /\ clean.bets = <<0, 0>> /\ clean.pot = 0 /\ clean.stake = g.stake /\ clean.street = 1
  BY DEF HeadsUpTables
<1>5. h = StartHand(g) BY DEF StartHand
<1> HIDE DEF clean
<1>6. InPlay(clean) = 0 BY <1>4 DEF InPlay
<1>7. /\ p \in HeadsUpTables /\ p.stake = g.stake /\ p.street = 1
      /\ p.stacks[1] + p.stacks[2] + InPlay(p) = clean.stacks[1] + clean.stacks[2] + InPlay(clean)
  BY <1>1, <1>3, <1>4, PostBetEven
<1> HIDE DEF p
<1>8. /\ h \in HeadsUpTables /\ h.stake = p.stake /\ h.street = 1
      /\ h.stacks[1] + h.stacks[2] + InPlay(h) = p.stacks[1] + p.stacks[2] + InPlay(p)
  BY <1>1, <1>7, PostBetEven
<1> HIDE DEF h
<1>9. h.street # Ended BY <1>8 DEF Ended
<1>10. g.stacks[1] \in Nat /\ g.stacks[2] \in Nat BY <1>1
<1>11. h.stacks[1] + h.stacks[2] + InPlay(h) = g.stacks[1] + g.stacks[2]
  BY <1>4, <1>6, <1>7, <1>8, <1>10
<1>12. QED BY <1>5, <1>7, <1>8, <1>9, <1>11

LEMMA NewHeadsUpEven ==
  ASSUME NEW n \in Nat, NEW bb \in Nat, NEW k \in Nat
  PROVE  LET g == Staked(NewHeadsUp(n, bb), k)
         IN  /\ g \in HeadsUpTables /\ g.stake = k /\ InPlay(g) = 0
             /\ g.stacks[1] = n /\ g.stacks[2] = n
<1> DEFINE g == Staked(NewHeadsUp(n, bb), k)
<1>1. g = [stacks |-> <<n, n>>, bets |-> <<0, 0>>, pot |-> 0, button |-> 2, toAct |-> 2, street |-> 5,
           bb |-> bb, stake |-> k]
  BY DEF Staked, NewHeadsUp, Bot, Ended
<1>2. <<n, n>> \in [1 .. 2 -> Nat] /\ <<0, 0>> \in [1 .. 2 -> Nat] OBVIOUS
<1> HIDE DEF g
<1>3. g \in HeadsUpTables BY <1>1, <1>2 DEF HeadsUpTables
<1>4. InPlay(g) = 0 BY <1>1 DEF InPlay
<1>5. QED BY <1>1, <1>3, <1>4 DEF g

\* Blackjack: hands stay hands, with the stake they were dealt for.
LEMMA HitType == ASSUME NEW h \in DoorHands, NEW c \in Points PROVE Hit(h, c) \in DoorHands
BY DoorAssumption DEF Hit, DoorHands

LEMMA EmptyType == EmptyHand \in DoorHands
BY DEF EmptyHand, DoorHands

\* What is left of a hand that is settled.
Over(g, o) ==
  [player |-> EmptyHand, dealer |-> EmptyHand, doubled |-> g.doubled, finished |-> TRUE, outcome |-> o,
   stake |-> g.stake]
LEMMA OverType ==
  ASSUME NEW g \in BlackjackHands, NEW o \in Outcomes, NEW h, h = Over(g, o)
  PROVE  h \in BlackjackHands /\ h.finished /\ h.doubled = g.doubled /\ h.stake = g.stake
BY EmptyType DEF BlackjackHands, Over

LEMMA SettleIs ==
  ASSUME NEW g, NEW o,
         g = [player |-> g.player, dealer |-> g.dealer, doubled |-> g.doubled, finished |-> g.finished,
              outcome |-> g.outcome, stake |-> g.stake]
  PROVE  Settle(g, o) = Over(g, o)
<1>1. PICK h : h = Settle(g, o) OBVIOUS
<1>2. h = [g EXCEPT !.finished = TRUE, !.outcome = o, !.player = EmptyHand, !.dealer = EmptyHand]
  BY <1>1 DEF Settle
<1>3. h = [player |-> EmptyHand, dealer |-> EmptyHand, doubled |-> g.doubled, finished |-> TRUE,
           outcome |-> o, stake |-> g.stake]
  BY <1>2
<1>4. QED BY <1>1, <1>3 DEF Over

LEMMA SettleType ==
  ASSUME NEW g \in BlackjackHands, NEW d, NEW o \in Outcomes
  PROVE  /\ Settle(g, o) = Over(g, o)
         /\ Settle([g EXCEPT !.dealer = d], o) = Over(g, o)
<1>1. PICK h : h = [g EXCEPT !.dealer = d] OBVIOUS
<1>2. /\ h = [player |-> h.player, dealer |-> h.dealer, doubled |-> h.doubled, finished |-> h.finished,
              outcome |-> h.outcome, stake |-> h.stake]
      /\ h.doubled = g.doubled /\ h.stake = g.stake
  BY <1>1 DEF BlackjackHands
<1>3. Settle(h, o) = Over(h, o) BY <1>2, SettleIs
<1>4. g = [player |-> g.player, dealer |-> g.dealer, doubled |-> g.doubled, finished |-> g.finished,
           outcome |-> g.outcome, stake |-> g.stake]
  BY DEF BlackjackHands
<1>5. Settle(g, o) = Over(g, o) BY <1>4, SettleIs
<1>6. QED BY <1>1, <1>2, <1>3, <1>5 DEF Over

LEMMA DealerPlayType ==
  ASSUME NEW g \in BlackjackHands, NEW h \in DealerPlay(g)
  PROVE  h \in BlackjackHands /\ h.finished /\ h.doubled = g.doubled /\ h.stake = g.stake
<1>1. PICK d \in DealerEnds[g.dealer] :
        h = Settle([g EXCEPT !.dealer = d], Against(HandValue(g.player), HandValue(d)))
  BY DEF DealerPlay
<1>2. HandValue(g.player) \in Int BY DEF BlackjackHands, DoorHands, HandValue
<1> DEFINE pv == HandValue(g.player)
           dv == HandValue(d)
<1>3. Against(pv, dv) \in Outcomes
  <2> HIDE DEF pv, dv
  <2>1. Against(pv, dv) \in {"DealerBust", "PlayerWin", "DealerWin", "Push"} BY DEF Against
  <2>2. QED BY <2>1 DEF Outcomes
<1>4. h = Over(g, Against(pv, dv)) BY <1>1, <1>3, SettleType
<1>5. QED BY <1>3, <1>4, OverType

LEMMA DrawnType ==
  ASSUME NEW g \in BlackjackHands, NEW h \in Drawn(g)
  PROVE  h \in BlackjackHands /\ h.finished = g.finished /\ h.doubled = g.doubled /\ h.stake = g.stake
<1>1. PICK c \in Points : h = [g EXCEPT !.player = Hit(g.player, c)] BY DEF Drawn
<1>2. Hit(g.player, c) \in DoorHands BY HitType DEF BlackjackHands
<1>3. h = [player |-> Hit(g.player, c), dealer |-> g.dealer, doubled |-> g.doubled,
           finished |-> g.finished, outcome |-> g.outcome, stake |-> g.stake]
  BY <1>1 DEF BlackjackHands
<1>4. QED BY <1>2, <1>3 DEF BlackjackHands

LEMMA BustType ==
  ASSUME NEW g \in BlackjackHands, NEW o \in Outcomes
  PROVE  LET h == Settle(g, o)
         IN  h \in BlackjackHands /\ h.finished /\ h.doubled = g.doubled /\ h.stake = g.stake
BY SettleType, OverType

LEMMA PlayerHitsType ==
  ASSUME NEW g \in BlackjackHands, NEW h \in PlayerHits(g)
  PROVE  h \in BlackjackHands /\ h.doubled = g.doubled /\ h.stake = g.stake
<1>1. PICK d \in Drawn(g) : h = IF Busted(d) THEN Settle(d, "PlayerBust") ELSE d BY DEF PlayerHits
<1>2. d \in BlackjackHands /\ d.doubled = g.doubled /\ d.stake = g.stake BY DrawnType
<1>3. "PlayerBust" \in Outcomes BY DEF Outcomes
<1>4. CASE Busted(d) BY <1>1, <1>2, <1>3, <1>4, BustType
<1>5. CASE ~Busted(d) BY <1>1, <1>2, <1>5
<1>6. QED BY <1>4, <1>5

LEMMA PlayerDoublesType ==
  ASSUME NEW g \in BlackjackHands, NEW h \in PlayerDoubles(g)
  PROVE  h \in BlackjackHands /\ h.finished /\ h.doubled /\ h.stake = g.stake
<1> DEFINE dg == [g EXCEPT !.doubled = TRUE]
<1>1. dg \in BlackjackHands /\ dg.doubled /\ dg.stake = g.stake BY DEF BlackjackHands
<1> HIDE DEF dg
<1>2. PICK d \in Drawn(dg) : h \in IF Busted(d) THEN {Settle(d, "PlayerBust")} ELSE DealerPlay(d)
  BY DEF PlayerDoubles, dg
<1>3. d \in BlackjackHands /\ d.doubled = dg.doubled /\ d.stake = g.stake BY <1>1, DrawnType
<1>4. "PlayerBust" \in Outcomes BY DEF Outcomes
<1>5. CASE Busted(d)
  <2>1. h = Settle(d, "PlayerBust") BY <1>2, <1>5
  <2>2. QED BY <1>1, <1>3, <1>4, <2>1, BustType
<1>6. CASE ~Busted(d)
  <2>1. h \in DealerPlay(d) BY <1>2, <1>6
  <2>2. QED BY <1>1, <1>3, <2>1, DealerPlayType
<1>7. QED BY <1>5, <1>6

LEMMA StakedHand ==
  ASSUME NEW g, NEW n,
         g = [player |-> g.player, dealer |-> g.dealer, doubled |-> g.doubled, finished |-> g.finished,
              outcome |-> g.outcome]
  PROVE  Staked(g, n) = [player |-> g.player, dealer |-> g.dealer, doubled |-> g.doubled,
                         finished |-> g.finished, outcome |-> g.outcome, stake |-> n]
<1> DEFINE F == {"player", "dealer", "doubled", "finished", "outcome", "stake"}
<1>1. DOMAIN g \union {"stake"} = F OBVIOUS
<1>2. Staked(g, n) = [x \in F |-> IF x = "stake" THEN n ELSE g[x]] BY <1>1 DEF Staked
<1>3. QED BY <1>2

LEMMA StakedDraw ==
  ASSUME NEW g, NEW n, g = [drawn |-> g.drawn, payout |-> g.payout]
  PROVE  Staked(g, n) = [drawn |-> g.drawn, payout |-> g.payout, stake |-> n]
<1>1. DOMAIN g \union {"stake"} = {"drawn", "payout", "stake"} OBVIOUS
<1>2. Staked(g, n) = [x \in {"drawn", "payout", "stake"} |-> IF x = "stake" THEN n ELSE g[x]]
  BY <1>1 DEF Staked
<1>3. QED BY <1>2

LEMMA NewBlackjackType ==
  ASSUME NEW n \in Nat, NEW g \in NewBlackjack
  PROVE  LET h == Staked(g, n) IN h \in BlackjackHands /\ ~h.doubled /\ h.stake = n
<1>1. PICK p \in TwoCards, d \in TwoCards :
        LET f == [player |-> p, dealer |-> d, doubled |-> FALSE, finished |-> FALSE,
                  outcome |-> "InProgress"]
        IN  g = IF HandValue(p) # 21 THEN f
                ELSE Settle(f, IF HandValue(d) = 21 THEN "Push" ELSE "PlayerBlackjack")
  BY DEF NewBlackjack
<1>2. p \in DoorHands /\ d \in DoorHands BY EmptyType, HitType DEF TwoCards
<1>3. CASE HandValue(p) # 21
  <2>1. g = [player |-> p, dealer |-> d, doubled |-> FALSE, finished |-> FALSE, outcome |-> "InProgress"]
    BY <1>1, <1>3
  <2>2. Staked(g, n) = [player |-> p, dealer |-> d, doubled |-> FALSE, finished |-> FALSE,
                        outcome |-> "InProgress", stake |-> n]
    <3>1. /\ g = [player |-> g.player, dealer |-> g.dealer, doubled |-> g.doubled,
                  finished |-> g.finished, outcome |-> g.outcome]
          /\ g.player = p /\ g.dealer = d /\ g.doubled = FALSE /\ g.finished = FALSE
          /\ g.outcome = "InProgress"
      BY <2>1
    <3>2. QED BY <3>1, StakedHand
  <2>3. QED BY <2>2, <1>2 DEF BlackjackHands, Outcomes
<1>4. CASE HandValue(p) = 21
  <2> DEFINE o == IF HandValue(d) = 21 THEN "Push" ELSE "PlayerBlackjack"
             f == [player |-> p, dealer |-> d, doubled |-> FALSE, finished |-> FALSE,
                   outcome |-> "InProgress"]
  <2>1. g = Settle(f, o) BY <1>1, <1>4
  <2>2. o \in Outcomes BY DEF Outcomes
  <2> HIDE DEF o
  <2>3. g = [player |-> EmptyHand, dealer |-> EmptyHand, doubled |-> FALSE, finished |-> TRUE, outcome |-> o]
    <3>1. PICK e : e = f OBVIOUS
    <3>2. g = [e EXCEPT !.finished = TRUE, !.outcome = o, !.player = EmptyHand, !.dealer = EmptyHand]
      BY <2>1, <3>1 DEF Settle
    <3>3. QED BY <3>1, <3>2
  <2>4. Staked(g, n) = [player |-> EmptyHand, dealer |-> EmptyHand, doubled |-> FALSE, finished |-> TRUE,
                        outcome |-> o, stake |-> n]
    <3>1. /\ g = [player |-> g.player, dealer |-> g.dealer, doubled |-> g.doubled,
                  finished |-> g.finished, outcome |-> g.outcome]
          /\ g.player = EmptyHand /\ g.dealer = EmptyHand /\ g.doubled = FALSE /\ g.finished = TRUE
          /\ g.outcome = o
      BY <2>3
    <3>2. QED BY <3>1, StakedHand
  <2>5. QED BY <2>4, <2>2, EmptyType DEF BlackjackHands
<1>5. QED BY <1>3, <1>4

LEMMA BlackjackPayoutType ==
  ASSUME NEW bet \in Nat, NEW d \in BOOLEAN, NEW o
  PROVE  BlackjackPayout(bet, d, o) \in Nat
<1> DEFINE stake == IF d THEN 2 * bet ELSE bet
<1>1. stake \in Nat /\ 2 * stake \in Nat /\ 2 * bet + bet \div 2 \in Nat BY Halves
<1>2. CASE o = "PlayerBlackjack" BY <1>1, <1>2 DEF BlackjackPayout, Wins
<1>3. CASE o \in Wins BY <1>1, <1>3 DEF BlackjackPayout, Wins
<1>4. CASE o = "Push" BY <1>1, <1>4 DEF BlackjackPayout, Wins
<1>5. CASE o # "PlayerBlackjack" /\ o \notin Wins /\ o # "Push" BY <1>5 DEF BlackjackPayout
<1>6. QED BY <1>2, <1>3, <1>4, <1>5

\* Slots and video poker.
LEMMA MultiplierType == ASSUME NEW r \in [1 .. 3 -> Symbols] PROVE Multiplier(r) \in Nat
<1>0. r[1] \in Symbols /\ r[2] \in Symbols /\ r[3] \in Symbols OBVIOUS
<1>1. r[1] \in 0 .. 6 /\ r[2] \in 0 .. 6 /\ r[3] \in 0 .. 6 BY <1>0, DoorAssumption
<1>2. \A i \in 1 .. 7 : ThreeOfAKind[i] \in Nat /\ TwoOfAKind[i] \in Nat
  BY DEF ThreeOfAKind, TwoOfAKind
<1> DEFINE same == r[1] = r[2] /\ r[2] = r[3]
           two == Cardinality({r[1], r[2], r[3]}) = 2
<1>3. CASE same
  <2>1. Cardinality({r[1], r[2], r[3]}) # 2
    <3>1. {r[1], r[2], r[3]} = {r[1]} BY <1>3
    <3>2. Cardinality({r[1]}) = 1 BY FS_Singleton
    <3>3. QED BY <3>1, <3>2
  <2>2. Multiplier(r) = ThreeOfAKind[r[1] + 1] BY <1>3, <2>1 DEF Multiplier
  <2>3. QED BY <2>2, <1>1, <1>2
<1>4. CASE ~same /\ two
  <2>1. Multiplier(r) = TwoOfAKind[(IF r[2] = r[3] THEN r[2] ELSE r[1]) + 1] BY <1>4 DEF Multiplier
  <2>2. (IF r[2] = r[3] THEN r[2] ELSE r[1]) + 1 \in 1 .. 7 BY <1>1
  <2>3. QED BY <2>1, <2>2, <1>2
<1>5. CASE ~same /\ ~two BY <1>5 DEF Multiplier
<1>6. QED BY <1>3, <1>4, <1>5

LEMMA SpinType == ASSUME NEW bet \in Nat, NEW p \in SpinPayouts(bet) PROVE p \in Nat
<1>1. PICK r \in [1 .. 3 -> Symbols] : p = bet * Multiplier(r) BY DEF SpinPayouts
<1>2. Multiplier(r) \in Nat BY MultiplierType
<1> QED BY <1>1, <1>2

LEMMA NewPokerType ==
  ASSUME NEW n \in Nat
  PROVE  LET h == Staked(NewVideoPoker, n) IN h \in PokerRounds /\ ~h.drawn /\ h.stake = n
<1>1. Staked(NewVideoPoker, n) = [drawn |-> FALSE, payout |-> 0, stake |-> n]
  <2>1. PICK g : g = NewVideoPoker OBVIOUS
  <2>2. g = [drawn |-> g.drawn, payout |-> g.payout] /\ g.drawn = FALSE /\ g.payout = 0
    BY <2>1 DEF NewVideoPoker
  <2>3. QED BY <2>1, <2>2, StakedDraw
<1>2. QED BY <1>1 DEF PokerRounds

LEMMA DrawHandsType ==
  ASSUME NEW g \in PokerRounds, NEW bet \in Nat, NEW d \in DrawHands(g, bet)
  PROVE  /\ d.payout \in Nat
         /\ LET h == Staked(d, g.stake) IN h \in PokerRounds /\ h.drawn /\ h.stake = g.stake
<1>1. CASE g.drawn
  <2>1. d = g BY <1>1 DEF DrawHands
  <2>2. Staked(d, g.stake) = g
    <3>1. DOMAIN g \union {"stake"} = DOMAIN g BY DEF PokerRounds
    <3>2. Staked(g, g.stake) = [x \in DOMAIN g |-> g[x]] BY <3>1 DEF Staked
    <3>3. QED BY <2>1, <3>2 DEF PokerRounds
  <2>3. QED BY <1>1, <2>1, <2>2 DEF PokerRounds
<1>2. CASE ~g.drawn
  <2>1. PICK r \in PokerHands : d = [drawn |-> TRUE, payout |-> bet * PayTable[r]] BY <1>2 DEF DrawHands
  <2>2. PayTable[r] \in Nat BY DoorAssumption DEF PayTable
  <2>3. bet * PayTable[r] \in Nat BY <2>2
  <2>4. PICK h : h = Staked(d, g.stake) OBVIOUS
  <2>5. h = [drawn |-> TRUE, payout |-> bet * PayTable[r], stake |-> g.stake]
    <3>1. d = [drawn |-> d.drawn, payout |-> d.payout] /\ d.drawn = TRUE /\ d.payout = bet * PayTable[r]
      BY <2>1
    <3>2. QED BY <2>4, <3>1, StakedDraw
  <2>6. h \in PokerRounds /\ h.drawn /\ h.stake = g.stake BY <2>3, <2>5 DEF PokerRounds
  <2>7. d.payout \in Nat BY <2>1, <2>3
  <2>8. QED BY <2>4, <2>6, <2>7
<1>3. QED BY <1>1, <1>2

-----------------------------------------------------------------------------
LEMMA GamesReplaced ==
  ASSUME DoorTypes, NEW k \in 1 .. Len(games), NEW g \in DoorGameSet
  PROVE  /\ [games EXCEPT ![k] = g] \in Seq(DoorGameSet)
         /\ Len([games EXCEPT ![k] = g]) = Len(games)
         /\ [games EXCEPT ![k] = g][k] = g
         /\ \A i \in 1 .. Len(games) : i # k => [games EXCEPT ![k] = g][i] = games[i]
BY ExceptSeq DEF DoorTypes

LEMMA GamesGrown ==
  ASSUME DoorTypes, NEW g \in DoorGameSet
  PROVE  /\ Append(games, g) \in Seq(DoorGameSet)
         /\ Len(Append(games, g)) = Len(games) + 1
         /\ Append(games, g)[Len(games) + 1] = g
         /\ \A i \in 1 .. Len(games) : Append(games, g)[i] = games[i]
BY AppendProperties DEF DoorTypes

LEMMA CmdsGrown ==
  ASSUME NEW s, NEW n \in Nat, CmdsOk(s, n), NEW c \in DoorCmds, c.g <= n, c.st = "draw" => c.g # 0 /\ c.kind = "draw"
  PROVE  /\ CmdsOk(Append(s, c), n)
         /\ Len(Append(s, c)) = Len(s) + 1 /\ Append(s, c)[Len(s) + 1] = c
         /\ \A i \in 1 .. Len(s) : Append(s, c)[i] = s[i]
<1>1. /\ Append(s, c) \in Seq(DoorCmds) /\ Len(Append(s, c)) = Len(s) + 1
      /\ Append(s, c)[Len(s) + 1] = c /\ \A i \in 1 .. Len(s) : Append(s, c)[i] = s[i]
  BY AppendProperties DEF CmdsOk
<1>2. Len(s) \in Nat /\ DOMAIN s = 1 .. Len(s) /\ DOMAIN Append(s, c) = 1 .. Len(s) + 1
  BY <1>1, LenProperties DEF CmdsOk
<1>3. ASSUME NEW i \in DOMAIN Append(s, c)
      PROVE  Append(s, c)[i].g <= n /\ (Append(s, c)[i].st = "draw" => Append(s, c)[i].g # 0 /\ Append(s, c)[i].kind = "draw")
  <2>1. CASE i = Len(s) + 1 BY <1>1, <2>1
  <2>2. CASE i # Len(s) + 1
    <3>1. i \in DOMAIN s BY <1>2, <2>2
    <3>2. QED BY <3>1, <1>1, <1>2 DEF CmdsOk
  <2>3. QED BY <2>1, <2>2
<1>4. QED BY <1>1, <1>3 DEF CmdsOk

LEMMA CmdsChanged ==
  ASSUME NEW s, NEW n \in Nat, CmdsOk(s, n), NEW i \in DOMAIN s,
         NEW c \in DoorCmds, c.g <= n, c.st = "draw" => c.g # 0 /\ c.kind = "draw"
  PROVE  /\ CmdsOk([s EXCEPT ![i] = c], n)
         /\ Len([s EXCEPT ![i] = c]) = Len(s) /\ [s EXCEPT ![i] = c][i] = c
<1>1. i \in 1 .. Len(s) /\ DOMAIN s = 1 .. Len(s) /\ Len(s) \in Nat BY LenProperties DEF CmdsOk
<1>2. /\ [s EXCEPT ![i] = c] \in Seq(DoorCmds) /\ Len([s EXCEPT ![i] = c]) = Len(s)
      /\ \A j \in 1 .. Len(s) : [s EXCEPT ![i] = c][j] = IF j = i THEN c ELSE s[j]
  BY <1>1, ExceptSeq DEF CmdsOk
<1>3. DOMAIN [s EXCEPT ![i] = c] = 1 .. Len(s) BY <1>1
<1>4. QED BY <1>1, <1>2, <1>3 DEF CmdsOk

LEMMA CmdsGone ==
  ASSUME NEW s, NEW n \in Nat, CmdsOk(s, n), NEW i \in DOMAIN s
  PROVE  /\ CmdsOk(RemoveAt(s, i), n) /\ Len(RemoveAt(s, i)) = Len(s) - 1
<1>1. s \in Seq(DoorCmds) /\ i \in 1 .. Len(s) /\ DOMAIN s = 1 .. Len(s) /\ Len(s) \in Nat
  BY LenProperties DEF CmdsOk
<1> DEFINE a == SubSeq(s, 1, i - 1)
           b == SubSeq(s, i + 1, Len(s))
           r == a \o b
<1>2. /\ a \in Seq(DoorCmds) /\ Len(a) = i - 1 /\ \A j \in 1 .. i - 1 : a[j] = s[j]
  <2>1. \A j \in 1 .. i - 1 : s[j] \in DoorCmds BY <1>1
  <2>2. QED BY <1>1, <2>1, SubSeqProperties
<1>3. /\ b \in Seq(DoorCmds) /\ Len(b) = Len(s) - i /\ \A j \in 1 .. Len(s) - i : b[j] = s[i + j]
  <2>1. \A j \in i + 1 .. Len(s) : s[j] \in DoorCmds BY <1>1
  <2>2. QED BY <1>1, <2>1, SubSeqProperties
<1>4. RemoveAt(s, i) = r BY DEF RemoveAt
<1> HIDE DEF a, b
<1>5. r \in Seq(DoorCmds) /\ Len(r) = Len(s) - 1
  <2>1. r \in Seq(DoorCmds) /\ Len(r) = Len(a) + Len(b) BY <1>2, <1>3, ConcatProperties
  <2>2. QED BY <1>1, <1>2, <1>3, <2>1
<1>6. \A j \in DOMAIN r : \E k \in DOMAIN s : r[j] = s[k]
  <2> SUFFICES ASSUME NEW j \in DOMAIN r PROVE \E k \in DOMAIN s : r[j] = s[k] OBVIOUS
  <2>1. j \in 1 .. Len(s) - 1 BY <1>5
  <2>2. CASE j <= i - 1
    <3>1. r[j] = a[j] BY <1>1, <1>2, <1>3, <2>1, <2>2, ConcatProperties
    <3>2. QED BY <1>1, <1>2, <2>1, <2>2, <3>1
  <2>3. CASE j > i - 1
    <3>1. r[j] = b[j - (i - 1)] BY <1>1, <1>2, <1>3, <2>1, <2>3, ConcatProperties
    <3>2. j - (i - 1) \in 1 .. Len(s) - i /\ i + (j - (i - 1)) \in DOMAIN s BY <1>1, <2>1, <2>3
    <3>3. QED BY <1>3, <3>1, <3>2
  <2>4. QED BY <1>1, <2>1, <2>2, <2>3
<1>7. QED BY <1>4, <1>5, <1>6 DEF CmdsOk

LEMMA CmdsWithin ==
  ASSUME NEW s, NEW n \in Nat, NEW m \in Nat, CmdsOk(s, n), n <= m
  PROVE  CmdsOk(s, m)
<1>0. \A i \in DOMAIN s : s[i] \in DoorCmds BY DEF CmdsOk
<1>1. \A i \in DOMAIN s : s[i].g \in Nat BY <1>0 DEF DoorCmds
<1>2. QED BY <1>1 DEF CmdsOk

\* What no step undoes: the door, the heap of games, a doubled hand, a failed statement.
Keeps ==
  /\ door' = door /\ (failed => failed') /\ Len(games') >= Len(games)
  /\ door = "blackjack" => \A i \in 1 .. Len(games) : games[i].doubled => games'[i].doubled

LEMMA StillUndisturbed ==
  ASSUME DoorTypes, DoorTypes', Keeps, Undisturbed' PROVE Undisturbed
<1>1. DOMAIN games = 1 .. Len(games) /\ DOMAIN games' = 1 .. Len(games') /\ Len(games) \in Nat /\ Len(games') \in Nat
  BY LenProperties DEF DoorTypes
<1>2. QED BY <1>1 DEF Keeps, Undisturbed

LEMMA DoorFacts ==
  ASSUME DoorTypes
  PROVE  /\ Len(games) \in Nat /\ DOMAIN games = 1 .. Len(games)
         /\ Len(cmds) \in Nat /\ DOMAIN cmds = 1 .. Len(cmds)
         /\ \A i \in 1 .. Len(games) : games[i] \in DoorGameSet
         /\ \A i \in 1 .. Len(cmds) : cmds[i] \in DoorCmds /\ cmds[i].g \in 0 .. Len(games)
         /\ screen.bet \in Nat \ {0} /\ screen.bet \in Range(Ladder) /\ screen.game \in Nat
         /\ HasGame => screen.game \in 1 .. Len(games) /\ Here \in DoorGameSet
<1>1. /\ Len(games) \in Nat /\ DOMAIN games = 1 .. Len(games)
      /\ Len(cmds) \in Nat /\ DOMAIN cmds = 1 .. Len(cmds)
      /\ \A i \in 1 .. Len(games) : games[i] \in DoorGameSet
      /\ \A i \in 1 .. Len(cmds) : cmds[i] \in DoorCmds /\ cmds[i].g <= Len(games)
  BY LenProperties DEF DoorTypes, CmdsOk
<1>2. \A i \in 1 .. Len(cmds) : cmds[i].g \in Nat BY <1>1 DEF DoorCmds
<1>3. screen.bet \in Range(Ladder) /\ screen.game \in Nat BY DEF DoorTypes, DoorScreens
<1>4. screen.bet \in Nat \ {0} BY <1>3, LadderFacts
<1>5. screen.game <= Len(games) BY DEF DoorTypes
<1>6. QED BY <1>1, <1>2, <1>3, <1>4, <1>5 DEF HasGame, Here

\* The sets that depend on the door alone.
LEMMA SameDoor ==
  ASSUME door' = door
  PROVE  DoorGameSet' = DoorGameSet /\ DoorKinds' = DoorKinds /\ DoorCmds' = DoorCmds /\ DoorScreens' = DoorScreens
BY DEF DoorGameSet, DoorKinds, DoorCmds, DoorScreens, BlackjackHands, PokerRounds, HeadsUpTables, DoorHands, Outcomes

\* A step in parts: the screen, the heap, the commands, the rows.
LEMMA TypesStep ==
  ASSUME DoorTypes, door' = door, balance' \in Int, ledger' \in Int, lost' \in Int, failed' \in BOOLEAN,
         screen' \in DoorScreens, games' \in Seq(DoorGameSet), screen'.game <= Len(games'),
         door # "holdem" => screen'.advances = 0, CmdsOk(cmds', Len(games'))
  PROVE  DoorTypes'
<1>1. DoorGameSet' = DoorGameSet /\ DoorCmds' = DoorCmds /\ DoorScreens' = DoorScreens BY SameDoor
<1>2. CmdsOk(cmds, Len(games))' BY <1>1 DEF CmdsOk
<1>3. QED BY <1>1, <1>2 DEF DoorTypes

-----------------------------------------------------------------------------
(* Types, action by action.                                                *)
LEMMA NewScreenType == NewScreen \in DoorScreens /\ NewScreen.game = 0 /\ NewScreen.advances = 0
BY LadderFacts DEF NewScreen, DoorScreens

LEMMA ClosedType == ASSUME DoorTypes PROVE Closed \in DoorScreens /\ Closed.game = 0 /\ Closed.advances = 0
BY DEF DoorTypes, Closed, DoorScreens

LEMMA DealType == ASSUME NEW s \in DoorScreens PROVE Deal(s) \in DoorScreens /\ Deal(s).game = s.game /\ Deal(s).advances = s.advances
<1> DEFINE r == [s EXCEPT !.dealing = TRUE]
<1>1. r \in DoorScreens /\ r.game = s.game /\ r.advances = s.advances BY DEF DoorScreens
<1>2. Deal(s) = [r EXCEPT !.ticks = @ + 1] BY DEF Deal, DoorScreens
<1> HIDE DEF r
<1>3. [r EXCEPT !.ticks = @ + 1] \in DoorScreens /\ [r EXCEPT !.ticks = @ + 1].game = r.game
      /\ [r EXCEPT !.ticks = @ + 1].advances = r.advances
  BY <1>1 DEF DoorScreens
<1>4. QED BY <1>1, <1>2, <1>3

Stages == {"load", "bet", "draw", "credit", "record", "done"}
LEMMA CmdType ==
  ASSUME DoorTypes, NEW kind, NEW st, NEW g, NEW pay,
         kind \in DoorKinds, st \in Stages, g \in Nat, pay \in Nat
  PROVE  /\ Cmd(kind, st, g, pay) \in DoorCmds
         /\ Cmd(kind, st, g, pay).g = g /\ Cmd(kind, st, g, pay).st = st /\ Cmd(kind, st, g, pay).kind = kind
<1>1. screen.wallet \in Int /\ screen.bet \in Nat BY DoorFacts DEF DoorTypes, DoorScreens
<1>2. QED BY <1>1 DEF Cmd, DoorCmds, Stages

LEMMA StepBetType == ASSUME DoorTypes, NEW dir \in {-1, 1} PROVE StepBet(dir) \in Range(Ladder)
<1> DEFINE i == CHOOSE j \in DOMAIN Ladder : Ladder[j] = screen.bet
<1>1. \E j \in DOMAIN Ladder : Ladder[j] = screen.bet BY DoorFacts DEF Range
<1>2. i \in DOMAIN Ladder BY <1>1
<1>3. StepBet(dir) = Ladder[IF i + dir \in DOMAIN Ladder THEN i + dir ELSE i] BY DEF StepBet
<1> HIDE DEF i
<1>4. (IF i + dir \in DOMAIN Ladder THEN i + dir ELSE i) \in DOMAIN Ladder BY <1>2
<1>5. QED BY <1>3, <1>4, LadderFacts

LEMMA ChangeBetTypes ==
  ASSUME DoorTypes, NEW may, ChangeBet(may), UNCHANGED <<door, balance, ledger, lost, failed>>
  PROVE  DoorTypes' /\ Keeps
<1>1. PICK dir \in {-1, 1} : screen' = [screen EXCEPT !.bet = StepBet(dir)] BY DEF ChangeBet
<1>2. cmds' = cmds /\ games' = games BY DEF ChangeBet
<1>3. screen' \in DoorScreens /\ screen'.game = screen.game /\ screen'.advances = screen.advances
  BY <1>1, StepBetType DEF DoorTypes, DoorScreens
<1>4. DoorTypes' BY <1>2, <1>3, TypesStep DEF DoorTypes
<1>5. QED BY <1>2, <1>4, DoorFacts DEF Keeps

LEMMA BuyTypes ==
  ASSUME DoorTypes, NEW kind \in DoorKinds, NEW scr \in DoorScreens, scr.game <= Len(games), scr.advances = screen.advances, Buy(kind, scr),
         UNCHANGED <<door, balance, ledger, lost, failed>>
  PROVE  DoorTypes' /\ Keeps
<1>1. screen' = scr /\ games' = games BY DEF Buy
<1>2. CmdsOk(cmds', Len(games))
  <2>1. CASE CanAfford
    <3> DEFINE c == Cmd(kind, "bet", 0, 0)
    <3>1. cmds' = Append(cmds, c) BY <2>1 DEF Buy, Ask
    <3>2. c \in DoorCmds /\ c.g = 0 /\ c.st = "bet"
      <4>1. 0 \in Nat /\ "bet" \in Stages BY DEF Stages
      <4>2. QED BY <4>1, CmdType DEF Stages
    <3> HIDE DEF c
    <3>3. QED BY <3>1, <3>2, DoorFacts, CmdsGrown DEF DoorTypes
  <2>2. CASE ~CanAfford BY <2>2 DEF Buy, DoorTypes
  <2>3. QED BY <2>1, <2>2
<1>3. DoorTypes' BY <1>1, <1>2, TypesStep DEF DoorTypes
<1>4. QED BY <1>1, <1>3, DoorFacts DEF Keeps

LEMMA AskTypes ==
  ASSUME DoorTypes, NEW c \in DoorCmds, c.g <= Len(games), c.st = "draw" => c.g # 0 /\ c.kind = "draw", Ask(c),
         UNCHANGED <<door, balance, ledger, failed>>, lost' \in Int,
         screen' \in DoorScreens, games' \in Seq(DoorGameSet), Len(games') = Len(games), screen'.game <= Len(games),
         door # "holdem" => screen'.advances = 0
  PROVE  DoorTypes'
<1>1. CmdsOk(cmds', Len(games)) BY DoorFacts, CmdsGrown DEF DoorTypes, Ask
<1>2. QED BY <1>1, TypesStep DEF DoorTypes

LEMMA SlotsTypes ==
  ASSUME DoorTypes, SlotsKey, UNCHANGED <<door, balance, ledger, lost, failed>>
  PROVE  DoorTypes' /\ Keeps
<1>1. door = "slots" BY DEF SlotsKey, Key
<1>2. CASE ChangeBet(TRUE) BY <1>2, ChangeBetTypes
<1>3. CASE Buy("spin", [screen EXCEPT !.spinning = CanAfford])
  <2> DEFINE scr == [screen EXCEPT !.spinning = CanAfford]
  <2>1. CanAfford \in BOOLEAN BY DEF CanAfford
  <2>2. scr \in DoorScreens /\ scr.game = screen.game /\ scr.advances = screen.advances
    BY <2>1 DEF DoorTypes, DoorScreens
  <2>3. "spin" \in DoorKinds BY <1>1 DEF DoorKinds
  <2> HIDE DEF scr
  <2>4. Buy("spin", scr) BY <1>3 DEF scr
  <2>5. QED BY <2>2, <2>3, <2>4, BuyTypes DEF DoorTypes
<1>4. QED BY <1>2, <1>3 DEF SlotsKey

LEMMA NewGameTypes ==
  ASSUME DoorTypes, "deal" \in DoorKinds, Buy("deal", [screen EXCEPT !.game = 0]),
         UNCHANGED <<door, balance, ledger, lost, failed>>
  PROVE  DoorTypes' /\ Keeps
<1> DEFINE scr == [screen EXCEPT !.game = 0]
<1>1. scr \in DoorScreens /\ scr.game = 0 /\ scr.advances = screen.advances BY DEF DoorTypes, DoorScreens
<1> HIDE DEF scr
<1>2. Buy("deal", scr) BY DEF scr
<1>3. 0 <= Len(games) BY DoorFacts
<1>4. QED BY <1>1, <1>2, <1>3, BuyTypes

LEMMA SettleCmdType ==
  ASSUME DoorTypes, door = "blackjack", NEW g \in BlackjackHands, NEW k \in 1 .. Len(games)
  PROVE  LET c == SettleCmd(g, k)
         IN  c \in DoorCmds /\ c.g = k /\ c.kind = "settle" /\ c.st \in {"credit", "record"}
<1> DEFINE pay == BlackjackPayout(screen.bet, g.doubled, g.outcome)
           st == IF pay > 0 THEN "credit" ELSE "record"
<1>1. pay \in Nat BY DoorFacts, BlackjackPayoutType DEF BlackjackHands
<1>2. "settle" \in DoorKinds BY DEF DoorKinds
<1>3. SettleCmd(g, k) = Cmd("settle", st, k, pay) BY DEF SettleCmd
<1>4. k \in Nat BY DoorFacts
<1>5. st \in {"credit", "record"} OBVIOUS
<1> HIDE DEF pay, st
<1>6. Cmd("settle", st, k, pay).kind = "settle" BY DEF Cmd
<1>7. QED BY <1>1, <1>2, <1>3, <1>4, <1>5, <1>6, CmdType DEF Stages

LEMMA GameKept ==
  ASSUME DoorTypes, HasGame, NEW g \in DoorGameSet, games' = [games EXCEPT ![screen.game] = g],
         door' = door, failed' = failed,
         door = "blackjack" => (Here.doubled => g.doubled)
  PROVE  games' \in Seq(DoorGameSet) /\ Len(games') = Len(games) /\ games'[screen.game] = g /\ Keeps
<1>1. screen.game \in 1 .. Len(games) BY DoorFacts
<1>2. /\ games' \in Seq(DoorGameSet) /\ Len(games') = Len(games) /\ games'[screen.game] = g
      /\ \A i \in 1 .. Len(games) : i # screen.game => games'[i] = games[i]
  BY <1>1, GamesReplaced
<1>3. QED BY <1>1, <1>2, DoorFacts DEF Keeps, Here

LEMMA BlackjackTypes ==
  ASSUME DoorTypes, BlackjackKey, UNCHANGED <<door, balance, ledger, lost, failed>>
  PROVE  DoorTypes' /\ Keeps
<1>1. door = "blackjack" /\ DoorGameSet = BlackjackHands BY DEF BlackjackKey, Key, DoorGameSet
<1>2. CASE ChangeBet(BlackjackIdle) BY <1>2, ChangeBetTypes
<1>3. CASE Buy("deal", [screen EXCEPT !.game = 0])
  <2>1. "deal" \in DoorKinds BY <1>1 DEF DoorKinds
  <2>2. QED BY <1>3, <2>1, NewGameTypes
<1>4. ASSUME HasGame, NEW S, BlackjackMove(S), \A g \in S : g \in BlackjackHands /\ g.doubled = Here.doubled
      PROVE  DoorTypes' /\ Keeps
  <2>1. PICK g \in S :
          /\ games' = [games EXCEPT ![screen.game] = g]
          /\ IF g.finished THEN Ask(SettleCmd(g, screen.game)) ELSE UNCHANGED cmds
    BY <1>4 DEF BlackjackMove
  <2>2. g \in BlackjackHands /\ g.doubled = Here.doubled /\ screen' = screen BY <1>4 DEF BlackjackMove
  <2>3. games' \in Seq(DoorGameSet) /\ Len(games') = Len(games) /\ Keeps
    BY <1>1, <1>4, <2>1, <2>2, GameKept
  <2>4. screen.game \in 1 .. Len(games) /\ screen.game \in Nat BY <1>4, DoorFacts
  <2>5. CASE g.finished
    <3> DEFINE c == SettleCmd(g, screen.game)
    <3>1. c \in DoorCmds /\ c.g = screen.game /\ c.st \in {"credit", "record"}
      BY <1>1, <2>2, <2>4, SettleCmdType
    <3>2. Ask(c) BY <2>1, <2>5
    <3> HIDE DEF c
    <3>3. c.g <= Len(games) /\ c.st # "draw" BY <3>1 DEF DoorTypes
    <3>4. DoorTypes' BY <2>2, <2>3, <3>1, <3>2, <3>3, AskTypes DEF DoorTypes
    <3>5. QED BY <2>3, <3>4
  <2>6. CASE ~g.finished
    <3>1. cmds' = cmds BY <2>1, <2>6
    <3>2. DoorTypes' BY <2>2, <2>3, <3>1, TypesStep DEF DoorTypes
    <3>3. QED BY <2>3, <3>2
  <2>7. QED BY <2>5, <2>6
<1>5. CASE HasGame /\ BlackjackMove(PlayerHits(Here))
  <2>1. Here \in BlackjackHands BY <1>1, <1>5, DoorFacts
  <2>2. \A g \in PlayerHits(Here) : g \in BlackjackHands /\ g.doubled = Here.doubled BY <2>1, PlayerHitsType
  <2>3. QED BY <1>4, <1>5, <2>2
<1>6. CASE HasGame /\ BlackjackMove(DealerPlay(Here))
  <2>1. Here \in BlackjackHands BY <1>1, <1>6, DoorFacts
  <2>2. \A g \in DealerPlay(Here) : g \in BlackjackHands /\ g.doubled = Here.doubled BY <2>1, DealerPlayType
  <2>3. QED BY <1>4, <1>6, <2>2
<1>7. CASE HasGame /\ BlackjackDouble
  <2>1. Here \in BlackjackHands BY <1>1, <1>7, DoorFacts
  <2> DEFINE d == IF CanAfford THEN <<Cmd("double", "bet", screen.game, 0)>> ELSE <<>>
  <2>2. PICK g \in PlayerDoubles(Here) :
          /\ games' = [games EXCEPT ![screen.game] = g]
          /\ cmds' = cmds \o d \o <<SettleCmd(g, screen.game)>>
    BY <1>7 DEF BlackjackDouble
  <2>3. g \in BlackjackHands /\ g.doubled /\ screen' = screen
    BY <1>7, <2>1, PlayerDoublesType DEF BlackjackDouble
  <2>4. games' \in Seq(DoorGameSet) /\ Len(games') = Len(games) /\ Keeps
    BY <1>1, <1>7, <2>2, <2>3, GameKept
  <2>5. screen.game \in 1 .. Len(games) /\ screen.game \in Nat BY <1>7, DoorFacts
  <2>6. CmdsOk(cmds \o d, Len(games))
    <3>1. CASE CanAfford
      <4> DEFINE c == Cmd("double", "bet", screen.game, 0)
      <4>1. "double" \in DoorKinds BY <1>1 DEF DoorKinds
      <4>2. c \in DoorCmds /\ c.g = screen.game /\ c.st = "bet" BY <2>5, <4>1, CmdType DEF Stages
      <4> HIDE DEF c
      <4>3. CmdsOk(Append(cmds, c), Len(games)) BY <2>5, <4>2, DoorFacts, CmdsGrown DEF DoorTypes
      <4>4. Append(cmds, c) = cmds \o <<c>> BY <4>2, AppendIsConcat DEF DoorTypes, CmdsOk
      <4>5. QED BY <3>1, <4>3, <4>4 DEF c
    <3>2. CASE ~CanAfford
      <4>1. cmds \o <<>> = cmds BY ConcatEmptySeq DEF DoorTypes, CmdsOk
      <4>2. QED BY <3>2, <4>1 DEF DoorTypes
    <3>3. QED BY <3>1, <3>2
  <2> HIDE DEF d
  <2>7. CmdsOk(cmds', Len(games))
    <3> DEFINE c == SettleCmd(g, screen.game)
    <3>1. c \in DoorCmds /\ c.g = screen.game /\ c.st \in {"credit", "record"}
      BY <1>1, <2>3, <2>5, SettleCmdType
    <3> HIDE DEF c
    <3>2. CmdsOk(Append(cmds \o d, c), Len(games)) BY <2>5, <2>6, <3>1, DoorFacts, CmdsGrown
    <3>3. Append(cmds \o d, c) = cmds \o d \o <<c>> BY <2>6, <3>1, AppendIsConcat DEF CmdsOk
    <3>4. QED BY <2>2, <3>2, <3>3 DEF c
  <2>8. DoorTypes' BY <2>3, <2>4, <2>7, TypesStep DEF DoorTypes
  <2>9. QED BY <2>4, <2>8
<1>8. QED BY <1>2, <1>3, <1>5, <1>6, <1>7 DEF BlackjackKey

LEMMA VideoPokerTypes ==
  ASSUME DoorTypes, VideoPokerKey, UNCHANGED <<door, balance, ledger, lost, failed>>
  PROVE  DoorTypes' /\ Keeps
<1>1. door = "videopoker" BY DEF VideoPokerKey, Key
<1>2. CASE ChangeBet(~HasGame) BY <1>2, ChangeBetTypes
<1>3. CASE Buy("deal", [screen EXCEPT !.game = 0])
  <2>1. "deal" \in DoorKinds BY <1>1 DEF DoorKinds
  <2>2. QED BY <1>3, <2>1, NewGameTypes
<1>4. CASE HasGame /\ Ask(Cmd("draw", "draw", screen.game, 0)) /\ UNCHANGED <<screen, games>>
  <2> DEFINE c == Cmd("draw", "draw", screen.game, 0)
  <2>1. "draw" \in DoorKinds BY <1>1 DEF DoorKinds
  <2>2. c \in DoorCmds /\ c.g = screen.game /\ c.st = "draw" /\ c.kind = "draw"
    BY <2>1, DoorFacts, CmdType DEF Stages
  <2>3. Ask(c) BY <1>4
  <2> HIDE DEF c
  <2>4. c.g <= Len(games) /\ c.g # 0 /\ c.kind = "draw" BY <1>4, <2>2 DEF DoorTypes, HasGame
  <2>5. DoorTypes' BY <1>4, <2>2, <2>3, <2>4, AskTypes DEF DoorTypes
  <2>6. QED BY <1>4, <2>5, DoorFacts DEF Keeps
<1>5. QED BY <1>2, <1>3, <1>4 DEF VideoPokerKey

LEMMA AfterStateChangeTypes ==
  ASSUME DoorTypes, HasGame, door = "holdem", NEW g \in HeadsUpTables, NEW scr \in DoorScreens, scr.game = screen.game,
         AfterStateChange(g, scr), UNCHANGED <<door, balance, ledger, lost, failed>>
  PROVE  DoorTypes' /\ Keeps
<1>1. /\ games' = [games EXCEPT ![screen.game] = g] /\ cmds' = cmds
      /\ screen' \in {Deal(scr), [scr EXCEPT !.advances = @ + 1]}
  BY DEF AfterStateChange
<1>2. [scr EXCEPT !.advances = @ + 1] \in DoorScreens /\ [scr EXCEPT !.advances = @ + 1].game = scr.game
  BY DEF DoorScreens
<1>3. screen' \in DoorScreens /\ screen'.game = screen.game BY <1>1, <1>2, DealType
<1>4. g \in DoorGameSet BY DEF DoorGameSet
<1>5. games' \in Seq(DoorGameSet) /\ Len(games') = Len(games) /\ Keeps BY <1>1, <1>4, GameKept
<1>6. DoorTypes' BY <1>1, <1>3, <1>5, TypesStep DEF DoorTypes
<1>7. QED BY <1>5, <1>6

LEMMA CashOutTypes ==
  ASSUME DoorTypes, door = "holdem", NEW scr \in DoorScreens, scr.game \in {0, screen.game}, CashOut(scr),
         UNCHANGED <<door, balance, ledger, failed>>, lost' \in Int
  PROVE  DoorTypes' /\ Keeps
<1>1. HasGame /\ screen' = scr /\ games' = games BY DEF CashOut
<1>2. Here \in HeadsUpTables BY <1>1, DoorFacts DEF DoorGameSet
<1>3. Here.stacks[Player] \in Nat BY <1>2 DEF HeadsUpTables, Player
<1> DEFINE stack == Here.stacks[Player]
           st == IF stack > 0 THEN "credit" ELSE "record"
           c == Cmd("cashout", st, screen.game, stack)
<1>4. "cashout" \in DoorKinds BY DEF DoorKinds
<1>5. Ask(c) BY DEF CashOut
<1>6. c \in DoorCmds /\ c.g = screen.game /\ c.st # "draw"
  <2>1. st \in {"credit", "record"} OBVIOUS
  <2> HIDE DEF st, stack
  <2>2. stack \in Nat BY <1>3 DEF stack
  <2>3. QED BY <1>4, <2>1, <2>2, DoorFacts, CmdType DEF Stages
<1> HIDE DEF c
<1>7. c.g <= Len(games) /\ scr.game <= Len(games) BY <1>6, DoorFacts DEF DoorTypes
<1>8. DoorTypes' BY <1>1, <1>5, <1>6, <1>7, AskTypes DEF DoorTypes
<1>9. QED BY <1>1, <1>8, DoorFacts DEF Keeps

LEMMA NewHandTypes ==
  ASSUME DoorTypes, door = "holdem", NEW scr \in DoorScreens, NEW heap, NEW k, heap \in Seq(HeadsUpTables),
         Len(heap) >= Len(games), k \in 1 .. Len(heap), NewHand(scr, heap, k)
  PROVE  /\ games' \in Seq(DoorGameSet) /\ Len(games') = Len(heap)
         /\ screen' \in DoorScreens /\ screen'.game = k
<1>1. heap[k] \in HeadsUpTables /\ Len(heap) \in Nat /\ DOMAIN heap = 1 .. Len(heap)
  BY ElementOfSeq, LenProperties
<1>2. StartHand(heap[k]) \in HeadsUpTables BY <1>1, StartHandEven
<1>3. games' = [heap EXCEPT ![k] = StartHand(heap[k])] BY DEF NewHand
<1>4. games' \in Seq(HeadsUpTables) /\ Len(games') = Len(heap) BY <1>1, <1>2, <1>3, ExceptSeq
<1>5. k \in Nat BY <1>1
<1>6. [scr EXCEPT !.game = k] \in DoorScreens /\ [scr EXCEPT !.game = k].game = k BY <1>5 DEF DoorScreens
<1>7. screen' \in DoorScreens /\ screen'.game = k BY <1>6, DealType DEF NewHand
<1>8. QED BY <1>4, <1>7 DEF DoorGameSet

LEMMA ButtonType ==
  ASSUME NEW g \in HeadsUpTables
  PROVE  LET h == AdvanceButton(g)
         IN  /\ h \in HeadsUpTables /\ h.stacks = g.stacks /\ h.bets = g.bets /\ h.pot = g.pot
             /\ h.stake = g.stake
<1>1. Other(g.button) \in 1 .. 2 BY DEF HeadsUpTables, Other
<1>2. PICK h : h = [g EXCEPT !.button = Other(g.button)] OBVIOUS
<1>3. h = AdvanceButton(g) BY <1>2 DEF AdvanceButton
<1>4. h = [stacks |-> g.stacks, bets |-> g.bets, pot |-> g.pot, button |-> Other(g.button),
           toAct |-> g.toAct, street |-> g.street, bb |-> g.bb, stake |-> g.stake]
  BY <1>2 DEF HeadsUpTables
<1>5. h \in HeadsUpTables BY <1>1, <1>4 DEF HeadsUpTables
<1>6. QED BY <1>3, <1>4, <1>5

LEMMA HoldemTypes ==
  ASSUME DoorTypes, HoldemKey, UNCHANGED <<door, balance, ledger, lost, failed>>
  PROVE  DoorTypes' /\ Keeps
<1>1. door = "holdem" /\ DoorGameSet = HeadsUpTables BY DEF HoldemKey, Key, DoorGameSet
<1>2. CASE ChangeBet(~HasGame) BY <1>2, ChangeBetTypes
<1>3. CASE Buy("buyin", screen)
  <2>1. "buyin" \in DoorKinds BY <1>1 DEF DoorKinds
  <2>2. QED BY <1>3, <2>1, BuyTypes DEF DoorTypes
<1>4. CASE HasGame /\ NewHand(screen, [games EXCEPT ![screen.game] = AdvanceButton(@)], screen.game) /\ UNCHANGED cmds
  <2> DEFINE heap == [games EXCEPT ![screen.game] = AdvanceButton(Here)]
  <2>1. screen.game \in 1 .. Len(games) /\ Here \in HeadsUpTables BY <1>1, <1>4, DoorFacts
  <2>2. AdvanceButton(Here) \in HeadsUpTables BY <2>1, ButtonType
  <2>3. heap \in Seq(HeadsUpTables) /\ Len(heap) = Len(games) BY <1>1, <2>1, <2>2, GamesReplaced
  <2>4. NewHand(screen, heap, screen.game) BY <1>4 DEF Here
  <2> HIDE DEF heap
  <2>5. Len(heap) >= Len(games) BY <2>3, DoorFacts
  <2>6. /\ games' \in Seq(DoorGameSet) /\ Len(games') = Len(games)
        /\ screen' \in DoorScreens /\ screen'.game = screen.game
    BY <1>1, <2>1, <2>3, <2>4, <2>5, NewHandTypes DEF DoorTypes
  <2>7. DoorTypes' BY <1>1, <1>4, <2>6, TypesStep DEF DoorTypes
  <2>8. QED BY <1>1, <2>6, <2>7, DoorFacts DEF Keeps
<1>5. CASE ApplyPlayer
  <2>1. HasGame /\ Here.street # Ended /\ Here \in HeadsUpTables BY <1>1, <1>5, DoorFacts DEF ApplyPlayer, InHand
  <2>2. PICK a \in HeadsUpActions : \E g \in ApplyAction(Here, Player, a) : AfterStateChange(g, screen)
    BY <1>5 DEF ApplyPlayer
  <2>3. PICK g \in ApplyAction(Here, Player, a) : AfterStateChange(g, screen) BY <2>2
  <2>4. g \in HeadsUpTables BY <2>1, ApplyActionEven DEF Even, Player
  <2>5. QED BY <1>1, <2>1, <2>3, <2>4, AfterStateChangeTypes DEF DoorTypes
<1>6. CASE CashOut(screen) BY <1>1, <1>6, CashOutTypes DEF DoorTypes
<1>7. QED BY <1>2, <1>3, <1>4, <1>5, <1>6 DEF HoldemKey

LEMMA PressKeyTypes == ASSUME DoorTypes, PressKey PROVE DoorTypes' /\ Keeps
BY SlotsTypes, BlackjackTypes, VideoPokerTypes, HoldemTypes DEF PressKey

LEMMA AdvanceTypes == ASSUME DoorTypes, Advance PROVE DoorTypes' /\ Keeps
<1> DEFINE scr == [screen EXCEPT !.advances = @ - 1]
<1>1. scr \in DoorScreens /\ scr.game = screen.game
  <2>1. screen.advances - 1 \in Nat BY DEF Advance, DoorTypes, DoorScreens
  <2>2. QED BY <2>1 DEF DoorTypes, DoorScreens
<1>2. UNCHANGED <<door, balance, ledger, lost, failed>> BY DEF Advance
<1>3. IF InHand /\ Here.toAct = Bot THEN \E g \in StepBot(Here) : AfterStateChange(g, scr)
      ELSE screen' = scr /\ UNCHANGED <<games, cmds>>
  BY DEF Advance
<1> HIDE DEF scr
<1>4. CASE InHand /\ Here.toAct = Bot
  <2>1. PICK g \in StepBot(Here) : AfterStateChange(g, scr) BY <1>3, <1>4
  <2>2. PICK a \in BotPolicy(Here) : g \in ApplyAction(Here, Bot, a) BY DEF StepBot
  <2>3. HasGame /\ Here.street # Ended BY <1>4 DEF InHand
  <2>4. door = "holdem" BY DEF Advance, DoorTypes
  <2>5. Here \in HeadsUpTables BY <2>3, <2>4, DoorFacts DEF DoorGameSet
  <2>6. a \in HeadsUpActions BY DEF BotPolicy, HeadsUpActions
  <2>7. g \in HeadsUpTables BY <2>2, <2>3, <2>5, <2>6, ApplyActionEven DEF Even, Bot
  <2>8. QED BY <1>1, <1>2, <2>1, <2>3, <2>4, <2>7, AfterStateChangeTypes
<1>5. CASE ~(InHand /\ Here.toAct = Bot)
  <2>1. screen' = scr /\ UNCHANGED <<games, cmds>> BY <1>3, <1>5
  <2>2. door = "holdem" BY DEF Advance, DoorTypes
  <2>3. DoorTypes' BY <1>1, <1>2, <2>1, <2>2, TypesStep DEF DoorTypes
  <2>4. QED BY <1>2, <2>1, <2>3, DoorFacts DEF Keeps
<1>6. QED BY <1>4, <1>5

LEMMA EnterTypes == ASSUME DoorTypes, Enter PROVE DoorTypes' /\ Keeps
<1> DEFINE c == [kind |-> "load", st |-> "load", copy |-> 0, bet |-> 0, g |-> 0, pay |-> 0, err |-> FALSE]
<1>1. "load" \in DoorKinds BY DEF DoorKinds
<1>2. c \in DoorCmds /\ c.g = 0 /\ c.st = "load" BY <1>1 DEF DoorCmds
<1>3. Ask(c) /\ UNCHANGED <<door, balance, ledger, games, lost, failed>> /\ screen' = NewScreen
  BY DEF Enter, Ask
<1> HIDE DEF c
<1>4. 0 <= Len(games) BY DoorFacts
<1>5. DoorTypes' BY <1>2, <1>3, <1>4, NewScreenType, AskTypes DEF DoorTypes
<1>6. QED BY <1>3, <1>5, DoorFacts DEF Keeps

LEMMA ForfeitType == ASSUME DoorTypes PROVE Forfeited \in Nat
<1>1. CASE HasGame /\ door = "blackjack"
  <2>1. Here \in BlackjackHands BY <1>1, DoorFacts DEF DoorGameSet
  <2>2. QED BY <2>1 DEF Forfeited, BlackjackHands
<1>2. CASE HasGame /\ door = "videopoker"
  <2>1. Here \in PokerRounds BY <1>2, DoorFacts DEF DoorGameSet
  <2>2. QED BY <2>1 DEF Forfeited, PokerRounds
<1>3. CASE ~HasGame \/ door \notin {"blackjack", "videopoker"} BY <1>3 DEF Forfeited
<1>4. QED BY <1>1, <1>2, <1>3

LEMMA EscTypes == ASSUME DoorTypes, Esc PROVE DoorTypes' /\ Keeps
<1>1. lost' \in Int BY ForfeitType DEF DoorTypes, Esc
<1>2. UNCHANGED <<door, balance, ledger, failed>> BY DEF Esc
<1>3. CASE door = "holdem" /\ CashOut(Closed) BY <1>1, <1>2, <1>3, ClosedType, CashOutTypes
<1>4. CASE screen' = Closed /\ UNCHANGED <<cmds, games>>
  <2>1. 0 <= Len(games) BY DoorFacts
  <2>2. DoorTypes' BY <1>1, <1>2, <1>4, <2>1, ClosedType, TypesStep DEF DoorTypes
  <2>3. QED BY <1>2, <1>4, <2>2, DoorFacts DEF Keeps
<1>5. QED BY <1>3, <1>4 DEF Esc

\* A statement of command i.
LEMMA CmdStep ==
  ASSUME DoorTypes, NEW i \in DOMAIN cmds, NEW c \in DoorCmds, cmds' = [cmds EXCEPT ![i] = c],
         c.g <= Len(games), c.st # "draw",
         UNCHANGED <<door, screen, lost>>, balance' \in Int, ledger' \in Int, failed' \in {failed, TRUE},
         UNCHANGED games
  PROVE  DoorTypes' /\ Keeps
<1>1. CmdsOk(cmds', Len(games)) BY DoorFacts, CmdsChanged DEF DoorTypes
<1>2. DoorTypes'
  <2>1. failed' \in BOOLEAN BY DEF DoorTypes
  <2>2. QED BY <1>1, <2>1, TypesStep DEF DoorTypes
<1>3. failed => failed' BY DEF DoorTypes
<1>4. QED BY <1>2, <1>3, DoorFacts DEF Keeps

\* A command with another step, copy, payout or error.
Becomes(i, st, w, p, e) ==
  [kind |-> cmds[i].kind, st |-> st, copy |-> w, bet |-> cmds[i].bet, g |-> cmds[i].g, pay |-> p, err |-> e]

LEMMA BecomesType ==
  ASSUME DoorTypes, NEW i \in DOMAIN cmds, NEW st \in {"load", "bet", "draw", "credit", "record", "done"},
         NEW w \in Int, NEW p \in Nat, NEW e \in BOOLEAN
  PROVE  /\ Becomes(i, st, w, p, e) \in DoorCmds /\ Becomes(i, st, w, p, e).g = cmds[i].g
         /\ Becomes(i, st, w, p, e).st = st
<1>1. cmds[i] \in DoorCmds BY DoorFacts
<1>2. QED BY <1>1 DEF DoorCmds, Becomes

LEMMA CmdRecord ==
  ASSUME DoorTypes, NEW i \in DOMAIN cmds, NEW c, c = cmds[i]
  PROVE  c = [kind |-> c.kind, st |-> c.st, copy |-> c.copy, bet |-> c.bet, g |-> c.g, pay |-> c.pay,
              err |-> c.err]
<1>1. c \in DoorCmds BY DoorFacts
<1>2. QED BY <1>1 DEF DoorCmds

LEMMA StSet ==
  ASSUME DoorTypes, NEW i \in DOMAIN cmds, NEW st, NEW x, x = [cmds[i] EXCEPT !.st = st]
  PROVE  x = Becomes(i, st, cmds[i].copy, cmds[i].pay, cmds[i].err)
<1>1. PICK c : c = cmds[i] OBVIOUS
<1>2. c = [kind |-> c.kind, st |-> c.st, copy |-> c.copy, bet |-> c.bet, g |-> c.g, pay |-> c.pay, err |-> c.err]
  BY <1>1, CmdRecord
<1>3. x = [kind |-> c.kind, st |-> st, copy |-> c.copy, bet |-> c.bet, g |-> c.g, pay |-> c.pay, err |-> c.err]
  BY <1>1, <1>2
<1>4. QED BY <1>1, <1>3 DEF Becomes

LEMMA CopySet ==
  ASSUME DoorTypes, NEW i \in DOMAIN cmds, NEW st, NEW w, NEW x, x = [cmds[i] EXCEPT !.st = st, !.copy = w]
  PROVE  x = Becomes(i, st, w, cmds[i].pay, cmds[i].err)
<1>1. PICK c : c = cmds[i] OBVIOUS
<1>2. c = [kind |-> c.kind, st |-> c.st, copy |-> c.copy, bet |-> c.bet, g |-> c.g, pay |-> c.pay, err |-> c.err]
  BY <1>1, CmdRecord
<1>3. x = [kind |-> c.kind, st |-> st, copy |-> w, bet |-> c.bet, g |-> c.g, pay |-> c.pay, err |-> c.err]
  BY <1>1, <1>2
<1>4. QED BY <1>1, <1>3 DEF Becomes

LEMMA PaySet ==
  ASSUME DoorTypes, NEW i \in DOMAIN cmds, NEW st, NEW p, NEW x, x = [cmds[i] EXCEPT !.st = st, !.pay = p]
  PROVE  x = Becomes(i, st, cmds[i].copy, p, cmds[i].err)
<1>1. PICK c : c = cmds[i] OBVIOUS
<1>2. c = [kind |-> c.kind, st |-> c.st, copy |-> c.copy, bet |-> c.bet, g |-> c.g, pay |-> c.pay, err |-> c.err]
  BY <1>1, CmdRecord
<1>3. x = [kind |-> c.kind, st |-> st, copy |-> c.copy, bet |-> c.bet, g |-> c.g, pay |-> p, err |-> c.err]
  BY <1>1, <1>2
<1>4. QED BY <1>1, <1>3 DEF Becomes

LEMMA ErrSet ==
  ASSUME DoorTypes, NEW i \in DOMAIN cmds, NEW st, NEW x, x = [cmds[i] EXCEPT !.st = st, !.err = TRUE]
  PROVE  x = Becomes(i, st, cmds[i].copy, cmds[i].pay, TRUE)
<1>1. PICK c : c = cmds[i] OBVIOUS
<1>2. c = [kind |-> c.kind, st |-> c.st, copy |-> c.copy, bet |-> c.bet, g |-> c.g, pay |-> c.pay, err |-> c.err]
  BY <1>1, CmdRecord
<1>3. x = [kind |-> c.kind, st |-> st, copy |-> c.copy, bet |-> c.bet, g |-> c.g, pay |-> c.pay, err |-> TRUE]
  BY <1>1, <1>2
<1>4. QED BY <1>1, <1>3 DEF Becomes

LEMMA CopyErrSet ==
  ASSUME DoorTypes, NEW i \in DOMAIN cmds, NEW st, NEW w, NEW x, x = [cmds[i] EXCEPT !.st = st, !.copy = w, !.err = TRUE]
  PROVE  x = Becomes(i, st, w, cmds[i].pay, TRUE)
<1>1. PICK c : c = cmds[i] OBVIOUS
<1>2. c = [kind |-> c.kind, st |-> c.st, copy |-> c.copy, bet |-> c.bet, g |-> c.g, pay |-> c.pay, err |-> c.err]
  BY <1>1, CmdRecord
<1>3. x = [kind |-> c.kind, st |-> st, copy |-> w, bet |-> c.bet, g |-> c.g, pay |-> c.pay, err |-> TRUE]
  BY <1>1, <1>2
<1>4. QED BY <1>1, <1>3 DEF Becomes

\* What each statement does to its command.
LEMMA FailIs ==
  ASSUME DoorTypes, NEW i \in DOMAIN cmds, Fail(i)
  PROVE  cmds' = [cmds EXCEPT ![i] = Becomes(i, "done", cmds[i].copy, cmds[i].pay, TRUE)] /\ failed' = TRUE
<1>1. PICK x : x = [cmds[i] EXCEPT !.st = "done", !.err = TRUE] OBVIOUS
<1>2. cmds' = [cmds EXCEPT ![i] = x] /\ failed' = TRUE BY <1>1 DEF Fail
<1>3. x = Becomes(i, "done", cmds[i].copy, cmds[i].pay, TRUE) BY <1>1, ErrSet
<1>4. QED BY <1>2, <1>3

LEMMA LoadIs ==
  ASSUME DoorTypes, NEW i \in DOMAIN cmds, LoadWallet(i)
  PROVE  /\ cmds[i].st = "load" /\ UNCHANGED <<balance, ledger, games>>
         /\ \/ /\ cmds' = [cmds EXCEPT ![i] = Becomes(i, "done", balance, cmds[i].pay, cmds[i].err)]
               /\ failed' = failed
            \/ /\ cmds' = [cmds EXCEPT ![i] = Becomes(i, "done", cmds[i].copy, cmds[i].pay, TRUE)]
               /\ failed' = TRUE
<1>1. PICK x : x = [cmds[i] EXCEPT !.st = "done", !.copy = balance] OBVIOUS
<1>2. x = Becomes(i, "done", balance, cmds[i].pay, cmds[i].err) BY <1>1, CopySet
<1>3. (cmds' = [cmds EXCEPT ![i] = x] /\ failed' = failed) \/ Fail(i) BY <1>1 DEF LoadWallet
<1>4. QED BY <1>2, <1>3, FailIs DEF LoadWallet

LEMMA CreditIs ==
  ASSUME DoorTypes, NEW i \in DOMAIN cmds, CreditStatement(i)
  PROVE  LET w == cmds[i].copy + cmds[i].pay
         IN  /\ cmds[i].st = "credit" /\ UNCHANGED <<ledger, games>> /\ balance' \in {balance, w}
             /\ \/ /\ cmds' = [cmds EXCEPT ![i] = Becomes(i, "record", w, cmds[i].pay, cmds[i].err)]
                   /\ failed' = failed /\ balance' = w
                \/ cmds' = [cmds EXCEPT ![i] = Becomes(i, "done", w, cmds[i].pay, TRUE)] /\ failed' = TRUE
<1> DEFINE w == cmds[i].copy + cmds[i].pay
<1>1. PICK x : x = [cmds[i] EXCEPT !.st = "record", !.copy = w] OBVIOUS
<1>2. PICK y : y = [cmds[i] EXCEPT !.st = "done", !.copy = w, !.err = TRUE] OBVIOUS
<1>3. /\ cmds[i].st = "credit" /\ UNCHANGED <<ledger, games>> /\ balance' \in {balance, w}
      /\ \/ balance' = w /\ failed' = failed /\ cmds' = [cmds EXCEPT ![i] = x]
         \/ failed' = TRUE /\ cmds' = [cmds EXCEPT ![i] = y]
  BY <1>1, <1>2 DEF CreditStatement, Writes, WriteFails
<1> HIDE DEF w
<1>4. x = Becomes(i, "record", w, cmds[i].pay, cmds[i].err) BY <1>1, CopySet
<1>5. y = Becomes(i, "done", w, cmds[i].pay, TRUE) BY <1>2, CopyErrSet
<1>6. QED BY <1>3, <1>4, <1>5 DEF w

LEMMA RecordIs ==
  ASSUME DoorTypes, NEW i \in DOMAIN cmds, RecordStatement(i)
  PROVE  /\ cmds[i].st = "record" /\ UNCHANGED <<balance, games>>
         /\ cmds' = [cmds EXCEPT ![i] = Becomes(i, "done", cmds[i].copy, cmds[i].pay, cmds[i].err)]
         /\ \/ ledger' = ledger + cmds[i].pay - Stake(cmds[i]) /\ failed' = failed
            \/ ledger' = ledger /\ failed' = TRUE
<1>1. PICK x : x = [cmds[i] EXCEPT !.st = "done"] OBVIOUS
<1>2. x = Becomes(i, "done", cmds[i].copy, cmds[i].pay, cmds[i].err) BY <1>1, StSet
<1>3. cmds' = [cmds EXCEPT ![i] = x] BY <1>1 DEF RecordStatement, To
<1>4. QED BY <1>2, <1>3 DEF RecordStatement

\* A debit that bought a game.
Dealt(i, w) ==
  [kind |-> cmds[i].kind, st |-> "done", copy |-> w, bet |-> cmds[i].bet, g |-> Len(games) + 1,
   pay |-> cmds[i].pay, err |-> cmds[i].err]

LEMMA PayEdit ==
  ASSUME NEW c, NEW st, NEW p, NEW x, x = [c EXCEPT !.pay = p, !.st = st],
         c = [kind |-> c.kind, st |-> c.st, copy |-> c.copy, bet |-> c.bet, g |-> c.g, pay |-> c.pay,
              err |-> c.err]
  PROVE  x = [kind |-> c.kind, st |-> st, copy |-> c.copy, bet |-> c.bet, g |-> c.g, pay |-> p, err |-> c.err]
OBVIOUS

LEMMA GameEdit ==
  ASSUME NEW c, NEW n, NEW x, x = [c EXCEPT !.g = n, !.st = "done"],
         c = [kind |-> c.kind, st |-> c.st, copy |-> c.copy, bet |-> c.bet, g |-> c.g, pay |-> c.pay,
              err |-> c.err]
  PROVE  x = [kind |-> c.kind, st |-> "done", copy |-> c.copy, bet |-> c.bet, g |-> n, pay |-> c.pay,
              err |-> c.err]
OBVIOUS

LEMMA StEdit ==
  ASSUME NEW c, NEW x, x = [c EXCEPT !.st = "done"],
         c = [kind |-> c.kind, st |-> c.st, copy |-> c.copy, bet |-> c.bet, g |-> c.g, pay |-> c.pay,
              err |-> c.err]
  PROVE  x = [kind |-> c.kind, st |-> "done", copy |-> c.copy, bet |-> c.bet, g |-> c.g, pay |-> c.pay,
              err |-> c.err]
OBVIOUS

LEMMA CopyTaken ==
  ASSUME DoorTypes, NEW i \in DOMAIN cmds, NEW w, NEW c, c = [cmds[i] EXCEPT !.copy = w]
  PROVE  /\ c = [kind |-> c.kind, st |-> c.st, copy |-> c.copy, bet |-> c.bet, g |-> c.g, pay |-> c.pay,
                 err |-> c.err]
         /\ c.kind = cmds[i].kind /\ c.bet = cmds[i].bet /\ c.g = cmds[i].g /\ c.pay = cmds[i].pay
         /\ c.err = cmds[i].err /\ c.copy = w
<1>1. PICK d : d = cmds[i] OBVIOUS
<1>2. d = [kind |-> d.kind, st |-> d.st, copy |-> d.copy, bet |-> d.bet, g |-> d.g, pay |-> d.pay, err |-> d.err]
  BY <1>1, CmdRecord
<1>3. c = [kind |-> d.kind, st |-> d.st, copy |-> w, bet |-> d.bet, g |-> d.g, pay |-> d.pay, err |-> d.err]
  BY <1>1, <1>2
<1>4. QED BY <1>1, <1>3

LEMMA BetIs ==
  ASSUME DoorTypes, NEW i \in DOMAIN cmds, BetStatement(i)
  PROVE  LET w == cmds[i].copy - cmds[i].bet
         IN  /\ cmds[i].st = "bet" /\ ledger' = ledger /\ balance' \in {balance, w}
             /\ \/ /\ cmds' = [cmds EXCEPT ![i] = Becomes(i, "done", cmds[i].copy, cmds[i].pay, TRUE)]
                   /\ failed' = TRUE /\ games' = games
                \/ /\ balance' = w /\ failed' = failed /\ cmds[i].kind = "spin" /\ games' = games
                   /\ \E p \in Nat : cmds' = [cmds EXCEPT ![i] = Becomes(i, After(p), w, p, cmds[i].err)]
                \/ /\ balance' = w /\ failed' = failed /\ cmds[i].kind = "deal"
                   /\ \E g \in (IF door = "blackjack" THEN NewBlackjack ELSE {NewVideoPoker}) :
                        games' = Append(games, Staked(g, cmds[i].bet))
                   /\ cmds' = [cmds EXCEPT ![i] = Dealt(i, w)]
                \/ /\ balance' = w /\ failed' = failed /\ cmds[i].kind \notin {"spin", "deal"} /\ games' = games
                   /\ cmds' = [cmds EXCEPT ![i] = Becomes(i, "done", w, cmds[i].pay, cmds[i].err)]
<1> DEFINE w == cmds[i].copy - cmds[i].bet
<1>1. PICK c : c = [cmds[i] EXCEPT !.copy = w] OBVIOUS
<1>2. /\ cmds[i].st = "bet" /\ ledger' = ledger
      /\ \/ Writes(c.copy) /\ BetTaken(i, c)
         \/ WriteFails(c.copy) /\ Fail(i) /\ UNCHANGED games
  BY <1>1 DEF BetStatement
<1> HIDE DEF w
<1>3. c.copy = w BY <1>1, CopyTaken
<1>4. /\ c = [kind |-> c.kind, st |-> c.st, copy |-> c.copy, bet |-> c.bet, g |-> c.g, pay |-> c.pay,
              err |-> c.err]
      /\ c.kind = cmds[i].kind /\ c.bet = cmds[i].bet /\ c.g = cmds[i].g /\ c.pay = cmds[i].pay
      /\ c.err = cmds[i].err
  BY <1>1, CopyTaken
<1>5. CASE WriteFails(c.copy) /\ Fail(i) /\ UNCHANGED games
  <2>1. balance' \in {balance, w} BY <1>3, <1>5 DEF WriteFails
  <2>2. /\ cmds' = [cmds EXCEPT ![i] = Becomes(i, "done", cmds[i].copy, cmds[i].pay, TRUE)]
        /\ failed' = TRUE
    BY <1>5, FailIs
  <2>3. QED BY <1>2, <1>5, <2>1, <2>2 DEF w
<1>6. CASE Writes(c.copy) /\ BetTaken(i, c)
  <2>1. balance' = w /\ failed' = failed BY <1>3, <1>6 DEF Writes
  <2>2. CASE cmds[i].kind = "spin"
    <3>1. /\ \E p \in SpinPayouts(c.bet) : cmds' = [cmds EXCEPT ![i] = [c EXCEPT !.pay = p, !.st = After(p)]]
          /\ games' = games
      BY <1>4, <1>6, <2>2 DEF BetTaken
    <3>2. PICK p \in SpinPayouts(c.bet) : cmds' = [cmds EXCEPT ![i] = [c EXCEPT !.pay = p, !.st = After(p)]]
      BY <3>1
    <3>3. p \in Nat
      <4>1. cmds[i].bet \in Nat BY DoorFacts DEF DoorCmds
      <4>2. QED BY <1>4, <4>1, SpinType
    <3>4. PICK x : x = [c EXCEPT !.pay = p, !.st = After(p)] OBVIOUS
    <3>5. cmds' = [cmds EXCEPT ![i] = x] BY <3>2, <3>4
    <3>6. x = Becomes(i, After(p), w, p, cmds[i].err)
      <4>1. x = [kind |-> c.kind, st |-> After(p), copy |-> c.copy, bet |-> c.bet, g |-> c.g, pay |-> p,
                 err |-> c.err]
        BY <1>4, <3>4, PayEdit
      <4>2. QED BY <1>3, <1>4, <4>1 DEF Becomes
    <3>7. QED BY <1>2, <2>1, <2>2, <3>1, <3>3, <3>5, <3>6 DEF w
  <2>3. CASE cmds[i].kind = "deal"
    <3>1. /\ \E g \in (IF door = "blackjack" THEN NewBlackjack ELSE {NewVideoPoker}) :
               games' = Append(games, Staked(g, c.bet))
          /\ cmds' = [cmds EXCEPT ![i] = [c EXCEPT !.g = Len(games) + 1, !.st = "done"]]
      BY <1>4, <1>6, <2>3 DEF BetTaken
    <3>2. PICK x : x = [c EXCEPT !.g = Len(games) + 1, !.st = "done"] OBVIOUS
    <3>3. cmds' = [cmds EXCEPT ![i] = x] BY <3>1, <3>2
    <3>4. x = Dealt(i, w)
      <4>1. x = [kind |-> c.kind, st |-> "done", copy |-> c.copy, bet |-> c.bet, g |-> Len(games) + 1,
                 pay |-> c.pay, err |-> c.err]
        BY <1>4, <3>2, GameEdit
      <4>2. QED BY <1>3, <1>4, <4>1 DEF Dealt
    <3>5. QED BY <1>2, <1>4, <2>1, <2>3, <3>1, <3>3, <3>4 DEF w
  <2>4. CASE cmds[i].kind \notin {"spin", "deal"}
    <3>1. cmds' = [cmds EXCEPT ![i] = [c EXCEPT !.st = "done"]] /\ games' = games
      BY <1>4, <1>6, <2>4 DEF BetTaken
    <3>2. PICK x : x = [c EXCEPT !.st = "done"] OBVIOUS
    <3>3. cmds' = [cmds EXCEPT ![i] = x] BY <3>1, <3>2
    <3>4. x = Becomes(i, "done", w, cmds[i].pay, cmds[i].err)
      <4>1. x = [kind |-> c.kind, st |-> "done", copy |-> c.copy, bet |-> c.bet, g |-> c.g,
                 pay |-> c.pay, err |-> c.err]
        BY <1>4, <3>2, StEdit
      <4>2. QED BY <1>3, <1>4, <4>1 DEF Becomes
    <3>5. QED BY <1>2, <2>1, <2>4, <3>1, <3>3, <3>4 DEF w
  <2>5. QED BY <2>2, <2>3, <2>4
<1>7. QED BY <1>2, <1>5, <1>6

LEMMA DrawIs ==
  ASSUME DoorTypes, NEW i \in DOMAIN cmds, DrawCards(i)
  PROVE  LET k == cmds[i].g
         IN  /\ cmds[i].st = "draw" /\ UNCHANGED <<balance, ledger, failed>> /\ k \in 1 .. Len(games)
             /\ \E d \in DrawHands(games[k], cmds[i].bet) :
                  /\ games' = [games EXCEPT ![k] = Staked(d, games[k].stake)]
                  /\ cmds' = [cmds EXCEPT ![i] = Becomes(i, After(d.payout), cmds[i].copy, d.payout, cmds[i].err)]
<1>1. /\ cmds[i].st = "draw" /\ UNCHANGED <<balance, ledger, failed>>
      /\ \E d \in DrawHands(games[cmds[i].g], cmds[i].bet) :
           /\ games' = [games EXCEPT ![cmds[i].g] = Staked(d, @.stake)]
           /\ cmds' = [cmds EXCEPT ![i] = [@ EXCEPT !.st = After(d.payout), !.pay = d.payout]]
  BY DEF DrawCards
<1>2. PICK d \in DrawHands(games[cmds[i].g], cmds[i].bet) :
           /\ games' = [games EXCEPT ![cmds[i].g] = Staked(d, @.stake)]
           /\ cmds' = [cmds EXCEPT ![i] = [@ EXCEPT !.st = After(d.payout), !.pay = d.payout]]
  BY <1>1
<1>3. PICK x : x = [cmds[i] EXCEPT !.st = After(d.payout), !.pay = d.payout] OBVIOUS
<1>4. x = Becomes(i, After(d.payout), cmds[i].copy, d.payout, cmds[i].err) BY <1>3, PaySet
<1>5. cmds' = [cmds EXCEPT ![i] = x] BY <1>2, <1>3
<1>6. cmds[i].g \in 1 .. Len(games)
  <2>1. cmds[i].g # 0 BY <1>1 DEF DoorTypes, CmdsOk
  <2>2. QED BY <2>1, DoorFacts
<1>7. games' = [games EXCEPT ![cmds[i].g] = Staked(d, games[cmds[i].g].stake)] BY <1>2
<1>8. QED BY <1>1, <1>4, <1>5, <1>6, <1>7

LEMMA RunTypes == ASSUME DoorTypes, RunCommand PROVE DoorTypes' /\ Keeps
<1>1. UNCHANGED <<door, screen, lost>> BY DEF RunCommand
<1>2. PICK i \in DOMAIN cmds :
        LoadWallet(i) \/ BetStatement(i) \/ DrawCards(i) \/ CreditStatement(i) \/ RecordStatement(i)
  BY DEF RunCommand
<1>3. /\ cmds[i] \in DoorCmds /\ cmds[i].g \in 0 .. Len(games) /\ Len(games) \in Nat
      /\ cmds[i].copy \in Int /\ cmds[i].pay \in Nat /\ cmds[i].bet \in Nat /\ cmds[i].err \in BOOLEAN
      /\ cmds[i].kind \in DoorKinds /\ balance \in Int /\ ledger \in Int
  <2>1. cmds[i] \in DoorCmds /\ cmds[i].g \in 0 .. Len(games) /\ Len(games) \in Nat BY DoorFacts
  <2>2. QED BY <2>1 DEF DoorTypes, DoorCmds
<1>4. ASSUME NEW st \in {"load", "bet", "credit", "record", "done"}, NEW w \in Int, NEW p \in Nat,
             NEW e \in BOOLEAN, cmds' = [cmds EXCEPT ![i] = Becomes(i, st, w, p, e)],
             balance' \in Int, ledger' \in Int, failed' \in {failed, TRUE}, UNCHANGED games
      PROVE  DoorTypes' /\ Keeps
  <2>1. /\ Becomes(i, st, w, p, e) \in DoorCmds /\ Becomes(i, st, w, p, e).g = cmds[i].g
        /\ Becomes(i, st, w, p, e).st = st
    BY <1>4, BecomesType
  <2>2. Becomes(i, st, w, p, e).g <= Len(games) /\ Becomes(i, st, w, p, e).st # "draw" BY <1>3, <1>4, <2>1
  <2>3. QED BY <1>1, <1>4, <2>1, <2>2, CmdStep
<1>5. CASE LoadWallet(i)
  <2>1. /\ UNCHANGED <<balance, ledger, games>> /\ failed' \in {failed, TRUE}
        /\ \/ cmds' = [cmds EXCEPT ![i] = Becomes(i, "done", balance, cmds[i].pay, cmds[i].err)]
           \/ cmds' = [cmds EXCEPT ![i] = Becomes(i, "done", cmds[i].copy, cmds[i].pay, TRUE)]
    BY <1>5, LoadIs
  <2>2. QED BY <1>3, <1>4, <2>1
<1>6. CASE CreditStatement(i)
  <2> DEFINE w == cmds[i].copy + cmds[i].pay
  <2>1. w \in Int BY <1>3
  <2>2. /\ UNCHANGED <<ledger, games>> /\ balance' \in {balance, w} /\ failed' \in {failed, TRUE}
        /\ \/ cmds' = [cmds EXCEPT ![i] = Becomes(i, "record", w, cmds[i].pay, cmds[i].err)]
           \/ cmds' = [cmds EXCEPT ![i] = Becomes(i, "done", w, cmds[i].pay, TRUE)]
    BY <1>6, CreditIs
  <2> HIDE DEF w
  <2>3. QED BY <1>3, <1>4, <2>1, <2>2
<1>7. CASE RecordStatement(i)
  <2>1. Stake(cmds[i]) \in Int BY <1>3 DEF Stake
  <2>2. /\ UNCHANGED <<balance, games>> /\ failed' \in {failed, TRUE}
        /\ cmds' = [cmds EXCEPT ![i] = Becomes(i, "done", cmds[i].copy, cmds[i].pay, cmds[i].err)]
        /\ ledger' \in {ledger, ledger + cmds[i].pay - Stake(cmds[i])}
    BY <1>7, RecordIs
  <2>3. ledger' \in Int BY <1>3, <2>1, <2>2
  <2>4. QED BY <1>3, <1>4, <2>2, <2>3
<1>8. CASE DrawCards(i)
  <2> DEFINE k == cmds[i].g
  <2>1. /\ cmds[i].st = "draw" /\ UNCHANGED <<balance, ledger, failed>> /\ k \in 1 .. Len(games)
    BY <1>8, DrawIs
  <2>2. PICK d \in DrawHands(games[k], cmds[i].bet) :
          /\ games' = [games EXCEPT ![k] = Staked(d, games[k].stake)]
          /\ cmds' = [cmds EXCEPT ![i] = Becomes(i, After(d.payout), cmds[i].copy, d.payout, cmds[i].err)]
    BY <1>8, DrawIs
  <2>3. door = "videopoker"
    <3>1. cmds[i].kind = "draw" BY <2>1 DEF DoorTypes, CmdsOk
    <3>2. QED BY <1>3, <3>1 DEF DoorKinds, DoorTypes
  <2>4. games[k] \in PokerRounds BY <2>1, <2>3, DoorFacts DEF DoorGameSet
  <2>5. d.payout \in Nat /\ Staked(d, games[k].stake) \in DoorGameSet
    BY <1>3, <2>3, <2>4, DrawHandsType DEF DoorGameSet
  <2>6. games' \in Seq(DoorGameSet) /\ Len(games') = Len(games) BY <2>1, <2>2, <2>5, GamesReplaced
  <2> DEFINE x == Becomes(i, After(d.payout), cmds[i].copy, d.payout, cmds[i].err)
  <2>7. After(d.payout) \in {"credit", "record"} BY DEF After
  <2>8. x \in DoorCmds /\ x.g = cmds[i].g /\ x.st # "draw"
    <3>1. PICK st \in {"credit", "record"} : st = After(d.payout) BY <2>7
    <3>2. /\ Becomes(i, st, cmds[i].copy, d.payout, cmds[i].err) \in DoorCmds
          /\ Becomes(i, st, cmds[i].copy, d.payout, cmds[i].err).g = cmds[i].g
          /\ Becomes(i, st, cmds[i].copy, d.payout, cmds[i].err).st = st
      <4>1. st \in {"load", "bet", "draw", "credit", "record", "done"} /\ d.payout \in Nat
        BY <2>5, <3>1
      <4>2. cmds[i].copy \in Int /\ cmds[i].err \in BOOLEAN
        BY <1>3
      <4>3. QED
        BY <4>1, <4>2, BecomesType
    <3>3. QED BY <3>1, <3>2
  <2> HIDE DEF x
  <2>9. cmds' = [cmds EXCEPT ![i] = x] BY <2>2 DEF x
  <2>10. CmdsOk(cmds', Len(games))
    <3>1. x.g <= Len(games) BY <1>3, <2>8
    <3>2. CmdsOk(cmds, Len(games)) BY DEF DoorTypes
    <3>3. CmdsOk([cmds EXCEPT ![i] = x], Len(games)) BY <1>3, <2>8, <3>1, <3>2, CmdsChanged
    <3>4. QED BY <2>9, <3>3
  <2>11. DoorTypes' BY <1>1, <2>1, <2>6, <2>10, TypesStep DEF DoorTypes
  <2>12. QED BY <1>1, <1>3, <2>1, <2>3, <2>6, <2>11 DEF Keeps
<1>9. CASE BetStatement(i)
  <2> DEFINE w == cmds[i].copy - cmds[i].bet
  <2>1. w \in Int BY <1>3
  <2>2. /\ ledger' = ledger /\ balance' \in {balance, w}
        /\ \/ /\ cmds' = [cmds EXCEPT ![i] = Becomes(i, "done", cmds[i].copy, cmds[i].pay, TRUE)]
              /\ failed' = TRUE /\ games' = games
           \/ /\ failed' = failed /\ games' = games
              /\ \E p \in Nat : cmds' = [cmds EXCEPT ![i] = Becomes(i, After(p), w, p, cmds[i].err)]
           \/ /\ failed' = failed /\ cmds[i].kind = "deal"
              /\ \E g \in (IF door = "blackjack" THEN NewBlackjack ELSE {NewVideoPoker}) :
                   games' = Append(games, Staked(g, cmds[i].bet))
              /\ cmds' = [cmds EXCEPT ![i] = Dealt(i, w)]
           \/ /\ failed' = failed /\ games' = games
              /\ cmds' = [cmds EXCEPT ![i] = Becomes(i, "done", w, cmds[i].pay, cmds[i].err)]
    BY <1>9, BetIs
  <2> HIDE DEF w
  <2>3. balance' \in Int /\ ledger' \in Int BY <1>3, <2>1, <2>2
  <2>4. CASE cmds' = [cmds EXCEPT ![i] = Becomes(i, "done", cmds[i].copy, cmds[i].pay, TRUE)]
             /\ failed' = TRUE /\ games' = games
    BY <1>3, <1>4, <2>3, <2>4
  <2>5. CASE /\ failed' = failed /\ games' = games
             /\ \E p \in Nat : cmds' = [cmds EXCEPT ![i] = Becomes(i, After(p), w, p, cmds[i].err)]
    <3>1. PICK p \in Nat : cmds' = [cmds EXCEPT ![i] = Becomes(i, After(p), w, p, cmds[i].err)] BY <2>5
    <3>2. After(p) \in {"credit", "record"} BY DEF After
    <3>3. QED BY <1>3, <1>4, <2>1, <2>3, <2>5, <3>1, <3>2
  <2>6. CASE /\ failed' = failed /\ games' = games
             /\ cmds' = [cmds EXCEPT ![i] = Becomes(i, "done", w, cmds[i].pay, cmds[i].err)]
    BY <1>3, <1>4, <2>1, <2>3, <2>6
  <2>7. CASE /\ failed' = failed /\ cmds[i].kind = "deal"
             /\ \E g \in (IF door = "blackjack" THEN NewBlackjack ELSE {NewVideoPoker}) :
                  games' = Append(games, Staked(g, cmds[i].bet))
             /\ cmds' = [cmds EXCEPT ![i] = Dealt(i, w)]
    <3>1. door \in {"blackjack", "videopoker"} BY <1>3, <2>7 DEF DoorKinds, DoorTypes
    <3>2. PICK g \in (IF door = "blackjack" THEN NewBlackjack ELSE {NewVideoPoker}) :
            games' = Append(games, Staked(g, cmds[i].bet))
      BY <2>7
    <3> DEFINE h == Staked(g, cmds[i].bet)
    <3>3. h \in DoorGameSet
      <4>1. CASE door = "blackjack" BY <1>3, <3>2, <4>1, NewBlackjackType DEF DoorGameSet
      <4>2. CASE door = "videopoker" BY <1>3, <3>2, <4>2, NewPokerType DEF DoorGameSet
      <4>3. QED BY <3>1, <4>1, <4>2
    <3> HIDE DEF h
    <3>4. /\ games' \in Seq(DoorGameSet) /\ Len(games') = Len(games) + 1
          /\ \A j \in 1 .. Len(games) : games'[j] = games[j]
      BY <3>2, <3>3, GamesGrown DEF h
    <3> DEFINE n == Len(games) + 1
    <3>5. n \in Nat /\ Len(games) <= n BY <1>3
    <3>6. Dealt(i, w) \in DoorCmds /\ Dealt(i, w).g = n /\ Dealt(i, w).st = "done"
      BY <1>3, <2>1, <3>5 DEF DoorCmds, Dealt
    <3> HIDE DEF n
    <3>7. CmdsOk(cmds, n) BY <1>3, <3>5, CmdsWithin DEF DoorTypes
    <3>8. CmdsOk(cmds', n)
      <4>1. Dealt(i, w).g <= n /\ Dealt(i, w).st # "draw" BY <3>5, <3>6
      <4>2. CmdsOk([cmds EXCEPT ![i] = Dealt(i, w)], n) BY <3>5, <3>6, <3>7, <4>1, CmdsChanged
      <4>3. QED BY <2>7, <4>2
    <3>9. Len(games') = n BY <3>4 DEF n
    <3>10. screen'.game <= Len(games') BY <1>1, <1>3, <3>5, <3>9, DoorFacts DEF DoorTypes
    <3>11. DoorTypes' BY <1>1, <2>3, <2>7, <3>4, <3>8, <3>9, <3>10, TypesStep DEF DoorTypes
    <3>12. QED BY <1>1, <1>3, <2>7, <3>4, <3>11 DEF Keeps
  <2>8. QED BY <2>2, <2>4, <2>5, <2>6, <2>7
<1>10. QED BY <1>2, <1>5, <1>6, <1>7, <1>8, <1>9

\* What the keys, the messages and the timers make of a screen.
LEMMA ShowWallet ==
  ASSUME NEW s \in DoorScreens, NEW w \in Int, NEW x, x = [s EXCEPT !.wallet = w]
  PROVE  /\ x \in DoorScreens
         /\ x = [open |-> s.open, wallet |-> w, pending |-> s.pending, bet |-> s.bet,
                 game |-> s.game, spinning |-> s.spinning, cashedOut |-> s.cashedOut,
                 dealing |-> s.dealing, ticks |-> s.ticks, advances |-> s.advances]
<1>1. s = [open |-> s.open, wallet |-> s.wallet, pending |-> s.pending, bet |-> s.bet,
           game |-> s.game, spinning |-> s.spinning, cashedOut |-> s.cashedOut,
           dealing |-> s.dealing, ticks |-> s.ticks, advances |-> s.advances]
  BY DEF DoorScreens
<1>2. x = [open |-> s.open, wallet |-> w, pending |-> s.pending, bet |-> s.bet,
           game |-> s.game, spinning |-> s.spinning, cashedOut |-> s.cashedOut,
           dealing |-> s.dealing, ticks |-> s.ticks, advances |-> s.advances]
  BY <1>1
<1>3. QED BY <1>2 DEF DoorScreens

LEMMA ShowGame ==
  ASSUME NEW s \in DoorScreens, NEW n \in Nat, NEW x, x = [s EXCEPT !.game = n]
  PROVE  /\ x \in DoorScreens
         /\ x = [open |-> s.open, wallet |-> s.wallet, pending |-> s.pending,
                 bet |-> s.bet, game |-> n, spinning |-> s.spinning,
                 cashedOut |-> s.cashedOut, dealing |-> s.dealing, ticks |-> s.ticks,
                 advances |-> s.advances]
<1>1. s = [open |-> s.open, wallet |-> s.wallet, pending |-> s.pending, bet |-> s.bet,
           game |-> s.game, spinning |-> s.spinning, cashedOut |-> s.cashedOut,
           dealing |-> s.dealing, ticks |-> s.ticks, advances |-> s.advances]
  BY DEF DoorScreens
<1>2. x = [open |-> s.open, wallet |-> s.wallet, pending |-> s.pending, bet |-> s.bet,
           game |-> n, spinning |-> s.spinning, cashedOut |-> s.cashedOut,
           dealing |-> s.dealing, ticks |-> s.ticks, advances |-> s.advances]
  BY <1>1
<1>3. QED BY <1>2 DEF DoorScreens

LEMMA ShowSpin ==
  ASSUME NEW s \in DoorScreens, NEW b \in BOOLEAN, NEW x, x = [s EXCEPT !.spinning = b]
  PROVE  /\ x \in DoorScreens
         /\ x = [open |-> s.open, wallet |-> s.wallet, pending |-> s.pending,
                 bet |-> s.bet, game |-> s.game, spinning |-> b,
                 cashedOut |-> s.cashedOut, dealing |-> s.dealing, ticks |-> s.ticks,
                 advances |-> s.advances]
<1>1. s = [open |-> s.open, wallet |-> s.wallet, pending |-> s.pending, bet |-> s.bet,
           game |-> s.game, spinning |-> s.spinning, cashedOut |-> s.cashedOut,
           dealing |-> s.dealing, ticks |-> s.ticks, advances |-> s.advances]
  BY DEF DoorScreens
<1>2. x = [open |-> s.open, wallet |-> s.wallet, pending |-> s.pending, bet |-> s.bet,
           game |-> s.game, spinning |-> b, cashedOut |-> s.cashedOut,
           dealing |-> s.dealing, ticks |-> s.ticks, advances |-> s.advances]
  BY <1>1
<1>3. QED BY <1>2 DEF DoorScreens

LEMMA ShowBet ==
  ASSUME NEW s \in DoorScreens, NEW b \in Range(Ladder), NEW x, x = [s EXCEPT !.bet = b]
  PROVE  /\ x \in DoorScreens
         /\ x = [open |-> s.open, wallet |-> s.wallet, pending |-> s.pending, bet |-> b,
                 game |-> s.game, spinning |-> s.spinning, cashedOut |-> s.cashedOut,
                 dealing |-> s.dealing, ticks |-> s.ticks, advances |-> s.advances]
<1>1. s = [open |-> s.open, wallet |-> s.wallet, pending |-> s.pending, bet |-> s.bet,
           game |-> s.game, spinning |-> s.spinning, cashedOut |-> s.cashedOut,
           dealing |-> s.dealing, ticks |-> s.ticks, advances |-> s.advances]
  BY DEF DoorScreens
<1>2. x = [open |-> s.open, wallet |-> s.wallet, pending |-> s.pending, bet |-> b,
           game |-> s.game, spinning |-> s.spinning, cashedOut |-> s.cashedOut,
           dealing |-> s.dealing, ticks |-> s.ticks, advances |-> s.advances]
  BY <1>1
<1>3. QED BY <1>2 DEF DoorScreens

LEMMA ShowPending ==
  ASSUME NEW s \in DoorScreens, NEW w \in Int, NEW x, x = [s EXCEPT !.pending = w, !.ticks = @ + 1]
  PROVE  /\ x \in DoorScreens
         /\ x = [open |-> s.open, wallet |-> s.wallet, pending |-> w, bet |-> s.bet,
                 game |-> s.game, spinning |-> s.spinning, cashedOut |-> s.cashedOut,
                 dealing |-> s.dealing, ticks |-> s.ticks + 1, advances |-> s.advances]
         /\ x.game = s.game /\ x.advances = s.advances
<1>1. s = [open |-> s.open, wallet |-> s.wallet, pending |-> s.pending, bet |-> s.bet,
           game |-> s.game, spinning |-> s.spinning, cashedOut |-> s.cashedOut,
           dealing |-> s.dealing, ticks |-> s.ticks, advances |-> s.advances]
  BY DEF DoorScreens
<1>2. x = [open |-> s.open, wallet |-> s.wallet, pending |-> w, bet |-> s.bet,
           game |-> s.game, spinning |-> s.spinning, cashedOut |-> s.cashedOut,
           dealing |-> s.dealing, ticks |-> s.ticks + 1, advances |-> s.advances]
  BY <1>1
<1>3. s.ticks + 1 \in Nat BY DEF DoorScreens
<1>4. QED BY <1>2, <1>3 DEF DoorScreens

LEMMA ShowCashOut ==
  ASSUME NEW s \in DoorScreens, NEW w \in Int, NEW x, x = [s EXCEPT !.wallet = w, !.cashedOut = TRUE, !.game = 0]
  PROVE  /\ x \in DoorScreens
         /\ x = [open |-> s.open, wallet |-> w, pending |-> s.pending, bet |-> s.bet,
                 game |-> 0, spinning |-> s.spinning, cashedOut |-> TRUE,
                 dealing |-> s.dealing, ticks |-> s.ticks, advances |-> s.advances]
         /\ x.game = 0 /\ x.advances = s.advances
<1>1. s = [open |-> s.open, wallet |-> s.wallet, pending |-> s.pending, bet |-> s.bet,
           game |-> s.game, spinning |-> s.spinning, cashedOut |-> s.cashedOut,
           dealing |-> s.dealing, ticks |-> s.ticks, advances |-> s.advances]
  BY DEF DoorScreens
<1>2. x = [open |-> s.open, wallet |-> w, pending |-> s.pending, bet |-> s.bet,
           game |-> 0, spinning |-> s.spinning, cashedOut |-> TRUE, dealing |-> s.dealing,
           ticks |-> s.ticks, advances |-> s.advances]
  BY <1>1
<1>3. /\ s.open \in BOOLEAN /\ s.pending \in Int /\ s.bet \in Range(Ladder) /\ s.spinning \in BOOLEAN
      /\ s.dealing \in BOOLEAN /\ s.ticks \in Nat /\ s.advances \in Nat
  BY DEF DoorScreens
<1>4. x \in DoorScreens
  <2>1. PICK n \in Nat, b \in BOOLEAN : n = 0 /\ b = TRUE OBVIOUS
  <2>2. x = [open |-> s.open, wallet |-> w, pending |-> s.pending, bet |-> s.bet,
             game |-> n, spinning |-> s.spinning, cashedOut |-> b, dealing |-> s.dealing,
             ticks |-> s.ticks, advances |-> s.advances]
    BY <1>2, <2>1
  <2> HIDE <2>1
  <2>3. QED BY <1>3, <2>2 DEF DoorScreens
<1>5. QED BY <1>2, <1>4

LEMMA ShowAdvance ==
  ASSUME NEW s \in DoorScreens, NEW n \in Nat, NEW x, x = [s EXCEPT !.advances = n]
  PROVE  /\ x \in DoorScreens
         /\ x = [open |-> s.open, wallet |-> s.wallet, pending |-> s.pending,
                 bet |-> s.bet, game |-> s.game, spinning |-> s.spinning,
                 cashedOut |-> s.cashedOut, dealing |-> s.dealing, ticks |-> s.ticks,
                 advances |-> n]
<1>1. s = [open |-> s.open, wallet |-> s.wallet, pending |-> s.pending, bet |-> s.bet,
           game |-> s.game, spinning |-> s.spinning, cashedOut |-> s.cashedOut,
           dealing |-> s.dealing, ticks |-> s.ticks, advances |-> s.advances]
  BY DEF DoorScreens
<1>2. x = [open |-> s.open, wallet |-> s.wallet, pending |-> s.pending, bet |-> s.bet,
           game |-> s.game, spinning |-> s.spinning, cashedOut |-> s.cashedOut,
           dealing |-> s.dealing, ticks |-> s.ticks, advances |-> n]
  BY <1>1
<1>3. QED BY <1>2 DEF DoorScreens

LEMMA ShowTick ==
  ASSUME NEW s \in DoorScreens, NEW n \in Nat, NEW b \in BOOLEAN, NEW x, x = [s EXCEPT !.ticks = n, !.dealing = b]
  PROVE  /\ x \in DoorScreens
         /\ x = [open |-> s.open, wallet |-> s.wallet, pending |-> s.pending,
                 bet |-> s.bet, game |-> s.game, spinning |-> s.spinning,
                 cashedOut |-> s.cashedOut, dealing |-> b, ticks |-> n,
                 advances |-> s.advances]
<1>1. s = [open |-> s.open, wallet |-> s.wallet, pending |-> s.pending, bet |-> s.bet,
           game |-> s.game, spinning |-> s.spinning, cashedOut |-> s.cashedOut,
           dealing |-> s.dealing, ticks |-> s.ticks, advances |-> s.advances]
  BY DEF DoorScreens
<1>2. x = [open |-> s.open, wallet |-> s.wallet, pending |-> s.pending, bet |-> s.bet,
           game |-> s.game, spinning |-> s.spinning, cashedOut |-> s.cashedOut,
           dealing |-> b, ticks |-> n, advances |-> s.advances]
  BY <1>1
<1>3. QED BY <1>2 DEF DoorScreens

LEMMA ShowReels ==
  ASSUME NEW s \in DoorScreens, NEW w \in Int, NEW x, x = [s EXCEPT !.wallet = w, !.spinning = FALSE]
  PROVE  /\ x \in DoorScreens
         /\ x = [open |-> s.open, wallet |-> w, pending |-> s.pending, bet |-> s.bet,
                 game |-> s.game, spinning |-> FALSE, cashedOut |-> s.cashedOut,
                 dealing |-> s.dealing, ticks |-> s.ticks, advances |-> s.advances]
         /\ x.game = s.game /\ x.advances = s.advances
<1>1. s = [open |-> s.open, wallet |-> s.wallet, pending |-> s.pending, bet |-> s.bet,
           game |-> s.game, spinning |-> s.spinning, cashedOut |-> s.cashedOut,
           dealing |-> s.dealing, ticks |-> s.ticks, advances |-> s.advances]
  BY DEF DoorScreens
<1>2. x = [open |-> s.open, wallet |-> w, pending |-> s.pending, bet |-> s.bet,
           game |-> s.game, spinning |-> FALSE, cashedOut |-> s.cashedOut,
           dealing |-> s.dealing, ticks |-> s.ticks, advances |-> s.advances]
  BY <1>1
<1>3. QED BY <1>2 DEF DoorScreens


LEMMA DealtScreen ==
  ASSUME NEW s \in DoorScreens
  PROVE  /\ Deal(s) \in DoorScreens
         /\ Deal(s) = [open |-> s.open, wallet |-> s.wallet, pending |-> s.pending, bet |-> s.bet,
                       game |-> s.game, spinning |-> s.spinning, cashedOut |-> s.cashedOut,
                       dealing |-> TRUE, ticks |-> s.ticks + 1, advances |-> s.advances]
<1>1. PICK x : x = [s EXCEPT !.dealing = TRUE, !.ticks = @ + 1] OBVIOUS
<1>2. x = Deal(s) BY <1>1 DEF Deal
<1>3. s = [open |-> s.open, wallet |-> s.wallet, pending |-> s.pending, bet |-> s.bet,
           game |-> s.game, spinning |-> s.spinning, cashedOut |-> s.cashedOut,
           dealing |-> s.dealing, ticks |-> s.ticks, advances |-> s.advances]
  BY DEF DoorScreens
<1>4. x = [open |-> s.open, wallet |-> s.wallet, pending |-> s.pending, bet |-> s.bet,
           game |-> s.game, spinning |-> s.spinning, cashedOut |-> s.cashedOut,
           dealing |-> TRUE, ticks |-> s.ticks + 1, advances |-> s.advances]
  BY <1>1, <1>3
<1>5. s.ticks + 1 \in Nat BY DEF DoorScreens
<1>6. x \in DoorScreens BY <1>4, <1>5 DEF DoorScreens
<1>7. QED BY <1>2, <1>4, <1>6

LEMMA ClosedScreen ==
  ASSUME DoorTypes
  PROVE  Closed = [open |-> FALSE, wallet |-> screen.wallet, pending |-> screen.pending, bet |-> screen.bet,
                   game |-> 0, spinning |-> screen.spinning, cashedOut |-> screen.cashedOut,
                   dealing |-> screen.dealing, ticks |-> 0, advances |-> 0]
<1>1. PICK s : s = screen OBVIOUS
<1>2. PICK x : x = [s EXCEPT !.open = FALSE, !.ticks = 0, !.advances = 0, !.game = 0] OBVIOUS
<1>3. x = Closed BY <1>1, <1>2 DEF Closed
<1>4. s = [open |-> s.open, wallet |-> s.wallet, pending |-> s.pending, bet |-> s.bet,
           game |-> s.game, spinning |-> s.spinning, cashedOut |-> s.cashedOut,
           dealing |-> s.dealing, ticks |-> s.ticks, advances |-> s.advances]
  BY <1>1 DEF DoorTypes, DoorScreens
<1>5. x = [open |-> FALSE, wallet |-> s.wallet, pending |-> s.pending, bet |-> s.bet,
           game |-> 0, spinning |-> s.spinning, cashedOut |-> s.cashedOut,
           dealing |-> s.dealing, ticks |-> 0, advances |-> 0]
  BY <1>2, <1>4
<1>6. QED BY <1>1, <1>3, <1>5

\* A message of command i, by its kind.
LEMMA AnswerIs ==
  ASSUME DoorTypes, Answer
  PROVE  \E i \in DOMAIN cmds :
           /\ cmds[i].st = "done" /\ cmds' = RemoveAt(cmds, i)
           /\ UNCHANGED <<door, balance, ledger, lost, failed>>
           /\ \/ ~screen.open /\ UNCHANGED <<screen, games>>
              \/ screen.open /\ cmds[i].kind = "buyin" /\ GotBuyIn(cmds[i])
              \/ screen.open /\ cmds[i].kind = "spin" /\ GotSpin(cmds[i]) /\ UNCHANGED games
              \/ screen.open /\ cmds[i].kind \in {"load", "double"} /\ GotWallet(cmds[i]) /\ UNCHANGED games
              \/ screen.open /\ cmds[i].kind = "deal" /\ GotDeal(cmds[i]) /\ UNCHANGED games
              \/ screen.open /\ cmds[i].kind = "settle" /\ GotSettled(cmds[i]) /\ UNCHANGED games
              \/ screen.open /\ cmds[i].kind = "draw" /\ GotDrawn(cmds[i]) /\ UNCHANGED games
              \/ screen.open /\ cmds[i].kind = "cashout" /\ GotCashOut(cmds[i]) /\ UNCHANGED games
<1>1. PICK i \in DOMAIN cmds :
        /\ cmds[i].st = "done" /\ cmds' = RemoveAt(cmds, i)
        /\ UNCHANGED <<door, balance, ledger, lost, failed>>
        /\ IF ~screen.open THEN UNCHANGED <<screen, games, steps>>
           ELSE IF cmds[i].kind = "buyin" THEN GotBuyIn(cmds[i])
           ELSE /\ CASE cmds[i].kind = "spin" -> GotSpin(cmds[i])
                     [] cmds[i].kind \in {"load", "double"} -> GotWallet(cmds[i])
                     [] cmds[i].kind = "deal" -> GotDeal(cmds[i])
                     [] cmds[i].kind = "settle" -> GotSettled(cmds[i])
                     [] cmds[i].kind = "draw" -> GotDrawn(cmds[i])
                     [] cmds[i].kind = "cashout" -> GotCashOut(cmds[i])
                /\ UNCHANGED <<games, steps>>
  BY DEF Answer
<1>2. cmds[i].kind \in {"load", "spin", "deal", "double", "settle", "draw", "buyin", "cashout"}
  <2>1. cmds[i].kind \in DoorKinds BY DoorFacts DEF DoorCmds
  <2>2. QED BY <2>1 DEF DoorKinds, DoorTypes
<1>3. CASE ~screen.open BY <1>1, <1>3
<1>4. CASE screen.open
  <2>1. CASE cmds[i].kind = "buyin" BY <1>1, <1>4, <2>1
  <2>2. CASE cmds[i].kind = "spin" BY <1>1, <1>4, <2>2
  <2>3. CASE cmds[i].kind \in {"load", "double"} BY <1>1, <1>4, <2>3
  <2>4. CASE cmds[i].kind = "deal" BY <1>1, <1>4, <2>4
  <2>5. CASE cmds[i].kind = "settle" BY <1>1, <1>4, <2>5
  <2>6. CASE cmds[i].kind = "draw" BY <1>1, <1>4, <2>6
  <2>7. CASE cmds[i].kind = "cashout" BY <1>1, <1>4, <2>7
  <2>8. QED BY <1>2, <2>1, <2>2, <2>3, <2>4, <2>5, <2>6, <2>7
<1>5. QED BY <1>3, <1>4

LEMMA AnswerTypes == ASSUME DoorTypes, Answer PROVE DoorTypes' /\ Keeps
<1>1. PICK i \in DOMAIN cmds :
           /\ cmds[i].st = "done" /\ cmds' = RemoveAt(cmds, i)
           /\ UNCHANGED <<door, balance, ledger, lost, failed>>
           /\ \/ ~screen.open /\ UNCHANGED <<screen, games>>
              \/ screen.open /\ cmds[i].kind = "buyin" /\ GotBuyIn(cmds[i])
              \/ screen.open /\ cmds[i].kind = "spin" /\ GotSpin(cmds[i]) /\ UNCHANGED games
              \/ screen.open /\ cmds[i].kind \in {"load", "double"} /\ GotWallet(cmds[i]) /\ UNCHANGED games
              \/ screen.open /\ cmds[i].kind = "deal" /\ GotDeal(cmds[i]) /\ UNCHANGED games
              \/ screen.open /\ cmds[i].kind = "settle" /\ GotSettled(cmds[i]) /\ UNCHANGED games
              \/ screen.open /\ cmds[i].kind = "draw" /\ GotDrawn(cmds[i]) /\ UNCHANGED games
              \/ screen.open /\ cmds[i].kind = "cashout" /\ GotCashOut(cmds[i]) /\ UNCHANGED games
  BY AnswerIs
<1> DEFINE c == cmds[i]
<1>2. /\ c.copy \in Int /\ c.bet \in Nat /\ c.g \in 0 .. Len(games) /\ c.g \in Nat /\ c.kind \in DoorKinds
      /\ Len(games) \in Nat
  <2>1. c \in DoorCmds /\ c.g \in 0 .. Len(games) /\ Len(games) \in Nat BY DoorFacts
  <2>2. QED BY <2>1 DEF DoorCmds
<1> HIDE DEF c
<1>3. CmdsOk(cmds', Len(games)) BY <1>1, <1>2, CmdsGone DEF DoorTypes
<1>4. ASSUME screen' \in DoorScreens, screen'.game <= Len(games), screen'.advances \in {0, screen.advances},
             UNCHANGED games
      PROVE  DoorTypes' /\ Keeps
  <2>1. door # "holdem" => screen'.advances = 0 BY <1>4 DEF DoorTypes
  <2>2. DoorTypes' BY <1>1, <1>3, <1>4, <2>1, TypesStep DEF DoorTypes
  <2>3. QED BY <1>1, <1>2, <1>4, <2>2 DEF Keeps
<1>5. screen \in DoorScreens /\ screen.game <= Len(games) /\ screen.game \in Nat BY DEF DoorTypes, DoorScreens
<1>6. CASE ~screen.open /\ UNCHANGED <<screen, games>> BY <1>4, <1>5, <1>6
<1>7. CASE GotSpin(c) /\ UNCHANGED games
  <2>1. CASE screen' = [screen EXCEPT !.spinning = FALSE]
    <3>1. PICK b \in BOOLEAN : b = FALSE OBVIOUS
    <3>2. PICK x : x = [screen EXCEPT !.spinning = b] OBVIOUS
    <3>3. x \in DoorScreens /\ x.game = screen.game /\ x.advances = screen.advances
      BY <1>5, <3>2, ShowSpin
    <3>4. screen' = x BY <2>1, <3>1, <3>2
    <3>5. QED BY <1>4, <1>5, <1>7, <3>3, <3>4
  <2>2. CASE screen' = [screen EXCEPT !.pending = c.copy, !.ticks = @ + 1]
    <3>1. PICK w \in Int : w = c.copy BY <1>2
    <3>2. PICK x : x = [screen EXCEPT !.pending = w, !.ticks = @ + 1] OBVIOUS
    <3>3. x \in DoorScreens /\ x.game = screen.game /\ x.advances = screen.advances
      BY <1>5, <3>2, ShowPending
    <3>4. screen' = x BY <2>2, <3>1, <3>2
    <3>5. QED BY <1>4, <1>5, <1>7, <3>3, <3>4
  <2>3. QED BY <1>7, <2>1, <2>2 DEF GotSpin
<1>8. CASE (GotWallet(c) \/ GotSettled(c)) /\ UNCHANGED games
  <2>1. CASE screen' = [screen EXCEPT !.wallet = c.copy]
    <3>1. screen' \in DoorScreens /\ screen'.game = screen.game /\ screen'.advances = screen.advances
      BY <1>2, <1>5, <2>1, ShowWallet
    <3>2. QED BY <1>4, <1>5, <1>8, <3>1
  <2>2. CASE screen' = screen BY <1>4, <1>5, <1>8, <2>2
  <2>3. QED BY <1>8, <2>1, <2>2 DEF GotWallet, GotSettled
<1>9. CASE GotDeal(c) /\ UNCHANGED games
  <2>1. CASE screen' = screen BY <1>4, <1>5, <1>9, <2>1
  <2>2. PICK s : s = [screen EXCEPT !.wallet = c.copy, !.game = c.g] OBVIOUS
  <2>3. s \in DoorScreens /\ s.game = c.g /\ s.advances = screen.advances
    <3>1. PICK y : y = [screen EXCEPT !.wallet = c.copy] OBVIOUS
    <3>2. y \in DoorScreens /\ y.advances = screen.advances BY <1>2, <1>5, <3>1, ShowWallet
    <3>3. s = [y EXCEPT !.game = c.g] BY <2>2, <3>1
    <3>4. QED BY <1>2, <3>2, <3>3, ShowGame
  <2>4. CASE screen' = Deal(s)
    <3>1. screen' \in DoorScreens /\ screen'.game = c.g /\ screen'.advances = screen.advances
      BY <2>3, <2>4, DealtScreen
    <3>2. QED BY <1>2, <1>4, <1>9, <3>1
  <2>5. QED BY <1>9, <2>1, <2>2, <2>4 DEF GotDeal
<1>10. CASE GotDrawn(c) /\ UNCHANGED games
  <2>1. PICK s : s = [screen EXCEPT !.wallet = c.copy] OBVIOUS
  <2>2. s \in DoorScreens /\ s.game = screen.game /\ s.advances = screen.advances
    BY <1>2, <1>5, <2>1, ShowWallet
  <2>3. screen' \in {s, Deal(s), Closed} BY <1>10, <2>1 DEF GotDrawn
  <2>4. CASE screen' = s BY <1>4, <1>5, <1>10, <2>2, <2>4
  <2>5. CASE screen' = Deal(s)
    <3>1. screen' \in DoorScreens /\ screen'.game = screen.game /\ screen'.advances = screen.advances
      BY <2>2, <2>5, DealtScreen
    <3>2. QED BY <1>4, <1>5, <1>10, <3>1
  <2>6. CASE screen' = Closed BY <1>2, <1>4, <1>10, <2>6, ClosedType
  <2>7. QED BY <2>3, <2>4, <2>5, <2>6
<1>11. CASE GotCashOut(c) /\ UNCHANGED games
  <2>1. CASE screen' = screen BY <1>4, <1>5, <1>11, <2>1
  <2>2. CASE screen' = [Closed EXCEPT !.wallet = c.copy]
    <3>1. screen' \in DoorScreens /\ screen'.game = Closed.game /\ screen'.advances = Closed.advances
      BY <1>2, <2>2, ClosedType, ShowWallet
    <3>2. QED BY <1>2, <1>4, <1>11, <3>1, ClosedType
  <2>3. CASE screen' = [screen EXCEPT !.wallet = c.copy, !.cashedOut = TRUE, !.game = 0]
    <3>1. PICK w \in Int : w = c.copy BY <1>2
    <3>2. PICK x : x = [screen EXCEPT !.wallet = w, !.cashedOut = TRUE, !.game = 0] OBVIOUS
    <3>3. x \in DoorScreens /\ x.game = 0 /\ x.advances = screen.advances
      BY <1>5, <3>2, ShowCashOut
    <3>4. screen' = x BY <2>3, <3>1, <3>2
    <3>5. QED BY <1>2, <1>4, <1>11, <3>3, <3>4
  <2>4. QED BY <1>11, <2>1, <2>2, <2>3 DEF GotCashOut
<1>12. CASE c.kind = "buyin" /\ GotBuyIn(c)
  <2>1. CASE c.err
    <3>1. UNCHANGED <<screen, games>> BY <1>12, <2>1 DEF GotBuyIn
    <3>2. QED BY <1>4, <1>5, <3>1
  <2>2. CASE ~c.err
    <3> DEFINE bb == IF screen.bet \div 50 < 2 THEN 2 ELSE screen.bet \div 50
               table == Staked(NewHeadsUp(screen.bet, bb), c.bet)
               heap == Append(games, table)
    <3>1. door = "holdem" BY <1>2, <1>12 DEF DoorKinds, DoorTypes
    <3>2. screen.bet \in Nat BY DoorFacts
    <3>3. bb \in Nat BY <3>2
    <3> HIDE DEF bb
    <3>4. table \in HeadsUpTables BY <1>2, <3>2, <3>3, NewHeadsUpEven
    <3> HIDE DEF table
    <3>5. heap \in Seq(HeadsUpTables) /\ Len(heap) = Len(games) + 1
      BY <3>1, <3>4, GamesGrown DEF DoorGameSet
    <3> HIDE DEF heap
    <3>6. PICK s : s = [screen EXCEPT !.wallet = c.copy] OBVIOUS
    <3>7. s \in DoorScreens BY <1>2, <1>5, <3>6, ShowWallet
    <3>8. NewHand(s, heap, Len(games) + 1) BY <1>12, <2>2, <3>6 DEF GotBuyIn, heap, table, bb
    <3>9. Len(heap) >= Len(games) /\ Len(games) + 1 \in 1 .. Len(heap) BY <1>2, <3>5
    <3>10. /\ games' \in Seq(DoorGameSet) /\ Len(games') = Len(heap)
           /\ screen' \in DoorScreens /\ screen'.game = Len(games) + 1
      BY <3>1, <3>5, <3>7, <3>8, <3>9, NewHandTypes
    <3>11. CmdsOk(cmds', Len(games')) BY <1>2, <1>3, <3>5, <3>10, CmdsWithin
    <3>12. DoorTypes' BY <1>1, <1>2, <3>1, <3>5, <3>10, <3>11, TypesStep DEF DoorTypes
    <3>13. QED BY <1>1, <1>2, <3>1, <3>5, <3>10, <3>12 DEF Keeps
  <2>3. QED BY <2>1, <2>2
<1>13. QED BY <1>1, <1>6, <1>7, <1>8, <1>9, <1>10, <1>11, <1>12 DEF c

-----------------------------------------------------------------------------
(* Timers, and the types of every step.                                    *)
LEMMA TickIs ==
  ASSUME DoorTypes, Tick
  PROVE  /\ screen.open /\ screen.ticks > 0
         /\ \E s \in DoorScreens :
              /\ s = [open |-> screen.open, wallet |-> screen.wallet, pending |-> screen.pending,
                      bet |-> screen.bet, game |-> screen.game, spinning |-> screen.spinning,
                      cashedOut |-> screen.cashedOut, dealing |-> FALSE, ticks |-> screen.ticks - 1,
                      advances |-> screen.advances]
              /\ \/ /\ door = "slots" /\ screen.spinning /\ cmds' = cmds
                    /\ screen' = [s EXCEPT !.wallet = screen.pending, !.spinning = FALSE]
                 \/ door = "slots" /\ ~screen.spinning /\ screen' = s /\ cmds' = cmds
                 \/ /\ door = "blackjack" /\ HasGame /\ Here.finished /\ screen' = s
                    /\ Ask(SettleCmd(Here, screen.game))
                 \/ door = "blackjack" /\ ~(HasGame /\ Here.finished) /\ screen' = s /\ cmds' = cmds
                 \/ door = "videopoker" /\ screen' = s /\ cmds' = cmds
                 \/ door = "holdem" /\ screen' = [s EXCEPT !.advances = @ + 1] /\ cmds' = cmds
<1>1. screen.open /\ screen.ticks > 0 BY DEF Tick
<1>2. screen \in DoorScreens /\ screen.ticks - 1 \in Nat
  <2>1. screen \in DoorScreens BY DEF DoorTypes
  <2>2. screen.ticks \in Nat BY <2>1 DEF DoorScreens
  <2>3. QED BY <1>1, <2>1, <2>2
<1>3. PICK n \in Nat : n = screen.ticks - 1 BY <1>2
<1>4. PICK b \in BOOLEAN : b = FALSE OBVIOUS
<1>5. PICK s : s = [screen EXCEPT !.ticks = n, !.dealing = b] OBVIOUS
<1>6. s \in DoorScreens BY <1>2, <1>5, ShowTick
<1>7. s = [open |-> screen.open, wallet |-> screen.wallet, pending |-> screen.pending,
           bet |-> screen.bet, game |-> screen.game, spinning |-> screen.spinning,
           cashedOut |-> screen.cashedOut, dealing |-> b, ticks |-> n, advances |-> screen.advances]
  <2>1. screen = [open |-> screen.open, wallet |-> screen.wallet, pending |-> screen.pending,
                  bet |-> screen.bet, game |-> screen.game, spinning |-> screen.spinning,
                  cashedOut |-> screen.cashedOut, dealing |-> screen.dealing, ticks |-> screen.ticks,
                  advances |-> screen.advances]
    BY <1>2 DEF DoorScreens
  <2>2. QED BY <1>5, <2>1
<1>8. s = [screen EXCEPT !.ticks = @ - 1, !.dealing = FALSE] BY <1>3, <1>4, <1>5
<1>9. /\ door = "slots" => /\ screen' = IF screen.spinning
                                       THEN [s EXCEPT !.wallet = screen.pending, !.spinning = FALSE] ELSE s
                           /\ cmds' = cmds
      /\ door = "blackjack" => /\ screen' = s
                               /\ IF HasGame /\ Here.finished THEN Ask(SettleCmd(Here, screen.game))
                                  ELSE cmds' = cmds
      /\ door = "videopoker" => screen' = s /\ cmds' = cmds
      /\ door = "holdem" => screen' = [s EXCEPT !.advances = @ + 1] /\ cmds' = cmds
  BY <1>8 DEF Tick
<1>10. door \in {"slots", "blackjack", "videopoker", "holdem"} BY DEF DoorTypes
<1>11. QED
  <2>1. s = [open |-> screen.open, wallet |-> screen.wallet, pending |-> screen.pending,
             bet |-> screen.bet, game |-> screen.game, spinning |-> screen.spinning,
             cashedOut |-> screen.cashedOut, dealing |-> FALSE, ticks |-> screen.ticks - 1,
             advances |-> screen.advances]
    BY <1>3, <1>4, <1>7
  <2>2. CASE door = "slots" BY <1>1, <1>6, <1>9, <2>1, <2>2
  <2>3. CASE door = "blackjack" BY <1>1, <1>6, <1>9, <2>1, <2>3
  <2>4. CASE door = "videopoker" BY <1>1, <1>6, <1>9, <2>1, <2>4
  <2>5. CASE door = "holdem" BY <1>1, <1>6, <1>9, <2>1, <2>5
  <2>6. QED BY <1>10, <2>2, <2>3, <2>4, <2>5

LEMMA TickTypes == ASSUME DoorTypes, Tick PROVE DoorTypes' /\ Keeps
<1>1. PICK s \in DoorScreens :
              /\ s = [open |-> screen.open, wallet |-> screen.wallet, pending |-> screen.pending,
                      bet |-> screen.bet, game |-> screen.game, spinning |-> screen.spinning,
                      cashedOut |-> screen.cashedOut, dealing |-> FALSE, ticks |-> screen.ticks - 1,
                      advances |-> screen.advances]
              /\ \/ /\ door = "slots" /\ screen.spinning /\ cmds' = cmds
                    /\ screen' = [s EXCEPT !.wallet = screen.pending, !.spinning = FALSE]
                 \/ door = "slots" /\ ~screen.spinning /\ screen' = s /\ cmds' = cmds
                 \/ /\ door = "blackjack" /\ HasGame /\ Here.finished /\ screen' = s
                    /\ Ask(SettleCmd(Here, screen.game))
                 \/ door = "blackjack" /\ ~(HasGame /\ Here.finished) /\ screen' = s /\ cmds' = cmds
                 \/ door = "videopoker" /\ screen' = s /\ cmds' = cmds
                 \/ door = "holdem" /\ screen' = [s EXCEPT !.advances = @ + 1] /\ cmds' = cmds
  BY TickIs
<1>2. s.game = screen.game /\ s.advances = screen.advances BY <1>1
<1>3. UNCHANGED <<door, balance, ledger, games, lost, failed>> BY DEF Tick
<1>4. Keeps BY <1>3, DoorFacts DEF Keeps
<1>5. screen.game <= Len(games) /\ (door # "holdem" => screen.advances = 0) BY DEF DoorTypes
<1>6. ASSUME screen' \in DoorScreens, screen'.game = screen.game, door # "holdem" => screen'.advances = 0,
             cmds' = cmds
      PROVE  DoorTypes'
  BY <1>3, <1>5, <1>6, TypesStep DEF DoorTypes
<1>7. CASE screen' = s /\ cmds' = cmds BY <1>2, <1>4, <1>5, <1>6, <1>7
<1>8. CASE screen' = [s EXCEPT !.wallet = screen.pending, !.spinning = FALSE] /\ cmds' = cmds
  <2>1. screen.pending \in Int BY DEF DoorTypes, DoorScreens
  <2>2. PICK w \in Int : w = screen.pending BY <2>1
  <2>3. PICK x : x = [s EXCEPT !.wallet = w, !.spinning = FALSE] OBVIOUS
  <2>4. x \in DoorScreens /\ x.game = s.game /\ x.advances = s.advances BY <2>3, ShowReels
  <2>5. screen' = x BY <1>8, <2>2, <2>3
  <2>6. QED BY <1>2, <1>4, <1>5, <1>6, <1>8, <2>4, <2>5
<1>9. CASE door = "holdem" /\ screen' = [s EXCEPT !.advances = @ + 1] /\ cmds' = cmds
  <2>1. s.advances + 1 \in Nat BY DEF DoorScreens
  <2>2. PICK n \in Nat : n = s.advances + 1 BY <2>1
  <2>3. PICK x : x = [s EXCEPT !.advances = n] OBVIOUS
  <2>4. x \in DoorScreens /\ x.game = s.game BY <2>3, ShowAdvance
  <2>5. screen' = x BY <1>9, <2>2, <2>3
  <2>6. QED BY <1>2, <1>4, <1>5, <1>6, <1>9, <2>4, <2>5
<1>10. CASE door = "blackjack" /\ HasGame /\ screen' = s /\ Ask(SettleCmd(Here, screen.game))
  <2>1. screen.game \in 1 .. Len(games) /\ Here \in BlackjackHands BY <1>10, DoorFacts DEF DoorGameSet
  <2>2. PICK c : c = SettleCmd(Here, screen.game) OBVIOUS
  <2>3. c \in DoorCmds /\ c.g = screen.game /\ c.st # "draw" BY <1>10, <2>1, <2>2, SettleCmdType
  <2>4. Ask(c) BY <1>10, <2>2
  <2>5. DoorTypes' BY <1>2, <1>3, <1>5, <1>10, <2>3, <2>4, AskTypes DEF DoorTypes
  <2>6. QED BY <1>4, <2>5
<1>11. QED BY <1>1, <1>7, <1>8, <1>9, <1>10

LEMMA DoorInitTypes == ASSUME DoorInit PROVE DoorTypes
<1>1. /\ door \in {"slots", "blackjack", "videopoker", "holdem"}
      /\ balance = Purse /\ ledger = 0 /\ lost = 0 /\ failed = FALSE
      /\ screen = [NewScreen EXCEPT !.open = FALSE] /\ games = <<>> /\ cmds = <<>>
  BY DoorAssumption DEF DoorInit
<1>2. screen \in DoorScreens /\ screen.game = 0 /\ screen.advances = 0
  BY <1>1, NewScreenType DEF DoorScreens
<1>3. games \in Seq(DoorGameSet) /\ Len(games) = 0 /\ cmds \in Seq(DoorCmds) /\ DOMAIN cmds = {}
  BY <1>1, EmptySeq
<1>4. CmdsOk(cmds, Len(games)) BY <1>3 DEF CmdsOk
<1>5. balance \in Int /\ ledger \in Int /\ lost \in Int /\ failed \in BOOLEAN
  <2>1. Purse \in Nat BY DoorAssumption
  <2>2. Purse \in Int BY <2>1
  <2>3. balance \in Int /\ ledger \in Int /\ lost \in Int BY <1>1, <2>2
  <2>4. failed \in BOOLEAN BY <1>1
  <2>5. QED BY <2>3, <2>4
<1>6. screen.game <= Len(games) BY <1>2, <1>3
<1>7. QED BY <1>1, <1>2, <1>3, <1>4, <1>5, <1>6 DEF DoorTypes

LEMMA DoorNextTypes == ASSUME DoorTypes, [DoorNext]_doorVars PROVE DoorTypes' /\ Keeps
<1>1. CASE UNCHANGED doorVars
  <2>1. UNCHANGED <<door, balance, ledger, screen, games, cmds, lost, failed>> BY <1>1 DEF doorVars
  <2>2. DoorTypes' BY <2>1, TypesStep DEF DoorTypes
  <2>3. QED BY <2>1, <2>2, DoorFacts DEF Keeps
<1>2. CASE DoorNext
  BY <1>2, EnterTypes, EscTypes, PressKeyTypes, AdvanceTypes, RunTypes, AnswerTypes, TickTypes DEF DoorNext
<1>3. QED BY <1>1, <1>2

-----------------------------------------------------------------------------
(* The chips of a heads-up table.                                          *)
LEMMA EvenTableKept ==
  ASSUME NEW g \in HeadsUpTables, EvenTable(g), NEW h, Even(g, h) PROVE EvenTable(h)
BY DEF EvenTable, Even

LEMMA EvenHeap ==
  ASSUME NEW heap \in Seq(HeadsUpTables), \A i \in 1 .. Len(heap) : EvenTable(heap[i]),
         NEW k \in 1 .. Len(heap), NEW g \in HeadsUpTables, EvenTable(g),
         games' = [heap EXCEPT ![k] = g]
  PROVE  \A i \in DOMAIN games' : EvenTable(games'[i])
<1>1. Len(heap) \in Nat /\ DOMAIN heap = 1 .. Len(heap) BY LenProperties
<1>2. DOMAIN games' = 1 .. Len(heap) BY <1>1
<1>3. \A i \in 1 .. Len(heap) : games'[i] = IF i = k THEN g ELSE heap[i] BY <1>1
<1>4. QED BY <1>2, <1>3

LEMMA HeadsUpFacts ==
  ASSUME DoorTypes, HeadsUpInv, door = "holdem"
  PROVE  /\ games \in Seq(HeadsUpTables) /\ DOMAIN games = 1 .. Len(games)
         /\ \A i \in 1 .. Len(games) : EvenTable(games[i])
         /\ HasGame => screen.game \in 1 .. Len(games) /\ Here \in HeadsUpTables /\ EvenTable(Here)
         /\ cmds = <<>> \/ Len(cmds) = 1
<1>1. games \in Seq(HeadsUpTables) BY DEF DoorTypes, DoorGameSet
<1>2. DOMAIN games = 1 .. Len(games) BY <1>1, LenProperties
<1>3. \A i \in 1 .. Len(games) : EvenTable(games[i]) BY <1>2 DEF HeadsUpInv
<1>4. HasGame => screen.game \in 1 .. Len(games) /\ Here \in HeadsUpTables BY DoorFacts DEF DoorGameSet
<1>5. HasGame => EvenTable(Here) BY <1>3, <1>4 DEF Here
<1>6. cmds = <<>> \/ Len(cmds) = 1
  <2>1. cmds \in Seq(DoorCmds) /\ Len(cmds) \in Nat BY DoorFacts DEF DoorTypes, CmdsOk
  <2>2. Len(cmds) <= 1 BY DEF HeadsUpInv
  <2>3. Len(cmds) = 0 => cmds = <<>> BY <2>1, EmptySeq
  <2>4. Len(cmds) = 0 \/ Len(cmds) = 1
    <3>1. PICK n \in Nat : n = Len(cmds) BY <2>1
    <3>2. n <= 1 BY <2>2, <3>1
    <3>3. QED BY <3>1, <3>2
  <2>5. QED BY <2>3, <2>4
<1>7. QED BY <1>1, <1>2, <1>3, <1>4, <1>5, <1>6

\* The tables after a step, and the command that may be under way.
LEMMA HeadsUpStep ==
  ASSUME DoorTypes, door = "holdem", door' = door, \A i \in DOMAIN games' : EvenTable(games'[i]),
         \/ cmds' = <<>>
         \/ \E c : cmds' = <<c>> /\ (c.kind = "buyin" => c.bet = screen'.bet)
  PROVE  HeadsUpInv'
<1>1. CASE cmds' = <<>> BY <1>1 DEF HeadsUpInv
<1>2. CASE \E c : cmds' = <<c>> /\ (c.kind = "buyin" => c.bet = screen'.bet)
  <2>1. PICK c : cmds' = <<c>> /\ (c.kind = "buyin" => c.bet = screen'.bet) BY <1>2
  <2>2. Len(cmds') = 1 /\ DOMAIN cmds' = {1} /\ cmds'[1] = c BY <2>1
  <2>3. QED BY <2>1, <2>2 DEF HeadsUpInv
<1>3. QED BY <1>1, <1>2

LEMMA HeadsUpKept ==
  ASSUME DoorTypes, HeadsUpInv, door = "holdem", door' = door, \A i \in DOMAIN games' : EvenTable(games'[i]),
         cmds' = cmds, screen'.bet = screen.bet
  PROVE  HeadsUpInv'
BY DEF HeadsUpInv

LEMMA KeyIsQuiet == ASSUME Key("holdem"), "holdem" \in Patient PROVE Quiet /\ cmds = <<>> /\ screen.open
BY DEF Key, Quiet

LEMMA AskOne == ASSUME NEW c, cmds = <<>>, Ask(c) PROVE cmds' = <<c>>
BY DEF Ask

LEMMA DealIs ==
  ASSUME NEW s \in DoorScreens PROVE Deal(s).bet = s.bet
BY DEF Deal, DoorScreens

LEMMA EvenStart ==
  ASSUME DoorTypes, door = "holdem", NEW scr, NEW heap \in Seq(HeadsUpTables), NEW k \in 1 .. Len(heap),
         \A i \in 1 .. Len(heap) : EvenTable(heap[i]), InPlay(heap[k]) = 0, NewHand(scr, heap, k)
  PROVE  \A i \in DOMAIN games' : EvenTable(games'[i])
<1>1. heap[k] \in HeadsUpTables /\ EvenTable(heap[k]) BY ElementOfSeq
<1> DEFINE h == StartHand(heap[k])
<1>2. /\ h \in HeadsUpTables /\ h.stake = heap[k].stake /\ h.street # Ended
      /\ h.stacks[1] + h.stacks[2] + InPlay(h) = heap[k].stacks[1] + heap[k].stacks[2]
  BY <1>1, StartHandEven
<1>3. games' = [heap EXCEPT ![k] = h] BY DEF NewHand
<1> HIDE DEF h
<1>4. heap[k].stacks[1] \in Nat /\ heap[k].stacks[2] \in Nat
  <2>1. heap[k].stacks \in [1 .. 2 -> Nat] BY <1>1 DEF HeadsUpTables
  <2>2. QED BY <2>1
<1>5. EvenTable(h) BY <1>1, <1>2, <1>4 DEF EvenTable
<1>6. QED BY <1>2, <1>3, <1>5, EvenHeap

LEMMA HoldemEven ==
  ASSUME DoorTypes, HeadsUpInv, "holdem" \in Patient, HoldemKey, door' = door
  PROVE  HeadsUpInv'
<1>1. door = "holdem" /\ cmds = <<>> BY KeyIsQuiet DEF HoldemKey, Key
<1>2. \A i \in DOMAIN games : EvenTable(games[i]) BY <1>1 DEF HeadsUpInv
<1>3. CASE ChangeBet(~HasGame)
  <2>1. cmds' = <<>> /\ games' = games BY <1>1, <1>3 DEF ChangeBet
  <2>2. QED BY <1>1, <1>2, <2>1, HeadsUpStep
<1>4. CASE Buy("buyin", screen)
  <2>1. screen' = screen /\ games' = games /\ (Ask(Cmd("buyin", "bet", 0, 0)) \/ cmds' = cmds)
    BY <1>4 DEF Buy
  <2>2. CASE cmds' = cmds BY <1>1, <1>2, <2>1, <2>2, HeadsUpStep
  <2>3. CASE Ask(Cmd("buyin", "bet", 0, 0))
    <3>1. PICK c : c = Cmd("buyin", "bet", 0, 0) OBVIOUS
    <3>2. cmds' = <<c>> BY <1>1, <2>3, <3>1, AskOne
    <3>3. c.bet = screen.bet BY <3>1 DEF Cmd
    <3>4. QED BY <1>1, <1>2, <2>1, <3>2, <3>3, HeadsUpStep
  <2>4. QED BY <2>1, <2>2, <2>3
<1>5. CASE HasGame /\ ~InHand /\ NewHand(screen, [games EXCEPT ![screen.game] = AdvanceButton(@)], screen.game) /\ UNCHANGED cmds
  <2> DEFINE heap == [games EXCEPT ![screen.game] = AdvanceButton(Here)]
             b == AdvanceButton(Here)
  <2>1. screen.game \in 1 .. Len(games) /\ Here \in HeadsUpTables /\ EvenTable(Here)
    BY <1>1, <1>5, HeadsUpFacts
  <2>2. InPlay(Here) = 0 BY <1>5, <2>1 DEF InHand, EvenTable
  <2>3. b \in HeadsUpTables /\ b.stacks = Here.stacks /\ b.bets = Here.bets /\ b.pot = Here.pot /\ b.stake = Here.stake
    BY <2>1, ButtonType
  <2>4. heap = [games EXCEPT ![screen.game] = b] /\ b = AdvanceButton(Here) OBVIOUS
  <2>5. NewHand(screen, heap, screen.game) BY <1>5 DEF Here
  <2> HIDE DEF b
  <2> HIDE DEF heap
  <2>6. InPlay(b) = 0 /\ EvenTable(b) BY <2>1, <2>2, <2>3 DEF InPlay, EvenTable
  <2>7. b \in DoorGameSet BY <1>1, <2>3 DEF DoorGameSet
  <2>8. /\ heap \in Seq(DoorGameSet) /\ Len(heap) = Len(games) /\ heap[screen.game] = b
        /\ \A i \in 1 .. Len(games) : i # screen.game => heap[i] = games[i]
    BY <2>1, <2>4, <2>7, GamesReplaced
  <2>9. heap \in Seq(HeadsUpTables) BY <1>1, <2>8 DEF DoorGameSet
  <2>10. \A i \in 1 .. Len(heap) : EvenTable(heap[i]) BY <1>1, <2>6, <2>8, HeadsUpFacts
  <2>11. \A i \in DOMAIN games' : EvenTable(games'[i])
    BY <1>1, <2>1, <2>5, <2>6, <2>8, <2>9, <2>10, EvenStart
  <2>12. QED BY <1>1, <1>5, <2>11, HeadsUpStep
<1>6. CASE ApplyPlayer
  <2>1. HasGame /\ Here.street # Ended BY <1>6 DEF ApplyPlayer, InHand
  <2>2. screen.game \in 1 .. Len(games) /\ Here \in HeadsUpTables /\ EvenTable(Here)
    BY <1>1, <2>1, HeadsUpFacts
  <2>3. PICK a \in HeadsUpActions : \E g \in ApplyAction(Here, Player, a) : AfterStateChange(g, screen)
    BY <1>6 DEF ApplyPlayer
  <2>4. PICK g \in ApplyAction(Here, Player, a) : AfterStateChange(g, screen) BY <2>3
  <2>5. Even(Here, g) BY <2>1, <2>2, <2>4, ApplyActionEven DEF Player
  <2>6. g \in HeadsUpTables /\ EvenTable(g) BY <2>2, <2>5, EvenTableKept DEF Even
  <2>7. games' = [games EXCEPT ![screen.game] = g] /\ cmds' = cmds BY <2>4 DEF AfterStateChange
  <2>8. \A i \in DOMAIN games' : EvenTable(games'[i]) BY <1>1, <2>2, <2>6, <2>7, HeadsUpFacts, EvenHeap
  <2>9. QED BY <1>1, <2>7, <2>8, HeadsUpStep
<1>7. CASE CashOut(screen)
  <2>1. PICK st : Ask(Cmd("cashout", st, screen.game, Here.stacks[Player])) /\ games' = games
    BY <1>7 DEF CashOut
  <2>2. PICK c : c = Cmd("cashout", st, screen.game, Here.stacks[Player]) OBVIOUS
  <2>3. c.kind = "cashout" BY <2>2 DEF Cmd
  <2>4. cmds' = <<c>> BY <1>1, <2>1, <2>2, AskOne
  <2>5. QED BY <1>1, <1>2, <2>1, <2>3, <2>4, HeadsUpStep
<1>8. QED BY <1>3, <1>4, <1>5, <1>6, <1>7 DEF HoldemKey

LEMMA EscEven ==
  ASSUME DoorTypes, HeadsUpInv, "holdem" \in Patient, door = "holdem", Esc
  PROVE  HeadsUpInv'
<1>1. cmds = <<>> /\ door' = door BY KeyIsQuiet DEF Esc
<1>2. \A i \in DOMAIN games : EvenTable(games[i]) BY DEF HeadsUpInv
<1>3. CASE CashOut(Closed)
  <2>1. PICK st : Ask(Cmd("cashout", st, screen.game, Here.stacks[Player])) /\ games' = games
    BY <1>3 DEF CashOut
  <2>2. PICK c : c = Cmd("cashout", st, screen.game, Here.stacks[Player]) OBVIOUS
  <2>3. c.kind = "cashout" BY <2>2 DEF Cmd
  <2>4. cmds' = <<c>> BY <1>1, <2>1, <2>2, AskOne
  <2>5. QED BY <1>1, <1>2, <2>1, <2>3, <2>4, HeadsUpStep
<1>4. CASE UNCHANGED <<cmds, games>> BY <1>1, <1>2, <1>4, HeadsUpStep
<1>5. QED BY <1>3, <1>4 DEF Esc

LEMMA AdvanceEven ==
  ASSUME DoorTypes, HeadsUpInv, door = "holdem", Advance
  PROVE  HeadsUpInv'
<1> DEFINE scr == [screen EXCEPT !.advances = @ - 1]
<1>1. scr \in DoorScreens /\ scr.bet = screen.bet
  <2>1. screen.advances - 1 \in Nat BY DEF Advance, DoorTypes, DoorScreens
  <2>2. QED BY <2>1 DEF DoorTypes, DoorScreens
<1>2. door' = door BY DEF Advance
<1>3. IF InHand /\ Here.toAct = Bot THEN \E g \in StepBot(Here) : AfterStateChange(g, scr)
      ELSE screen' = scr /\ UNCHANGED <<games, cmds>>
  BY DEF Advance
<1> HIDE DEF scr
<1>4. CASE InHand /\ Here.toAct = Bot
  <2>1. PICK g \in StepBot(Here) : AfterStateChange(g, scr) BY <1>3, <1>4
  <2>2. PICK a \in BotPolicy(Here) : g \in ApplyAction(Here, Bot, a) BY DEF StepBot
  <2>3. HasGame /\ Here.street # Ended BY <1>4 DEF InHand
  <2>4. screen.game \in 1 .. Len(games) /\ Here \in HeadsUpTables /\ EvenTable(Here) BY <2>3, HeadsUpFacts
  <2>5. a \in HeadsUpActions BY DEF BotPolicy, HeadsUpActions
  <2>6. Even(Here, g) BY <2>2, <2>3, <2>4, <2>5, ApplyActionEven DEF Bot
  <2>7. g \in HeadsUpTables /\ EvenTable(g) BY <2>4, <2>6, EvenTableKept DEF Even
  <2>8. games' = [games EXCEPT ![screen.game] = g] /\ cmds' = cmds
        /\ screen' \in {Deal(scr), [scr EXCEPT !.advances = @ + 1]}
    BY <2>1 DEF AfterStateChange
  <2>9. \A i \in DOMAIN games' : EvenTable(games'[i]) BY <2>4, <2>7, <2>8, HeadsUpFacts, EvenHeap
  <2>10. [scr EXCEPT !.advances = @ + 1].bet = scr.bet BY <1>1 DEF DoorScreens
  <2>11. screen'.bet = screen.bet BY <1>1, <2>8, <2>10, DealIs
  <2>12. QED BY <1>2, <2>8, <2>9, <2>11, HeadsUpKept
<1>5. CASE ~(InHand /\ Here.toAct = Bot)
  <2>1. screen' = scr /\ UNCHANGED <<games, cmds>> BY <1>3, <1>5
  <2>2. \A i \in DOMAIN games' : EvenTable(games'[i]) BY <2>1 DEF HeadsUpInv
  <2>3. QED BY <1>1, <1>2, <2>1, <2>2, HeadsUpKept
<1>6. QED BY <1>4, <1>5
LEMMA AnswerEven ==
  ASSUME DoorTypes, HeadsUpInv, door = "holdem", Answer
  PROVE  HeadsUpInv'
<1>1. PICK i \in DOMAIN cmds :
           /\ cmds[i].st = "done" /\ cmds' = RemoveAt(cmds, i)
           /\ UNCHANGED <<door, balance, ledger, lost, failed>>
           /\ \/ ~screen.open /\ UNCHANGED <<screen, games>>
              \/ screen.open /\ cmds[i].kind = "buyin" /\ GotBuyIn(cmds[i])
              \/ screen.open /\ cmds[i].kind = "spin" /\ GotSpin(cmds[i]) /\ UNCHANGED games
              \/ screen.open /\ cmds[i].kind \in {"load", "double"} /\ GotWallet(cmds[i]) /\ UNCHANGED games
              \/ screen.open /\ cmds[i].kind = "deal" /\ GotDeal(cmds[i]) /\ UNCHANGED games
              \/ screen.open /\ cmds[i].kind = "settle" /\ GotSettled(cmds[i]) /\ UNCHANGED games
              \/ screen.open /\ cmds[i].kind = "draw" /\ GotDrawn(cmds[i]) /\ UNCHANGED games
              \/ screen.open /\ cmds[i].kind = "cashout" /\ GotCashOut(cmds[i]) /\ UNCHANGED games
  BY AnswerIs
<1>2. cmds' = <<>>
  <2>1. Len(cmds) \in Nat /\ DOMAIN cmds = 1 .. Len(cmds) /\ cmds # <<>> /\ Len(cmds) <= 1
    BY <1>1, DoorFacts DEF HeadsUpInv
  <2>2. Len(cmds) = 1 BY <1>1, <2>1
  <2>3. CmdsOk(cmds, Len(games)) /\ Len(games) \in Nat BY DoorFacts DEF DoorTypes
  <2>4. CmdsOk(RemoveAt(cmds, i), Len(games)) /\ Len(RemoveAt(cmds, i)) = Len(cmds) - 1 BY <1>1, <2>3, CmdsGone
  <2>5. cmds' \in Seq(DoorCmds) /\ Len(cmds') = 0 BY <1>1, <2>2, <2>4 DEF CmdsOk
  <2>6. QED BY <2>5, EmptySeq
<1>3. door' = door BY <1>1
<1>4. CASE UNCHANGED games
  <2>1. \A j \in DOMAIN games' : EvenTable(games'[j]) BY <1>4 DEF HeadsUpInv
  <2>2. QED BY <1>2, <1>3, <2>1, HeadsUpStep
<1>5. CASE cmds[i].kind = "buyin" /\ GotBuyIn(cmds[i])
  <2>1. CASE cmds[i].err
    <3>1. UNCHANGED games BY <1>5, <2>1 DEF GotBuyIn
    <3>2. QED BY <1>4, <3>1
  <2>2. CASE ~cmds[i].err
    <3> DEFINE bb == IF screen.bet \div 50 < 2 THEN 2 ELSE screen.bet \div 50
               table == Staked(NewHeadsUp(screen.bet, bb), cmds[i].bet)
               heap == Append(games, table)
    <3>1. screen.bet \in Nat BY DoorFacts
    <3>2. bb \in Nat BY <3>1
    <3> HIDE DEF bb
    <3>3. cmds[i].bet = screen.bet BY <1>5 DEF HeadsUpInv
    <3>4. /\ table \in HeadsUpTables /\ table.stake = screen.bet /\ InPlay(table) = 0
          /\ table.stacks[1] = screen.bet /\ table.stacks[2] = screen.bet
      BY <3>1, <3>2, <3>3, NewHeadsUpEven
    <3>5. PICK s : s = [screen EXCEPT !.wallet = cmds[i].copy] OBVIOUS
    <3>6. NewHand(s, heap, Len(games) + 1) BY <1>5, <2>2, <3>5 DEF GotBuyIn, bb
    <3> HIDE DEF table
    <3>7. EvenTable(table) BY <3>1, <3>4 DEF EvenTable
    <3>8. table \in DoorGameSet BY <3>4 DEF DoorGameSet
    <3>9. /\ heap \in Seq(DoorGameSet) /\ Len(heap) = Len(games) + 1 /\ heap[Len(games) + 1] = table
          /\ \A j \in 1 .. Len(games) : heap[j] = games[j]
      BY <3>8, GamesGrown
    <3> HIDE DEF heap
    <3>10. heap \in Seq(HeadsUpTables) BY <3>9 DEF DoorGameSet
    <3>11. Len(games) \in Nat BY DoorFacts
    <3>12. \A j \in 1 .. Len(heap) : EvenTable(heap[j])
      <4>1. \A j \in 1 .. Len(games) : EvenTable(games[j]) BY HeadsUpFacts
      <4>2. QED BY <3>7, <3>9, <3>11, <4>1
    <3>13. Len(games) + 1 \in 1 .. Len(heap) BY <3>9, <3>11
    <3>14. \A j \in DOMAIN games' : EvenTable(games'[j])
      BY <3>4, <3>6, <3>9, <3>10, <3>12, <3>13, EvenStart
    <3>15. QED BY <1>2, <1>3, <3>14, HeadsUpStep
  <2>3. QED BY <2>1, <2>2
<1>6. QED BY <1>1, <1>4, <1>5

LEMMA EnterEven ==
  ASSUME DoorTypes, HeadsUpInv, door = "holdem", Enter
  PROVE  HeadsUpInv'
<1>1. PICK c : c = [kind |-> "load", st |-> "load", copy |-> 0, bet |-> 0, g |-> 0, pay |-> 0, err |-> FALSE]
  OBVIOUS
<1>2. cmds = <<>> /\ cmds' = Append(cmds, c) /\ door' = door /\ games' = games BY <1>1 DEF Enter, Quiet
<1>3. cmds' = <<c>> /\ c.kind = "load" BY <1>1, <1>2
<1>4. \A i \in DOMAIN games' : EvenTable(games'[i]) BY <1>2 DEF HeadsUpInv
<1>5. QED BY <1>2, <1>3, <1>4, HeadsUpStep

LEMMA TickEven ==
  ASSUME DoorTypes, HeadsUpInv, door = "holdem", Tick
  PROVE  HeadsUpInv'
<1>1. PICK s \in DoorScreens :
        /\ s.bet = screen.bet
        /\ screen' = [s EXCEPT !.advances = @ + 1] /\ cmds' = cmds
  BY TickIs
<1>2. screen'.bet = screen.bet BY <1>1 DEF DoorScreens
<1>3. door' = door /\ games' = games BY DEF Tick
<1>4. \A i \in DOMAIN games' : EvenTable(games'[i]) BY <1>3 DEF HeadsUpInv
<1>5. QED BY <1>1, <1>2, <1>3, <1>4, HeadsUpKept

\* A statement leaves the kind and the bet of its command alone.
LEMMA RunEven ==
  ASSUME DoorTypes, HeadsUpInv, door = "holdem", RunCommand
  PROVE  HeadsUpInv'
<1>1. PICK i \in DOMAIN cmds :
        LoadWallet(i) \/ BetStatement(i) \/ DrawCards(i) \/ CreditStatement(i) \/ RecordStatement(i)
  BY DEF RunCommand
<1>2. door' = door /\ screen' = screen BY DEF RunCommand
<1>3. cmds[i] \in DoorCmds /\ cmds[i].kind \in {"load", "buyin", "cashout"} BY <1>1, DoorFacts DEF DoorCmds, DoorKinds
<1> DEFINE Same(c) == c.kind = cmds[i].kind /\ c.bet = cmds[i].bet /\ cmds' = [cmds EXCEPT ![i] = c]
<1>9. ASSUME NEW st, NEW w, NEW p, NEW e, cmds' = [cmds EXCEPT ![i] = Becomes(i, st, w, p, e)]
      PROVE  \E c : Same(c)
  <2>1. Same(Becomes(i, st, w, p, e)) BY <1>9 DEF Becomes
  <2> HIDE DEF Same
  <2>2. QED BY <2>1
<1>10. ASSUME NEW st, NEW w, cmds' = [cmds EXCEPT ![i] = Becomes(i, st, w, cmds[i].pay, TRUE)]
      PROVE  \E c : Same(c)
  <2>1. PICK e : e = TRUE OBVIOUS
  <2>2. cmds' = [cmds EXCEPT ![i] = Becomes(i, st, w, cmds[i].pay, e)] BY <1>10, <2>1
  <2> HIDE DEF Same
  <2>3. QED BY <1>9, <2>2
<1> HIDE DEF Same
<1>4. games' = games /\ \E c : Same(c)
  <2>1. CASE LoadWallet(i)
    <3>1. games' = games BY <2>1, LoadIs
    <3>2. \/ cmds' = [cmds EXCEPT ![i] = Becomes(i, "done", balance, cmds[i].pay, cmds[i].err)]
          \/ cmds' = [cmds EXCEPT ![i] = Becomes(i, "done", cmds[i].copy, cmds[i].pay, TRUE)]
      BY <2>1, LoadIs
    <3>3. QED BY <1>9, <1>10, <3>1, <3>2
  <2>2. CASE BetStatement(i)
    <3> DEFINE w == cmds[i].copy - cmds[i].bet
    <3>1. /\ games' = games
          /\ \/ cmds' = [cmds EXCEPT ![i] = Becomes(i, "done", cmds[i].copy, cmds[i].pay, TRUE)]
             \/ cmds' = [cmds EXCEPT ![i] = Becomes(i, "done", w, cmds[i].pay, cmds[i].err)]
      BY <1>3, <2>2, BetIs
    <3> HIDE DEF w
    <3>2. QED BY <1>9, <1>10, <3>1
  <2>3. CASE CreditStatement(i)
    <3>1. games' = games BY <2>3, CreditIs
    <3> DEFINE w == cmds[i].copy + cmds[i].pay
    <3>2. \/ cmds' = [cmds EXCEPT ![i] = Becomes(i, "record", w, cmds[i].pay, cmds[i].err)]
          \/ cmds' = [cmds EXCEPT ![i] = Becomes(i, "done", w, cmds[i].pay, TRUE)]
      BY <2>3, CreditIs
    <3> HIDE DEF w
    <3>3. QED BY <1>9, <1>10, <3>1, <3>2
  <2>4. CASE RecordStatement(i)
    <3>1. games' = games BY <2>4, RecordIs
    <3>2. cmds' = [cmds EXCEPT ![i] = Becomes(i, "done", cmds[i].copy, cmds[i].pay, cmds[i].err)]
      BY <2>4, RecordIs
    <3>3. QED BY <1>9, <1>10, <3>1, <3>2
  <2>5. ~DrawCards(i)
    <3>1. cmds[i].st = "draw" => cmds[i].kind = "draw" BY <1>1 DEF DoorTypes, CmdsOk
    <3>2. QED BY <1>3, <3>1 DEF DrawCards
  <2>6. QED BY <1>1, <2>1, <2>2, <2>3, <2>4, <2>5
<1>5. PICK c : c.kind = cmds[i].kind /\ c.bet = cmds[i].bet /\ cmds' = [cmds EXCEPT ![i] = c] BY <1>4 DEF Same
<1>6. cmds \in Seq(DoorCmds) /\ Len(cmds) \in Nat /\ DOMAIN cmds = 1 .. Len(cmds) BY DoorFacts DEF DoorTypes, CmdsOk
<1>7. Len(cmds') = Len(cmds) /\ DOMAIN cmds' = DOMAIN cmds /\ \A j \in DOMAIN cmds : cmds'[j] = IF j = i THEN c ELSE cmds[j]
  BY <1>5, <1>6
<1>8. QED BY <1>2, <1>4, <1>5, <1>7 DEF HeadsUpInv

LEMMA HeadsUpInvKept ==
  ASSUME DoorTypes, HeadsUpInv, "holdem" \in Patient, [DoorNext]_doorVars
  PROVE  HeadsUpInv'
<1>1. door' = door BY DoorNextTypes DEF Keeps
<1>2. CASE door # "holdem" BY <1>1, <1>2 DEF HeadsUpInv
<1>3. CASE door = "holdem"
  <2>1. CASE UNCHANGED doorVars
    <3>1. UNCHANGED <<door, screen, games, cmds>> BY <2>1 DEF doorVars
    <3>2. QED BY <3>1 DEF HeadsUpInv
  <2>2. CASE PressKey
    <3>1. HoldemKey BY <1>3, <2>2 DEF PressKey, SlotsKey, BlackjackKey, VideoPokerKey, Key
    <3>2. QED BY <1>1, <3>1, HoldemEven
  <2>3. CASE DoorNext
    BY <1>3, <2>2, <2>3, EnterEven, EscEven, AdvanceEven, RunEven, AnswerEven, TickEven DEF DoorNext
  <2>4. QED BY <2>1, <2>3
<1>4. QED BY <1>2, <1>3

(* Heads-up, the two buy-ins are the two stacks and what is in play, and no *)
(* stack is below nothing, whatever is folded, called short, raised or     *)
(* split, however often a new hand is dealt (engine.go postBet,            *)
(* closeStreet, endByFold, resolveShowdown).  Patient: a second buy-in     *)
(* asked for before the first is answered takes the bet the screen shows   *)
(* by then for the table and its own for the stake.                        *)
THEOREM HeadsUpChipsKept ==
  ASSUME "holdem" \in Patient PROVE DoorSpec => []HeadsUpChips
<1> DEFINE Inv == DoorTypes /\ HeadsUpInv
<1>1. DoorInit => Inv
  <2> SUFFICES ASSUME DoorInit PROVE Inv OBVIOUS
  <2>1. games = <<>> /\ cmds = <<>> BY DEF DoorInit
  <2>2. HeadsUpInv BY <2>1 DEF HeadsUpInv
  <2>3. QED BY <2>2, DoorInitTypes
<1>2. Inv /\ [DoorNext]_doorVars => Inv' BY DoorNextTypes, HeadsUpInvKept
<1>3. Inv => HeadsUpChips
  <2> SUFFICES ASSUME Inv, door = "holdem", NEW i \in DOMAIN games
               PROVE  /\ games[i].stacks[1] + games[i].stacks[2] + InPlay(games[i]) = 2 * games[i].stake
                      /\ games[i].stacks[1] >= 0 /\ games[i].stacks[2] >= 0
    BY DEF HeadsUpChips
  <2>1. EvenTable(games[i]) BY DEF HeadsUpInv
  <2>2. games[i] \in HeadsUpTables BY DoorFacts DEF DoorGameSet
  <2>3. games[i].stacks \in [1 .. 2 -> Nat] BY <2>2 DEF HeadsUpTables
  <2>4. QED BY <2>1, <2>3 DEF EvenTable
<1>4. QED BY <1>1, <1>2, <1>3, PTL DEF DoorSpec

-----------------------------------------------------------------------------
(* The wallet and the record.                                              *)
LEMMA UnderWayIs ==
  ASSUME DoorTypes, UnderWay
  PROVE  \/ cmds = <<>> /\ AtRest
         \/ \E c \in DoorCmds : /\ cmds = <<c>> /\ ~c.err /\ c.g \in 0 .. Len(games)
                                /\ Loads(c) \/ Buys(c) \/ Draws(c) \/ Pays(c)
<1>1. CASE cmds = <<>> BY <1>1 DEF UnderWay
<1>2. CASE cmds # <<>>
  <2>1. Len(cmds) = 1 /\ ~cmds[1].err /\ (Loads(cmds[1]) \/ Buys(cmds[1]) \/ Draws(cmds[1]) \/ Pays(cmds[1]))
    BY <1>2 DEF UnderWay
  <2>2. PICK c : c = cmds[1] OBVIOUS
  <2>3. c \in DoorCmds /\ c.g \in 0 .. Len(games) BY <2>1, <2>2, DoorFacts
  <2>4. cmds = <<c>>
    <3>1. cmds \in Seq(DoorCmds) BY DEF DoorTypes, CmdsOk
    <3>2. QED BY <2>1, <2>2, <3>1
  <2>5. QED BY <2>1, <2>2, <2>3, <2>4
<1>3. QED BY <1>1, <1>2

LEMMA AtRestNext == ASSUME cmds' = <<>>, AtRest' PROVE UnderWay'
BY DEF UnderWay

LEMMA UnderWayNext ==
  ASSUME NEW c, cmds' = <<c>>, ~c.err, Loads(c)' \/ Buys(c)' \/ Draws(c)' \/ Pays(c)'
  PROVE  UnderWay'
<1>1. cmds' # <<>> /\ Len(cmds') = 1 /\ cmds'[1] = c OBVIOUS
<1>2. QED BY <1>1 DEF UnderWay, Loads, Buys, Draws, Pays

\* A command just asked for.
LEMMA CmdFields ==
  ASSUME NEW kind, NEW st, NEW g, NEW pay, NEW c, c = Cmd(kind, st, g, pay)
  PROVE  /\ c.kind = kind /\ c.st = st /\ c.copy = screen.wallet /\ c.bet = screen.bet
         /\ c.g = g /\ c.pay = pay /\ ~c.err
BY DEF Cmd

\* While something is under way no timer runs, and the player's keys wait for none to.
LEMMA AtRestOpen ==
  ASSUME DoorTypes, UnderWay, screen.open, ~Still
  PROVE  cmds = <<>> /\ (AtTheDoor \/ Natural \/ Turning)
BY UnderWayIs DEF AtRest, Loads, Buys, Draws, Pays, Away

LEMMA QuietOpen ==
  ASSUME DoorTypes, UnderWay, screen.open, Quiet
  PROVE  AtTheDoor /\ cmds = <<>> /\ screen.ticks = 0 /\ screen.advances = 0
<1>1. cmds = <<>> /\ screen.ticks = 0 /\ screen.advances = 0 BY DEF Quiet
<1>2. QED BY <1>1 DEF UnderWay, AtRest, Natural, Turning

LEMMA EnterPurse == ASSUME DoorTypes, UnderWay, Enter PROVE UnderWay'
<1>1. PICK c : c = [kind |-> "load", st |-> "load", copy |-> 0, bet |-> 0, g |-> 0, pay |-> 0, err |-> FALSE]
  OBVIOUS
<1>2. /\ cmds = <<>> /\ cmds' = Append(cmds, c) /\ ~screen.open /\ screen' = NewScreen
      /\ UNCHANGED <<balance, ledger, lost>>
  BY <1>1 DEF Enter, Quiet
<1>3. cmds' = <<c>> /\ c.kind = "load" /\ c.st = "load" /\ ~c.err BY <1>1, <1>2
<1>4. Level(0) BY <1>2 DEF UnderWay, AtRest
<1>5. /\ screen'.wallet = 0 /\ ~screen'.cashedOut /\ screen'.ticks = 0 /\ screen'.advances = 0
      /\ screen'.game = 0 /\ ~screen'.spinning
  BY <1>2 DEF NewScreen
<1>6. Loads(c)' BY <1>2, <1>3, <1>4, <1>5 DEF Loads, Away, Still, Level
<1>7. QED BY <1>3, <1>6, UnderWayNext

\* Slots.
LEMMA SlotsStake == ASSUME door' = "slots" PROVE AtStake' = 0
BY DEF AtStake

LEMMA SlotsPurse ==
  ASSUME DoorTypes, UnderWay, SlotsKey, UNCHANGED <<door, balance, ledger, lost>>
  PROVE  UnderWay'
<1>1. door = "slots" /\ door' = "slots" /\ screen.open /\ ~screen.spinning BY DEF SlotsKey, Key
<1>2. AtStake' = 0 /\ AtStake = 0 BY <1>1, SlotsStake DEF AtStake
<1>3. screen \in DoorScreens BY DEF DoorTypes
<1>4. \/ /\ cmds = <<>> /\ AtTheDoor
      \/ \E c \in DoorCmds : cmds = <<c>> /\ ~c.err /\ Loads(c)
  <2>1. CASE cmds = <<>> /\ AtRest BY <1>1, <2>1 DEF AtRest, Natural, Turning
  <2>2. ASSUME NEW c \in DoorCmds, Buys(c) \/ Draws(c) \/ Pays(c) PROVE FALSE
    <3>1. c.kind \in {"load", "spin"} BY <1>1 DEF DoorCmds, DoorKinds
    <3>2. QED BY <1>1, <2>2, <3>1 DEF Buys, Draws, Pays
  <2>3. QED BY <2>1, <2>2, UnderWayIs
<1>5. CASE ChangeBet(TRUE)
  <2>1. PICK b : screen' = [screen EXCEPT !.bet = b] BY <1>5 DEF ChangeBet
  <2>2. cmds' = cmds /\ games' = games BY <1>5 DEF ChangeBet
  <2>3. /\ screen'.open = screen.open /\ screen'.wallet = screen.wallet /\ screen'.game = screen.game
        /\ screen'.spinning = screen.spinning /\ screen'.cashedOut = screen.cashedOut
        /\ screen'.ticks = screen.ticks /\ screen'.advances = screen.advances
    BY <1>3, <2>1 DEF DoorScreens
  <2>4. CASE cmds = <<>> /\ AtTheDoor
    <3>1. AtTheDoor' BY <1>1, <1>2, <2>2, <2>3, <2>4 DEF AtTheDoor, Level, HasGame
    <3>2. QED BY <1>1, <2>2, <2>3, <2>4, <3>1, AtRestNext DEF AtRest
  <2>5. ASSUME NEW c \in DoorCmds, cmds = <<c>>, ~c.err, Loads(c) PROVE UnderWay'
    <3>1. Loads(c)' BY <2>3, <2>5 DEF Loads, Away, Still, Level
    <3>2. QED BY <2>2, <2>5, <3>1, UnderWayNext
  <2>6. QED BY <1>4, <2>4, <2>5
<1>6. CASE Buy("spin", [screen EXCEPT !.spinning = CanAfford])
  <2>1. /\ screen' = [screen EXCEPT !.spinning = CanAfford] /\ games' = games
        /\ IF CanAfford THEN Ask(Cmd("spin", "bet", 0, 0)) ELSE cmds' = cmds
    BY <1>6 DEF Buy
  <2>2. /\ screen'.open = screen.open /\ screen'.wallet = screen.wallet /\ screen'.game = screen.game
        /\ screen'.spinning = CanAfford /\ screen'.cashedOut = screen.cashedOut
        /\ screen'.ticks = screen.ticks /\ screen'.advances = screen.advances /\ screen'.bet = screen.bet
    BY <1>3, <2>1 DEF DoorScreens
  <2>3. CASE cmds = <<>> /\ AtTheDoor
    <3>1. CASE CanAfford
      <4>1. PICK c : c = Cmd("spin", "bet", 0, 0) OBVIOUS
      <4>2. cmds' = <<c>> BY <2>1, <2>3, <3>1, <4>1, AskOne
      <4>3. c.kind = "spin" /\ c.st = "bet" /\ c.copy = screen.wallet /\ c.bet = screen.bet /\ ~c.err
        BY <4>1 DEF Cmd
      <4>4. screen.advances = 0 BY <1>1 DEF DoorTypes
      <4>5. Buys(c)' BY <1>1, <1>2, <2>2, <2>3, <3>1, <4>3, <4>4 DEF Buys, AtTheDoor, Still, Level
      <4>6. QED BY <4>2, <4>3, <4>5, UnderWayNext
    <3>2. CASE ~CanAfford
      <4>1. AtTheDoor' BY <1>1, <1>2, <2>1, <2>2, <2>3, <3>2 DEF AtTheDoor, Level, HasGame
      <4>2. QED BY <1>1, <2>1, <2>2, <2>3, <3>2, <4>1, AtRestNext DEF AtRest
    <3>3. QED BY <3>1, <3>2
  <2>4. ASSUME NEW c \in DoorCmds, cmds = <<c>>, ~c.err, Loads(c) PROVE UnderWay'
    <3>1. ~CanAfford
      <4>1. screen.wallet = 0 BY <1>1, <2>4 DEF Loads
      <4>2. screen.bet \in Nat \ {0} BY DoorFacts
      <4>3. QED BY <4>1, <4>2 DEF CanAfford
    <3>2. Loads(c)' BY <1>1, <2>2, <2>4, <3>1 DEF Loads, Away, Still, Level
    <3>3. QED BY <2>1, <2>4, <3>1, <3>2, UnderWayNext
  <2>5. QED BY <1>4, <2>3, <2>4
<1>7. QED BY <1>5, <1>6 DEF SlotsKey

LEMMA SettleCmdIs ==
  ASSUME DoorTypes, NEW g \in BlackjackHands, NEW k, NEW c, c = SettleCmd(g, k)
  PROVE  /\ c.kind = "settle" /\ c.copy = screen.wallet /\ c.bet = screen.bet /\ c.g = k /\ ~c.err
         /\ c.pay \in Nat /\ (c.st = "credit" \/ (c.st = "record" /\ c.pay = 0))
<1> DEFINE pay == BlackjackPayout(screen.bet, g.doubled, g.outcome)
           st == IF pay > 0 THEN "credit" ELSE "record"
<1>1. pay \in Nat BY DoorFacts, BlackjackPayoutType DEF BlackjackHands
<1>2. c = Cmd("settle", st, k, pay) BY DEF SettleCmd
<1> HIDE DEF pay
<1>3. st = "credit" \/ (st = "record" /\ pay = 0)
  <2>1. CASE pay > 0
    <3>1. st = "credit" BY <2>1
    <3>2. QED BY <3>1
  <2>2. CASE ~(pay > 0)
    <3>1. pay = 0 BY <1>1, <2>2
    <3>2. st = "record" BY <2>2
    <3>3. QED BY <3>1, <3>2
  <2>3. QED BY <2>1, <2>2
<1> HIDE DEF st
<1>4. PICK kind : kind = "settle" OBVIOUS
<1>5. c = Cmd(kind, st, k, pay) BY <1>2, <1>4
<1>6. /\ c.kind = kind /\ c.st = st /\ c.copy = screen.wallet /\ c.bet = screen.bet
      /\ c.g = k /\ c.pay = pay /\ ~c.err
  BY <1>5, CmdFields
<1>7. QED BY <1>1, <1>3, <1>4, <1>6

\* A game that is paid for.
LEMMA BuyPurse ==
  ASSUME DoorTypes, UnderWay, Quiet, screen.open, door # "slots", ~screen.cashedOut, AtStake = 0,
         NEW kind \in {"deal", "buyin"}, NEW scr, Buy(kind, scr), UNCHANGED <<door, balance, ledger, lost>>,
         scr.open, scr.game = 0, scr.wallet = screen.wallet, scr.bet = screen.bet,
         scr.spinning = screen.spinning, ~scr.cashedOut, scr.ticks = 0, scr.advances = 0
  PROVE  UnderWay'
<1>1. AtTheDoor /\ cmds = <<>> BY QuietOpen
<1>2. screen' = scr /\ door' = door BY DEF Buy
<1>3. screen.wallet = balance /\ ~screen.spinning /\ Level(0) BY <1>1 DEF AtTheDoor
<1>4. CASE CanAfford
  <2>1. PICK st : st = "bet" OBVIOUS
  <2>2. PICK n : n = 0 OBVIOUS
  <2>3. PICK c : c = Cmd(kind, st, n, n) OBVIOUS
  <2>4. Ask(c) BY <1>4, <2>1, <2>2, <2>3 DEF Buy
  <2>5. cmds' = <<c>> BY <1>1, <2>4, AskOne
  <2>6. c.kind = kind /\ c.st = st /\ c.copy = screen.wallet /\ c.bet = screen.bet /\ ~c.err
    BY <2>3, CmdFields
  <2>7. Buys(c)' BY <1>2, <1>3, <2>1, <2>6 DEF Buys, Still, Level
  <2>8. QED BY <2>5, <2>6, <2>7, UnderWayNext
<1>5. CASE ~CanAfford
  <2>1. cmds' = <<>> BY <1>1, <1>5 DEF Buy
  <2>2. AtStake' = 0 BY <1>2 DEF AtStake, HasGame
  <2>3. AtTheDoor' BY <1>2, <1>3, <2>2 DEF AtTheDoor, Level, HasGame
  <2>4. QED BY <1>2, <2>1, <2>3, AtRestNext DEF AtRest
<1>6. QED BY <1>4, <1>5

\* No game, or one whose stake is settled: another bet changes nothing that counts.
LEMMA BetPurse ==
  ASSUME DoorTypes, UnderWay, Quiet, screen.open, door # "slots", AtStake = 0, NEW may, ChangeBet(may),
         door = "blackjack" => BlackjackIdle, door # "blackjack" => ~HasGame,
         UNCHANGED <<door, balance, ledger, lost>>
  PROVE  UnderWay'
<1>1. AtTheDoor /\ cmds = <<>> /\ screen.ticks = 0 BY QuietOpen
<1>2. PICK b : screen' = [screen EXCEPT !.bet = b] BY DEF ChangeBet
<1>3. cmds' = <<>> /\ games' = games /\ door' = door BY <1>1 DEF ChangeBet
<1>4. screen \in DoorScreens BY DEF DoorTypes
<1>5. /\ screen'.open = screen.open /\ screen'.wallet = screen.wallet /\ screen'.game = screen.game
      /\ screen'.spinning = screen.spinning /\ screen'.cashedOut = screen.cashedOut
      /\ screen'.ticks = screen.ticks /\ screen'.advances = screen.advances
  BY <1>2, <1>4 DEF DoorScreens
<1>6. AtStake' = AtStake BY <1>3, <1>5 DEF AtStake, HasGame, Here
<1>7. HasGame' = HasGame /\ Here' = Here BY <1>3, <1>5 DEF HasGame, Here
<1>8. HasGame => ~GameOn(Here) BY DEF GameOn, BlackjackIdle
<1>9. (HasGame => ~GameOn(Here))' BY <1>3, <1>7, <1>8 DEF GameOn
<1>10. AtTheDoor' BY <1>1, <1>3, <1>5, <1>6, <1>9 DEF AtTheDoor, Level
<1>11. QED BY <1>3, <1>5, <1>10, AtRestNext DEF AtRest

\* Blackjack.
LEMMA BlackjackStake ==
  ASSUME door = "blackjack", HasGame PROVE AtStake = IF Here.finished THEN 0 ELSE Here.stake
BY DEF AtStake

LEMMA IdleStake == ASSUME door = "blackjack", BlackjackIdle PROVE AtStake = 0
BY DEF AtStake, BlackjackIdle

LEMMA BlackjackPurse ==
  ASSUME DoorTypes, DoorTypes', UnderWay, "blackjack" \in Patient, BlackjackKey, Undisturbed',
         UNCHANGED <<door, balance, ledger, lost>>
  PROVE  UnderWay'
<1>1. door = "blackjack" /\ door' = "blackjack" /\ screen.open /\ Quiet BY DEF BlackjackKey, Key
<1>2. AtTheDoor /\ cmds = <<>> /\ screen.ticks = 0 /\ screen.advances = 0 BY <1>1, QuietOpen
<1>3. ~screen.cashedOut /\ ~screen.spinning /\ screen.wallet = balance BY <1>1, <1>2 DEF AtTheDoor
<1>4. CASE ChangeBet(BlackjackIdle)
  <2>1. BlackjackIdle BY <1>4 DEF ChangeBet
  <2>2. PICK may : ChangeBet(may) BY <1>4
  <2>3. AtStake = 0 BY <1>1, <2>1, IdleStake
  <2>4. door # "slots" BY <1>1
  <2>5. QED BY <1>1, <2>1, <2>2, <2>3, <2>4, BetPurse
<1>5. CASE BlackjackIdle /\ Buy("deal", [screen EXCEPT !.game = 0])
  <2>1. PICK kind \in {"deal", "buyin"} : kind = "deal" OBVIOUS
  <2>2. PICK scr : scr = [screen EXCEPT !.game = 0] OBVIOUS
  <2>3. screen \in DoorScreens BY DEF DoorTypes
  <2>4. /\ scr.open = screen.open /\ scr.game = 0 /\ scr.wallet = screen.wallet /\ scr.bet = screen.bet
        /\ scr.spinning = screen.spinning /\ scr.cashedOut = screen.cashedOut /\ scr.ticks = screen.ticks
        /\ scr.advances = screen.advances
    BY <2>2, <2>3 DEF DoorScreens
  <2>5. Buy(kind, scr) BY <1>5, <2>1, <2>2
  <2>6. AtStake = 0 BY <1>1, <1>5, IdleStake
  <2>7. door # "slots" BY <1>1
  <2>8. scr.open /\ ~scr.cashedOut /\ scr.ticks = 0 /\ scr.advances = 0 BY <1>1, <1>2, <1>3, <2>4
  <2>9. QED BY <1>1, <1>3, <2>4, <2>5, <2>6, <2>7, <2>8, BuyPurse
<1>6. ASSUME HasGame, ~Here.finished, NEW S, BlackjackMove(S),
             \A g \in S : g \in BlackjackHands /\ g.stake = Here.stake
      PROVE  UnderWay'
  <2>1. PICK g \in S :
          /\ games' = [games EXCEPT ![screen.game] = g]
          /\ IF g.finished THEN Ask(SettleCmd(g, screen.game)) ELSE cmds' = cmds
    BY <1>6 DEF BlackjackMove
  <2>2. g \in BlackjackHands /\ g.stake = Here.stake /\ screen' = screen BY <1>6 DEF BlackjackMove
  <2>3. screen.game \in 1 .. Len(games) /\ DOMAIN games = 1 .. Len(games) BY <1>6, DoorFacts
  <2>4. HasGame' /\ Here' = g BY <1>6, <2>1, <2>2, <2>3 DEF HasGame, Here
  <2>5. AtStake = Here.stake /\ Level(Here.stake) /\ screen.bet = Here.stake
    <3>1. AtStake = Here.stake BY <1>1, <1>6, BlackjackStake
    <3>2. QED BY <1>2, <1>6, <3>1 DEF AtTheDoor, GameOn
  <2>6. CASE g.finished
    <3>1. PICK c : c = SettleCmd(g, screen.game) OBVIOUS
    <3>2. cmds' = <<c>> BY <1>2, <2>1, <2>6, <3>1, AskOne
    <3>3. /\ c.kind = "settle" /\ c.copy = screen.wallet /\ c.bet = screen.bet /\ c.g = screen.game /\ ~c.err
          /\ c.pay \in Nat /\ (c.st = "credit" \/ (c.st = "record" /\ c.pay = 0))
      BY <2>2, <3>1, SettleCmdIs
    <3>4. screen.bet \in Int /\ screen.game # 0 BY <1>6, DoorFacts DEF HasGame
    <3>5. c.bet - 0 = c.bet BY <3>3, <3>4
    <3>6. Level(c.bet)' /\ c.copy = balance'
      BY <1>3, <2>5, <3>3 DEF Level
    <3>7. ((c.st = "credit" /\ Level(c.bet)) \/ (c.st = "record" /\ Level(c.bet - c.pay)))'
      BY <3>3, <3>5, <3>6
    <3>8. Pays(c)' BY <1>1, <1>2, <1>3, <2>2, <2>4, <2>6, <3>3, <3>4, <3>6, <3>7 DEF Pays, Still
    <3>9. QED BY <3>2, <3>3, <3>8, UnderWayNext
  <2>7. CASE ~g.finished
    <3>1. cmds' = <<>> BY <1>2, <2>1, <2>7
    <3>2. AtStake' = g.stake BY <1>1, <2>4, <2>7 DEF AtStake
    <3>3. AtTheDoor' BY <1>1, <1>2, <1>3, <2>2, <2>4, <2>5, <2>7, <3>2 DEF AtTheDoor, Level
    <3>4. QED BY <1>1, <2>2, <3>1, <3>3, AtRestNext DEF AtRest
  <2>8. QED BY <2>6, <2>7
<1>7. CASE HasGame /\ ~Here.finished /\ BlackjackMove(PlayerHits(Here))
  <2>1. Here \in BlackjackHands BY <1>1, <1>7, DoorFacts DEF DoorGameSet
  <2>2. \A g \in PlayerHits(Here) : g \in BlackjackHands /\ g.stake = Here.stake BY <2>1, PlayerHitsType
  <2>3. QED BY <1>6, <1>7, <2>2
<1>8. CASE HasGame /\ ~Here.finished /\ BlackjackMove(DealerPlay(Here))
  <2>1. Here \in BlackjackHands BY <1>1, <1>8, DoorFacts DEF DoorGameSet
  <2>2. \A g \in DealerPlay(Here) : g \in BlackjackHands /\ g.stake = Here.stake BY <2>1, DealerPlayType
  <2>3. QED BY <1>6, <1>8, <2>2
<1>9. ~(HasGame /\ BlackjackDouble)
  <2> SUFFICES ASSUME HasGame, BlackjackDouble PROVE FALSE OBVIOUS
  <2>1. Here \in BlackjackHands BY <1>1, DoorFacts DEF DoorGameSet
  <2>2. PICK g \in PlayerDoubles(Here) : games' = [games EXCEPT ![screen.game] = g]
    BY DEF BlackjackDouble
  <2>3. g.doubled BY <2>1, PlayerDoublesType
  <2>4. screen.game \in DOMAIN games BY DoorFacts
  <2>5. screen.game \in DOMAIN games' /\ games'[screen.game].doubled BY <2>2, <2>3, <2>4
  <2>6. QED BY <1>1, <2>5 DEF Undisturbed
<1>10. QED BY <1>4, <1>5, <1>7, <1>8, <1>9 DEF BlackjackKey

\* Video poker.
LEMMA PokerStake ==
  ASSUME door = "videopoker", HasGame PROVE AtStake = IF Here.drawn THEN 0 ELSE Here.stake
BY DEF AtStake

LEMMA VideoPokerPurse ==
  ASSUME DoorTypes, UnderWay, "videopoker" \in Patient, VideoPokerKey,
         UNCHANGED <<door, balance, ledger, lost>>
  PROVE  UnderWay'
<1>1. door = "videopoker" /\ door' = "videopoker" /\ door # "slots" /\ screen.open /\ Quiet BY DEF VideoPokerKey, Key
<1>2. AtTheDoor /\ cmds = <<>> /\ screen.ticks = 0 /\ screen.advances = 0 BY <1>1, QuietOpen
<1>3. ~screen.cashedOut /\ ~screen.spinning /\ screen.wallet = balance BY <1>1, <1>2 DEF AtTheDoor
<1>4. CASE ChangeBet(~HasGame)
  <2>1. ~HasGame BY <1>4 DEF ChangeBet
  <2>2. PICK may : ChangeBet(may) BY <1>4
  <2>3. AtStake = 0 BY <2>1 DEF AtStake
  <2>4. QED BY <1>1, <2>1, <2>2, <2>3, BetPurse
<1>5. CASE ~(HasGame /\ ~Here.drawn) /\ Buy("deal", [screen EXCEPT !.game = 0])
  <2>1. PICK kind \in {"deal", "buyin"} : kind = "deal" OBVIOUS
  <2>2. PICK scr : scr = [screen EXCEPT !.game = 0] OBVIOUS
  <2>3. screen \in DoorScreens BY DEF DoorTypes
  <2>4. /\ scr.open = screen.open /\ scr.game = 0 /\ scr.wallet = screen.wallet /\ scr.bet = screen.bet
        /\ scr.spinning = screen.spinning /\ scr.cashedOut = screen.cashedOut /\ scr.ticks = screen.ticks
        /\ scr.advances = screen.advances
    BY <2>2, <2>3 DEF DoorScreens
  <2>5. Buy(kind, scr) BY <1>5, <2>1, <2>2
  <2>6. AtStake = 0
    <3>1. CASE ~HasGame BY <3>1 DEF AtStake
    <3>2. CASE HasGame BY <1>1, <1>5, <3>2, PokerStake
    <3>3. QED BY <3>1, <3>2
  <2>7. scr.open /\ ~scr.cashedOut /\ scr.ticks = 0 /\ scr.advances = 0 BY <1>1, <1>2, <1>3, <2>4
  <2>8. QED BY <1>1, <1>3, <2>4, <2>5, <2>6, <2>7, BuyPurse
<1>6. CASE HasGame /\ ~Here.drawn /\ Ask(Cmd("draw", "draw", screen.game, 0)) /\ UNCHANGED <<screen, games>>
  <2>1. PICK c : c = Cmd("draw", "draw", screen.game, 0) OBVIOUS
  <2>2. cmds' = <<c>> BY <1>2, <1>6, <2>1, AskOne
  <2>3. /\ c.kind = "draw" /\ c.st = "draw" /\ c.copy = screen.wallet /\ c.bet = screen.bet
        /\ c.g = screen.game /\ ~c.err
    BY <2>1 DEF Cmd
  <2>4. AtStake = Here.stake /\ Level(Here.stake) /\ screen.bet = Here.stake
    <3>1. AtStake = Here.stake BY <1>1, <1>6, PokerStake
    <3>2. GameOn(Here) BY <1>1 DEF GameOn
    <3>3. QED BY <1>2, <1>6, <3>1, <3>2 DEF AtTheDoor
  <2>5. HasGame' /\ Here' = Here /\ screen' = screen BY <1>6 DEF HasGame, Here
  <2>6. Level(c.bet)' BY <2>3, <2>4 DEF Level
  <2>7. Draws(c)' BY <1>1, <1>2, <1>3, <1>6, <2>3, <2>4, <2>5, <2>6 DEF Draws, Still
  <2>8. QED BY <2>2, <2>3, <2>7, UnderWayNext
<1>7. QED BY <1>4, <1>5, <1>6 DEF VideoPokerKey

\* Heads-up hold'em.
LEMMA HeadsUpStake ==
  ASSUME door = "holdem", HasGame PROVE AtStake = Here.stake
BY DEF AtStake

\* A hand or an action at the table: the stake is what it was.
LEMMA TablePurse ==
  ASSUME DoorTypes, AtTheDoor, door = "holdem", HasGame, screen.open, cmds' = <<>>,
         NEW g, games' = [games EXCEPT ![screen.game] = g], g.stake = Here.stake,
         screen'.open = screen.open, screen'.wallet = screen.wallet, screen'.bet = screen.bet,
         screen'.game = screen.game, screen'.spinning = screen.spinning, screen'.cashedOut = screen.cashedOut,
         UNCHANGED <<door, balance, ledger, lost>>
  PROVE  UnderWay'
<1>1. screen.game \in DOMAIN games BY DoorFacts
<1>2. HasGame' /\ Here' = g BY <1>1 DEF HasGame, Here
<1>3. AtStake' = Here.stake BY <1>2 DEF AtStake
<1>4. AtStake = Here.stake BY HeadsUpStake
<1>5. screen.bet = Here.stake BY DEF AtTheDoor, GameOn
<1>6. AtTheDoor' BY <1>2, <1>3, <1>4, <1>5 DEF AtTheDoor, Level
<1>7. QED BY <1>6, AtRestNext DEF AtRest

LEMMA CashOutPurse ==
  ASSUME DoorTypes, UnderWay, Quiet, screen.open, door = "holdem", NEW scr, CashOut(scr),
         scr = screen \/ scr = Closed, UNCHANGED <<door, balance, ledger, lost>>
  PROVE  UnderWay'
<1>1. AtTheDoor /\ cmds = <<>> /\ screen.ticks = 0 /\ screen.advances = 0 BY QuietOpen
<1>2. HasGame /\ screen' = scr /\ games' = games BY DEF CashOut
<1>3. Here \in HeadsUpTables BY <1>2, DoorFacts DEF DoorGameSet
<1>4. Here.stacks[Player] \in Nat BY <1>3 DEF HeadsUpTables, Player
<1> DEFINE stack == Here.stacks[Player]
           st == IF stack > 0 THEN "credit" ELSE "record"
<1>5. Ask(Cmd("cashout", st, screen.game, stack)) BY DEF CashOut
<1> HIDE DEF stack
<1>20. stack \in Nat BY <1>4 DEF stack
<1>6. stack \in Nat /\ (st = "credit" \/ (st = "record" /\ stack = 0))
  <2>1. CASE stack > 0
    <3>1. st = "credit" BY <2>1
    <3>2. QED BY <1>20, <3>1
  <2>2. CASE ~(stack > 0)
    <3>1. stack = 0 BY <1>20, <2>2
    <3>2. st = "record" BY <2>2
    <3>3. QED BY <1>20, <3>1, <3>2
  <2>3. QED BY <2>1, <2>2
<1> HIDE DEF st
<1>7. PICK kind : kind = "cashout" OBVIOUS
<1>8. PICK c : c = Cmd(kind, st, screen.game, stack) OBVIOUS
<1>9. cmds' = <<c>> BY <1>1, <1>5, <1>7, <1>8, AskOne
<1>10. /\ c.kind = kind /\ c.st = st /\ c.copy = screen.wallet /\ c.bet = screen.bet
       /\ c.g = screen.game /\ c.pay = stack /\ ~c.err
  BY <1>8, CmdFields
<1>11. AtStake = Here.stake /\ Level(Here.stake) /\ screen.bet = Here.stake
  <2>1. AtStake = Here.stake BY <1>2, HeadsUpStake
  <2>2. QED BY <1>1, <1>2, <2>1 DEF AtTheDoor, GameOn
<1>12. c.copy = balance' /\ Level(c.bet)' BY <1>1, <1>10, <1>11 DEF AtTheDoor, Level
<1>13. screen.bet \in Nat BY DoorFacts
<1>14. ((c.st = "credit" /\ Level(c.bet)) \/ (c.st = "record" /\ Level(c.bet - c.pay)))'
  <2>1. c.bet - 0 = c.bet BY <1>10, <1>13
  <2>2. QED BY <1>6, <1>10, <1>12, <2>1
<1>15. screen.spinning = FALSE BY <1>1 DEF AtTheDoor, DoorTypes, DoorScreens
<1>16. /\ screen'.ticks = 0 /\ screen'.advances = 0 /\ ~screen'.spinning
       /\ screen'.open \/ screen'.game = 0
  <2>1. CASE scr = screen BY <1>1, <1>2, <1>15, <2>1
  <2>2. CASE scr = Closed BY <1>1, <1>2, <1>15, <2>2 DEF Closed, DoorTypes, DoorScreens
  <2>3. QED BY <2>1, <2>2
<1>17. Pays(c)' BY <1>7, <1>10, <1>12, <1>14, <1>16 DEF Pays, Still, Away
<1>18. QED BY <1>9, <1>10, <1>17, UnderWayNext

LEMMA HoldemPurse ==
  ASSUME DoorTypes, UnderWay, "holdem" \in Patient, ~Rebuying, HoldemKey,
         UNCHANGED <<door, balance, ledger, lost>>
  PROVE  UnderWay'
<1>1. door = "holdem" /\ door' = "holdem" /\ door # "slots" /\ screen.open /\ Quiet BY DEF HoldemKey, Key
<1>2. AtTheDoor /\ cmds = <<>> /\ screen.ticks = 0 /\ screen.advances = 0 BY <1>1, QuietOpen
<1>3. screen \in DoorScreens BY DEF DoorTypes
<1>4. CASE ChangeBet(~HasGame)
  <2>1. ~HasGame BY <1>4 DEF ChangeBet
  <2>2. PICK may : ChangeBet(may) BY <1>4
  <2>3. AtStake = 0 BY <2>1 DEF AtStake
  <2>4. QED BY <1>1, <2>1, <2>2, <2>3, BetPurse
<1>5. CASE ~HasGame /\ ~screen.cashedOut /\ Buy("buyin", screen)
  <2>1. PICK kind \in {"deal", "buyin"} : kind = "buyin" OBVIOUS
  <2>2. PICK scr : scr = screen OBVIOUS
  <2>3. Buy(kind, scr) BY <1>5, <2>1, <2>2
  <2>4. AtStake = 0 BY <1>5 DEF AtStake
  <2>5. /\ scr.open /\ scr.game = 0 /\ scr.wallet = screen.wallet /\ scr.bet = screen.bet
        /\ scr.spinning = screen.spinning /\ ~scr.cashedOut /\ scr.ticks = 0 /\ scr.advances = 0
    BY <1>1, <1>2, <1>5, <2>2 DEF HasGame
  <2>6. QED BY <1>1, <1>5, <2>3, <2>4, <2>5, BuyPurse
<1>6. CASE HasGame /\ NewHand(screen, [games EXCEPT ![screen.game] = AdvanceButton(@)], screen.game) /\ UNCHANGED cmds
  <2> DEFINE b == AdvanceButton(Here)
             h == StartHand(b)
  <2>1. screen.game \in 1 .. Len(games) /\ Here \in HeadsUpTables /\ screen.game \in DOMAIN games
    BY <1>1, <1>6, DoorFacts DEF DoorGameSet
  <2>2. b \in HeadsUpTables /\ b.stake = Here.stake BY <2>1, ButtonType
  <2>3. h.stake = b.stake BY <2>2, StartHandEven
  <2>4. games' = [games EXCEPT ![screen.game] = h]
    <3>1. games' = [[games EXCEPT ![screen.game] = b] EXCEPT ![screen.game] = StartHand(@)]
      BY <1>6 DEF NewHand, Here
    <3> HIDE DEF b
    <3>2. [games EXCEPT ![screen.game] = b][screen.game] = b BY <2>1
    <3>3. QED BY <2>1, <3>1, <3>2
  <2> HIDE DEF b, h
  <2>5. PICK s : s = [screen EXCEPT !.game = screen.game] OBVIOUS
  <2>6. screen' = Deal(s) BY <1>6, <2>5 DEF NewHand
  <2>7. s = screen BY <1>3, <2>5 DEF DoorScreens
  <2>8. /\ screen'.open = screen.open /\ screen'.wallet = screen.wallet /\ screen'.bet = screen.bet
        /\ screen'.game = screen.game /\ screen'.spinning = screen.spinning
        /\ screen'.cashedOut = screen.cashedOut
    BY <1>3, <2>6, <2>7 DEF Deal, DoorScreens
  <2>9. cmds' = <<>> /\ h.stake = Here.stake BY <1>2, <1>6, <2>2, <2>3
  <2>10. QED BY <1>1, <1>2, <1>6, <2>4, <2>8, <2>9, TablePurse
<1>7. CASE ApplyPlayer
  <2>1. HasGame /\ Here.street # Ended BY <1>7 DEF ApplyPlayer, InHand
  <2>2. Here \in HeadsUpTables BY <1>1, <2>1, DoorFacts DEF DoorGameSet
  <2>3. PICK a \in HeadsUpActions : \E g \in ApplyAction(Here, Player, a) : AfterStateChange(g, screen)
    BY <1>7 DEF ApplyPlayer
  <2>4. PICK g \in ApplyAction(Here, Player, a) : AfterStateChange(g, screen) BY <2>3
  <2>5. g.stake = Here.stake BY <2>1, <2>2, <2>4, ApplyActionEven DEF Player, Even
  <2>6. games' = [games EXCEPT ![screen.game] = g] /\ cmds' = <<>> BY <1>2, <2>4 DEF AfterStateChange
  <2>7. screen' \in {Deal(screen), [screen EXCEPT !.advances = @ + 1]} BY <2>4 DEF AfterStateChange
  <2>8. /\ screen'.open = screen.open /\ screen'.wallet = screen.wallet /\ screen'.bet = screen.bet
        /\ screen'.game = screen.game /\ screen'.spinning = screen.spinning
        /\ screen'.cashedOut = screen.cashedOut
    BY <1>3, <2>7 DEF Deal, DoorScreens
  <2>9. QED BY <1>1, <1>2, <2>1, <2>5, <2>6, <2>8, TablePurse
<1>8. CASE CashOut(screen)
  <2>1. PICK scr : scr = screen OBVIOUS
  <2>2. CashOut(scr) BY <1>8, <2>1
  <2>3. QED BY <1>1, <2>1, <2>2, CashOutPurse
<1>9. QED BY <1>4, <1>5, <1>6, <1>7, <1>8 DEF HoldemKey

\* Leaving.
LEMMA SlotsRest ==
  ASSUME DoorTypes, UnderWay, door = "slots", screen.open, ~screen.spinning
  PROVE  \/ cmds = <<>> /\ AtTheDoor
         \/ \E c \in DoorCmds : cmds = <<c>> /\ ~c.err /\ Loads(c)
<1>1. CASE cmds = <<>> /\ AtRest BY <1>1 DEF AtRest, Natural, Turning
<1>2. ASSUME NEW c \in DoorCmds, Buys(c) \/ Draws(c) \/ Pays(c) PROVE FALSE
  <2>1. c.kind \in {"load", "spin"} BY DEF DoorCmds, DoorKinds
  <2>2. QED BY <1>2, <2>1 DEF Buys, Draws, Pays
<1>3. QED BY <1>1, <1>2, UnderWayIs

LEMMA LevelAfter ==
  ASSUME DoorTypes, NEW n \in Int, Level(n), balance' = balance, ledger' = ledger, lost' = lost + n
  PROVE  Level(0)'
<1>1. Purse \in Int /\ ledger \in Int /\ lost \in Int /\ balance \in Int
  <2>1. Purse \in Nat BY DoorAssumption
  <2>2. QED BY <2>1 DEF DoorTypes
<1>2. balance = Purse + ledger - lost - n BY DEF Level
<1>3. balance = Purse + ledger - (lost + n) - 0 BY <1>1, <1>2
<1>4. QED BY <1>3 DEF Level

LEMMA StakeType == ASSUME DoorTypes PROVE AtStake \in Nat
<1>1. CASE ~HasGame BY <1>1 DEF AtStake
<1>2. CASE HasGame
  <2>1. Here \in DoorGameSet /\ door \in {"slots", "blackjack", "videopoker", "holdem"}
    BY <1>2, DoorFacts DEF DoorTypes
  <2>2. CASE door = "slots" BY <1>2, <2>2 DEF AtStake
  <2>3. CASE door = "blackjack"
    <3>1. Here.stake \in Nat BY <2>1, <2>3 DEF DoorGameSet, BlackjackHands
    <3>2. QED BY <1>2, <2>3, <3>1, BlackjackStake
  <2>4. CASE door = "videopoker"
    <3>1. Here.stake \in Nat BY <2>1, <2>4 DEF DoorGameSet, PokerRounds
    <3>2. QED BY <1>2, <2>4, <3>1, PokerStake
  <2>5. CASE door = "holdem"
    <3>1. Here.stake \in Nat BY <2>1, <2>5 DEF DoorGameSet, HeadsUpTables
    <3>2. QED BY <1>2, <2>5, <3>1, HeadsUpStake
  <2>6. QED BY <2>1, <2>2, <2>3, <2>4, <2>5
<1>3. QED BY <1>1, <1>2

\* What is at stake is forfeited, but for a heads-up table's chips.
LEMMA ForfeitIs ==
  ASSUME DoorTypes, HasGame => door # "holdem"
  PROVE  Forfeited = AtStake
<1>1. CASE ~HasGame BY <1>1 DEF Forfeited, AtStake
<1>2. CASE HasGame
  <2>1. door \in {"slots", "blackjack", "videopoker"} BY <1>2 DEF DoorTypes
  <2>2. CASE door = "slots" BY <1>2, <2>2 DEF AtStake, Forfeited
  <2>3. CASE door = "blackjack" BY <1>2, <2>3, BlackjackStake DEF Forfeited
  <2>4. CASE door = "videopoker" BY <1>2, <2>4, PokerStake DEF Forfeited
  <2>5. QED BY <2>1, <2>2, <2>3, <2>4
<1>3. QED BY <1>1, <1>2

LEMMA EscPurse ==
  ASSUME DoorTypes, UnderWay, {"blackjack", "videopoker", "holdem"} \subseteq Patient, Esc
  PROVE  UnderWay'
<1>1. /\ screen.open /\ (door \in Patient => Quiet) /\ lost' = lost + Forfeited
      /\ door' = door /\ balance' = balance /\ ledger' = ledger
  BY DEF Esc, Key
<1>2. door # "slots" => AtTheDoor /\ cmds = <<>> /\ Quiet
  <2>1. door # "slots" => Quiet BY <1>1 DEF DoorTypes
  <2>2. QED BY <1>1, <2>1, QuietOpen
<1>3. CASE door = "holdem" /\ HasGame /\ ~screen.cashedOut
  <2>1. CashOut(Closed) BY <1>3 DEF Esc
  <2>2. PICK scr : scr = Closed OBVIOUS
  <2>3. CashOut(scr) BY <2>1, <2>2
  <2>4. Forfeited = 0 BY <1>3 DEF Forfeited
  <2>5. lost' = lost BY <1>1, <2>4 DEF DoorTypes
  <2>6. QED BY <1>1, <1>2, <1>3, <2>2, <2>3, <2>5, CashOutPurse
<1>4. CASE ~(door = "holdem" /\ HasGame /\ ~screen.cashedOut)
  <2>1. (door = "slots" => ~screen.spinning) /\ screen' = Closed /\ cmds' = cmds BY <1>4 DEF Esc
  <2>2. /\ ~screen'.open /\ screen'.ticks = 0 /\ screen'.advances = 0 /\ screen'.game = 0
        /\ screen'.spinning = screen.spinning
    BY <2>1, ClosedScreen
  <2>3. CASE cmds = <<>> /\ AtTheDoor
    <3>1. HasGame => door # "holdem" BY <1>4, <2>3 DEF AtTheDoor, HasGame
    <3>2. Forfeited = AtStake BY <3>1, ForfeitIs
    <3>3. AtStake \in Int /\ Level(AtStake) BY <2>3, StakeType DEF AtTheDoor
    <3>4. PICK n \in Int : n = AtStake /\ Level(n) BY <3>3
    <3>5. Level(0)' BY <1>1, <3>2, <3>4, LevelAfter
    <3>6. Away' BY <2>2, <2>3 DEF Away, Still, AtTheDoor
    <3>7. QED BY <2>1, <2>2, <2>3, <3>5, <3>6, AtRestNext DEF AtRest
  <2>4. CASE door = "slots"
    <3>1. ASSUME NEW c \in DoorCmds, cmds = <<c>>, ~c.err, Loads(c) PROVE UnderWay'
      <4>1. AtStake = 0 /\ Forfeited = 0 BY <2>4 DEF AtStake, Forfeited
      <4>2. PICK n \in Int : n = 0 OBVIOUS
      <4>3. Level(n) /\ lost' = lost + n BY <1>1, <3>1, <4>1, <4>2 DEF Loads
      <4>4. Level(0)' BY <1>1, <4>3, LevelAfter
      <4>5. Loads(c)' BY <1>1, <2>2, <3>1, <4>4 DEF Loads, Away, Still
      <4>6. QED BY <2>1, <3>1, <4>5, UnderWayNext
    <3>2. QED BY <1>1, <2>1, <2>3, <2>4, <3>1, SlotsRest
  <2>5. QED BY <1>2, <2>3, <2>4
<1>5. QED BY <1>3, <1>4

LEMMA PressKeyPurse ==
  ASSUME DoorTypes, DoorTypes', UnderWay, {"blackjack", "videopoker", "holdem"} \subseteq Patient, ~Rebuying,
         PressKey, Undisturbed'
  PROVE  UnderWay'
<1>1. UNCHANGED <<door, balance, ledger, lost>> BY DEF PressKey
<1>2. "blackjack" \in Patient /\ "videopoker" \in Patient /\ "holdem" \in Patient OBVIOUS
<1>3. QED BY <1>1, <1>2, SlotsPurse, BlackjackPurse, VideoPokerPurse, HoldemPurse DEF PressKey

\* The bot moves.
LEMMA AdvancePurse ==
  ASSUME DoorTypes, UnderWay, Advance
  PROVE  UnderWay'
<1>1. screen.open /\ screen.advances > 0 /\ UNCHANGED <<door, balance, ledger, lost>> BY DEF Advance
<1>2. screen \in DoorScreens /\ screen.advances \in Nat /\ screen.advances # 0
  <2>1. screen \in DoorScreens BY DEF DoorTypes
  <2>2. screen.advances \in Nat BY <2>1 DEF DoorScreens
  <2>3. QED BY <1>1, <2>1, <2>2
<1>3. door = "holdem" BY <1>2 DEF DoorTypes
<1>4. cmds = <<>> /\ AtTheDoor
  <2>1. ~Still BY <1>2 DEF Still
  <2>2. QED BY <1>1, <1>3, <2>1, AtRestOpen DEF Natural, Turning
<1>5. PICK n \in Nat : n = screen.advances - 1 BY <1>2
<1>6. PICK scr : scr = [screen EXCEPT !.advances = n] OBVIOUS
<1>7. scr \in DoorScreens /\ scr = [open |-> screen.open, wallet |-> screen.wallet, pending |-> screen.pending,
                 bet |-> screen.bet, game |-> screen.game, spinning |-> screen.spinning,
                 cashedOut |-> screen.cashedOut, dealing |-> screen.dealing, ticks |-> screen.ticks,
                 advances |-> n]
  BY <1>2, <1>6, ShowAdvance
<1>8. scr = [screen EXCEPT !.advances = @ - 1] BY <1>5, <1>6
<1>9. IF InHand /\ Here.toAct = Bot
      THEN \E g \in StepBot(Here) : AfterStateChange(g, scr)
      ELSE screen' = scr /\ UNCHANGED <<games, cmds>>
  BY <1>8 DEF Advance
<1>10. CASE InHand /\ Here.toAct = Bot
  <2>1. PICK g \in StepBot(Here) : AfterStateChange(g, scr) BY <1>9, <1>10
  <2>2. HasGame /\ Here.street # Ended BY <1>10 DEF InHand
  <2>3. Here \in HeadsUpTables BY <1>3, <2>2, DoorFacts DEF DoorGameSet
  <2>4. PICK a \in BotPolicy(Here) : g \in ApplyAction(Here, Bot, a) BY <2>1 DEF StepBot
  <2>20. a \in HeadsUpActions BY DEF BotPolicy, HeadsUpActions
  <2>5. g.stake = Here.stake BY <2>2, <2>3, <2>4, <2>20, ApplyActionEven DEF Even, Bot
  <2>6. games' = [games EXCEPT ![screen.game] = g] /\ cmds' = <<>> BY <1>4, <2>1 DEF AfterStateChange
  <2>7. screen' \in {Deal(scr), [scr EXCEPT !.advances = @ + 1]} BY <2>1 DEF AfterStateChange
  <2>8. /\ screen'.open = scr.open /\ screen'.wallet = scr.wallet /\ screen'.bet = scr.bet
        /\ screen'.game = scr.game /\ screen'.spinning = scr.spinning
        /\ screen'.cashedOut = scr.cashedOut
    BY <1>7, <2>7 DEF Deal, DoorScreens
  <2>9. QED BY <1>1, <1>3, <1>4, <1>7, <2>2, <2>5, <2>6, <2>8, TablePurse
<1>11. CASE ~(InHand /\ Here.toAct = Bot)
  <2>1. screen' = scr /\ games' = games /\ cmds' = <<>> BY <1>4, <1>9, <1>11
  <2>2. /\ screen'.open = screen.open /\ screen'.wallet = screen.wallet /\ screen'.game = screen.game
        /\ screen'.spinning = screen.spinning /\ screen'.cashedOut = screen.cashedOut
        /\ screen'.bet = screen.bet
    BY <1>7, <2>1
  <2>3. HasGame' = HasGame /\ Here' = Here /\ AtStake' = AtStake BY <1>1, <2>1, <2>2 DEF HasGame, Here, AtStake
  <2>4. AtTheDoor' BY <1>1, <1>3, <1>4, <2>2, <2>3 DEF AtTheDoor, Level, GameOn
  <2>5. QED BY <1>1, <2>1, <2>2, <2>4, AtRestNext DEF AtRest
<1>12. QED BY <1>10, <1>11

\* A timer of the screen.
LEMMA TickPurse ==
  ASSUME DoorTypes, UnderWay, Undisturbed, Tick
  PROVE  UnderWay'
<1>1. PICK s \in DoorScreens :
              /\ s = [open |-> screen.open, wallet |-> screen.wallet, pending |-> screen.pending,
                      bet |-> screen.bet, game |-> screen.game, spinning |-> screen.spinning,
                      cashedOut |-> screen.cashedOut, dealing |-> FALSE, ticks |-> screen.ticks - 1,
                      advances |-> screen.advances]
              /\ \/ /\ door = "slots" /\ screen.spinning /\ cmds' = cmds
                    /\ screen' = [s EXCEPT !.wallet = screen.pending, !.spinning = FALSE]
                 \/ door = "slots" /\ ~screen.spinning /\ screen' = s /\ cmds' = cmds
                 \/ /\ door = "blackjack" /\ HasGame /\ Here.finished /\ screen' = s
                    /\ Ask(SettleCmd(Here, screen.game))
                 \/ door = "blackjack" /\ ~(HasGame /\ Here.finished) /\ screen' = s /\ cmds' = cmds
                 \/ door = "videopoker" /\ screen' = s /\ cmds' = cmds
                 \/ door = "holdem" /\ screen' = [s EXCEPT !.advances = @ + 1] /\ cmds' = cmds
  BY TickIs
<1>2. UNCHANGED <<door, balance, ledger, games, lost>> BY DEF Tick
<1>3. screen.open /\ screen.ticks \in Nat /\ screen.ticks # 0
  <2>1. screen.open /\ screen.ticks > 0 BY TickIs
  <2>2. screen.ticks \in Nat BY DEF DoorTypes, DoorScreens
  <2>3. QED BY <2>1, <2>2
<1>4. cmds = <<>> /\ (AtTheDoor \/ Natural \/ Turning)
  <2>1. ~Still BY <1>3 DEF Still
  <2>2. QED BY <1>3, <2>1, AtRestOpen
<1>5. /\ s.open /\ s.wallet = screen.wallet /\ s.bet = screen.bet /\ s.game = screen.game
      /\ s.spinning = screen.spinning /\ s.cashedOut = screen.cashedOut /\ s.advances = screen.advances
      /\ screen.ticks = 1 => s.ticks = 0
  BY <1>1, <1>3
<1>6. door # "holdem" => screen.advances = 0 BY DEF DoorTypes
<1>7. CASE AtTheDoor /\ cmds' = cmds
  <2>1. ~screen.spinning /\ door # "slots" BY <1>3, <1>7 DEF AtTheDoor
  <2>2. screen' \in {s, [s EXCEPT !.advances = @ + 1]} BY <1>1, <2>1
  <2>3. /\ screen'.open /\ screen'.wallet = screen.wallet /\ screen'.bet = screen.bet
        /\ screen'.game = screen.game /\ screen'.spinning = screen.spinning
        /\ screen'.cashedOut = screen.cashedOut
    BY <1>5, <2>2 DEF DoorScreens
  <2>4. HasGame' = HasGame /\ Here' = Here /\ AtStake' = AtStake BY <1>2, <2>3 DEF HasGame, Here, AtStake
  <2>5. (door = "blackjack" => HasGame /\ ~Here.finished) BY <1>3, <1>7 DEF AtTheDoor
  <2>6. AtTheDoor' BY <1>2, <1>7, <2>1, <2>3, <2>4, <2>5 DEF AtTheDoor, Level, GameOn
  <2>7. QED BY <1>4, <1>7, <2>3, <2>6, AtRestNext DEF AtRest
<1>8. CASE AtTheDoor /\ cmds' # cmds
  <2>1. door = "blackjack" /\ HasGame /\ Here.finished BY <1>1, <1>8
  <2>2. QED BY <1>3, <1>8, <2>1 DEF AtTheDoor
<1>9. CASE Natural
  <2>1. door = "blackjack" /\ HasGame /\ Here.finished /\ ~screen.spinning /\ ~screen.cashedOut /\ screen.ticks = 1
        /\ screen.wallet = balance /\ screen.bet = Here.stake /\ Level(Here.stake)
    BY <1>9 DEF Natural
  <2>2. screen' = s /\ Ask(SettleCmd(Here, screen.game)) BY <1>1, <2>1
  <2>3. Here \in BlackjackHands /\ screen.game # 0 BY <2>1, DoorFacts DEF DoorGameSet, HasGame
  <2>4. PICK c : c = SettleCmd(Here, screen.game) OBVIOUS
  <2>5. cmds' = <<c>> BY <1>4, <2>2, <2>4, AskOne
  <2>6. /\ c.kind = "settle" /\ c.copy = screen.wallet /\ c.bet = screen.bet /\ c.g = screen.game /\ ~c.err
        /\ c.pay \in Nat /\ (c.st = "credit" \/ (c.st = "record" /\ c.pay = 0))
    BY <2>3, <2>4, SettleCmdIs
  <2>7. c.bet - 0 = c.bet
    <3>1. screen.bet \in Int BY DoorFacts
    <3>2. QED BY <2>6, <3>1
  <2>8. Level(c.bet)' /\ c.copy = balance' BY <1>2, <2>1, <2>6 DEF Level
  <2>9. ((c.st = "credit" /\ Level(c.bet)) \/ (c.st = "record" /\ Level(c.bet - c.pay)))'
    BY <2>6, <2>7, <2>8
  <2>10. /\ screen'.open /\ screen'.ticks = 0 /\ screen'.advances = 0 /\ ~screen'.spinning /\ ~screen'.cashedOut
         /\ screen'.game = screen.game
    BY <1>5, <1>6, <2>1, <2>2
  <2>11. HasGame' /\ Here' = Here BY <1>2, <2>1, <2>10 DEF HasGame, Here
  <2>12. Pays(c)' BY <1>2, <2>1, <2>3, <2>6, <2>8, <2>9, <2>10, <2>11 DEF Pays, Still
  <2>13. QED BY <2>5, <2>6, <2>12, UnderWayNext
<1>10. CASE Turning
  <2>1. door = "slots" /\ screen.spinning /\ screen.ticks = 1 /\ screen.game = 0 /\ ~screen.cashedOut
        /\ screen.pending = balance /\ Level(0)
    BY <1>10 DEF Turning
  <2>2. screen' = [s EXCEPT !.wallet = screen.pending, !.spinning = FALSE] /\ cmds' = <<>> BY <1>1, <1>4, <2>1
  <2>3. PICK w \in Int : w = screen.pending BY DEF DoorTypes, DoorScreens
  <2>4. PICK x : x = [s EXCEPT !.wallet = w, !.spinning = FALSE] OBVIOUS
  <2>5. x = [open |-> s.open, wallet |-> w, pending |-> s.pending, bet |-> s.bet,
             game |-> s.game, spinning |-> FALSE, cashedOut |-> s.cashedOut,
             dealing |-> s.dealing, ticks |-> s.ticks, advances |-> s.advances]
    BY <2>4, ShowReels
  <2>6. screen' = x BY <2>2, <2>3, <2>4
  <2>7. /\ screen'.open /\ screen'.wallet = balance /\ ~screen'.spinning /\ screen'.game = 0
        /\ ~screen'.cashedOut /\ screen'.ticks = 0
    BY <1>5, <2>1, <2>3, <2>5, <2>6
  <2>8. AtStake' = 0 BY <1>2, <2>1, SlotsStake
  <2>9. AtTheDoor' BY <1>2, <2>1, <2>7, <2>8 DEF AtTheDoor, Level, HasGame
  <2>10. QED BY <2>2, <2>7, <2>9, AtRestNext DEF AtRest
<1>11. QED BY <1>4, <1>7, <1>8, <1>9, <1>10

\* The statements of the one command under way.
LEMMA OneCmd ==
  ASSUME NEW c, cmds = <<c>>, NEW i \in DOMAIN cmds, NEW d, cmds' = [cmds EXCEPT ![i] = d]
  PROVE  cmds' = <<d>>
OBVIOUS

LEMMA BecomesFields ==
  ASSUME NEW i \in DOMAIN cmds, NEW st, NEW w, NEW p, NEW e, NEW d, d = Becomes(i, st, w, p, e)
  PROVE  /\ d.kind = cmds[i].kind /\ d.st = st /\ d.copy = w /\ d.bet = cmds[i].bet /\ d.g = cmds[i].g
         /\ d.pay = p /\ d.err = e
BY DEF Becomes

\* The level of the row after a statement.
LEMMA LevelTaken ==
  ASSUME DoorTypes, NEW n \in Nat, Level(0), balance' = balance - n, ledger' = ledger, lost' = lost
  PROVE  Level(n)'
<1>1. Purse \in Nat BY DoorAssumption
<1>2. balance \in Int /\ ledger \in Int /\ lost \in Int BY DEF DoorTypes
<1>3. QED BY <1>1, <1>2 DEF Level

LEMMA LevelPaid ==
  ASSUME DoorTypes, NEW n \in Nat, NEW p \in Nat, Level(n), balance' = balance + p, ledger' = ledger, lost' = lost
  PROVE  Level(n - p)'
<1>1. Purse \in Nat BY DoorAssumption
<1>2. balance \in Int /\ ledger \in Int /\ lost \in Int BY DEF DoorTypes
<1>3. QED BY <1>1, <1>2 DEF Level

LEMMA LevelRecorded ==
  ASSUME DoorTypes, NEW n \in Nat, NEW p \in Nat, Level(n - p), balance' = balance, ledger' = ledger + p - n,
         lost' = lost
  PROVE  Level(0)'
<1>1. Purse \in Nat BY DoorAssumption
<1>2. balance \in Int /\ ledger \in Int /\ lost \in Int BY DEF DoorTypes
<1>3. QED BY <1>1, <1>2 DEF Level

\* What is paid out, if anything.
LEMMA OnItsWay ==
  ASSUME NEW p \in Nat, NEW n \in Nat, Level(n)', NEW st, st = After(p)
  PROVE  (st = "credit" /\ Level(n)') \/ (st = "record" /\ Level(n - p)')
<1>1. CASE p > 0
  <2>1. st = "credit" BY <1>1 DEF After
  <2>2. QED BY <2>1
<1>2. CASE ~(p > 0)
  <2>1. st = "record" BY <1>2 DEF After
  <2>2. p = 0 BY <1>2
  <2>3. n - p = n BY <2>2
  <2>4. QED BY <2>1, <2>3
<1>3. QED BY <1>1, <1>2

LEMMA LoadPurse ==
  ASSUME DoorTypes, NEW c \in DoorCmds, cmds = <<c>>, ~c.err, Loads(c) \/ Buys(c) \/ Draws(c) \/ Pays(c),
         NEW i \in DOMAIN cmds, LoadWallet(i), ~failed', UNCHANGED <<door, screen, lost>>
  PROVE  UnderWay'
<1>1. c = cmds[i] OBVIOUS
<1>2. c.st = "load" /\ UNCHANGED <<balance, ledger, games>>
      /\ cmds' = [cmds EXCEPT ![i] = Becomes(i, "done", balance, cmds[i].pay, cmds[i].err)]
  BY <1>1, LoadIs
<1>3. Loads(c) BY <1>2 DEF Buys, Draws, Pays
<1>4. PICK st, p, e : st = "done" /\ p = cmds[i].pay /\ e = c.err OBVIOUS
<1>5. PICK d : d = Becomes(i, st, balance, p, e) /\ cmds' = [cmds EXCEPT ![i] = d] BY <1>1, <1>2, <1>4
<1>6. cmds' = <<d>> /\ d.kind = c.kind /\ d.st = st /\ d.copy = balance /\ d.err = e
  BY <1>1, <1>5, OneCmd, BecomesFields
<1>7. Loads(d)' BY <1>2, <1>3, <1>4, <1>6 DEF Loads, Away, Still, Level
<1>8. QED BY <1>4, <1>6, <1>7, UnderWayNext

LEMMA BetPaid ==
  ASSUME DoorTypes, NEW c \in DoorCmds, cmds = <<c>>, ~c.err, Loads(c) \/ Buys(c) \/ Draws(c) \/ Pays(c),
         NEW i \in DOMAIN cmds, BetStatement(i), ~failed', UNCHANGED <<door, screen, lost>>
  PROVE  UnderWay'
<1>1. c = cmds[i] OBVIOUS
<1>2. c.st = "bet" /\ ledger' = ledger BY <1>1, BetIs
<1>3. Buys(c) /\ Level(0) /\ c.kind \in {"spin", "deal", "buyin"} /\ screen.open /\ Still /\ screen.game = 0
      /\ c.bet = screen.bet /\ c.copy = balance /\ (screen.spinning <=> door = "slots") /\ ~screen.cashedOut
  <2>1. Buys(c) BY <1>2 DEF Loads, Draws, Pays
  <2>2. QED BY <1>2, <2>1 DEF Buys
<1> DEFINE w == cmds[i].copy - cmds[i].bet
<1>4. \/ /\ balance' = w /\ cmds[i].kind = "spin" /\ games' = games
         /\ \E p \in Nat : cmds' = [cmds EXCEPT ![i] = Becomes(i, After(p), w, p, cmds[i].err)]
      \/ /\ balance' = w /\ cmds[i].kind = "deal"
         /\ \E g \in (IF door = "blackjack" THEN NewBlackjack ELSE {NewVideoPoker}) :
              games' = Append(games, Staked(g, cmds[i].bet))
         /\ cmds' = [cmds EXCEPT ![i] = Dealt(i, w)]
      \/ /\ balance' = w /\ cmds[i].kind \notin {"spin", "deal"} /\ games' = games
         /\ cmds' = [cmds EXCEPT ![i] = Becomes(i, "done", w, cmds[i].pay, cmds[i].err)]
  BY BetIs
<1>5. c.kind \in DoorKinds /\ c.bet \in Nat BY DEF DoorCmds
<1>6. balance' = balance - c.bet /\ balance' = w BY <1>1, <1>3, <1>4
<1> HIDE DEF w
<1>7. Level(c.bet)' BY <1>2, <1>3, <1>5, <1>6, LevelTaken
<1>8. CASE /\ c.kind = "spin" /\ games' = games
           /\ \E p \in Nat : cmds' = [cmds EXCEPT ![i] = Becomes(i, After(p), w, p, cmds[i].err)]
  <2>1. PICK p \in Nat : cmds' = [cmds EXCEPT ![i] = Becomes(i, After(p), w, p, cmds[i].err)] BY <1>8
  <2>2. PICK st : st = After(p) OBVIOUS
  <2>3. PICK e : e = c.err OBVIOUS
  <2>4. PICK d : d = Becomes(i, st, w, p, e) /\ cmds' = [cmds EXCEPT ![i] = d] BY <1>1, <2>1, <2>2, <2>3
  <2>5. cmds' = <<d>> /\ d.kind = c.kind /\ d.st = st /\ d.copy = w /\ d.bet = c.bet /\ d.pay = p /\ d.err = e
    BY <1>1, <2>4, OneCmd, BecomesFields
  <2>6. door = "slots" BY <1>5, <1>8 DEF DoorKinds, DoorTypes
  <2>7. (st = "credit" /\ Level(c.bet)') \/ (st = "record" /\ Level(c.bet - p)')
    BY <1>5, <1>7, <2>2, OnItsWay
  <2>8. ((d.st = "credit" /\ Level(d.bet)) \/ (d.st = "record" /\ Level(d.bet - d.pay)))'
    BY <2>5, <2>7
  <2>9. Pays(d)' BY <1>3, <1>6, <1>8, <2>5, <2>6, <2>8 DEF Pays, Still
  <2>10. QED BY <2>3, <2>5, <2>9, UnderWayNext
<1>9. CASE /\ c.kind = "deal"
           /\ \E g \in (IF door = "blackjack" THEN NewBlackjack ELSE {NewVideoPoker}) :
                games' = Append(games, Staked(g, cmds[i].bet))
           /\ cmds' = [cmds EXCEPT ![i] = Dealt(i, w)]
  <2>1. door \in {"blackjack", "videopoker"} BY <1>5, <1>9 DEF DoorKinds, DoorTypes
  <2>2. PICK g \in (IF door = "blackjack" THEN NewBlackjack ELSE {NewVideoPoker}) :
          games' = Append(games, Staked(g, c.bet))
    BY <1>1, <1>9
  <2> DEFINE h == Staked(g, c.bet)
  <2>3. h \in DoorGameSet /\ h.stake = c.bet /\ (door = "videopoker" => ~h.drawn)
    <3>1. CASE door = "blackjack" BY <1>5, <2>2, <3>1, NewBlackjackType DEF DoorGameSet
    <3>2. CASE door = "videopoker" BY <1>5, <2>2, <3>2, NewPokerType DEF DoorGameSet
    <3>3. QED BY <2>1, <3>1, <3>2
  <2>4. games' = Append(games, h) BY <2>2
  <2> HIDE DEF h
  <2>5. PICK n \in Nat : n = Len(games) + 1
    <3>1. Len(games) \in Nat BY DoorFacts
    <3>2. QED BY <3>1
  <2>6. n # 0 /\ games'[n] = h
    <3>1. Len(games) \in Nat BY DoorFacts
    <3>2. n # 0 BY <2>5, <3>1
    <3>3. QED BY <2>3, <2>4, <2>5, <3>2, GamesGrown
  <2>7. PICK d : d = [kind |-> c.kind, st |-> "done", copy |-> w, bet |-> c.bet, g |-> n, pay |-> c.pay,
                      err |-> c.err]
    OBVIOUS
  <2>8. Dealt(i, w) = d BY <1>1, <2>5, <2>7 DEF Dealt
  <2>9. d.kind = c.kind /\ d.st = "done" /\ d.copy = w /\ d.bet = c.bet /\ d.g = n /\ d.err = c.err BY <2>7
  <2> HIDE <2>7
  <2>10. cmds' = <<d>>
    <3>1. cmds' = [cmds EXCEPT ![i] = d] /\ i = 1 BY <1>9, <2>8
    <3>2. QED BY <3>1
  <2>11. Buys(d)' BY <1>3, <1>6, <1>7, <1>9, <2>1, <2>3, <2>6, <2>9 DEF Buys, Still
  <2>12. QED BY <2>9, <2>10, <2>11, UnderWayNext
<1>10. CASE /\ c.kind \notin {"spin", "deal"} /\ games' = games
            /\ cmds' = [cmds EXCEPT ![i] = Becomes(i, "done", w, cmds[i].pay, cmds[i].err)]
  <2>1. PICK st, p, e : st = "done" /\ p = cmds[i].pay /\ e = c.err OBVIOUS
  <2>2. PICK d : d = Becomes(i, st, w, p, e) /\ cmds' = [cmds EXCEPT ![i] = d] BY <1>1, <1>10, <2>1
  <2>3. cmds' = <<d>> /\ d.kind = c.kind /\ d.st = st /\ d.copy = w /\ d.bet = c.bet /\ d.err = e
    BY <1>1, <2>2, OneCmd, BecomesFields
  <2>4. Buys(d)' BY <1>3, <1>6, <1>7, <1>10, <2>1, <2>3 DEF Buys, Still
  <2>5. QED BY <2>1, <2>3, <2>4, UnderWayNext
<1>11. QED BY <1>1, <1>4, <1>8, <1>9, <1>10

LEMMA DrawPurse ==
  ASSUME DoorTypes, NEW c \in DoorCmds, cmds = <<c>>, ~c.err, Loads(c) \/ Buys(c) \/ Draws(c) \/ Pays(c),
         NEW i \in DOMAIN cmds, DrawCards(i), UNCHANGED <<door, screen, lost>>
  PROVE  UnderWay'
<1>1. c = cmds[i] OBVIOUS
<1>2. c.st = "draw" /\ UNCHANGED <<balance, ledger>> /\ c.g \in 1 .. Len(games) BY <1>1, DrawIs
<1>3. Draws(c) BY <1>2 DEF Loads, Buys, Pays
<1>4. /\ c.kind = "draw" /\ screen.open /\ Still /\ HasGame /\ c.g = screen.game
      /\ ~Here.drawn /\ c.bet = Here.stake /\ c.bet = screen.bet /\ c.copy = balance /\ Level(c.bet)
      /\ ~screen.spinning /\ ~screen.cashedOut
  BY <1>3 DEF Draws
<1>5. PICK k : k = c.g OBVIOUS
<1>6. PICK r \in DrawHands(games[k], c.bet) :
        /\ games' = [games EXCEPT ![k] = Staked(r, games[k].stake)]
        /\ cmds' = [cmds EXCEPT ![i] = Becomes(i, After(r.payout), cmds[i].copy, r.payout, cmds[i].err)]
  BY <1>1, <1>5, DrawIs
<1>7. door = "videopoker" /\ c.bet \in Nat
  <2>1. c.kind \in DoorKinds /\ c.bet \in Nat BY DEF DoorCmds
  <2>2. QED BY <1>4, <2>1 DEF DoorKinds, DoorTypes
<1>8. k \in 1 .. Len(games) /\ games[k] \in PokerRounds /\ games[k] = Here /\ k \in DOMAIN games
  BY <1>2, <1>4, <1>5, <1>7, DoorFacts DEF DoorGameSet, Here
<1> DEFINE h == Staked(r, games[k].stake)
<1>9. r.payout \in Nat /\ h.drawn /\ h.stake = Here.stake BY <1>6, <1>7, <1>8, DrawHandsType
<1>10. games' = [games EXCEPT ![k] = h] BY <1>6
<1> HIDE DEF h
<1>11. games'[k] = h BY <1>8, <1>10
<1>12. PICK p \in Nat : p = r.payout BY <1>9
<1>13. PICK st, w, e : st = After(p) /\ w = c.copy /\ e = c.err OBVIOUS
<1>14. PICK d : d = Becomes(i, st, w, p, e) /\ cmds' = [cmds EXCEPT ![i] = d] BY <1>1, <1>6, <1>12, <1>13
<1>15. cmds' = <<d>> /\ d.kind = c.kind /\ d.st = st /\ d.copy = w /\ d.bet = c.bet /\ d.pay = p /\ d.err = e
  BY <1>1, <1>14, OneCmd, BecomesFields
<1>16. Level(c.bet)' BY <1>2, <1>4 DEF Level
<1>17. (st = "credit" /\ Level(c.bet)') \/ (st = "record" /\ Level(c.bet - p)')
  BY <1>7, <1>13, <1>16, OnItsWay
<1>18. ((d.st = "credit" /\ Level(d.bet)) \/ (d.st = "record" /\ Level(d.bet - d.pay)))'
  BY <1>15, <1>17
<1>19. HasGame' /\ Here' = h BY <1>4, <1>5, <1>11 DEF HasGame, Here
<1>20. Pays(d)' BY <1>2, <1>4, <1>7, <1>9, <1>13, <1>15, <1>18, <1>19 DEF Pays, Still
<1>21. QED BY <1>13, <1>15, <1>20, UnderWayNext

LEMMA CreditPurse ==
  ASSUME DoorTypes, NEW c \in DoorCmds, cmds = <<c>>, ~c.err, Loads(c) \/ Buys(c) \/ Draws(c) \/ Pays(c),
         NEW i \in DOMAIN cmds, CreditStatement(i), ~failed', UNCHANGED <<door, screen, lost>>
  PROVE  UnderWay'
<1>1. c = cmds[i] OBVIOUS
<1> DEFINE w == cmds[i].copy + cmds[i].pay
<1>2. /\ c.st = "credit" /\ UNCHANGED <<ledger, games>> /\ balance' = w
      /\ cmds' = [cmds EXCEPT ![i] = Becomes(i, "record", w, cmds[i].pay, cmds[i].err)]
  BY <1>1, CreditIs
<1>3. Pays(c) BY <1>2 DEF Loads, Buys, Draws
<1>4. c.copy = balance /\ Level(c.bet) BY <1>2, <1>3 DEF Pays
<1>5. c.bet \in Nat /\ c.pay \in Nat BY DEF DoorCmds
<1>6. balance' = balance + c.pay /\ balance' = w BY <1>1, <1>2, <1>4
<1> HIDE DEF w
<1>7. Level(c.bet - c.pay)' BY <1>2, <1>4, <1>5, <1>6, LevelPaid
<1>8. PICK st, p, e : st = "record" /\ p = c.pay /\ e = c.err OBVIOUS
<1>9. PICK d : d = Becomes(i, st, w, p, e) /\ cmds' = [cmds EXCEPT ![i] = d] BY <1>1, <1>2, <1>8
<1>10. cmds' = <<d>> /\ d.kind = c.kind /\ d.st = st /\ d.copy = w /\ d.bet = c.bet /\ d.g = c.g /\ d.pay = p /\ d.err = e
  BY <1>1, <1>9, OneCmd, BecomesFields
<1>11. Level(d.bet - d.pay)' BY <1>7, <1>8, <1>10
<1>12. HasGame' = HasGame /\ Here' = Here BY <1>2 DEF HasGame, Here
<1>13. Pays(d)' BY <1>3, <1>6, <1>8, <1>10, <1>11, <1>12 DEF Pays, Still, Away
<1>14. QED BY <1>8, <1>10, <1>13, UnderWayNext

LEMMA RecordPurse ==
  ASSUME DoorTypes, NEW c \in DoorCmds, cmds = <<c>>, ~c.err, Loads(c) \/ Buys(c) \/ Draws(c) \/ Pays(c),
         c.g \in 0 .. Len(games), Undisturbed,
         NEW i \in DOMAIN cmds, RecordStatement(i), ~failed', UNCHANGED <<door, screen, lost>>
  PROVE  UnderWay'
<1>1. c = cmds[i] OBVIOUS
<1>2. /\ c.st = "record" /\ UNCHANGED <<balance, games>> /\ ledger' = ledger + c.pay - Stake(c)
      /\ cmds' = [cmds EXCEPT ![i] = Becomes(i, "done", cmds[i].copy, cmds[i].pay, cmds[i].err)]
  BY <1>1, RecordIs
<1>3. Pays(c) BY <1>2 DEF Loads, Buys, Draws
<1>4. c.copy = balance /\ Level(c.bet - c.pay) BY <1>2, <1>3 DEF Pays
<1>5. c.bet \in Nat /\ c.pay \in Nat /\ c.kind \in DoorKinds BY DEF DoorCmds
<1>6. Stake(c) = c.bet
  <2>1. CASE c.kind = "settle"
    <3>1. door = "blackjack" BY <1>5, <2>1 DEF DoorKinds, DoorTypes
    <3>2. c.g # 0 BY <1>3, <2>1 DEF Pays
    <3>3. c.g \in DOMAIN games BY <3>2, DoorFacts
    <3>4. ~games[c.g].doubled BY <3>1, <3>3 DEF Undisturbed
    <3>5. QED BY <3>4 DEF Stake
  <2>2. CASE c.kind # "settle" BY <2>2 DEF Stake
  <2>3. QED BY <2>1, <2>2
<1>7. ledger' = ledger + c.pay - c.bet BY <1>2, <1>6
<1>8. Level(0)' BY <1>2, <1>4, <1>5, <1>7, LevelRecorded
<1>9. PICK st, w, p, e : st = "done" /\ w = c.copy /\ p = c.pay /\ e = c.err OBVIOUS
<1>10. PICK d : d = Becomes(i, st, w, p, e) /\ cmds' = [cmds EXCEPT ![i] = d] BY <1>1, <1>2, <1>9
<1>11. cmds' = <<d>> /\ d.kind = c.kind /\ d.st = st /\ d.copy = w /\ d.bet = c.bet /\ d.g = c.g /\ d.pay = p /\ d.err = e
  BY <1>1, <1>10, OneCmd, BecomesFields
<1>12. HasGame' = HasGame /\ Here' = Here BY <1>2 DEF HasGame, Here
<1>13. Pays(d)' BY <1>2, <1>3, <1>4, <1>8, <1>9, <1>11, <1>12 DEF Pays, Still, Away
<1>14. QED BY <1>9, <1>11, <1>13, UnderWayNext

LEMMA RunPurse ==
  ASSUME DoorTypes, UnderWay, Undisturbed, Undisturbed', RunCommand
  PROVE  UnderWay'
<1>1. UNCHANGED <<door, screen, lost>> /\ ~failed' BY DEF RunCommand, Undisturbed
<1>2. PICK i \in DOMAIN cmds :
        LoadWallet(i) \/ BetStatement(i) \/ DrawCards(i) \/ CreditStatement(i) \/ RecordStatement(i)
  BY DEF RunCommand
<1>3. cmds # <<>> BY <1>2, DoorFacts
<1>4. PICK c \in DoorCmds : /\ cmds = <<c>> /\ ~c.err /\ c.g \in 0 .. Len(games)
                            /\ Loads(c) \/ Buys(c) \/ Draws(c) \/ Pays(c)
  BY <1>3, UnderWayIs
<1>5. CASE LoadWallet(i) BY <1>1, <1>4, <1>5, LoadPurse
<1>6. CASE BetStatement(i) BY <1>1, <1>4, <1>6, BetPaid
<1>7. CASE DrawCards(i) BY <1>1, <1>4, <1>7, DrawPurse
<1>8. CASE CreditStatement(i) BY <1>1, <1>4, <1>8, CreditPurse
<1>9. CASE RecordStatement(i) BY <1>1, <1>4, <1>9, RecordPurse
<1>10. QED BY <1>2, <1>5, <1>6, <1>7, <1>8, <1>9

\* The messages of the one command under way.
LEMMA NoneLeft ==
  ASSUME DoorTypes, NEW c, cmds = <<c>>, NEW i \in DOMAIN cmds, cmds' = RemoveAt(cmds, i)
  PROVE  c = cmds[i] /\ cmds' = <<>>
<1>1. Len(cmds) = 1 /\ c = cmds[i] OBVIOUS
<1>2. Len(games) \in Nat /\ CmdsOk(cmds, Len(games)) BY DoorFacts DEF DoorTypes
<1>3. Len(RemoveAt(cmds, i)) = Len(cmds) - 1 /\ CmdsOk(RemoveAt(cmds, i), Len(games)) BY <1>2, CmdsGone
<1>4. cmds' \in Seq(DoorCmds) /\ Len(cmds') = 0 BY <1>1, <1>3 DEF CmdsOk
<1>5. QED BY <1>1, <1>4, EmptySeq

LEMMA AwayPurse ==
  ASSUME cmds' = <<>>, ~screen.open, UNCHANGED <<screen, balance, ledger, lost>>,
         NEW c, c.st = "done", Loads(c) \/ Buys(c) \/ Draws(c) \/ Pays(c)
  PROVE  UnderWay'
<1>1. Away /\ Level(0) BY DEF Loads, Buys, Draws, Pays
<1>2. AtRest' BY <1>1 DEF AtRest, Away, Still, Level
<1>3. QED BY <1>2, AtRestNext

LEMMA GotWalletPurse ==
  ASSUME DoorTypes, cmds' = <<>>, screen.open, UNCHANGED <<door, games, balance, ledger, lost>>,
         NEW c \in DoorCmds, c.st = "done", ~c.err, Loads(c) \/ Buys(c) \/ Draws(c) \/ Pays(c),
         c.kind \in {"load", "double"}, GotWallet(c)
  PROVE  UnderWay'
<1>1. Loads(c) BY DEF Buys, Draws, Pays
<1>2. screen' = [screen EXCEPT !.wallet = c.copy] BY DEF GotWallet
<1>3. screen \in DoorScreens BY DEF DoorTypes
<1>4. /\ screen'.open /\ screen'.wallet = c.copy /\ screen'.game = screen.game
      /\ screen'.spinning = screen.spinning /\ screen'.cashedOut = screen.cashedOut
      /\ screen'.ticks = screen.ticks
  BY <1>2, <1>3 DEF DoorScreens
<1>5. screen.game = 0 /\ screen.ticks = 0 /\ ~screen.spinning /\ ~screen.cashedOut /\ c.copy = balance /\ Level(0)
  BY <1>1 DEF Loads, Away, Still
<1>6. AtStake' = 0 BY <1>4, <1>5 DEF AtStake, HasGame
<1>7. AtTheDoor' BY <1>4, <1>5, <1>6 DEF AtTheDoor, Level, HasGame
<1>8. QED BY <1>4, <1>7, AtRestNext DEF AtRest

LEMMA GotSpinPurse ==
  ASSUME DoorTypes, cmds' = <<>>, screen.open, UNCHANGED <<door, games, balance, ledger, lost>>,
         NEW c \in DoorCmds, c.st = "done", ~c.err, Loads(c) \/ Buys(c) \/ Draws(c) \/ Pays(c),
         c.kind = "spin", GotSpin(c)
  PROVE  UnderWay'
<1>1. Pays(c) BY DEF Loads, Buys, Draws
<1>2. door = "slots"
  <2>1. c.kind \in DoorKinds BY DEF DoorCmds
  <2>2. QED BY <2>1 DEF DoorKinds, DoorTypes
<1>3. /\ screen.ticks = 0 /\ screen.game = 0 /\ screen.spinning /\ ~screen.cashedOut /\ c.copy = balance /\ Level(0)
  BY <1>1, <1>2 DEF Pays, Still
<1>4. screen' = [screen EXCEPT !.pending = c.copy, !.ticks = @ + 1] BY DEF GotSpin
<1>5. screen \in DoorScreens BY DEF DoorTypes
<1>6. PICK w \in Int : w = c.copy BY DEF DoorCmds
<1>7. PICK x : x = [screen EXCEPT !.pending = w, !.ticks = @ + 1] OBVIOUS
<1>8. x = [open |-> screen.open, wallet |-> screen.wallet, pending |-> w, bet |-> screen.bet,
           game |-> screen.game, spinning |-> screen.spinning, cashedOut |-> screen.cashedOut,
           dealing |-> screen.dealing, ticks |-> screen.ticks + 1, advances |-> screen.advances]
  BY <1>5, <1>7, ShowPending
<1>9. screen' = x BY <1>4, <1>6, <1>7
<1> HIDE <1>4, <1>7
<1>10. /\ screen'.open /\ screen'.pending = balance /\ screen'.game = 0 /\ screen'.spinning
       /\ ~screen'.cashedOut /\ screen'.ticks = screen.ticks + 1
  BY <1>3, <1>6, <1>8, <1>9
<1>11. screen'.ticks = 1 BY <1>3, <1>10
<1>12. Turning' BY <1>2, <1>3, <1>10, <1>11 DEF Turning, Level
<1>13. QED BY <1>10, <1>12, AtRestNext DEF AtRest

LEMMA GotDealPurse ==
  ASSUME DoorTypes, cmds' = <<>>, screen.open, UNCHANGED <<door, games, balance, ledger, lost>>,
         NEW c \in DoorCmds, c.st = "done", ~c.err, c.g \in 0 .. Len(games),
         Loads(c) \/ Buys(c) \/ Draws(c) \/ Pays(c),
         c.kind = "deal", GotDeal(c)
  PROVE  UnderWay'
<1>1. Buys(c) BY DEF Loads, Draws, Pays
<1>2. door \in {"blackjack", "videopoker"}
  <2>1. c.kind \in DoorKinds BY DEF DoorCmds
  <2>2. QED BY <2>1 DEF DoorKinds, DoorTypes
<1>3. /\ screen.ticks = 0 /\ ~screen.spinning /\ ~screen.cashedOut /\ c.copy = balance
      /\ Level(c.bet) /\ c.bet = screen.bet /\ c.g # 0 /\ games[c.g].stake = c.bet
      /\ door = "videopoker" => ~games[c.g].drawn
  BY <1>1, <1>2 DEF Buys, Still
<1>4. PICK g : g = games[c.g] OBVIOUS
<1>5. PICK s : s = [screen EXCEPT !.wallet = c.copy, !.game = c.g] OBVIOUS
<1>6. screen' = Deal(s) BY <1>5 DEF GotDeal
<1>7. screen \in DoorScreens /\ c.copy \in Int /\ c.g \in Nat BY DEF DoorTypes, DoorCmds
<1>8. PICK w \in Int : w = c.copy BY <1>7
<1>9. PICK n \in Nat : n = c.g BY <1>7
<1>10. s = [screen EXCEPT !.wallet = w, !.game = n] BY <1>5, <1>8, <1>9
<1>11. s \in DoorScreens
       /\ s = [open |-> screen.open, wallet |-> w, pending |-> screen.pending, bet |-> screen.bet,
               game |-> n, spinning |-> screen.spinning, cashedOut |-> screen.cashedOut,
               dealing |-> screen.dealing, ticks |-> screen.ticks, advances |-> screen.advances]
  <2>1. PICK y : y = [screen EXCEPT !.wallet = w] OBVIOUS
  <2>2. y \in DoorScreens
        /\ y = [open |-> screen.open, wallet |-> w, pending |-> screen.pending, bet |-> screen.bet,
                game |-> screen.game, spinning |-> screen.spinning, cashedOut |-> screen.cashedOut,
                dealing |-> screen.dealing, ticks |-> screen.ticks, advances |-> screen.advances]
    BY <1>7, <1>8, <2>1, ShowWallet
  <2>3. s = [y EXCEPT !.game = n] BY <1>10, <2>1
  <2>4. s \in DoorScreens
        /\ s = [open |-> y.open, wallet |-> y.wallet, pending |-> y.pending, bet |-> y.bet,
                game |-> n, spinning |-> y.spinning, cashedOut |-> y.cashedOut,
                dealing |-> y.dealing, ticks |-> y.ticks, advances |-> y.advances]
    BY <1>9, <2>2, <2>3, ShowGame
  <2>5. QED BY <2>2, <2>4
<1> HIDE <1>5, <1>10
<1>12. Deal(s) = [open |-> s.open, wallet |-> s.wallet, pending |-> s.pending, bet |-> s.bet,
                  game |-> s.game, spinning |-> s.spinning, cashedOut |-> s.cashedOut,
                  dealing |-> TRUE, ticks |-> s.ticks + 1, advances |-> s.advances]
  BY <1>11, DealtScreen
<1>13. /\ screen'.open /\ screen'.wallet = balance /\ screen'.bet = c.bet /\ screen'.game = c.g
       /\ ~screen'.spinning /\ ~screen'.cashedOut /\ screen'.ticks = 1
  <2>1. s.ticks + 1 = 1 BY <1>3, <1>11
  <2>2. QED BY <1>3, <1>6, <1>8, <1>9, <1>11, <1>12, <2>1
<1> HIDE <1>6, <1>11, <1>12
<1>14. HasGame' /\ Here' = g BY <1>3, <1>4, <1>13 DEF HasGame, Here
<1>15. g.stake = c.bet /\ Level(c.bet)' /\ (door = "videopoker" => ~g.drawn) BY <1>3, <1>4 DEF Level
<1>16. CASE door = "blackjack" /\ g.finished
  <2>1. Natural' BY <1>13, <1>14, <1>15, <1>16 DEF Natural
  <2>2. QED BY <1>13, <2>1, AtRestNext DEF AtRest
<1>17. CASE ~(door = "blackjack" /\ g.finished)
  <2>1. AtStake' = c.bet BY <1>2, <1>14, <1>15, <1>17 DEF AtStake
  <2>2. AtTheDoor' BY <1>2, <1>13, <1>14, <1>15, <1>17, <2>1 DEF AtTheDoor
  <2>3. QED BY <1>13, <2>2, AtRestNext DEF AtRest
<1>18. QED BY <1>16, <1>17

LEMMA GotSettledPurse ==
  ASSUME DoorTypes, cmds' = <<>>, screen.open, UNCHANGED <<door, games, balance, ledger, lost>>,
         NEW c \in DoorCmds, c.st = "done", ~c.err, Loads(c) \/ Buys(c) \/ Draws(c) \/ Pays(c),
         c.kind = "settle", GotSettled(c)
  PROVE  UnderWay'
<1>1. Pays(c) BY DEF Loads, Buys, Draws
<1>2. door = "blackjack"
  <2>1. c.kind \in DoorKinds BY DEF DoorCmds
  <2>2. QED BY <2>1 DEF DoorKinds, DoorTypes
<1>3. /\ screen.ticks = 0 /\ ~screen.spinning /\ ~screen.cashedOut /\ c.copy = balance /\ Level(0)
      /\ HasGame /\ Here.finished
  BY <1>1, <1>2 DEF Pays, Still
<1>4. screen' = [screen EXCEPT !.wallet = c.copy] BY DEF GotSettled
<1>5. screen \in DoorScreens BY DEF DoorTypes
<1>6. /\ screen'.open /\ screen'.wallet = c.copy /\ screen'.game = screen.game
      /\ screen'.spinning = screen.spinning /\ screen'.cashedOut = screen.cashedOut
      /\ screen'.ticks = screen.ticks
  BY <1>4, <1>5 DEF DoorScreens
<1>7. HasGame' /\ Here' = Here BY <1>3, <1>6 DEF HasGame, Here
<1>8. AtStake' = 0 BY <1>2, <1>3, <1>7 DEF AtStake
<1>9. AtTheDoor' BY <1>2, <1>3, <1>6, <1>7, <1>8 DEF AtTheDoor, Level, GameOn
<1>10. QED BY <1>6, <1>9, AtRestNext DEF AtRest

LEMMA GotDrawnPurse ==
  ASSUME DoorTypes, cmds' = <<>>, screen.open, UNCHANGED <<door, games, balance, ledger, lost>>,
         NEW c \in DoorCmds, c.st = "done", ~c.err, Loads(c) \/ Buys(c) \/ Draws(c) \/ Pays(c),
         c.kind = "draw", GotDrawn(c)
  PROVE  UnderWay'
<1>1. Pays(c) BY DEF Loads, Buys, Draws
<1>2. door = "videopoker"
  <2>1. c.kind \in DoorKinds BY DEF DoorCmds
  <2>2. QED BY <2>1 DEF DoorKinds, DoorTypes
<1>3. /\ ~screen.spinning /\ ~screen.cashedOut /\ c.copy = balance /\ Level(0)
      /\ HasGame /\ Here.drawn /\ screen.bet = Here.stake
  BY <1>1, <1>2 DEF Pays
<1>4. PICK s : s = [screen EXCEPT !.wallet = c.copy] OBVIOUS
<1>5. screen' \in {s, Deal(s)} BY <1>3, <1>4 DEF GotDrawn
<1>6. screen \in DoorScreens BY DEF DoorTypes
<1>7. /\ screen'.open /\ screen'.wallet = c.copy /\ screen'.game = screen.game /\ screen'.bet = screen.bet
      /\ screen'.spinning = screen.spinning /\ screen'.cashedOut = screen.cashedOut
  BY <1>4, <1>5, <1>6 DEF DoorScreens, Deal
<1>8. HasGame' /\ Here' = Here BY <1>3, <1>7 DEF HasGame, Here
<1>9. AtStake' = 0 BY <1>2, <1>3, <1>8 DEF AtStake
<1>10. AtTheDoor' BY <1>2, <1>3, <1>7, <1>8, <1>9 DEF AtTheDoor, Level
<1>11. QED BY <1>7, <1>10, AtRestNext DEF AtRest

LEMMA GotCashOutPurse ==
  ASSUME DoorTypes, cmds' = <<>>, screen.open, UNCHANGED <<door, games, balance, ledger, lost>>,
         NEW c \in DoorCmds, c.st = "done", ~c.err, Loads(c) \/ Buys(c) \/ Draws(c) \/ Pays(c),
         c.kind = "cashout", GotCashOut(c)
  PROVE  UnderWay'
<1>1. Pays(c) BY DEF Loads, Buys, Draws
<1>2. door = "holdem"
  <2>1. c.kind \in DoorKinds BY DEF DoorCmds
  <2>2. QED BY <2>1 DEF DoorKinds, DoorTypes
<1>3. ~screen.spinning /\ c.copy = balance /\ Level(0) BY <1>1, <1>2 DEF Pays
<1>4. screen \in DoorScreens BY DEF DoorTypes
<1>5. CASE screen' = [Closed EXCEPT !.wallet = c.copy]
  <2>1. PICK x : x = Closed OBVIOUS
  <2>2. screen' = [x EXCEPT !.wallet = c.copy] BY <1>5, <2>1
  <2>3. x = [open |-> FALSE, wallet |-> screen.wallet, pending |-> screen.pending, bet |-> screen.bet,
             game |-> 0, spinning |-> screen.spinning, cashedOut |-> screen.cashedOut,
             dealing |-> screen.dealing, ticks |-> 0, advances |-> 0]
    BY <2>1, ClosedScreen
  <2>4. /\ ~screen'.open /\ screen'.game = 0 /\ ~screen'.spinning /\ screen'.ticks = 0 /\ screen'.advances = 0
    BY <1>3, <2>2, <2>3
  <2>5. AtRest' BY <1>3, <2>4 DEF AtRest, Away, Still, Level
  <2>6. QED BY <2>5, AtRestNext
<1>6. CASE screen' = [screen EXCEPT !.wallet = c.copy, !.cashedOut = TRUE, !.game = 0]
  <2>1. PICK w \in Int : w = c.copy BY DEF DoorCmds
  <2>2. PICK x : x = [screen EXCEPT !.wallet = w, !.cashedOut = TRUE, !.game = 0] OBVIOUS
  <2>3. x = [open |-> screen.open, wallet |-> w, pending |-> screen.pending, bet |-> screen.bet,
             game |-> 0, spinning |-> screen.spinning, cashedOut |-> TRUE,
             dealing |-> screen.dealing, ticks |-> screen.ticks, advances |-> screen.advances]
    BY <1>4, <2>2, ShowCashOut
  <2>4. screen' = x BY <1>6, <2>1, <2>2
  <2> HIDE <1>6, <2>2
  <2>5. screen'.open /\ screen'.wallet = balance /\ screen'.game = 0 /\ ~screen'.spinning
    BY <1>3, <2>1, <2>3, <2>4
  <2>6. AtStake' = 0 BY <2>5 DEF AtStake, HasGame
  <2>7. AtTheDoor' BY <1>2, <1>3, <2>5, <2>6 DEF AtTheDoor, Level, HasGame
  <2>8. QED BY <2>5, <2>7, AtRestNext DEF AtRest
<1>7. QED BY <1>5, <1>6 DEF GotCashOut

LEMMA GotBuyInPurse ==
  ASSUME DoorTypes, cmds' = <<>>, screen.open, UNCHANGED <<door, balance, ledger, lost>>,
         NEW c \in DoorCmds, c.st = "done", ~c.err, Loads(c) \/ Buys(c) \/ Draws(c) \/ Pays(c),
         c.kind = "buyin", GotBuyIn(c)
  PROVE  UnderWay'
<1>1. Buys(c) BY DEF Loads, Draws, Pays
<1>2. door = "holdem"
  <2>1. c.kind \in DoorKinds BY DEF DoorCmds
  <2>2. QED BY <2>1 DEF DoorKinds, DoorTypes
<1>3. /\ ~screen.spinning /\ ~screen.cashedOut /\ c.copy = balance /\ Level(c.bet) /\ c.bet = screen.bet
  BY <1>1, <1>2 DEF Buys
<1>4. screen \in DoorScreens /\ screen.bet \in Nat /\ c.bet \in Nat /\ c.copy \in Int /\ Len(games) \in Nat
  BY DoorFacts DEF DoorTypes, DoorCmds
<1> DEFINE bb == IF screen.bet \div 50 < 2 THEN 2 ELSE screen.bet \div 50
           table == Staked(NewHeadsUp(screen.bet, bb), c.bet)
           heap == Append(games, table)
<1>5. bb \in Nat BY <1>4
<1>6. PICK s : s = [screen EXCEPT !.wallet = c.copy] OBVIOUS
<1>7. NewHand(s, heap, Len(games) + 1) BY <1>6 DEF GotBuyIn
<1> HIDE DEF bb, table
<1>8. table \in HeadsUpTables /\ table.stake = c.bet
  <2>1. PICK n \in Nat : n = screen.bet BY <1>4
  <2>2. PICK b \in Nat : b = bb BY <1>5
  <2>3. PICK k \in Nat : k = c.bet BY <1>4
  <2>4. table = Staked(NewHeadsUp(n, b), k) BY <2>1, <2>2, <2>3 DEF table
  <2>5. QED BY <1>3, <2>1, <2>3, <2>4, NewHeadsUpEven
<1>9. PICK k \in Nat : k = Len(games) + 1 BY <1>4
<1>10. heap \in Seq(HeadsUpTables) /\ Len(heap) = k /\ heap[k] = table
  BY <1>2, <1>8, <1>9, GamesGrown DEF DoorGameSet
<1> HIDE DEF heap
<1>11. k \in DOMAIN heap /\ k # 0
  <2>1. k # 0 /\ k \in 1 .. k BY <1>4, <1>9
  <2>2. QED BY <1>10, <2>1
<1> DEFINE h == StartHand(table)
<1>12. h.stake = table.stake BY <1>8, StartHandEven
<1>13. games' = [heap EXCEPT ![k] = h]
  <2>1. games' = [heap EXCEPT ![k] = StartHand(@)] BY <1>7, <1>9 DEF NewHand
  <2>2. QED BY <1>10, <1>11, <2>1
<1> HIDE DEF h
<1>14. games'[k] = h BY <1>11, <1>13
<1>15. PICK x : x = [s EXCEPT !.game = k] OBVIOUS
<1>16. screen' = Deal(x) BY <1>7, <1>9, <1>15 DEF NewHand
<1>17. /\ screen'.open /\ screen'.wallet = c.copy /\ screen'.bet = screen.bet /\ screen'.game = k
       /\ screen'.spinning = screen.spinning /\ screen'.cashedOut = screen.cashedOut
  BY <1>4, <1>6, <1>15, <1>16 DEF Deal, DoorScreens
<1>18. HasGame' /\ Here' = h BY <1>11, <1>14, <1>17 DEF HasGame, Here
<1>19. AtStake' = c.bet BY <1>2, <1>8, <1>12, <1>18 DEF AtStake
<1>20. AtTheDoor' BY <1>2, <1>3, <1>8, <1>12, <1>17, <1>18, <1>19 DEF AtTheDoor, Level
<1>21. QED BY <1>17, <1>20, AtRestNext DEF AtRest

LEMMA AnswerPurse == ASSUME DoorTypes, UnderWay, Answer PROVE UnderWay'
<1>1. PICK i \in DOMAIN cmds :
           /\ cmds[i].st = "done" /\ cmds' = RemoveAt(cmds, i)
           /\ UNCHANGED <<door, balance, ledger, lost, failed>>
           /\ \/ ~screen.open /\ UNCHANGED <<screen, games>>
              \/ screen.open /\ cmds[i].kind = "buyin" /\ GotBuyIn(cmds[i])
              \/ screen.open /\ cmds[i].kind = "spin" /\ GotSpin(cmds[i]) /\ UNCHANGED games
              \/ screen.open /\ cmds[i].kind \in {"load", "double"} /\ GotWallet(cmds[i]) /\ UNCHANGED games
              \/ screen.open /\ cmds[i].kind = "deal" /\ GotDeal(cmds[i]) /\ UNCHANGED games
              \/ screen.open /\ cmds[i].kind = "settle" /\ GotSettled(cmds[i]) /\ UNCHANGED games
              \/ screen.open /\ cmds[i].kind = "draw" /\ GotDrawn(cmds[i]) /\ UNCHANGED games
              \/ screen.open /\ cmds[i].kind = "cashout" /\ GotCashOut(cmds[i]) /\ UNCHANGED games
  BY AnswerIs
<1>2. cmds # <<>> BY <1>1, DoorFacts
<1>3. PICK c \in DoorCmds : /\ cmds = <<c>> /\ ~c.err /\ c.g \in 0 .. Len(games)
                            /\ Loads(c) \/ Buys(c) \/ Draws(c) \/ Pays(c)
  BY <1>2, UnderWayIs
<1>4. c = cmds[i] /\ cmds' = <<>> BY <1>1, <1>3, NoneLeft
<1>5. c.st = "done" BY <1>1, <1>4
<1>6. \/ ~screen.open /\ UNCHANGED <<screen, games>>
      \/ screen.open /\ c.kind = "buyin" /\ GotBuyIn(c)
      \/ screen.open /\ c.kind = "spin" /\ GotSpin(c) /\ UNCHANGED games
      \/ screen.open /\ c.kind \in {"load", "double"} /\ GotWallet(c) /\ UNCHANGED games
      \/ screen.open /\ c.kind = "deal" /\ GotDeal(c) /\ UNCHANGED games
      \/ screen.open /\ c.kind = "settle" /\ GotSettled(c) /\ UNCHANGED games
      \/ screen.open /\ c.kind = "draw" /\ GotDrawn(c) /\ UNCHANGED games
      \/ screen.open /\ c.kind = "cashout" /\ GotCashOut(c) /\ UNCHANGED games
  BY <1>1, <1>4
<1>7. UNCHANGED <<door, balance, ledger, lost>> BY <1>1
<1> HIDE <1>1
<1>8. CASE ~screen.open /\ UNCHANGED <<screen, games>> BY <1>3, <1>4, <1>5, <1>7, <1>8, AwayPurse
<1>9. CASE screen.open /\ c.kind = "buyin" /\ GotBuyIn(c) BY <1>3, <1>4, <1>5, <1>7, <1>9, GotBuyInPurse
<1>10. CASE screen.open /\ c.kind = "spin" /\ GotSpin(c) /\ UNCHANGED games
  BY <1>3, <1>4, <1>5, <1>7, <1>10, GotSpinPurse
<1>11. CASE screen.open /\ c.kind \in {"load", "double"} /\ GotWallet(c) /\ UNCHANGED games
  BY <1>3, <1>4, <1>5, <1>7, <1>11, GotWalletPurse
<1>12. CASE screen.open /\ c.kind = "deal" /\ GotDeal(c) /\ UNCHANGED games
  BY <1>3, <1>4, <1>5, <1>7, <1>12, GotDealPurse
<1>13. CASE screen.open /\ c.kind = "settle" /\ GotSettled(c) /\ UNCHANGED games
  BY <1>3, <1>4, <1>5, <1>7, <1>13, GotSettledPurse
<1>14. CASE screen.open /\ c.kind = "draw" /\ GotDrawn(c) /\ UNCHANGED games
  BY <1>3, <1>4, <1>5, <1>7, <1>14, GotDrawnPurse
<1>15. CASE screen.open /\ c.kind = "cashout" /\ GotCashOut(c) /\ UNCHANGED games
  BY <1>3, <1>4, <1>5, <1>7, <1>15, GotCashOutPurse
<1>16. QED BY <1>6, <1>8, <1>9, <1>10, <1>11, <1>12, <1>13, <1>14, <1>15

LEMMA PurseKept ==
  ASSUME DoorTypes, PurseInv, {"blackjack", "videopoker", "holdem"} \subseteq Patient, ~Rebuying,
         [DoorNext]_doorVars
  PROVE  PurseInv'
<1> SUFFICES ASSUME Undisturbed' PROVE UnderWay' BY DEF PurseInv
<1>1. DoorTypes' /\ Keeps BY DoorNextTypes
<1>2. Undisturbed BY <1>1, StillUndisturbed
<1>3. UnderWay BY <1>2 DEF PurseInv
<1>4. CASE UNCHANGED doorVars
  <2>1. UNCHANGED <<door, balance, ledger, screen, games, cmds, lost>> BY <1>4 DEF doorVars
  <2>2. HasGame' = HasGame /\ Here' = Here /\ Still' = Still BY <2>1 DEF HasGame, Here, Still
  <2>3. AtStake' = AtStake /\ Level(0)' = Level(0) /\ Away' = Away BY <2>1, <2>2 DEF AtStake, Level, Away
  <2>4. CASE cmds = <<>> /\ AtRest
    <3>1. Level(AtStake)' = Level(AtStake) /\ (HasGame => Level(Here.stake)' = Level(Here.stake))
      BY <2>1, <2>2, <2>3 DEF Level
    <3>2. AtTheDoor' = AtTheDoor BY <2>1, <2>2, <2>3, <3>1 DEF AtTheDoor, GameOn
    <3>3. Natural' = Natural BY <2>1, <2>2, <3>1 DEF Natural
    <3>4. Turning' = Turning BY <2>1, <2>3 DEF Turning
    <3>5. AtRest' BY <2>1, <2>3, <2>4, <3>2, <3>3, <3>4 DEF AtRest
    <3>6. QED BY <2>1, <2>4, <3>5, AtRestNext
  <2>5. ASSUME NEW c \in DoorCmds, cmds = <<c>>, ~c.err, Loads(c) \/ Buys(c) \/ Draws(c) \/ Pays(c)
        PROVE  UnderWay'
    <3>1. Level(c.bet)' = Level(c.bet) /\ Level(c.bet - c.pay)' = Level(c.bet - c.pay) BY <2>1 DEF Level
    <3>2. CASE Loads(c)
      <4>1. Loads(c)' BY <2>1, <2>3, <3>2 DEF Loads
      <4>2. QED BY <2>1, <2>5, <4>1, UnderWayNext
    <3>3. CASE Buys(c)
      <4>1. Buys(c)' BY <2>1, <2>2, <2>3, <3>1, <3>3 DEF Buys
      <4>2. QED BY <2>1, <2>5, <4>1, UnderWayNext
    <3>4. CASE Draws(c)
      <4>1. Draws(c)' BY <2>1, <2>2, <2>3, <3>1, <3>4 DEF Draws
      <4>2. QED BY <2>1, <2>5, <4>1, UnderWayNext
    <3>5. CASE Pays(c)
      <4>1. Pays(c)' BY <2>1, <2>2, <2>3, <3>1, <3>5 DEF Pays
      <4>2. QED BY <2>1, <2>5, <4>1, UnderWayNext
    <3>6. QED BY <2>5, <3>2, <3>3, <3>4, <3>5
  <2>6. QED BY <1>3, <2>4, <2>5, UnderWayIs
<1>5. CASE Enter BY <1>3, <1>5, EnterPurse
<1>6. CASE Esc BY <1>3, <1>6, EscPurse
<1>7. CASE PressKey BY <1>1, <1>3, <1>7, PressKeyPurse
<1>8. CASE Advance BY <1>3, <1>8, AdvancePurse
<1>9. CASE RunCommand BY <1>2, <1>3, <1>9, RunPurse
<1>10. CASE Answer BY <1>3, <1>10, AnswerPurse
<1>11. CASE Tick BY <1>2, <1>3, <1>11, TickPurse
<1>12. QED BY <1>4, <1>5, <1>6, <1>7, <1>8, <1>9, <1>10, <1>11 DEF DoorNext

LEMMA DoorInitPurse == ASSUME DoorInit PROVE PurseInv
<1>1. /\ balance = Purse /\ ledger = 0 /\ lost = 0 /\ cmds = <<>>
      /\ screen = [NewScreen EXCEPT !.open = FALSE]
  BY DEF DoorInit
<1>2. ~screen.open /\ screen.ticks = 0 /\ screen.advances = 0 /\ screen.game = 0 /\ ~screen.spinning
  BY <1>1 DEF NewScreen
<1>3. Level(0)
  <2>1. Purse \in Nat BY DoorAssumption
  <2>2. Purse = Purse + 0 - 0 - 0 BY <2>1
  <2>3. QED BY <1>1, <2>2 DEF Level
<1>4. AtRest BY <1>2, <1>3 DEF AtRest, Away, Still
<1>5. QED BY <1>1, <1>4 DEF PurseInv, UnderWay

LEMMA PurseSays == ASSUME DoorTypes, PurseInv PROVE WalletAgreesWithRecord
<1> SUFFICES ASSUME Quiet, Undisturbed PROVE balance = Purse + ledger - lost - AtStake
  BY DEF WalletAgreesWithRecord
<1>1. UnderWay /\ cmds = <<>> /\ screen.ticks = 0 BY DEF PurseInv, Quiet
<1>2. AtRest BY <1>1 DEF UnderWay
<1>3. CASE ~screen.open
  <2>1. Away /\ Level(0) BY <1>2, <1>3 DEF AtRest
  <2>2. AtStake = 0 BY <2>1 DEF Away, AtStake, HasGame
  <2>3. QED BY <2>1, <2>2 DEF Level
<1>4. CASE screen.open
  <2>1. AtTheDoor BY <1>1, <1>2, <1>4 DEF AtRest, Natural, Turning
  <2>2. QED BY <2>1 DEF AtTheDoor, Level
<1>5. QED BY <1>3, <1>4

(* When nothing is under way the wallet is what it was, plus the net of    *)
(* every round in game_rounds, less the stake on the table and the hands   *)
(* walked away from, at all four doors (slots.go, blackjack.go,            *)
(* videopoker.go, holdem.go over wallet.go Bet, Credit, Record): with a    *)
(* player who waits for one thing before the next and buys in once, no     *)
(* payout is lost, none is made without its stake, none is made twice.     *)
(* At the slots he need not wait: the screen holds his keys itself.        *)
THEOREM WalletKeptWithRecord ==
  ASSUME {"blackjack", "videopoker", "holdem"} \subseteq Patient, ~Rebuying
  PROVE  DoorSpec => []WalletAgreesWithRecord
<1>1. DoorInit => DoorTypes /\ PurseInv BY DoorInitTypes, DoorInitPurse
<1>2. DoorTypes /\ PurseInv /\ [DoorNext]_doorVars => (DoorTypes /\ PurseInv)' BY DoorNextTypes, PurseKept
<1>3. DoorTypes /\ PurseInv => WalletAgreesWithRecord BY PurseSays
<1>4. QED BY <1>1, <1>2, <1>3, PTL DEF DoorSpec

-----------------------------------------------------------------------------
(* The Web screen: lists.                                                  *)
IsList(s) == \E S : s \in Seq(S)

LEMMA ListIs ==
  ASSUME NEW s, IsList(s)
  PROVE  /\ Len(s) \in Nat /\ DOMAIN s = 1 .. Len(s) /\ (s = <<>> <=> Len(s) = 0)
         /\ s = [i \in 1 .. Len(s) |-> s[i]]
<1>1. PICK S : s \in Seq(S)
  BY DEF IsList
<1> QED
  BY <1>1

LEMMA ListMapped ==
  ASSUME NEW n \in Nat, NEW t, t = [i \in 1 .. n |-> t[i]]
  PROVE  IsList(t) /\ Len(t) = n
<1> DEFINE S == {t[i] : i \in 1 .. n}
<1>1. \A i \in 1 .. n : t[i] \in S
  OBVIOUS
<1> HIDE DEF S
<1>2. t \in [1 .. n -> S]
  BY <1>1
<1>3. t \in Seq(S) /\ Len(t) = n
  BY <1>2
<1> QED
  BY <1>3 DEF IsList

LEMMA ListOne ==
  ASSUME NEW x
  PROVE  /\ IsList(<<x>>) /\ Len(<<x>>) = 1 /\ <<x>>[1] = x
         /\ IsList(<<>>) /\ Len(<<>>) = 0
<1>1. <<x>> \in Seq({x}) /\ <<>> \in Seq({x})
  OBVIOUS
<1> QED
  BY <1>1 DEF IsList

LEMMA ListJoined ==
  ASSUME NEW s, NEW t, IsList(s), IsList(t)
  PROVE  /\ IsList(s \o t) /\ Len(s \o t) = Len(s) + Len(t)
         /\ \A i \in 1 .. Len(s) + Len(t) : (s \o t)[i] = IF i <= Len(s) THEN s[i] ELSE t[i - Len(s)]
<1>1. PICK S : s \in Seq(S)
  BY DEF IsList
<1>2. PICK T : t \in Seq(T)
  BY DEF IsList
<1> DEFINE U == S \cup T
<1>3. s \in Seq(U) /\ t \in Seq(U)
  BY <1>1, <1>2
<1> HIDE DEF U
<1>4. s \o t \in Seq(U)
  BY <1>3
<1> QED
  BY <1>3, <1>4 DEF IsList

LEMMA ListAppended ==
  ASSUME NEW s, NEW x, IsList(s)
  PROVE  /\ IsList(Append(s, x)) /\ Len(Append(s, x)) = Len(s) + 1
         /\ \A i \in 1 .. Len(s) + 1 : Append(s, x)[i] = IF i <= Len(s) THEN s[i] ELSE x
<1>1. PICK S : s \in Seq(S)
  BY DEF IsList
<1> DEFINE U == S \cup {x}
<1>2. s \in Seq(U) /\ x \in U
  BY <1>1
<1> HIDE DEF U
<1>3. Append(s, x) \in Seq(U) /\ Len(Append(s, x)) = Len(s) + 1
  BY <1>2
<1>4. \A i \in 1 .. Len(s) + 1 : Append(s, x)[i] = IF i <= Len(s) THEN s[i] ELSE x
  BY <1>2
<1> QED
  BY <1>3, <1>4 DEF IsList

LEMMA ListCut ==
  ASSUME NEW s, IsList(s), NEW i \in Int, NEW n \in Nat, n <= Len(s), i >= 1
  PROVE  /\ IsList(SubSeq(s, i, n)) /\ Len(SubSeq(s, i, n)) = IF i <= n THEN n - i + 1 ELSE 0
         /\ \A k \in 1 .. Len(SubSeq(s, i, n)) : SubSeq(s, i, n)[k] = s[i + k - 1]
<1>1. PICK S : s \in Seq(S)
  BY DEF IsList
<1>2. SubSeq(s, i, n) \in Seq(S) /\ Len(SubSeq(s, i, n)) = IF i <= n THEN n - i + 1 ELSE 0
  BY <1>1
<1>3. \A k \in 1 .. Len(SubSeq(s, i, n)) : SubSeq(s, i, n)[k] = s[i + k - 1]
  BY <1>1, <1>2
<1> QED
  BY <1>2, <1>3 DEF IsList

LEMMA ListLess ==
  ASSUME NEW s, IsList(s), NEW i \in 1 .. Len(s)
  PROVE  /\ IsList(RemoveAt(s, i)) /\ Len(RemoveAt(s, i)) = Len(s) - 1
         /\ \A k \in 1 .. Len(s) - 1 : RemoveAt(s, i)[k] = IF k < i THEN s[k] ELSE s[k + 1]
<1> DEFINE a == SubSeq(s, 1, i - 1)
           b == SubSeq(s, i + 1, Len(s))
<1>0. Len(s) \in Nat
  BY ListIs
<1>1. IsList(a) /\ Len(a) = i - 1 /\ \A k \in 1 .. Len(a) : a[k] = s[1 + k - 1]
  BY <1>0, ListCut
<1>2. IsList(b) /\ Len(b) = Len(s) - i /\ \A k \in 1 .. Len(b) : b[k] = s[i + 1 + k - 1]
  BY <1>0, ListCut
<1>3. RemoveAt(s, i) = a \o b
  BY DEF RemoveAt
<1> HIDE DEF a, b
<1>4. /\ IsList(a \o b) /\ Len(a \o b) = Len(a) + Len(b)
      /\ \A k \in 1 .. Len(a) + Len(b) : (a \o b)[k] = IF k <= Len(a) THEN a[k] ELSE b[k - Len(a)]
  BY <1>1, <1>2, ListJoined
<1>5. ASSUME NEW k \in 1 .. Len(s) - 1 PROVE (a \o b)[k] = IF k < i THEN s[k] ELSE s[k + 1]
  <2>1. CASE k < i
    BY <1>0, <1>1, <1>2, <1>4, <2>1
  <2>2. CASE ~(k < i)
    <3>1. (a \o b)[k] = b[k - Len(a)] /\ k - Len(a) \in 1 .. Len(b)
      BY <1>0, <1>1, <1>2, <1>4, <2>2
    <3>2. b[k - Len(a)] = s[i + 1 + (k - Len(a)) - 1] /\ i + 1 + (k - Len(a)) - 1 = k + 1
      BY <1>0, <1>1, <1>2, <3>1
    <3> QED
      BY <2>2, <3>1, <3>2
  <2> QED
    BY <2>1, <2>2
<1> QED
  BY <1>0, <1>1, <1>2, <1>3, <1>4, <1>5

-----------------------------------------------------------------------------
(* What a screen may hold: B the bookmarks, n the next id, R the recent visits. *)
WebFields == {"marks", "recent", "focus", "typing", "line", "bm", "hs", "last", "editor", "confirm",
              "rich", "todo", "waits"}
JobFields == {"kind", "id", "url", "title", "rows", "done", "ok"}
MarkFields == {"id", "url", "title"}
MarksJobs == {"bookmarks", "save", "deleteBookmark"}
VisitJobs == {"visits", "browse", "deleteVisit", "clearHistory"}

\* An id that somebody has read is the id of the address it was read with, or of no row.
Known(p, B, n) == p.id \in Nat /\ p.id < n /\ \A i \in DOMAIN B : B[i].id = p.id => B[i].url = p.url
KnownRows(s, B, n) == IsList(s) /\ \A i \in DOMAIN s : Known(s[i], B, n)
MarksTable(B, n) ==
  n \in Nat /\ KnownRows(B, B, n) /\ \A i \in DOMAIN B : B[i] = [f \in MarkFields |-> B[i][f]]

JobSound(c, B, n) ==
  /\ c = [f \in JobFields |-> c[f]] /\ c.kind \in MarksJobs \cup VisitJobs /\ c.done \in BOOLEAN
  /\ IsList(c.rows)
  /\ c.kind = "bookmarks" => KnownRows(c.rows, B, n)
  /\ c.kind = "deleteBookmark" => Known(c, B, n)
TodoSound(todo, B, n) == IsList(todo) /\ \A i \in DOMAIN todo : JobSound(todo[i], B, n)

Loaded(l) == l = <<>> \/ (l = <<l[1]>> /\ IsList(l[1]))
ListsSound(w, B, n) == Loaded(w.marks) /\ Loaded(w.recent) /\ KnownRows(Marks(w), B, n)
CursorsSound(w) ==
  /\ w.bm \in Nat \ {0} /\ w.hs \in Nat \ {0}
  /\ Recent(w) = <<>> \/ w.hs <= Len(Recent(w))
QuestionSound(w, B, n) ==
  \/ w.confirm = NoQuestion \/ w.confirm.kind = "clearHistory"
  \/ w.confirm.kind = "deleteBookmark" /\ Known(w.confirm, B, n)
OneScreen(w) == w = [f \in WebFields |-> w[f]]
ScreenSound(w, B, n) ==
  OneScreen(w) /\ TodoSound(w.todo, B, n) /\ ListsSound(w, B, n) /\ CursorsSound(w) /\ QuestionSound(w, B, n)

JobTells(c, B, R) ==
  /\ c.kind = "bookmarks" /\ c.done => c.rows = B
  /\ c.kind = "visits" /\ c.done => c.rows = R
  /\ c.kind # "browse" => c.ok = TRUE
Alone(todo) == Len(todo) <= 1 \/ (Len(todo) = 2 /\ todo[1].kind = "bookmarks" /\ todo[2].kind = "visits")
Brings(todo, kinds) == \E i \in DOMAIN todo : todo[i].kind \in kinds
PatientOk(w, B, R) ==
  /\ Alone(w.todo) /\ \A i \in DOMAIN w.todo : JobTells(w.todo[i], B, R)
  /\ w.marks = <<B>> \/ Brings(w.todo, MarksJobs)
  /\ w.recent = <<R>> \/ Brings(w.todo, VisitJobs)

TablesSound == MarksTable(bookmarks, nextRow) /\ IsList(visited)
ScreensSound ==
  web = [b \in Browsers |-> web[b]] /\ \A b \in Browsers : ScreenSound(web[b], bookmarks, nextRow)
WaitsAt(b) == Browsers = {b} /\ web[b].waits /\ ~RowErrors
PatientKnow == \A b \in Browsers : WaitsAt(b) => PatientOk(web[b], bookmarks, RecentWebHistory)
WebInv == TablesSound /\ ScreensSound /\ PatientKnow

-----------------------------------------------------------------------------
(* A key.                                                                  *)
Posed(c, B, n) == JobSound(c, B, n) /\ c.done = FALSE /\ c.ok = TRUE

\* What a key does to a screen: it may ask for one command.
Keying(w, v, B, n) ==
  /\ ScreenSound(v, B, n)
  /\ v.marks = w.marks /\ v.recent = w.recent /\ v.waits = w.waits
  /\ \/ v.todo = w.todo
     \/ \E c : v.todo = Append(w.todo, c) /\ Posed(c, B, n)

LEMMA SameLists ==
  ASSUME NEW w, NEW v, NEW B, NEW n, ScreenSound(w, B, n), OneScreen(v),
         v.marks = w.marks, v.recent = w.recent, v.waits = w.waits, v.todo = w.todo,
         v.bm \in Nat \ {0}, v.hs \in Nat \ {0}, Recent(w) = <<>> \/ v.hs <= Len(Recent(w)),
         QuestionSound(v, B, n)
  PROVE  Keying(w, v, B, n)
<1>1. Marks(v) = Marks(w) /\ Recent(v) = Recent(w)
  BY DEF Marks, Recent
<1>2. TodoSound(v.todo, B, n) /\ ListsSound(v, B, n)
  BY <1>1 DEF ScreenSound, ListsSound
<1>3. CursorsSound(v)
  BY <1>1 DEF CursorsSound
<1> QED
  BY <1>2, <1>3 DEF Keying, ScreenSound

LEMMA OneMore ==
  ASSUME NEW w, NEW v, NEW B, NEW n, NEW c, Keying(w, v, B, n), v.todo = w.todo,
         Posed(c, B, n)
  PROVE  Keying(w, Does(v, c), B, n)
<1> DEFINE u == Does(v, c)
<1>0. JobSound(c, B, n)
  BY DEF Posed
<1>1. OneScreen(v) /\ ScreenSound(v, B, n)
  BY DEF Keying, ScreenSound
<1>2. OneScreen(u) /\ u.todo = Append(v.todo, c) /\ u.marks = v.marks /\ u.recent = v.recent
  BY <1>1 DEF OneScreen, WebFields, Does
<1>3. u.waits = v.waits /\ u.bm = v.bm /\ u.hs = v.hs /\ u.confirm = v.confirm
  BY <1>1 DEF OneScreen, WebFields, Does
<1> HIDE DEF u
<1>4. Marks(u) = Marks(v) /\ Recent(u) = Recent(v)
  BY <1>2 DEF Marks, Recent
<1>5. ListsSound(u, B, n) /\ CursorsSound(u) /\ QuestionSound(u, B, n)
  BY <1>1, <1>2, <1>3, <1>4 DEF ScreenSound, ListsSound, CursorsSound, QuestionSound
<1>6. TodoSound(u.todo, B, n)
  <2>1. IsList(v.todo) /\ \A i \in DOMAIN v.todo : JobSound(v.todo[i], B, n)
    BY <1>1 DEF ScreenSound, TodoSound
  <2>2. Len(v.todo) \in Nat /\ DOMAIN v.todo = 1 .. Len(v.todo)
    BY <2>1, ListIs
  <2>3. IsList(u.todo) /\ Len(u.todo) = Len(v.todo) + 1
    BY <1>2, <2>1, ListAppended
  <2>4. \A i \in 1 .. Len(v.todo) + 1 : u.todo[i] = IF i <= Len(v.todo) THEN v.todo[i] ELSE c
    BY <1>2, <2>1, ListAppended
  <2>5. DOMAIN u.todo = 1 .. Len(v.todo) + 1
    BY <2>2, <2>3, ListIs
  <2>6. ASSUME NEW i \in DOMAIN u.todo PROVE JobSound(u.todo[i], B, n)
    BY <1>0, <2>1, <2>2, <2>4, <2>5
  <2> QED
    BY <2>3, <2>6 DEF TodoSound
<1>7. ScreenSound(u, B, n)
  BY <1>2, <1>5, <1>6 DEF ScreenSound
<1>8. u.marks = w.marks /\ u.recent = w.recent /\ u.waits = w.waits /\ u.todo = Append(w.todo, c)
  BY <1>2, <1>3 DEF Keying
<1> QED
  BY <1>7, <1>8 DEF Keying, u

LEMMA KeyPatience ==
  ASSUME NEW w, NEW v, NEW B, NEW n, NEW R, Keying(w, v, B, n), w.todo = <<>>, PatientOk(w, B, R)
  PROVE  PatientOk(v, B, R)
<1>1. CASE v.todo = w.todo
  BY <1>1 DEF Keying, PatientOk
<1>2. CASE \E c : v.todo = Append(w.todo, c) /\ Posed(c, B, n)
  <2>1. PICK c : v.todo = Append(w.todo, c) /\ Posed(c, B, n)
    BY <1>2
  <2>2. v.todo = <<c>>
    BY <2>1
  <2>3. w.marks = <<B>> /\ w.recent = <<R>>
    BY DEF PatientOk, Brings
  <2>4. v.marks = <<B>> /\ v.recent = <<R>>
    BY <2>3 DEF Keying
  <2>5. Len(v.todo) = 1 /\ DOMAIN v.todo = {1} /\ v.todo[1] = c
    BY <2>2
  <2>6. JobTells(c, B, R)
    BY <2>1 DEF JobTells, Posed
  <2> QED
    BY <2>4, <2>5, <2>6 DEF PatientOk, Alone
<1> QED
  BY <1>1, <1>2 DEF Keying

LEMMA KeyKeeps ==
  ASSUME WebInv, NEW b \in Browsers, CanKey(b), NEW v, Keying(web[b], v, bookmarks, nextRow),
         web' = [web EXCEPT ![b] = v], bookmarks' = bookmarks, visited' = visited, nextRow' = nextRow
  PROVE  WebInv'
<1> USE DEF WebInv
<1>1. TablesSound'
  BY DEF TablesSound
<1>2. web'[b] = v /\ \A a \in Browsers \ {b} : web'[a] = web[a]
  BY DEF ScreensSound
<1>3. ScreensSound'
  <2>1. web' = [a \in Browsers |-> web'[a]]
    BY DEF ScreensSound
  <2>2. ScreenSound(v, bookmarks, nextRow)
    BY DEF Keying
  <2>3. ASSUME NEW a \in Browsers PROVE ScreenSound(web'[a], bookmarks, nextRow)
    BY <1>2, <2>2 DEF ScreensSound
  <2> QED
    BY <2>1, <2>3 DEF ScreensSound
<1>4. PatientKnow'
  <2> SUFFICES ASSUME NEW a \in Browsers, WaitsAt(a)' PROVE PatientOk(web[a], bookmarks, RecentWebHistory)'
    BY DEF PatientKnow
  <2>1. a = b /\ Browsers = {b}
    BY DEF WaitsAt
  <2>2. v.waits = web[b].waits
    BY DEF Keying
  <2>3. WaitsAt(b) /\ web[b].waits
    BY <1>2, <2>1, <2>2 DEF WaitsAt
  <2>4. web[b].todo = <<>>
    BY <2>3 DEF CanKey
  <2>5. PatientOk(web[b], bookmarks, RecentWebHistory)
    BY <2>3 DEF PatientKnow
  <2>6. PatientOk(v, bookmarks, RecentWebHistory)
    BY <2>4, <2>5, KeyPatience
  <2>7. RecentWebHistory' = RecentWebHistory
    BY DEF RecentWebHistory
  <2> QED
    BY <1>2, <2>1, <2>6, <2>7
<1> QED
  BY <1>1, <1>3, <1>4

-----------------------------------------------------------------------------
(* The keys, one by one.                                                   *)
Alike(w, v) ==
  OneScreen(v) /\ v.marks = w.marks /\ v.recent = w.recent /\ v.waits = w.waits /\ v.todo = w.todo
Steady(w, v) == Alike(w, v) /\ v.bm = w.bm /\ v.hs = w.hs /\ v.confirm = w.confirm

LEMMA Strokes ==
  ASSUME NEW w, OneScreen(w), NEW x, NEW y
  PROVE  /\ Steady(w, [w EXCEPT !.focus = x]) /\ Steady(w, [w EXCEPT !.typing = x])
         /\ Steady(w, [w EXCEPT !.line = x]) /\ Steady(w, [w EXCEPT !.rich = x])
         /\ Steady(w, [w EXCEPT !.focus = x, !.typing = y]) /\ Steady(w, [w EXCEPT !.editor = x, !.typing = y])
<1> USE DEF OneScreen, WebFields, Alike, Steady
<1>1. Steady(w, [w EXCEPT !.focus = x]) OBVIOUS
<1>2. Steady(w, [w EXCEPT !.typing = x]) OBVIOUS
<1>3. Steady(w, [w EXCEPT !.line = x]) OBVIOUS
<1>4. Steady(w, [w EXCEPT !.rich = x]) OBVIOUS
<1>5. Steady(w, [w EXCEPT !.focus = x, !.typing = y]) OBVIOUS
<1>6. Steady(w, [w EXCEPT !.editor = x, !.typing = y]) OBVIOUS
<1> QED
  BY <1>1, <1>2, <1>3, <1>4, <1>5, <1>6

Placed(w, v, bm, hs, q) == Alike(w, v) /\ v.bm = bm /\ v.hs = hs /\ v.confirm = q

LEMMA CursorStrokes ==
  ASSUME NEW w, OneScreen(w), NEW x, NEW y
  PROVE  /\ Placed(w, [w EXCEPT !.bm = x], x, w.hs, w.confirm)
         /\ Placed(w, [w EXCEPT !.hs = x], w.bm, x, w.confirm)
         /\ Placed(w, [w EXCEPT !.focus = x, !.hs = y], w.bm, y, w.confirm)
         /\ Placed(w, [w EXCEPT !.focus = x, !.bm = y], y, w.hs, w.confirm)
         /\ Placed(w, [w EXCEPT !.confirm = x], w.bm, w.hs, x)
<1> USE DEF OneScreen, WebFields, Alike, Placed
<1>1. Placed(w, [w EXCEPT !.bm = x], x, w.hs, w.confirm) OBVIOUS
<1>2. Placed(w, [w EXCEPT !.hs = x], w.bm, x, w.confirm) OBVIOUS
<1>3. Placed(w, [w EXCEPT !.focus = x, !.hs = y], w.bm, y, w.confirm) OBVIOUS
<1>4. Placed(w, [w EXCEPT !.focus = x, !.bm = y], y, w.hs, w.confirm) OBVIOUS
<1>5. Placed(w, [w EXCEPT !.confirm = x], w.bm, w.hs, x) OBVIOUS
<1> QED
  BY <1>1, <1>2, <1>3, <1>4, <1>5

LEMMA SteadyKeying ==
  ASSUME NEW w, NEW v, NEW B, NEW n, ScreenSound(w, B, n), Steady(w, v)
  PROVE  Keying(w, v, B, n)
<1>1. CursorsSound(w) /\ QuestionSound(w, B, n)
  BY DEF ScreenSound
<1> QED
  BY <1>1, SameLists DEF Steady, Alike, CursorsSound, QuestionSound

LEMMA SteadyKey ==
  ASSUME WebInv, NEW b \in Browsers, CanKey(b), NEW v, Steady(web[b], v), Typed(b, v)
  PROVE  WebInv'
<1>1. ScreenSound(web[b], bookmarks, nextRow)
  BY DEF WebInv, ScreensSound
<1>2. Keying(web[b], v, bookmarks, nextRow)
  BY <1>1, SteadyKeying
<1> QED
  BY <1>2, KeyKeeps DEF Typed

\* A command that is asked for.

LEMMA NewCmd ==
  ASSUME NEW kind
  PROVE  LET c == WebCmd(kind) IN
           c = [f \in JobFields |-> c[f]] /\ c.kind = kind /\ c.done = FALSE /\ c.ok = TRUE /\ c.rows = <<>>
BY DEF WebCmd, JobFields

LEMMA PosedIs ==
  ASSUME NEW c, NEW B, NEW n, c = [f \in JobFields |-> c[f]], c.kind \in MarksJobs \cup VisitJobs,
         c.done = FALSE, c.ok = TRUE, c.rows = <<>>, c.kind = "deleteBookmark" => Known(c, B, n)
  PROVE  Posed(c, B, n)
<1>1. IsList(c.rows)
  BY ListOne
<1>2. DOMAIN c.rows = {}
  OBVIOUS
<1>3. KnownRows(c.rows, B, n)
  BY <1>1, <1>2 DEF KnownRows
<1> QED
  BY <1>1, <1>3 DEF Posed, JobSound

LEMMA AskedOnly ==
  ASSUME NEW B, NEW n, NEW kind \in MarksJobs \cup VisitJobs, kind # "deleteBookmark"
  PROVE  Posed(WebCmd(kind), B, n)
BY NewCmd, PosedIs

LEMMA AskedUrl ==
  ASSUME NEW B, NEW n, NEW kind \in MarksJobs \cup VisitJobs, kind # "deleteBookmark", NEW url
  PROVE  Posed([WebCmd(kind) EXCEPT !.url = url], B, n)
<1> DEFINE none == <<>>
           d == WebCmd(kind)
           c == [d EXCEPT !.url = url]
<1>1. d = [f \in JobFields |-> d[f]] /\ d.kind = kind /\ d.done = FALSE /\ d.ok = TRUE /\ d.rows = none
  BY NewCmd
<1> HIDE DEF d, none
<1>2. c = [f \in JobFields |-> c[f]] /\ c.kind = kind /\ c.done = FALSE /\ c.ok = TRUE /\ c.rows = none
  BY <1>1 DEF JobFields
<1> HIDE DEF c
<1>3. Posed(c, B, n)
  BY <1>2, PosedIs DEF none
<1> QED
  BY <1>3 DEF c, d

LEMMA AskedRow ==
  ASSUME NEW B, NEW n, NEW kind \in MarksJobs \cup VisitJobs, NEW id, NEW url,
         NEW q, q.id = id, q.url = url, kind = "deleteBookmark" => Known(q, B, n)
  PROVE  Posed([WebCmd(kind) EXCEPT !.id = id, !.url = url], B, n)
<1> DEFINE none == <<>>
           d == WebCmd(kind)
           c == [d EXCEPT !.id = id, !.url = url]
<1>1. d = [f \in JobFields |-> d[f]] /\ d.kind = kind /\ d.done = FALSE /\ d.ok = TRUE /\ d.rows = none
  BY NewCmd
<1> HIDE DEF d, none
<1>2. c = [f \in JobFields |-> c[f]] /\ c.kind = kind /\ c.done = FALSE /\ c.ok = TRUE /\ c.rows = none
  BY <1>1 DEF JobFields
<1>3. c.id = id /\ c.url = url
  BY <1>1 DEF JobFields
<1> HIDE DEF c
<1>4. c.kind = "deleteBookmark" => Known(c, B, n)
  BY <1>2, <1>3 DEF Known
<1>5. Posed(c, B, n)
  BY <1>2, <1>4, PosedIs DEF none
<1> QED
  BY <1>5 DEF c, d

LEMMA AskedSave ==
  ASSUME NEW B, NEW n, NEW id, NEW url, NEW title
  PROVE  Posed([WebCmd("save") EXCEPT !.id = id, !.url = url, !.title = title], B, n)
<1> DEFINE none == <<>>
           d == WebCmd("save")
           c == [d EXCEPT !.id = id, !.url = url, !.title = title]
<1>1. d = [f \in JobFields |-> d[f]] /\ d.kind = "save" /\ d.done = FALSE /\ d.ok = TRUE /\ d.rows = none
  BY NewCmd
<1> HIDE DEF d, none
<1>2. c = [f \in JobFields |-> c[f]] /\ c.kind = "save" /\ c.done = FALSE /\ c.ok = TRUE /\ c.rows = none
  BY <1>1 DEF JobFields
<1> HIDE DEF c
<1>3. c.kind \in MarksJobs \cup VisitJobs /\ c.kind # "deleteBookmark"
  BY <1>2 DEF MarksJobs
<1>4. Posed(c, B, n)
  BY <1>2, <1>3, PosedIs DEF none
<1> QED
  BY <1>4 DEF c, d

LEMMA FocusKeys ==
  ASSUME WebInv, NEW b \in Browsers, CtrlB(b) \/ \E dir \in {1, -1} : Tab(b, dir)
  PROVE  WebInv'
<1> DEFINE w == web[b]
<1>1. CanKey(b) /\ OneScreen(w)
  BY DEF CtrlB, Tab, Browsing, WebInv, ScreensSound, ScreenSound
<1>2. \E v : Steady(w, v) /\ Typed(b, v)
  <2>1. CASE CtrlB(b)
    <3>1. PICK x : Typed(b, OpenEditor(w, 0, x))
      BY <2>1 DEF CtrlB
    <3>2. Steady(w, OpenEditor(w, 0, x))
      BY <1>1, Strokes DEF OpenEditor
    <3> QED
      BY <3>1, <3>2
  <2>2. CASE \E dir \in {1, -1} : Tab(b, dir)
    <3>1. PICK dir \in {1, -1} : Tab(b, dir)
      BY <2>2
    <3>2. \/ CycleFocus(w, dir) = [w EXCEPT !.typing = TRUE]
          \/ \E x : CycleFocus(w, dir) = [w EXCEPT !.focus = x, !.typing = FALSE]
      BY DEF CycleFocus
    <3>3. Steady(w, CycleFocus(w, dir))
      <4>1. \A x : Steady(w, [w EXCEPT !.focus = x, !.typing = FALSE])
        BY <1>1, Strokes
      <4>2. Steady(w, [w EXCEPT !.typing = TRUE])
        BY <1>1, Strokes
      <4> QED
        BY <3>2, <4>1, <4>2
    <3> QED
      BY <3>1, <3>3 DEF Tab
  <2> QED
    BY <2>1, <2>2
<1> QED
  BY <1>1, <1>2, SteadyKey

LEMMA LaunchKey ==
  ASSUME WebInv, NEW b \in Browsers, CanKey(b), NEW url, Launches(b, url)
  PROVE  WebInv'
<1> DEFINE w == web[b]
           v == [w EXCEPT !.rich = TRUE]
           c == [WebCmd("browse") EXCEPT !.url = url]
<1>1. ScreenSound(w, bookmarks, nextRow) /\ OneScreen(w)
  BY DEF WebInv, ScreensSound, ScreenSound
<1>2. Steady(w, v)
  BY <1>1, Strokes
<1>3. Keying(w, v, bookmarks, nextRow) /\ v.todo = w.todo
  BY <1>1, <1>2, SteadyKeying DEF Steady, Alike
<1>4. "browse" \in MarksJobs \cup VisitJobs /\ "browse" # "deleteBookmark"
  BY DEF VisitJobs
<1>5. Posed(c, bookmarks, nextRow)
  BY <1>4, AskedUrl
<1>6. web' = [web EXCEPT ![b] = Does(v, c)] /\ bookmarks' = bookmarks /\ visited' = visited /\ nextRow' = nextRow
  BY DEF Launches
<1> HIDE DEF w, v, c
<1>7. Keying(w, Does(v, c), bookmarks, nextRow)
  BY <1>3, <1>5, OneMore
<1> QED
  BY <1>6, <1>7, KeyKeeps DEF w

LEMMA UrlKeyKeeps ==
  ASSUME WebInv, NEW b \in Browsers, UrlKey(b)
  PROVE  WebInv'
<1> DEFINE w == web[b]
<1>1. CanKey(b) /\ OneScreen(w)
  BY DEF UrlKey, Browsing, WebInv, ScreensSound, ScreenSound
<1>2. CASE \E u \in Urls : Typed(b, [w EXCEPT !.line = u])
  BY <1>1, <1>2, Strokes, SteadyKey
<1>3. CASE Launches(b, w.line)
  BY <1>1, <1>3, LaunchKey
<1>4. CASE \E x : Typed(b, [w EXCEPT !.focus = x])
  BY <1>1, <1>4, Strokes, SteadyKey
<1> QED
  BY <1>2, <1>3, <1>4 DEF UrlKey

\* A key that moves a cursor or asks a question.
LEMMA CursorKey ==
  ASSUME WebInv, NEW b \in Browsers, CanKey(b), NEW v, Alike(web[b], v), Typed(b, v),
         v.bm \in Nat \ {0}, v.hs \in Nat \ {0}, Recent(web[b]) = <<>> \/ v.hs <= Len(Recent(web[b])),
         v.confirm = web[b].confirm \/ QuestionSound(v, bookmarks, nextRow)
  PROVE  WebInv'
<1>1. ScreenSound(web[b], bookmarks, nextRow)
  BY DEF WebInv, ScreensSound
<1>2. QuestionSound(v, bookmarks, nextRow)
  BY <1>1 DEF ScreenSound, QuestionSound
<1>3. Keying(web[b], v, bookmarks, nextRow)
  BY <1>1, <1>2, SameLists DEF Alike
<1> QED
  BY <1>3, KeyKeeps DEF Typed

LEMMA Lengths ==
  ASSUME NEW w, NEW B, NEW n, ScreenSound(w, B, n)
  PROVE  /\ IsList(Marks(w)) /\ IsList(Recent(w))
         /\ Len(Marks(w)) \in Nat /\ Len(Recent(w)) \in Nat
         /\ Marks(w) # <<>> => Len(Marks(w)) > 0
         /\ Recent(w) # <<>> => Len(Recent(w)) > 0
<1>1. IsList(Marks(w))
  BY DEF ScreenSound, ListsSound, KnownRows
<1>2. IsList(Recent(w))
  BY ListOne DEF ScreenSound, ListsSound, Loaded, Recent
<1> QED
  BY <1>1, <1>2, ListIs

LEMMA BookmarksKeyKeeps ==
  ASSUME WebInv, NEW b \in Browsers, BookmarksKey(b)
  PROVE  WebInv'
<1> DEFINE w == web[b]
<1>1. CanKey(b)
  BY DEF BookmarksKey, Browsing
<1>2. ScreenSound(w, bookmarks, nextRow) /\ OneScreen(w) /\ CursorsSound(w)
  BY DEF WebInv, ScreensSound, ScreenSound
<1>3. Len(Marks(w)) \in Nat /\ Len(Recent(w)) \in Nat /\ (Recent(w) # <<>> => Len(Recent(w)) > 0)
  BY <1>2, Lengths
<1>4. CASE w.bm > 1 /\ Typed(b, [w EXCEPT !.bm = @ - 1])
  <2> DEFINE v == [w EXCEPT !.bm = w.bm - 1]
  <2>1. Alike(w, v) /\ v.bm = w.bm - 1 /\ v.hs = w.hs /\ v.confirm = w.confirm
    <3>1. Placed(w, v, w.bm - 1, w.hs, w.confirm)
      BY <1>2, CursorStrokes
    <3> HIDE DEF v
    <3> QED
      BY <3>1 DEF Placed
  <2>2. Typed(b, v)
    BY <1>4
  <2>3. v.bm \in Nat \ {0}
    BY <1>2, <1>4, <2>1 DEF CursorsSound
  <2> HIDE DEF v
  <2> QED
    BY <1>1, <1>2, <2>1, <2>2, <2>3, CursorKey DEF CursorsSound
<1>5. CASE w.bm < Len(Marks(w)) /\ Typed(b, [w EXCEPT !.bm = @ + 1])
  <2> DEFINE v == [w EXCEPT !.bm = w.bm + 1]
  <2>1. Alike(w, v) /\ v.bm = w.bm + 1 /\ v.hs = w.hs /\ v.confirm = w.confirm
    <3>1. Placed(w, v, w.bm + 1, w.hs, w.confirm)
      BY <1>2, CursorStrokes
    <3> HIDE DEF v
    <3> QED
      BY <3>1 DEF Placed
  <2>2. Typed(b, v)
    BY <1>5
  <2>3. v.bm \in Nat \ {0}
    BY <1>2, <2>1 DEF CursorsSound
  <2> HIDE DEF v
  <2> QED
    BY <1>1, <1>2, <2>1, <2>2, <2>3, CursorKey DEF CursorsSound
<1>6. CASE Recent(w) # <<>> /\ Typed(b, [w EXCEPT !.focus = "history", !.hs = 1])
  <2> DEFINE v == [w EXCEPT !.focus = "history", !.hs = 1]
  <2>1. Alike(w, v) /\ v.bm = w.bm /\ v.hs = 1 /\ v.confirm = w.confirm
    <3>1. Placed(w, v, w.bm, 1, w.confirm)
      BY <1>2, CursorStrokes
    <3> HIDE DEF v
    <3> QED
      BY <3>1 DEF Placed
  <2>2. Typed(b, v)
    BY <1>6
  <2> HIDE DEF v
  <2>3. v.hs <= Len(Recent(w)) /\ v.hs \in Nat \ {0} /\ v.bm \in Nat \ {0}
    BY <1>2, <1>3, <1>6, <2>1 DEF CursorsSound
  <2> QED
    BY <1>1, <2>1, <2>2, <2>3, CursorKey
<1>7. CASE Typed(b, OpenEditor(w, 0, w.line))
  BY <1>1, <1>2, <1>7, Strokes, SteadyKey DEF OpenEditor
<1>8. CASE w.bm <= Len(Marks(w)) /\ LET row == Marks(w)[w.bm] IN
             Launches(b, row.url) \/ Typed(b, OpenEditor(w, row.id, row.url))
             \/ Typed(b, Asks(w, "deleteBookmark", row.id, row.url))
  <2> DEFINE row == Marks(w)[w.bm]
             q == [kind |-> "deleteBookmark", id |-> row.id, url |-> row.url]
             v == [w EXCEPT !.confirm = q]
  <2>1. CASE Launches(b, row.url)
    BY <1>1, <2>1, LaunchKey
  <2>2. CASE Typed(b, OpenEditor(w, row.id, row.url))
    <3>1. Steady(w, OpenEditor(w, row.id, row.url))
      BY <1>2, Strokes DEF OpenEditor
    <3> QED
      BY <1>1, <2>2, <3>1, SteadyKey
  <2>3. CASE Typed(b, Asks(w, "deleteBookmark", row.id, row.url))
    <3>1. Alike(w, v) /\ v.bm = w.bm /\ v.hs = w.hs /\ v.confirm = q
      <4>1. Placed(w, v, w.bm, w.hs, q)
        BY <1>2, CursorStrokes
      <4> HIDE DEF v
      <4> QED
        BY <4>1 DEF Placed
    <3>2. Typed(b, v)
      BY <2>3 DEF Asks
    <3>3. KnownRows(Marks(w), bookmarks, nextRow)
      BY <1>2 DEF ScreenSound, ListsSound
    <3>4. w.bm \in DOMAIN Marks(w)
      BY <1>2, <1>3, <1>8, <3>3, ListIs DEF CursorsSound, KnownRows
    <3>5. Known(row, bookmarks, nextRow)
      BY <3>3, <3>4 DEF KnownRows
    <3>6. q.id = row.id /\ q.url = row.url /\ q.kind = "deleteBookmark"
      OBVIOUS
    <3>7. Known(q, bookmarks, nextRow)
      <4> HIDE DEF row, q
      <4> QED
        BY <3>5, <3>6 DEF Known
    <3> HIDE DEF q, v
    <3>8. QuestionSound(v, bookmarks, nextRow)
      BY <3>1, <3>6, <3>7 DEF QuestionSound
    <3> QED
      BY <1>1, <1>2, <3>1, <3>2, <3>8, CursorKey DEF CursorsSound
  <2> QED
    BY <1>8, <2>1, <2>2, <2>3
<1> QED
  BY <1>4, <1>5, <1>6, <1>7, <1>8 DEF BookmarksKey

LEMMA HistoryKeyKeeps ==
  ASSUME WebInv, NEW b \in Browsers, HistoryKey(b)
  PROVE  WebInv'
<1> DEFINE w == web[b]
<1>1. CanKey(b)
  BY DEF HistoryKey, Browsing
<1>2. ScreenSound(w, bookmarks, nextRow) /\ OneScreen(w) /\ CursorsSound(w)
  BY DEF WebInv, ScreensSound, ScreenSound
<1>3. /\ Len(Marks(w)) \in Nat /\ Len(Recent(w)) \in Nat
      /\ Marks(w) # <<>> => Len(Marks(w)) > 0
  BY <1>2, Lengths
<1>4. CASE w.hs > 1 /\ Typed(b, [w EXCEPT !.hs = @ - 1])
  <2> DEFINE v == [w EXCEPT !.hs = w.hs - 1]
  <2>1. Alike(w, v) /\ v.bm = w.bm /\ v.hs = w.hs - 1 /\ v.confirm = w.confirm
    <3>1. Placed(w, v, w.bm, w.hs - 1, w.confirm)
      BY <1>2, CursorStrokes
    <3> HIDE DEF v
    <3> QED
      BY <3>1 DEF Placed
  <2>2. Typed(b, v)
    BY <1>4
  <2> HIDE DEF v
  <2>3. v.hs \in Nat \ {0} /\ (Recent(w) = <<>> \/ v.hs <= Len(Recent(w)))
    BY <1>2, <1>3, <1>4, <2>1 DEF CursorsSound
  <2> QED
    BY <1>1, <1>2, <2>1, <2>2, <2>3, CursorKey DEF CursorsSound
<1>5. CASE w.hs < Len(Recent(w)) /\ Typed(b, [w EXCEPT !.hs = @ + 1])
  <2> DEFINE v == [w EXCEPT !.hs = w.hs + 1]
  <2>1. Alike(w, v) /\ v.bm = w.bm /\ v.hs = w.hs + 1 /\ v.confirm = w.confirm
    <3>1. Placed(w, v, w.bm, w.hs + 1, w.confirm)
      BY <1>2, CursorStrokes
    <3> HIDE DEF v
    <3> QED
      BY <3>1 DEF Placed
  <2>2. Typed(b, v)
    BY <1>5
  <2> HIDE DEF v
  <2>3. v.hs \in Nat \ {0} /\ (Recent(w) = <<>> \/ v.hs <= Len(Recent(w)))
    BY <1>2, <1>3, <1>5, <2>1 DEF CursorsSound
  <2> QED
    BY <1>1, <1>2, <2>1, <2>2, <2>3, CursorKey DEF CursorsSound
<1>6. CASE Marks(w) # <<>> /\ Typed(b, [w EXCEPT !.focus = "bookmarks", !.bm = Len(Marks(w))])
  <2> DEFINE v == [w EXCEPT !.focus = "bookmarks", !.bm = Len(Marks(w))]
  <2>1. Alike(w, v) /\ v.bm = Len(Marks(w)) /\ v.hs = w.hs /\ v.confirm = w.confirm
    <3>1. Placed(w, v, Len(Marks(w)), w.hs, w.confirm)
      BY <1>2, CursorStrokes
    <3> HIDE DEF v
    <3> QED
      BY <3>1 DEF Placed
  <2>2. Typed(b, v)
    BY <1>6
  <2> HIDE DEF v
  <2>3. v.bm \in Nat \ {0}
    BY <1>3, <1>6, <2>1
  <2> QED
    BY <1>1, <1>2, <2>1, <2>2, <2>3, CursorKey DEF CursorsSound
<1>7. CASE Typed(b, [w EXCEPT !.focus = "url", !.typing = TRUE])
  <2>1. Steady(w, [w EXCEPT !.focus = "url", !.typing = TRUE])
    BY <1>2, Strokes
  <2> QED
    BY <1>1, <1>7, <2>1, SteadyKey
<1>8. CASE Typed(b, Asks(w, "clearHistory", 0, Nothing))
  <2> DEFINE q == [kind |-> "clearHistory", id |-> 0, url |-> Nothing]
             v == [w EXCEPT !.confirm = q]
  <2>1. Alike(w, v) /\ v.bm = w.bm /\ v.hs = w.hs /\ v.confirm = q
    <3>1. Placed(w, v, w.bm, w.hs, q)
      BY <1>2, CursorStrokes
    <3> HIDE DEF v
    <3> QED
      BY <3>1 DEF Placed
  <2>2. Typed(b, v)
    BY <1>8 DEF Asks
  <2>3. q.kind = "clearHistory"
    OBVIOUS
  <2> HIDE DEF q, v
  <2>4. QuestionSound(v, bookmarks, nextRow)
    BY <2>1, <2>3 DEF QuestionSound
  <2> QED
    BY <1>1, <1>2, <2>1, <2>2, <2>4, CursorKey DEF CursorsSound
<1>9. CASE LET row == Recent(w)[w.hs] IN
             Launches(b, row.url) \/ Typed(b, OpenEditor(w, 0, row.url)) \/ Change(b, DeleteHistoryRow(w, row))
  <2> DEFINE row == Recent(w)[w.hs]
             c == [WebCmd("deleteVisit") EXCEPT !.id = row.id, !.url = row.url]
  <2>1. CASE Launches(b, row.url)
    BY <1>1, <2>1, LaunchKey
  <2>2. CASE Typed(b, OpenEditor(w, 0, row.url))
    <3>1. Steady(w, OpenEditor(w, 0, row.url))
      BY <1>2, Strokes DEF OpenEditor
    <3> QED
      BY <1>1, <2>2, <3>1, SteadyKey
  <2>3. CASE Change(b, DeleteHistoryRow(w, row))
    <3>1. Keying(w, w, bookmarks, nextRow)
      BY <1>2 DEF Keying
    <3>2. Posed(c, bookmarks, nextRow)
      <4>1. "deleteVisit" \in MarksJobs \cup VisitJobs /\ "deleteVisit" # "deleteBookmark"
        BY DEF VisitJobs
      <4> DEFINE q == [id |-> row.id, url |-> row.url]
      <4>2. q.id = row.id /\ q.url = row.url
        OBVIOUS
      <4> HIDE DEF q, row
      <4> QED
        BY <4>1, <4>2, AskedRow
    <3>3. /\ web' = [web EXCEPT ![b] = Does(w, c)]
          /\ bookmarks' = bookmarks /\ visited' = visited /\ nextRow' = nextRow
      BY <2>3 DEF Change, DeleteHistoryRow
    <3> HIDE DEF c
    <3>4. Keying(w, Does(w, c), bookmarks, nextRow)
      BY <3>1, <3>2, OneMore
    <3> QED
      BY <1>1, <3>3, <3>4, KeyKeeps
  <2> QED
    BY <1>9, <2>1, <2>2, <2>3
<1> QED
  BY <1>4, <1>5, <1>6, <1>7, <1>8, <1>9 DEF HistoryKey

LEMMA EditorKeyKeeps ==
  ASSUME WebInv, NEW b \in Browsers, EditorKey(b)
  PROVE  WebInv'
<1> DEFINE w == web[b]
<1>1. CanKey(b)
  BY DEF EditorKey
<1>2. ScreenSound(w, bookmarks, nextRow) /\ OneScreen(w)
  BY DEF WebInv, ScreensSound, ScreenSound
<1>3. CASE Typed(b, [w EXCEPT !.editor = NoEditor, !.typing = @ \/ w.focus = "url"])
  <2>1. Steady(w, [w EXCEPT !.editor = NoEditor, !.typing = w.typing \/ w.focus = "url"])
    BY <1>2, Strokes
  <2> QED
    BY <1>1, <1>3, <2>1, SteadyKey
<1>4. CASE \E t \in Titles : Change(b, SaveEditor(w, t))
  <2>1. PICK t \in Titles : Change(b, SaveEditor(w, t))
    BY <1>4
  <2> DEFINE c == [WebCmd("save") EXCEPT !.id = w.editor.id, !.url = w.editor.url, !.title = t]
  <2>2. Keying(w, w, bookmarks, nextRow)
    BY <1>2 DEF Keying
  <2>3. Posed(c, bookmarks, nextRow)
    BY AskedSave
  <2>4. /\ web' = [web EXCEPT ![b] = Does(w, c)]
        /\ bookmarks' = bookmarks /\ visited' = visited /\ nextRow' = nextRow
    BY <2>1 DEF Change, SaveEditor
  <2> HIDE DEF c
  <2>5. Keying(w, Does(w, c), bookmarks, nextRow)
    BY <2>2, <2>3, OneMore
  <2> QED
    BY <1>1, <2>4, <2>5, KeyKeeps
<1> QED
  BY <1>3, <1>4 DEF EditorKey

LEMMA ConfirmKeyKeeps ==
  ASSUME WebInv, NEW b \in Browsers, ConfirmKey(b)
  PROVE  WebInv'
<1> DEFINE w == web[b]
           q == NoQuestion
           v == [w EXCEPT !.confirm = q]
<1>1. CanKey(b)
  BY DEF ConfirmKey
<1>2. ScreenSound(w, bookmarks, nextRow) /\ OneScreen(w) /\ CursorsSound(w)
  BY DEF WebInv, ScreensSound, ScreenSound
<1>3. Alike(w, v) /\ v.bm = w.bm /\ v.hs = w.hs /\ v.confirm = q
  <2>1. Placed(w, v, w.bm, w.hs, q)
    BY <1>2, CursorStrokes
  <2> HIDE DEF v
  <2> QED
    BY <2>1 DEF Placed
<1>5. CASE Typed(b, v)
  <2> HIDE DEF v, q
  <2>1. QuestionSound(v, bookmarks, nextRow)
    BY <1>3 DEF QuestionSound, q
  <2> QED
    BY <1>1, <1>2, <1>3, <1>5, <2>1, CursorKey DEF CursorsSound
<1>6. CASE Change(b, ApplyConfirm(w))
  <2>1. Keying(w, v, bookmarks, nextRow) /\ v.todo = w.todo
    <3> HIDE DEF v, q
    <3>1. QuestionSound(v, bookmarks, nextRow)
      BY <1>3 DEF QuestionSound, q
    <3> QED
      BY <1>2, <1>3, <3>1, SameLists DEF Alike, CursorsSound
  <2>2. CASE w.confirm.kind = "clearHistory"
    <3> DEFINE c == WebCmd("clearHistory")
    <3>1. Posed(c, bookmarks, nextRow)
      <4>1. "clearHistory" \in MarksJobs \cup VisitJobs /\ "clearHistory" # "deleteBookmark"
        BY DEF VisitJobs
      <4> QED
        BY <4>1, AskedOnly
    <3>2. /\ web' = [web EXCEPT ![b] = Does(v, c)]
          /\ bookmarks' = bookmarks /\ visited' = visited /\ nextRow' = nextRow
      BY <1>6, <2>2 DEF Change, ApplyConfirm, ClearHistory
    <3> HIDE DEF c, v
    <3>3. Keying(w, Does(v, c), bookmarks, nextRow)
      BY <2>1, <3>1, OneMore
    <3> QED
      BY <1>1, <3>2, <3>3, KeyKeeps
  <2>3. CASE w.confirm.kind # "clearHistory"
    <3> DEFINE id == w.confirm.id
               url == w.confirm.url
               c == [WebCmd("deleteBookmark") EXCEPT !.id = id, !.url = url]
    <3>1. w.confirm.kind = "deleteBookmark" /\ Known(w.confirm, bookmarks, nextRow)
      BY <1>2, <2>3 DEF ScreenSound, QuestionSound, ConfirmKey
    <3>2. "deleteBookmark" \in MarksJobs \cup VisitJobs
      BY DEF MarksJobs
    <3>3. Posed(c, bookmarks, nextRow)
      <4> DEFINE p == w.confirm
      <4>1. p.id = id /\ p.url = url /\ Known(p, bookmarks, nextRow)
        BY <3>1
      <4> HIDE DEF p, id, url
      <4> QED
        BY <3>2, <4>1, AskedRow
    <3>4. /\ web' = [web EXCEPT ![b] = Does(v, c)]
          /\ bookmarks' = bookmarks /\ visited' = visited /\ nextRow' = nextRow
      BY <1>6, <2>3 DEF Change, ApplyConfirm, DeleteBookmark
    <3> HIDE DEF c, v
    <3>5. Keying(w, Does(v, c), bookmarks, nextRow)
      BY <2>1, <3>3, OneMore
    <3> QED
      BY <1>1, <3>4, <3>5, KeyKeeps
  <2> QED
    BY <2>2, <2>3
<1> QED
  BY <1>5, <1>6 DEF ConfirmKey

-----------------------------------------------------------------------------
(* The tables under the statements.                                        *)
\* The rows of B2 are rows of B, with their addresses, or new.
KeepsRows(B, n, B2, n2) ==
  /\ n2 \in Nat /\ n <= n2
  /\ \A k \in DOMAIN B2 :
       (\E j \in DOMAIN B : B2[k].id = B[j].id /\ B2[k].url = B[j].url) \/ B2[k].id = n
\* Every row is there still, but perhaps the one that is to go.
Spares(B, B2, id) == \A j \in DOMAIN B : (\E k \in DOMAIN B2 : B2[k].id = B[j].id) \/ B[j].id = id
TableStep(B, n, B2, n2, id) == MarksTable(B2, n2) /\ KeepsRows(B, n, B2, n2) /\ Spares(B, B2, id)

LEMMA KnownStill ==
  ASSUME NEW p, NEW B, NEW n \in Nat, NEW B2, NEW n2, KeepsRows(B, n, B2, n2), Known(p, B, n)
  PROVE  Known(p, B2, n2)
<1>1. p.id \in Nat /\ p.id < n2
  BY DEF Known, KeepsRows
<1>2. ASSUME NEW k \in DOMAIN B2, B2[k].id = p.id PROVE B2[k].url = p.url
  <2>1. B2[k].id # n
    BY <1>2 DEF Known
  <2>2. PICK j \in DOMAIN B : B2[k].id = B[j].id /\ B2[k].url = B[j].url
    BY <2>1 DEF KeepsRows
  <2> QED
    BY <1>2, <2>2 DEF Known
<1> QED
  BY <1>1, <1>2 DEF Known

LEMMA KnownRowsStill ==
  ASSUME NEW s, NEW B, NEW n \in Nat, NEW B2, NEW n2, KeepsRows(B, n, B2, n2), KnownRows(s, B, n)
  PROVE  KnownRows(s, B2, n2)
<1>1. ASSUME NEW i \in DOMAIN s PROVE Known(s[i], B2, n2)
  BY KnownStill DEF KnownRows
<1> QED
  BY <1>1 DEF KnownRows

LEMMA ScreenStill ==
  ASSUME NEW w, NEW B, NEW n \in Nat, NEW B2, NEW n2, KeepsRows(B, n, B2, n2), ScreenSound(w, B, n)
  PROVE  ScreenSound(w, B2, n2)
<1>1. ASSUME NEW i \in DOMAIN w.todo PROVE JobSound(w.todo[i], B2, n2)
  <2>1. JobSound(w.todo[i], B, n)
    BY DEF ScreenSound, TodoSound
  <2> QED
    BY <2>1, KnownStill, KnownRowsStill DEF JobSound
<1>2. TodoSound(w.todo, B2, n2)
  BY <1>1 DEF ScreenSound, TodoSound
<1>3. ListsSound(w, B2, n2)
  BY KnownRowsStill DEF ScreenSound, ListsSound
<1>4. QuestionSound(w, B2, n2)
  BY KnownStill DEF ScreenSound, QuestionSound
<1> QED
  BY <1>2, <1>3, <1>4 DEF ScreenSound

LEMMA TableSame ==
  ASSUME NEW B, NEW n, NEW n2 \in Nat, NEW id, MarksTable(B, n), n <= n2
  PROVE  TableStep(B, n, B, n2, id)
<1>1. n \in Nat /\ KnownRows(B, B, n)
  BY DEF MarksTable
<1>2. KeepsRows(B, n, B, n2)
  BY DEF KeepsRows
<1>3. KnownRows(B, B, n2)
  BY <1>1, <1>2, KnownRowsStill
<1> QED
  BY <1>2, <1>3 DEF TableStep, MarksTable, Spares

LEMMA TableRetitled ==
  ASSUME NEW B, NEW n, MarksTable(B, n), NEW t, NEW B2, NEW id, B2 = [i \in DOMAIN B |-> B2[i]],
         \A i \in DOMAIN B : B2[i] = B[i] \/ B2[i] = [B[i] EXCEPT !.title = t]
  PROVE  TableStep(B, n, B2, n, id)
<1>1. n \in Nat /\ KnownRows(B, B, n) /\ IsList(B)
  BY DEF MarksTable, KnownRows
<1>2. Len(B) \in Nat /\ DOMAIN B = 1 .. Len(B)
  BY <1>1, ListIs
<1>3. DOMAIN B2 = DOMAIN B
  OBVIOUS
<1>4. IsList(B2)
  BY <1>2, ListMapped
<1>5. ASSUME NEW i \in DOMAIN B
      PROVE  B2[i] = [f \in MarkFields |-> B2[i][f]] /\ B2[i].id = B[i].id /\ B2[i].url = B[i].url
  <2>1. B[i] = [f \in MarkFields |-> B[i][f]]
    BY DEF MarksTable
  <2> DEFINE r == B[i]
             q == [r EXCEPT !.title = t]
  <2>2. q = [f \in MarkFields |-> q[f]] /\ q.id = r.id /\ q.url = r.url
    BY <2>1 DEF MarkFields
  <2>3. B2[i] = r \/ B2[i] = q
    OBVIOUS
  <2> HIDE DEF q
  <2> QED
    BY <2>1, <2>2, <2>3
<1>6. KeepsRows(B, n, B2, n)
  BY <1>1, <1>3, <1>5 DEF KeepsRows
<1>7. Spares(B, B2, id)
  BY <1>3, <1>5 DEF Spares
<1>8. ASSUME NEW i \in DOMAIN B2 PROVE Known(B2[i], B2, n)
  <2>1. Known(B[i], B2, n)
    BY <1>1, <1>3, <1>6, KnownStill DEF KnownRows
  <2> QED
    BY <1>3, <1>5, <2>1 DEF Known
<1> QED
  BY <1>1, <1>3, <1>4, <1>5, <1>6, <1>7, <1>8 DEF TableStep, MarksTable, KnownRows

LEMMA TableGrown ==
  ASSUME NEW B, NEW n, MarksTable(B, n), NEW url, NEW t, NEW id
  PROVE  TableStep(B, n, <<[id |-> n, url |-> url, title |-> t]>> \o B, n + 1, id)
<1> DEFINE r == [id |-> n, url |-> url, title |-> t]
           B2 == <<r>> \o B
<1>1. n \in Nat /\ KnownRows(B, B, n) /\ IsList(B)
  BY DEF MarksTable, KnownRows
<1>2. Len(B) \in Nat /\ DOMAIN B = 1 .. Len(B)
  BY <1>1, ListIs
<1>3. r = [f \in MarkFields |-> r[f]] /\ r.id = n /\ r.url = url
  BY DEF MarkFields
<1> HIDE DEF r
<1>4. IsList(<<r>>) /\ Len(<<r>>) = 1 /\ <<r>>[1] = r
  BY ListOne
<1>5. IsList(B2) /\ Len(B2) = 1 + Len(B)
  BY <1>1, <1>4, ListJoined
<1>6. \A i \in 1 .. 1 + Len(B) : B2[i] = IF i <= 1 THEN <<r>>[i] ELSE B[i - 1]
  BY <1>1, <1>4, ListJoined
<1>7. DOMAIN B2 = 1 .. 1 + Len(B)
  BY <1>5, ListIs
<1> HIDE DEF B2
<1>8. ASSUME NEW i \in DOMAIN B2
      PROVE  B2[i] = r \/ (i - 1 \in DOMAIN B /\ B2[i] = B[i - 1])
  BY <1>2, <1>4, <1>6, <1>7
<1>9. ASSUME NEW j \in DOMAIN B PROVE j + 1 \in DOMAIN B2 /\ B2[j + 1] = B[j]
  BY <1>2, <1>6, <1>7
<1>10. KeepsRows(B, n, B2, n + 1)
  BY <1>1, <1>3, <1>8 DEF KeepsRows
<1>11. Spares(B, B2, id)
  BY <1>9 DEF Spares
<1>12. ASSUME NEW i \in DOMAIN B2 PROVE Known(B2[i], B2, n + 1) /\ B2[i] = [f \in MarkFields |-> B2[i][f]]
  <2>1. CASE i - 1 \in DOMAIN B /\ B2[i] = B[i - 1]
    <3>1. Known(B[i - 1], B, n)
      BY <1>1, <2>1 DEF KnownRows
    <3> QED
      BY <1>1, <1>10, <2>1, <3>1, KnownStill DEF MarksTable
  <2>2. CASE B2[i] = r
    <3>1. ASSUME NEW k \in DOMAIN B2, B2[k].id = r.id PROVE B2[k].url = r.url
      <4>1. CASE k - 1 \in DOMAIN B /\ B2[k] = B[k - 1]
        <5>1. B[k - 1].id \in Nat /\ B[k - 1].id < n
          BY <1>1, <4>1 DEF KnownRows, Known
        <5> QED
          BY <1>1, <1>3, <3>1, <4>1, <5>1
      <4> QED
        BY <1>8, <4>1
    <3> QED
      BY <1>1, <1>3, <2>2, <3>1 DEF Known
  <2> QED
    BY <1>8, <2>1, <2>2
<1>13. MarksTable(B2, n + 1)
  BY <1>1, <1>5, <1>12 DEF MarksTable, KnownRows
<1> QED
  BY <1>10, <1>11, <1>13 DEF TableStep, B2, r

LEMMA WithoutIs ==
  ASSUME NEW s, IsList(s), NEW found \in SUBSET DOMAIN s
  PROVE  /\ IsList(Without(s, found))
         /\ \A k \in DOMAIN Without(s, found) : \E j \in DOMAIN s : Without(s, found)[k] = s[j]
         /\ \A j \in DOMAIN s : j \in found \/ \E k \in DOMAIN Without(s, found) : Without(s, found)[k] = s[j]
<1>1. CASE found = {}
  BY <1>1 DEF Without
<1>2. CASE found # {}
  <2> DEFINE i == CHOOSE i \in found : TRUE
             t == Without(s, found)
  <2>1. i \in found /\ t = RemoveAt(s, i)
    BY <1>2 DEF Without
  <2> HIDE DEF i
  <2>2. Len(s) \in Nat /\ DOMAIN s = 1 .. Len(s) /\ i \in 1 .. Len(s)
    BY <2>1, ListIs
  <2>3. IsList(t) /\ Len(t) = Len(s) - 1
    BY <2>1, <2>2, ListLess
  <2>4. \A k \in 1 .. Len(s) - 1 : t[k] = IF k < i THEN s[k] ELSE s[k + 1]
    BY <2>1, <2>2, ListLess
  <2>5. DOMAIN t = 1 .. Len(s) - 1
    BY <2>3, ListIs
  <2> HIDE DEF t
  <2>6. ASSUME NEW k \in DOMAIN t PROVE \E j \in DOMAIN s : t[k] = s[j]
    <3>1. k \in DOMAIN s /\ k + 1 \in DOMAIN s
      BY <2>2, <2>5
    <3> QED
      BY <2>4, <2>5, <3>1
  <2>7. ASSUME NEW j \in DOMAIN s, j \notin found PROVE \E k \in DOMAIN t : t[k] = s[j]
    <3>1. CASE j < i
      <4>1. j \in DOMAIN t
        BY <2>2, <2>5, <3>1
      <4> QED
        BY <2>4, <2>5, <3>1, <4>1
    <3>2. CASE ~(j < i)
      <4>1. j - 1 \in DOMAIN t /\ ~(j - 1 < i) /\ (j - 1) + 1 = j
        BY <2>1, <2>2, <2>5, <2>7, <3>2
      <4> QED
        BY <2>4, <2>5, <4>1
    <3> QED
      BY <3>1, <3>2
  <2> QED
    BY <2>3, <2>6, <2>7 DEF t
<1> QED
  BY <1>1, <1>2

LEMMA TableStruck ==
  ASSUME NEW B, NEW n, MarksTable(B, n), NEW id
  PROVE  TableStep(B, n, Without(B, {i \in DOMAIN B : B[i].id = id}), n, id)
<1> DEFINE found == {i \in DOMAIN B : B[i].id = id}
           B2 == Without(B, found)
<1>1. n \in Nat /\ KnownRows(B, B, n) /\ IsList(B)
  BY DEF MarksTable, KnownRows
<1>2. \A j \in found : B[j].id = id
  OBVIOUS
<1>3. found \in SUBSET DOMAIN B
  OBVIOUS
<1> HIDE DEF found
<1>4. IsList(B2)
  BY <1>1, <1>3, WithoutIs
<1>5. \A k \in DOMAIN B2 : \E j \in DOMAIN B : B2[k] = B[j]
  BY <1>1, <1>3, WithoutIs
<1>6. \A j \in DOMAIN B : j \in found \/ \E k \in DOMAIN B2 : B2[k] = B[j]
  BY <1>1, <1>3, WithoutIs
<1> HIDE DEF B2
<1>7. KeepsRows(B, n, B2, n)
  BY <1>1, <1>5 DEF KeepsRows
<1>8. Spares(B, B2, id)
  BY <1>2, <1>6 DEF Spares
<1>9. ASSUME NEW k \in DOMAIN B2 PROVE Known(B2[k], B2, n) /\ B2[k] = [f \in MarkFields |-> B2[k][f]]
  <2>1. PICK j \in DOMAIN B : B2[k] = B[j]
    BY <1>5
  <2>2. Known(B[j], B, n) /\ B[j] = [f \in MarkFields |-> B[j][f]]
    BY <1>1 DEF KnownRows, MarksTable
  <2> QED
    BY <1>1, <1>7, <2>1, <2>2, KnownStill
<1>10. MarksTable(B2, n)
  BY <1>1, <1>4, <1>9 DEF MarksTable, KnownRows
<1> QED
  BY <1>7, <1>8, <1>10 DEF TableStep, B2, found

-----------------------------------------------------------------------------
(* A command runs.                                                         *)
Ranned(w, i, d) == [w EXCEPT !.todo[i] = d]

LEMMA RanScreen ==
  ASSUME NEW w, NEW B, NEW n, ScreenSound(w, B, n), NEW i \in DOMAIN w.todo, NEW d, JobSound(d, B, n)
  PROVE  /\ ScreenSound(Ranned(w, i, d), B, n)
         /\ Ranned(w, i, d).todo = [w.todo EXCEPT ![i] = d] /\ Ranned(w, i, d).marks = w.marks
         /\ Ranned(w, i, d).recent = w.recent /\ Ranned(w, i, d).waits = w.waits
<1> DEFINE v == Ranned(w, i, d)
<1>1. OneScreen(w) /\ TodoSound(w.todo, B, n)
  BY DEF ScreenSound
<1>2. OneScreen(v) /\ v.todo = [w.todo EXCEPT ![i] = d] /\ v.marks = w.marks /\ v.recent = w.recent
  BY <1>1 DEF OneScreen, WebFields, Ranned
<1>3. v.waits = w.waits /\ v.bm = w.bm /\ v.hs = w.hs /\ v.confirm = w.confirm
  BY <1>1 DEF OneScreen, WebFields, Ranned
<1> HIDE DEF v
<1>4. Marks(v) = Marks(w) /\ Recent(v) = Recent(w)
  BY <1>2 DEF Marks, Recent
<1>5. ListsSound(v, B, n) /\ CursorsSound(v) /\ QuestionSound(v, B, n)
  BY <1>2, <1>3, <1>4 DEF ScreenSound, ListsSound, CursorsSound, QuestionSound
<1>6. Len(w.todo) \in Nat /\ DOMAIN w.todo = 1 .. Len(w.todo)
  BY <1>1, ListIs DEF TodoSound
<1>7. DOMAIN v.todo = DOMAIN w.todo /\ v.todo = [k \in 1 .. Len(w.todo) |-> v.todo[k]]
  BY <1>2, <1>6
<1>8. IsList(v.todo)
  BY <1>6, <1>7, ListMapped
<1>9. ASSUME NEW k \in DOMAIN v.todo PROVE JobSound(v.todo[k], B, n)
  BY <1>1, <1>2, <1>7 DEF TodoSound
<1>10. ScreenSound(v, B, n)
  BY <1>2, <1>5, <1>8, <1>9 DEF ScreenSound, TodoSound
<1> QED
  BY <1>2, <1>3, <1>10 DEF v

\* What a command of a kind may leave otherwise than it was.
Touches(kind, B, R, B2, R2) ==
  \/ B2 = B /\ R2 = R
  \/ kind \in {"save", "deleteBookmark"} /\ R2 = R
  \/ kind \in {"browse", "deleteVisit", "clearHistory"} /\ B2 = B

LEMMA RanPatience ==
  ASSUME NEW w, NEW v, NEW B, NEW R, NEW B2, NEW R2, NEW i \in DOMAIN w.todo, NEW d,
         PatientOk(w, B, R), IsList(w.todo), d.kind = w.todo[i].kind, JobTells(d, B2, R2),
         Touches(d.kind, B, R, B2, R2),
         v.todo = [w.todo EXCEPT ![i] = d], v.marks = w.marks, v.recent = w.recent
  PROVE  PatientOk(v, B2, R2)
<1>1. Len(w.todo) \in Nat /\ DOMAIN w.todo = 1 .. Len(w.todo)
  BY ListIs
<1>2. DOMAIN v.todo = DOMAIN w.todo /\ v.todo = [k \in 1 .. Len(w.todo) |-> v.todo[k]]
  BY <1>1
<1>3. Len(v.todo) = Len(w.todo)
  BY <1>1, <1>2, ListMapped
<1>4. \A k \in DOMAIN w.todo : v.todo[k].kind = w.todo[k].kind
  OBVIOUS
<1>5. Alone(v.todo)
  <2>1. Len(w.todo) = 2 => 1 \in DOMAIN w.todo /\ 2 \in DOMAIN w.todo
    BY <1>1
  <2> QED
    BY <1>3, <1>4, <2>1 DEF PatientOk, Alone
<1>6. \A kinds : Brings(w.todo, kinds) => Brings(v.todo, kinds)
  BY <1>2, <1>4 DEF Brings
<1>7. CASE B2 = B /\ R2 = R
  <2>1. ASSUME NEW k \in DOMAIN v.todo PROVE JobTells(v.todo[k], B2, R2)
    BY <1>2, <1>7 DEF PatientOk
  <2> QED
    BY <1>5, <1>6, <1>7, <2>1 DEF PatientOk
<1>8. CASE d.kind \in {"save", "deleteBookmark"} /\ R2 = R
  <2>1. Len(w.todo) <= 1
    <3>1. Len(w.todo) = 2 => i = 1 \/ i = 2
      BY <1>1
    <3> QED
      BY <1>1, <1>8, <3>1 DEF PatientOk, Alone
  <2>2. \A k \in DOMAIN w.todo : k = i
    BY <1>1, <2>1
  <2>3. ASSUME NEW k \in DOMAIN v.todo PROVE JobTells(v.todo[k], B2, R2)
    BY <1>2, <2>2
  <2>4. Brings(v.todo, MarksJobs)
    BY <1>2, <1>4, <1>8 DEF Brings, MarksJobs
  <2>5. ~Brings(w.todo, VisitJobs)
    BY <1>8, <2>2 DEF Brings, VisitJobs
  <2> QED
    BY <1>5, <1>8, <2>3, <2>4, <2>5 DEF PatientOk
<1>9. CASE d.kind \in {"browse", "deleteVisit", "clearHistory"} /\ B2 = B
  <2>1. Len(w.todo) <= 1
    <3>1. Len(w.todo) = 2 => i = 1 \/ i = 2
      BY <1>1
    <3> QED
      BY <1>1, <1>9, <3>1 DEF PatientOk, Alone
  <2>2. \A k \in DOMAIN w.todo : k = i
    BY <1>1, <2>1
  <2>3. ASSUME NEW k \in DOMAIN v.todo PROVE JobTells(v.todo[k], B2, R2)
    BY <1>2, <2>2
  <2>4. Brings(v.todo, VisitJobs)
    BY <1>2, <1>4, <1>9 DEF Brings, VisitJobs
  <2>5. ~Brings(w.todo, MarksJobs)
    BY <1>9, <2>2 DEF Brings, MarksJobs
  <2> QED
    BY <1>5, <1>9, <2>3, <2>4, <2>5 DEF PatientOk
<1> QED
  BY <1>7, <1>8, <1>9 DEF Touches

LEMMA CommandKeeps ==
  ASSUME WebInv, NEW b \in Browsers, NEW i \in DOMAIN web[b].todo, NEW d,
         web' = [web EXCEPT ![b] = Ranned(web[b], i, d)],
         MarksTable(bookmarks', nextRow'), KeepsRows(bookmarks, nextRow, bookmarks', nextRow'), IsList(visited'),
         JobSound(d, bookmarks', nextRow'), d.kind = web[b].todo[i].kind,
         Touches(d.kind, bookmarks, RecentWebHistory, bookmarks', RecentWebHistory'),
         ~RowErrors /\ JobTells(web[b].todo[i], bookmarks, RecentWebHistory)
           => JobTells(d, bookmarks', RecentWebHistory')
  PROVE  WebInv'
<1> DEFINE w == web[b]
           v == Ranned(w, i, d)
           R == RecentWebHistory
<1> USE DEF WebInv
<1>1. TablesSound'
  BY DEF TablesSound
<1>2. nextRow \in Nat
  BY DEF TablesSound, MarksTable
<1>3. \A a \in Browsers : ScreenSound(web[a], bookmarks', nextRow')
  BY <1>2, ScreenStill DEF ScreensSound
<1>4. ScreenSound(v, bookmarks', nextRow')
  BY <1>3, RanScreen
<1>5. v.todo = [w.todo EXCEPT ![i] = d] /\ v.marks = w.marks /\ v.recent = w.recent /\ v.waits = w.waits
  BY <1>3, RanScreen
<1>6. IsList(w.todo)
  BY DEF ScreensSound, ScreenSound, TodoSound
<1> HIDE DEF v
<1>7. web'[b] = v /\ \A a \in Browsers \ {b} : web'[a] = web[a]
  BY DEF ScreensSound, v
<1>8. ScreensSound'
  <2>1. web' = [a \in Browsers |-> web'[a]]
    BY DEF ScreensSound
  <2>2. ASSUME NEW a \in Browsers PROVE ScreenSound(web'[a], bookmarks', nextRow')
    BY <1>3, <1>4, <1>7
  <2> QED
    BY <2>1, <2>2 DEF ScreensSound
<1>9. PatientKnow'
  <2> SUFFICES ASSUME NEW a \in Browsers, WaitsAt(a)' PROVE PatientOk(web[a], bookmarks, RecentWebHistory)'
    BY DEF PatientKnow
  <2>1. a = b /\ Browsers = {b}
    BY DEF WaitsAt
  <2>2. WaitsAt(b)
    BY <1>5, <1>7, <2>1 DEF WaitsAt
  <2>3. PatientOk(w, bookmarks, R) /\ ~RowErrors
    BY <2>2 DEF PatientKnow, WaitsAt
  <2>4. JobTells(d, bookmarks', RecentWebHistory')
    BY <2>3 DEF PatientOk
  <2>5. PatientOk(v, bookmarks', RecentWebHistory')
    BY <1>5, <1>6, <2>3, <2>4, RanPatience
  <2> QED
    BY <1>7, <2>1, <2>5
<1> QED
  BY <1>1, <1>8, <1>9

-----------------------------------------------------------------------------
(* The statements, one by one.                                             *)
Redone(c, d, rows, ok) ==
  /\ d = [f \in JobFields |-> d[f]] /\ d.kind = c.kind /\ d.id = c.id /\ d.url = c.url
  /\ d.rows = rows /\ d.ok = ok

LEMMA DoneIs ==
  ASSUME NEW c, c = [f \in JobFields |-> c[f]], NEW x
  PROVE  /\ Redone(c, [c EXCEPT !.done = TRUE], c.rows, c.ok) /\ [c EXCEPT !.done = TRUE].done = TRUE
         /\ Redone(c, [c EXCEPT !.ok = x], c.rows, x)
         /\ Redone(c, [c EXCEPT !.rows = x], x, c.ok)
<1> USE DEF JobFields, Redone
<1>1. Redone(c, [c EXCEPT !.done = TRUE], c.rows, c.ok) /\ [c EXCEPT !.done = TRUE].done = TRUE OBVIOUS
<1>2. Redone(c, [c EXCEPT !.ok = x], c.rows, x) OBVIOUS
<1>3. Redone(c, [c EXCEPT !.rows = x], x, c.ok) OBVIOUS
<1> QED
  BY <1>1, <1>2, <1>3

\* What the statement of command i of b does, its answer d included.
Strikes(c) == IF c.kind = "deleteBookmark" THEN c.id ELSE -1
RunOk(b, i, d) ==
  /\ web' = [web EXCEPT ![b] = Ranned(web[b], i, d)]
  /\ TableStep(bookmarks, nextRow, bookmarks', nextRow', Strikes(web[b].todo[i]))
  /\ IsList(visited')
  /\ JobSound(d, bookmarks', nextRow') /\ d.kind = web[b].todo[i].kind
  /\ Touches(d.kind, bookmarks, RecentWebHistory, bookmarks', RecentWebHistory')
  /\ ~RowErrors /\ JobTells(web[b].todo[i], bookmarks, RecentWebHistory)
       => JobTells(d, bookmarks', RecentWebHistory')

LEMMA RunOkKeeps ==
  ASSUME WebInv, NEW b \in Browsers, NEW i \in DOMAIN web[b].todo, NEW d, RunOk(b, i, d)
  PROVE  WebInv'
BY CommandKeeps DEF RunOk, TableStep

LEMMA CmdSound ==
  ASSUME WebInv, NEW b \in Browsers, NEW i \in DOMAIN web[b].todo
  PROVE  /\ JobSound(web[b].todo[i], bookmarks, nextRow)
         /\ MarksTable(bookmarks, nextRow) /\ nextRow \in Nat /\ IsList(visited) /\ IsList(bookmarks)
BY DEF WebInv, ScreensSound, ScreenSound, TodoSound, TablesSound, MarksTable, KnownRows

\* A command that reads or writes tells what it told.
LEMMA SameAnswer ==
  ASSUME NEW c, NEW B, NEW n \in Nat, JobSound(c, B, n), c.kind # "bookmarks", NEW B2, NEW n2,
         NEW ok, NEW d, Redone(c, d, c.rows, ok), d.done = TRUE, KeepsRows(B, n, B2, n2)
  PROVE  JobSound(d, B2, n2)
<1>1. d = [f \in JobFields |-> d[f]] /\ d.kind = c.kind /\ d.id = c.id /\ d.url = c.url
  BY DEF Redone
<1>2. d.rows = c.rows
  BY DEF Redone
<1>3. c.kind = "deleteBookmark" => Known(c, B2, n2)
  BY KnownStill DEF JobSound
<1>4. c.kind = "deleteBookmark" => Known(d, B2, n2)
  BY <1>1, <1>3 DEF Known
<1> QED
  BY <1>1, <1>2, <1>4 DEF JobSound

LEMMA SameTells ==
  ASSUME NEW c, NEW B, NEW R, JobTells(c, B, R), c.kind \notin {"bookmarks", "visits"}, NEW B2, NEW R2,
         NEW ok, NEW d, Redone(c, d, c.rows, ok), ok = c.ok \/ c.kind = "browse"
  PROVE  JobTells(d, B2, R2)
BY DEF Redone, JobTells

LEMMA ReadsRun ==
  ASSUME WebInv, NEW b \in Browsers, NEW i \in DOMAIN web[b].todo, RunCmd(b, i),
         web[b].todo[i].kind \in {"bookmarks", "visits"}
  PROVE  \E d : RunOk(b, i, d)
<1> DEFINE c == web[b].todo[i]
           B == bookmarks
           R == RecentWebHistory
<1>1. JobSound(c, B, nextRow) /\ MarksTable(B, nextRow) /\ nextRow \in Nat /\ IsList(visited)
  BY CmdSound
<1>2. c = [f \in JobFields |-> c[f]]
  BY <1>1 DEF JobSound
<1>3. IsList(R)
  <2>1. Len(visited) \in Nat
    BY <1>1, ListIs
  <2> DEFINE m == IF Len(visited) < RecentLimit THEN Len(visited) ELSE RecentLimit
  <2>2. m \in Nat /\ m <= Len(visited)
    BY <2>1, WebAssumption
  <2> HIDE DEF m
  <2>3. IsList(SubSeq(visited, 1, m))
    BY <1>1, <2>2, ListCut
  <2> QED
    BY <2>3 DEF RecentWebHistory, m
<1>4. bookmarks' = bookmarks /\ visited' = visited /\ nextRow' = nextRow
  BY DEF RunCmd
<1>5. RecentWebHistory' = RecentWebHistory
  BY <1>4 DEF RecentWebHistory
<1>6. TableStep(B, nextRow, B, nextRow, Strikes(c))
  BY <1>1, TableSame
<1>7. CASE c.kind = "bookmarks"
  <2> DEFINE e == [c EXCEPT !.rows = B]
             d == [e EXCEPT !.done = TRUE]
  <2>1. Redone(c, e, B, c.ok)
    BY <1>2, DoneIs
  <2>2. e = [f \in JobFields |-> e[f]] /\ e.rows = B /\ e.ok = c.ok /\ e.kind = c.kind
    BY <2>1 DEF Redone
  <2>3. web' = [web EXCEPT ![b] = Ranned(web[b], i, d)]
    BY <1>7 DEF RunCmd, Ran, Ranned, ListWebBookmarks
  <2> HIDE DEF e
  <2>4. Redone(e, d, e.rows, e.ok) /\ d.done = TRUE
    BY <2>2, DoneIs
  <2> HIDE DEF d
  <2>5. d = [f \in JobFields |-> d[f]] /\ d.kind = "bookmarks" /\ d.rows = B /\ d.ok = c.ok
    BY <1>7, <2>2, <2>4 DEF Redone
  <2>6. KnownRows(B, B, nextRow) /\ IsList(B)
    BY <1>1 DEF MarksTable, KnownRows
  <2>7. JobSound(d, B, nextRow)
    BY <2>4, <2>5, <2>6 DEF JobSound, MarksJobs
  <2>8. JobTells(c, B, R) => JobTells(d, B, R)
    BY <1>7, <2>5 DEF JobTells
  <2> QED
    BY <1>1, <1>4, <1>5, <1>6, <1>7, <2>3, <2>5, <2>7, <2>8 DEF RunOk, Touches
<1>8. CASE c.kind = "visits"
  <2> DEFINE e == [c EXCEPT !.rows = R]
             d == [e EXCEPT !.done = TRUE]
  <2>1. Redone(c, e, R, c.ok)
    BY <1>2, DoneIs
  <2>2. e = [f \in JobFields |-> e[f]] /\ e.rows = R /\ e.ok = c.ok /\ e.kind = c.kind
    BY <2>1 DEF Redone
  <2>3. web' = [web EXCEPT ![b] = Ranned(web[b], i, d)]
    BY <1>8 DEF RunCmd, Ran, Ranned
  <2> HIDE DEF e
  <2>4. Redone(e, d, e.rows, e.ok) /\ d.done = TRUE
    BY <2>2, DoneIs
  <2> HIDE DEF d
  <2>5. d = [f \in JobFields |-> d[f]] /\ d.kind = "visits" /\ d.rows = R /\ d.ok = c.ok
    BY <1>8, <2>2, <2>4 DEF Redone
  <2>6. JobSound(d, B, nextRow)
    BY <1>3, <2>4, <2>5 DEF JobSound, VisitJobs
  <2>7. JobTells(c, B, R) => JobTells(d, B, R)
    BY <1>8, <2>5 DEF JobTells
  <2> QED
    BY <1>1, <1>4, <1>5, <1>6, <1>8, <2>3, <2>5, <2>6, <2>7 DEF RunOk, Touches
<1> QED
  BY <1>7, <1>8

\* A statement that writes: what is left to show is what it does to the tables.
LEMMA WriteOk ==
  ASSUME WebInv, NEW b \in Browsers, NEW i \in DOMAIN web[b].todo, NEW c, NEW ok, NEW d,
         c = web[b].todo[i], c.kind \notin {"bookmarks", "visits"},
         Redone(c, d, c.rows, ok), d.done = TRUE, ok = c.ok \/ c.kind = "browse" \/ RowErrors,
         web' = [web EXCEPT ![b] = Ranned(web[b], i, d)],
         TableStep(bookmarks, nextRow, bookmarks', nextRow', Strikes(c)), IsList(visited'),
         Touches(c.kind, bookmarks, RecentWebHistory, bookmarks', RecentWebHistory')
  PROVE  RunOk(b, i, d)
<1>1. JobSound(c, bookmarks, nextRow) /\ nextRow \in Nat
  BY CmdSound
<1>2. KeepsRows(bookmarks, nextRow, bookmarks', nextRow')
  BY DEF TableStep
<1>3. JobSound(d, bookmarks', nextRow')
  BY <1>1, <1>2, SameAnswer
<1>4. ~RowErrors /\ JobTells(c, bookmarks, RecentWebHistory) => JobTells(d, bookmarks', RecentWebHistory')
  BY SameTells
<1>5. d.kind = c.kind
  BY DEF Redone
<1> QED
  BY <1>3, <1>4, <1>5 DEF RunOk

LEMMA WritesRun ==
  ASSUME WebInv, NEW b \in Browsers, NEW i \in DOMAIN web[b].todo, RunCmd(b, i),
         web[b].todo[i].kind \notin {"bookmarks", "visits"}
  PROVE  \E d : RunOk(b, i, d)
<1> DEFINE c == web[b].todo[i]
           d == [c EXCEPT !.done = TRUE]
           B == bookmarks
           n == nextRow
<1>1. JobSound(c, B, n) /\ MarksTable(B, n) /\ n \in Nat /\ IsList(visited) /\ IsList(B)
  BY CmdSound
<1>2. c = [f \in JobFields |-> c[f]] /\ c.kind # "browse" /\ c.kind \in MarksJobs \cup VisitJobs
  BY <1>1 DEF JobSound, RunCmd
<1>3. Redone(c, d, c.rows, c.ok) /\ d.done = TRUE
  BY <1>2, DoneIs
<1>4. c.kind \in {"save", "deleteBookmark", "deleteVisit", "clearHistory"}
  BY <1>2 DEF MarksJobs, VisitJobs
<1>5. web' = [web EXCEPT ![b] = Ranned(web[b], i, d)]
  BY <1>4 DEF RunCmd, Ran, Ranned
<1>6. /\ TableStep(B, n, B', n', Strikes(c)) /\ IsList(visited')
      /\ Touches(c.kind, B, RecentWebHistory, B', RecentWebHistory')
  <2>1. CASE c.kind = "save"
    <3>1. visited' = visited /\ RecentWebHistory' = RecentWebHistory
      BY <2>1 DEF RunCmd, RecentWebHistory
    <3>2. Touches(c.kind, B, RecentWebHistory, B', RecentWebHistory')
      BY <2>1, <3>1 DEF Touches
    <3>3. CASE c.id # 0
      <4>1. RenameWebBookmark(c.id, c.title) /\ n' = n
        BY <2>1, <3>3 DEF RunCmd
      <4>2. B' = [j \in DOMAIN B |-> B'[j]]
        BY <4>1 DEF RenameWebBookmark
      <4>3. \A j \in DOMAIN B : B'[j] = B[j] \/ B'[j] = [B[j] EXCEPT !.title = c.title]
        BY <4>1 DEF RenameWebBookmark
      <4>4. TableStep(B, n, B', n, Strikes(c))
        BY <1>1, <4>2, <4>3, TableRetitled
      <4> QED
        BY <1>1, <3>1, <3>2, <4>1, <4>4
    <3>4. CASE c.id = 0
      <4>1. AddWebBookmark(c.url, c.title)
        BY <2>1, <3>4 DEF RunCmd
      <4>2. CASE \E j \in DOMAIN B : B[j].url = c.url
        <5>1. B' = [j \in DOMAIN B |-> B'[j]] /\ n' = n
          BY <4>1, <4>2 DEF AddWebBookmark
        <5>2. \A j \in DOMAIN B : B'[j] = B[j] \/ B'[j] = [B[j] EXCEPT !.title = c.title]
          BY <4>1, <4>2 DEF AddWebBookmark
        <5>3. TableStep(B, n, B', n, Strikes(c))
          BY <1>1, <5>1, <5>2, TableRetitled
        <5> QED
          BY <1>1, <3>1, <3>2, <5>1, <5>3
      <4>3. CASE ~ \E j \in DOMAIN B : B[j].url = c.url
        <5>1. B' = <<[id |-> n, url |-> c.url, title |-> c.title]>> \o B /\ n' = n + 1
          BY <4>1, <4>3 DEF AddWebBookmark
        <5>2. TableStep(B, n, B', n', Strikes(c))
          BY <1>1, <5>1, TableGrown
        <5> QED
          BY <1>1, <3>1, <3>2, <5>2
      <4> QED
        BY <4>2, <4>3
    <3> QED
      BY <3>3, <3>4
  <2>2. CASE c.kind = "deleteBookmark"
    <3>1. visited' = visited /\ RecentWebHistory' = RecentWebHistory /\ n' = n
      BY <2>2 DEF RunCmd, RecentWebHistory
    <3>2. Touches(c.kind, B, RecentWebHistory, B', RecentWebHistory')
      BY <2>2, <3>1 DEF Touches
    <3>3. B' = Without(B, {j \in DOMAIN B : B[j].id = c.id})
      BY <2>2 DEF RunCmd, DeleteWebBookmark
    <3>4. TableStep(B, n, B', n, c.id)
      BY <1>1, <3>3, TableStruck
    <3> QED
      BY <1>1, <2>2, <3>1, <3>2, <3>4 DEF Strikes
  <2>3. CASE c.kind = "deleteVisit"
    <3>1. B' = B /\ n' = n /\ visited' = Without(visited, {j \in DOMAIN visited : visited[j].id = c.id})
      BY <2>3 DEF RunCmd, DeleteWebHistoryEntry
    <3>2. IsList(visited')
      <4> DEFINE found == {j \in DOMAIN visited : visited[j].id = c.id}
      <4>1. found \in SUBSET DOMAIN visited
        OBVIOUS
      <4> HIDE DEF found
      <4>2. IsList(Without(visited, found))
        BY <1>1, <4>1, WithoutIs
      <4> QED
        BY <3>1, <4>2 DEF found
    <3> QED
      <4>1. TableStep(B, n, B', n', Strikes(c))
        BY <1>1, <3>1, TableSame
      <4>2. Touches(c.kind, B, RecentWebHistory, B', RecentWebHistory')
        BY <2>3, <3>1 DEF Touches
      <4> QED
        BY <3>2, <4>1, <4>2
  <2>4. CASE c.kind = "clearHistory"
    <3>1. B' = B /\ n' = n /\ visited' = <<>>
      BY <2>4 DEF RunCmd, ClearWebHistory
    <3>2. IsList(visited')
      BY <3>1, ListOne
    <3> QED
      BY <1>1, <2>4, <3>1, <3>2, TableSame DEF Touches
  <2> QED
    BY <1>4, <2>1, <2>2, <2>3, <2>4
<1> HIDE DEF d
<1>7. RunOk(b, i, d)
  BY <1>3, <1>5, <1>6, WriteOk
<1> QED
  BY <1>7

LEMMA FailsRun ==
  ASSUME WebInv, NEW b \in Browsers, NEW i \in DOMAIN web[b].todo, CmdFails(b, i)
  PROVE  \E d : RunOk(b, i, d)
<1> DEFINE c == web[b].todo[i]
           e == [c EXCEPT !.ok = FALSE]
           d == [e EXCEPT !.done = TRUE]
           B == bookmarks
           n == nextRow
<1>1. JobSound(c, B, n) /\ MarksTable(B, n) /\ n \in Nat /\ IsList(visited)
  BY CmdSound
<1>2. c = [f \in JobFields |-> c[f]]
  BY <1>1 DEF JobSound
<1>3. Redone(c, e, c.rows, FALSE)
  BY <1>2, DoneIs
<1>4. web' = [web EXCEPT ![b] = Ranned(web[b], i, d)]
  BY DEF CmdFails, Ran, Ranned
<1>5. bookmarks' = bookmarks /\ visited' = visited /\ nextRow' = nextRow /\ RowErrors
  BY DEF CmdFails
<1> HIDE DEF e
<1>6. e = [f \in JobFields |-> e[f]]
  BY <1>3 DEF Redone
<1>7. Redone(e, d, e.rows, e.ok) /\ d.done = TRUE
  BY <1>6, DoneIs
<1> HIDE DEF d
<1>8. d = [f \in JobFields |-> d[f]] /\ d.kind = c.kind /\ d.id = c.id /\ d.url = c.url /\ d.rows = c.rows
  BY <1>3, <1>7 DEF Redone
<1>9. JobSound(d, B, n)
  <2>1. c.kind = "deleteBookmark" => Known(d, B, n)
    BY <1>1, <1>8 DEF JobSound, Known
  <2> QED
    BY <1>1, <1>7, <1>8, <2>1 DEF JobSound
<1>10. TableStep(B, n, B', n', Strikes(c))
  <2>1. TableStep(B, n, B, n, Strikes(c))
    BY <1>1, TableSame
  <2> QED
    BY <1>5, <2>1
<1>11. RecentWebHistory' = RecentWebHistory
  BY <1>5 DEF RecentWebHistory
<1>12. RunOk(b, i, d)
  BY <1>1, <1>4, <1>5, <1>8, <1>9, <1>10, <1>11 DEF RunOk, Touches
<1> QED
  BY <1>12

LEMMA BrowsedRun ==
  ASSUME WebInv, NEW b \in Browsers, NEW i \in DOMAIN web[b].todo, Browsed(b, i)
  PROVE  \E d : RunOk(b, i, d)
<1> DEFINE c == web[b].todo[i]
           ok == launch[b].ok
           e == [c EXCEPT !.ok = ok]
           d == [e EXCEPT !.done = TRUE]
           B == bookmarks
           n == nextRow
<1>1. JobSound(c, B, n) /\ MarksTable(B, n) /\ n \in Nat /\ IsList(visited)
  BY CmdSound
<1>2. c = [f \in JobFields |-> c[f]] /\ c.kind = "browse"
  BY <1>1 DEF JobSound, Browsed
<1>3. Redone(c, e, c.rows, ok)
  BY <1>2, DoneIs
<1>4. web' = [web EXCEPT ![b] = Ranned(web[b], i, d)]
  BY DEF Browsed, Ran, Ranned
<1>5. B' = B /\ IsList(visited') /\ n' \in Nat /\ n <= n'
  <2>1. CASE ok
    <3> DEFINE old == {j \in DOMAIN visited : visited[j].url = c.url}
               new == IF old = {} THEN [id |-> nextRow, url |-> c.url, count |-> 1]
                      ELSE [visited[CHOOSE j \in old : TRUE] EXCEPT !.count = @ + 1]
    <3>1. visited' = <<new>> \o Without(visited, old) /\ n' = IF old = {} THEN n + 1 ELSE n
      BY <2>1 DEF Browsed, RecordWebVisit
    <3>2. old \in SUBSET DOMAIN visited
      OBVIOUS
    <3> HIDE DEF old, new
    <3>3. IsList(Without(visited, old)) /\ IsList(<<new>>)
      BY <1>1, <3>2, WithoutIs, ListOne
    <3>4. IsList(visited')
      BY <3>1, <3>3, ListJoined
    <3>5. n' \in Nat /\ n <= n'
      BY <1>1, <3>1
    <3> QED
      BY <3>4, <3>5 DEF Browsed
  <2>2. CASE ~ok
    BY <1>1, <2>2 DEF Browsed
  <2> QED
    BY <2>1, <2>2
<1> HIDE DEF e
<1>6. e = [f \in JobFields |-> e[f]]
  BY <1>3 DEF Redone
<1>7. Redone(e, d, e.rows, e.ok) /\ d.done = TRUE
  BY <1>6, DoneIs
<1> HIDE DEF d
<1>8. Redone(c, d, c.rows, ok)
  BY <1>3, <1>7 DEF Redone
<1>9. TableStep(B, n, B', n', Strikes(c))
  BY <1>1, <1>5, TableSame
<1>10. Touches(c.kind, B, RecentWebHistory, B', RecentWebHistory')
  BY <1>2, <1>5 DEF Touches
<1> HIDE DEF ok
<1>11. RunOk(b, i, d)
  <2>1. c.kind \notin {"bookmarks", "visits"}
    BY <1>2
  <2> QED
    BY <1>2, <1>4, <1>5, <1>7, <1>8, <1>9, <1>10, <2>1, WriteOk
<1> QED
  BY <1>11

-----------------------------------------------------------------------------
(* An answer arrives.                                                      *)
Taken(w, i) == [w EXCEPT !.todo = Less(@, i)]

LEMMA TakenIs ==
  ASSUME NEW w, NEW B, NEW n, ScreenSound(w, B, n), NEW i \in DOMAIN w.todo
  PROVE  /\ ScreenSound(Taken(w, i), B, n) /\ Taken(w, i).marks = w.marks /\ Taken(w, i).recent = w.recent
         /\ Taken(w, i).waits = w.waits /\ Taken(w, i).todo = RemoveAt(w.todo, i)
<1> DEFINE v == Taken(w, i)
<1>1. OneScreen(w) /\ TodoSound(w.todo, B, n)
  BY DEF ScreenSound
<1>2. OneScreen(v) /\ v.todo = RemoveAt(w.todo, i) /\ v.marks = w.marks /\ v.recent = w.recent
  BY <1>1 DEF OneScreen, WebFields, Taken, Less
<1>3. v.waits = w.waits /\ v.bm = w.bm /\ v.hs = w.hs /\ v.confirm = w.confirm
  BY <1>1 DEF OneScreen, WebFields, Taken, Less
<1> HIDE DEF v
<1>4. Marks(v) = Marks(w) /\ Recent(v) = Recent(w)
  BY <1>2 DEF Marks, Recent
<1>5. ListsSound(v, B, n) /\ CursorsSound(v) /\ QuestionSound(v, B, n)
  BY <1>2, <1>3, <1>4 DEF ScreenSound, ListsSound, CursorsSound, QuestionSound
<1>6. IsList(w.todo) /\ Len(w.todo) \in Nat /\ DOMAIN w.todo = 1 .. Len(w.todo) /\ i \in 1 .. Len(w.todo)
  BY <1>1, ListIs DEF TodoSound
<1>7. IsList(v.todo) /\ Len(v.todo) = Len(w.todo) - 1
  BY <1>2, <1>6, ListLess
<1>8. \A k \in 1 .. Len(w.todo) - 1 : v.todo[k] = IF k < i THEN w.todo[k] ELSE w.todo[k + 1]
  BY <1>2, <1>6, ListLess
<1>9. DOMAIN v.todo = 1 .. Len(w.todo) - 1
  BY <1>7, ListIs
<1>10. ASSUME NEW k \in DOMAIN v.todo PROVE JobSound(v.todo[k], B, n)
  <2>1. k \in DOMAIN w.todo /\ k + 1 \in DOMAIN w.todo
    BY <1>6, <1>9
  <2> QED
    BY <1>1, <1>8, <1>9, <2>1 DEF TodoSound
<1>11. ScreenSound(v, B, n)
  BY <1>2, <1>5, <1>7, <1>10 DEF ScreenSound, TodoSound
<1> QED
  BY <1>2, <1>3, <1>11 DEF v

\* What is left of a patient user's commands when one has answered.
LEMMA Remaining ==
  ASSUME NEW todo, IsList(todo), Alone(todo), NEW i \in DOMAIN todo
  PROVE  \/ todo[i].kind \in MarksJobs \cup VisitJobs /\ RemoveAt(todo, i) = <<>> /\ \A k \in DOMAIN todo : k = i
         \/ /\ todo[i].kind = "bookmarks" /\ Len(RemoveAt(todo, i)) = 1 /\ DOMAIN RemoveAt(todo, i) = {1}
            /\ RemoveAt(todo, i)[1] = todo[2] /\ todo[2].kind = "visits" /\ 2 \in DOMAIN todo
            /\ \A k \in DOMAIN todo : k = i \/ k = 2
         \/ /\ todo[i].kind = "visits" /\ Len(RemoveAt(todo, i)) = 1 /\ DOMAIN RemoveAt(todo, i) = {1}
            /\ RemoveAt(todo, i)[1] = todo[1] /\ todo[1].kind = "bookmarks" /\ 1 \in DOMAIN todo
            /\ \A k \in DOMAIN todo : k = i \/ k = 1
         \/ todo[i].kind \notin MarksJobs \cup VisitJobs
<1> DEFINE rest == RemoveAt(todo, i)
<1>1. Len(todo) \in Nat /\ DOMAIN todo = 1 .. Len(todo)
  BY ListIs
<1>2. IsList(rest) /\ Len(rest) = Len(todo) - 1
  BY <1>1, ListLess
<1>3. \A k \in 1 .. Len(todo) - 1 : rest[k] = IF k < i THEN todo[k] ELSE todo[k + 1]
  BY <1>1, ListLess
<1>4. DOMAIN rest = 1 .. Len(todo) - 1 /\ (rest = <<>> <=> Len(rest) = 0)
  BY <1>2, ListIs
<1> HIDE DEF rest
<1>5. CASE Len(todo) <= 1
  <2>1. Len(todo) = 1
    BY <1>1, <1>5
  <2> QED
    BY <1>1, <1>2, <1>4, <2>1 DEF rest
<1>6. CASE Len(todo) = 2 /\ todo[1].kind = "bookmarks" /\ todo[2].kind = "visits"
  <2>1. DOMAIN todo = {1, 2} /\ DOMAIN rest = {1} /\ Len(rest) = 1
    BY <1>1, <1>2, <1>4, <1>6
  <2>2. CASE i = 1
    <3>1. rest[1] = todo[2]
      BY <1>3, <1>6, <2>2
    <3> QED
      BY <1>6, <2>1, <2>2, <3>1 DEF rest
  <2>3. CASE i = 2
    <3>1. rest[1] = todo[1]
      BY <1>3, <1>6, <2>3
    <3> QED
      BY <1>6, <2>1, <2>3, <3>1 DEF rest
  <2> QED
    BY <2>1, <2>2, <2>3
<1> QED
  BY <1>5, <1>6 DEF Alone

\* What the answer c leaves of the screen u, from which its command is gone.
Follows(u, v, c) ==
  \/ c.kind = "bookmarks" /\ v.todo = u.todo /\ v.marks = <<c.rows>> /\ v.recent = u.recent
  \/ c.kind = "visits" /\ v.todo = u.todo /\ v.marks = u.marks /\ v.recent = <<c.rows>>
  \/ /\ c.kind \in {"save", "deleteBookmark"} /\ v.todo = Append(u.todo, WebCmd("bookmarks"))
     /\ v.marks = u.marks /\ v.recent = u.recent
  \/ /\ c.kind \in {"browse", "deleteVisit", "clearHistory"} /\ v.todo = Append(u.todo, WebCmd("visits"))
     /\ v.marks = u.marks /\ v.recent = u.recent

LEMMA AnswerPatience ==
  ASSUME NEW w, NEW B, NEW R, NEW u, NEW v, NEW c, NEW i \in DOMAIN w.todo,
         IsList(w.todo), PatientOk(w, B, R), c = w.todo[i], c.done = TRUE,
         u.todo = RemoveAt(w.todo, i), u.marks = w.marks, u.recent = w.recent, Follows(u, v, c)
  PROVE  PatientOk(v, B, R)
<1> DEFINE todo == w.todo
           rest == RemoveAt(todo, i)
<1>1. Alone(todo) /\ \A k \in DOMAIN todo : JobTells(todo[k], B, R)
  BY DEF PatientOk
<1>2. JobTells(c, B, R)
  BY <1>1
<1>3. c.kind \in MarksJobs \cup VisitJobs
  BY DEF Follows, MarksJobs, VisitJobs
<1>4. \/ rest = <<>> /\ \A k \in DOMAIN todo : k = i
      \/ /\ c.kind = "bookmarks" /\ Len(rest) = 1 /\ DOMAIN rest = {1}
         /\ rest[1] = todo[2] /\ todo[2].kind = "visits" /\ 2 \in DOMAIN todo
         /\ \A k \in DOMAIN todo : k = i \/ k = 2
      \/ /\ c.kind = "visits" /\ Len(rest) = 1 /\ DOMAIN rest = {1}
         /\ rest[1] = todo[1] /\ todo[1].kind = "bookmarks" /\ 1 \in DOMAIN todo
         /\ \A k \in DOMAIN todo : k = i \/ k = 1
  BY <1>1, <1>3, Remaining
<1>5. w.marks = <<B>> \/ Brings(todo, MarksJobs)
  BY DEF PatientOk
<1>6. w.recent = <<R>> \/ Brings(todo, VisitJobs)
  BY DEF PatientOk
<1>7. CASE rest = <<>> /\ \A k \in DOMAIN todo : k = i
  <2>1. Brings(todo, MarksJobs) => c.kind \in MarksJobs
    BY <1>7 DEF Brings
  <2>2. Brings(todo, VisitJobs) => c.kind \in VisitJobs
    BY <1>7 DEF Brings
  <2>3. u.todo = <<>>
    BY <1>7
  <2>4. CASE c.kind = "bookmarks"
    <3>1. v.todo = <<>> /\ v.marks = <<B>> /\ v.recent = <<R>>
      BY <1>2, <1>6, <2>2, <2>3, <2>4 DEF Follows, JobTells, VisitJobs
    <3>2. Len(v.todo) = 0 /\ DOMAIN v.todo = {}
      BY <3>1
    <3> QED
      BY <3>1, <3>2 DEF PatientOk, Alone
  <2>5. CASE c.kind = "visits"
    <3>1. v.todo = <<>> /\ v.marks = <<B>> /\ v.recent = <<R>>
      BY <1>2, <1>5, <2>1, <2>3, <2>5 DEF Follows, JobTells, MarksJobs
    <3>2. Len(v.todo) = 0 /\ DOMAIN v.todo = {}
      BY <3>1
    <3> QED
      BY <3>1, <3>2 DEF PatientOk, Alone
  <2>6. CASE c.kind \in {"save", "deleteBookmark"}
    <3> DEFINE d == WebCmd("bookmarks")
    <3>1. d.kind = "bookmarks" /\ d.done = FALSE /\ d.ok = TRUE
      BY NewCmd
    <3> HIDE DEF d
    <3>2. v.todo = <<d>> /\ v.recent = <<R>>
      BY <1>6, <2>2, <2>3, <2>6 DEF Follows, VisitJobs, d
    <3>3. Len(v.todo) = 1 /\ DOMAIN v.todo = {1} /\ v.todo[1] = d
      BY <3>2
    <3>4. JobTells(d, B, R) /\ Brings(v.todo, MarksJobs)
      BY <3>1, <3>3 DEF JobTells, Brings, MarksJobs
    <3> QED
      BY <3>2, <3>3, <3>4 DEF PatientOk, Alone
  <2>7. CASE c.kind \in {"browse", "deleteVisit", "clearHistory"}
    <3> DEFINE d == WebCmd("visits")
    <3>1. d.kind = "visits" /\ d.done = FALSE /\ d.ok = TRUE
      BY NewCmd
    <3> HIDE DEF d
    <3>2. v.todo = <<d>> /\ v.marks = <<B>>
      BY <1>5, <2>1, <2>3, <2>7 DEF Follows, MarksJobs, d
    <3>3. Len(v.todo) = 1 /\ DOMAIN v.todo = {1} /\ v.todo[1] = d
      BY <3>2
    <3>4. JobTells(d, B, R) /\ Brings(v.todo, VisitJobs)
      BY <3>1, <3>3 DEF JobTells, Brings, VisitJobs
    <3> QED
      BY <3>2, <3>3, <3>4 DEF PatientOk, Alone
  <2> QED
    BY <2>4, <2>5, <2>6, <2>7 DEF Follows
<1>8. CASE /\ c.kind = "bookmarks" /\ Len(rest) = 1 /\ DOMAIN rest = {1}
           /\ rest[1] = todo[2] /\ todo[2].kind = "visits" /\ 2 \in DOMAIN todo
           /\ \A k \in DOMAIN todo : k = i \/ k = 2
  <2>1. v.todo = rest /\ v.marks = <<B>>
    BY <1>2, <1>8 DEF Follows, JobTells
  <2>2. JobTells(rest[1], B, R) /\ Brings(rest, VisitJobs)
    BY <1>1, <1>8 DEF Brings, VisitJobs
  <2> HIDE DEF rest
  <2>3. Alone(v.todo) /\ \A k \in DOMAIN v.todo : JobTells(v.todo[k], B, R)
    <3>1. Len(rest) = 1 /\ DOMAIN rest = {1}
      BY <1>8
    <3>2. Alone(v.todo)
      BY <2>1, <3>1 DEF Alone
    <3>3. \A k \in DOMAIN v.todo : JobTells(v.todo[k], B, R)
      BY <2>1, <2>2, <3>1
    <3> QED
      BY <3>2, <3>3
  <2> QED
    BY <2>1, <2>2, <2>3 DEF PatientOk
<1>9. CASE /\ c.kind = "visits" /\ Len(rest) = 1 /\ DOMAIN rest = {1}
           /\ rest[1] = todo[1] /\ todo[1].kind = "bookmarks" /\ 1 \in DOMAIN todo
           /\ \A k \in DOMAIN todo : k = i \/ k = 1
  <2>1. v.todo = rest /\ v.recent = <<R>>
    BY <1>2, <1>9 DEF Follows, JobTells
  <2>2. JobTells(rest[1], B, R) /\ Brings(rest, MarksJobs)
    BY <1>1, <1>9 DEF Brings, MarksJobs
  <2> HIDE DEF rest
  <2>3. Alone(v.todo) /\ \A k \in DOMAIN v.todo : JobTells(v.todo[k], B, R)
    <3>1. Len(rest) = 1 /\ DOMAIN rest = {1}
      BY <1>9
    <3>2. Alone(v.todo)
      BY <2>1, <3>1 DEF Alone
    <3>3. \A k \in DOMAIN v.todo : JobTells(v.todo[k], B, R)
      BY <2>1, <2>2, <3>1
    <3> QED
      BY <3>2, <3>3
  <2> QED
    BY <2>1, <2>2, <2>3 DEF PatientOk
<1> QED
  BY <1>4, <1>7, <1>8, <1>9

LEMMA WithinIs ==
  ASSUME NEW x \in Nat \ {0}, NEW s, IsList(s)
  PROVE  Within(x, s) \in Nat \ {0} /\ (s = <<>> \/ Within(x, s) <= Len(s))
<1>1. Len(s) \in Nat /\ (s = <<>> <=> Len(s) = 0)
  BY ListIs
<1> QED
  BY <1>1 DEF Within

LEMMA Reloads ==
  ASSUME NEW u, NEW v, NEW B, NEW n, ScreenSound(u, B, n), Keying(u, v, B, n), v.todo = u.todo
  PROVE  /\ ScreenSound(ReloadBookmarks(v), B, n) /\ ReloadBookmarks(v).waits = u.waits
         /\ ScreenSound(ReloadHistory(v), B, n) /\ ReloadHistory(v).waits = u.waits
         /\ ReloadBookmarks(v).marks = u.marks /\ ReloadBookmarks(v).recent = u.recent
         /\ ReloadHistory(v).marks = u.marks /\ ReloadHistory(v).recent = u.recent
         /\ ReloadBookmarks(v).todo = Append(u.todo, WebCmd("bookmarks"))
         /\ ReloadHistory(v).todo = Append(u.todo, WebCmd("visits"))
<1>1. "bookmarks" \in MarksJobs \cup VisitJobs /\ "visits" \in MarksJobs \cup VisitJobs
  BY DEF MarksJobs, VisitJobs
<1>2. Posed(WebCmd("bookmarks"), B, n)
  <2>1. "bookmarks" # "deleteBookmark"
    OBVIOUS
  <2> QED
    BY <1>1, <2>1, AskedOnly
<1>3. Posed(WebCmd("visits"), B, n)
  <2>1. "visits" # "deleteBookmark"
    OBVIOUS
  <2> QED
    BY <1>1, <2>1, AskedOnly
<1>4. Keying(u, ReloadBookmarks(v), B, n) /\ Keying(u, ReloadHistory(v), B, n)
  BY <1>2, <1>3, OneMore DEF ReloadBookmarks, ReloadHistory
<1>5. OneScreen(v)
  BY DEF Keying, ScreenSound
<1>6. /\ ReloadBookmarks(v).todo = Append(u.todo, WebCmd("bookmarks"))
      /\ ReloadHistory(v).todo = Append(u.todo, WebCmd("visits"))
  BY <1>5 DEF ReloadBookmarks, ReloadHistory, Does, OneScreen, WebFields
<1> QED
  BY <1>4, <1>6 DEF Keying

AfterOk(u, v, c, B, n) ==
  ScreenSound(v, B, n) /\ v.waits = u.waits /\ (c.kind = "browse" \/ c.ok = TRUE => Follows(u, v, c))

LEMMA LoadedIs ==
  ASSUME NEW u, NEW B, NEW n, ScreenSound(u, B, n), NEW c, JobSound(c, B, n), c.kind \in {"bookmarks", "visits"}
  PROVE  AfterOk(u, AfterCmd(u, c), c, B, n)
<1> DEFINE none == <<>>
<1>1. OneScreen(u) /\ CursorsSound(u) /\ ListsSound(u, B, n) /\ IsList(c.rows)
  BY DEF ScreenSound, JobSound
<1>2. IsList(none) /\ <<none>> = <<(<<none>>)[1]>> /\ <<none>> # <<>>
  BY ListOne
<1>3. IsList(Recent(u)) /\ IsList(Marks(u))
  BY Lengths
<1>4. CASE c.kind = "bookmarks" /\ ~c.ok
  <2> DEFINE x == IF u.marks = <<>> THEN <<none>> ELSE u.marks
             v == [u EXCEPT !.marks = x]
  <2>1. AfterCmd(u, c) = v
    BY <1>4 DEF AfterCmd, BookmarksLoaded
  <2>2. Marks(v) = Marks(u) /\ Loaded(x)
    <3>1. v.marks = x
      BY <1>1 DEF OneScreen, WebFields
    <3>2. u.marks = <<>> => x = <<none>> /\ x[1] = <<>>
      BY <1>2
    <3> QED
      BY <1>1, <1>2, <3>1, <3>2 DEF Marks, ListsSound, Loaded
  <2> HIDE DEF x
  <2>3. OneScreen(v) /\ v.todo = u.todo /\ v.recent = u.recent /\ v.waits = u.waits /\ v.marks = x
    BY <1>1 DEF OneScreen, WebFields
  <2>4. v.bm = u.bm /\ v.hs = u.hs /\ v.confirm = u.confirm
    BY <1>1 DEF OneScreen, WebFields
  <2> HIDE DEF v
  <2>5. ScreenSound(v, B, n)
    BY <1>1, <2>2, <2>3, <2>4 DEF ScreenSound, ListsSound, CursorsSound, QuestionSound, Recent
  <2> QED
    BY <1>4, <2>1, <2>3, <2>5 DEF AfterOk
<1>5. CASE c.kind = "visits" /\ ~c.ok
  <2> DEFINE x == IF u.recent = <<>> THEN <<none>> ELSE u.recent
             v == [u EXCEPT !.recent = x]
  <2>1. AfterCmd(u, c) = v
    BY <1>5 DEF AfterCmd, HistoryLoaded
  <2>2. Recent(v) = Recent(u) /\ Loaded(x)
    <3>1. v.recent = x
      BY <1>1 DEF OneScreen, WebFields
    <3>2. u.recent = <<>> => x = <<none>> /\ x[1] = <<>>
      BY <1>2
    <3> QED
      BY <1>1, <1>2, <3>1, <3>2 DEF Recent, ListsSound, Loaded
  <2> HIDE DEF x
  <2>3. OneScreen(v) /\ v.todo = u.todo /\ v.marks = u.marks /\ v.waits = u.waits /\ v.recent = x
    BY <1>1 DEF OneScreen, WebFields
  <2>4. v.bm = u.bm /\ v.hs = u.hs /\ v.confirm = u.confirm
    BY <1>1 DEF OneScreen, WebFields
  <2> HIDE DEF v
  <2>5. ScreenSound(v, B, n)
    BY <1>1, <2>2, <2>3, <2>4 DEF ScreenSound, ListsSound, CursorsSound, QuestionSound, Marks
  <2> QED
    BY <1>5, <2>1, <2>3, <2>5 DEF AfterOk
<1>6. CASE c.kind = "bookmarks" /\ c.ok
  <2> DEFINE x == <<c.rows>>
             y == Within(u.bm, c.rows)
             v == [u EXCEPT !.marks = x, !.bm = y]
  <2>1. AfterCmd(u, c) = v
    BY <1>6 DEF AfterCmd, BookmarksLoaded
  <2>2. Loaded(x) /\ x # <<>> /\ x[1] = c.rows
    BY <1>1 DEF Loaded
  <2>3. y \in Nat \ {0}
    BY <1>1, WithinIs DEF CursorsSound
  <2> HIDE DEF x, y
  <2>4. OneScreen(v) /\ v.todo = u.todo /\ v.recent = u.recent /\ v.waits = u.waits /\ v.marks = x
    BY <1>1 DEF OneScreen, WebFields
  <2>5. v.bm = y /\ v.hs = u.hs /\ v.confirm = u.confirm
    BY <1>1 DEF OneScreen, WebFields
  <2> HIDE DEF v
  <2>6. Marks(v) = c.rows /\ KnownRows(c.rows, B, n)
    BY <1>6, <2>2, <2>4 DEF Marks, JobSound
  <2>7. ScreenSound(v, B, n)
    BY <1>1, <2>2, <2>3, <2>4, <2>5, <2>6 DEF ScreenSound, ListsSound, CursorsSound, QuestionSound, Recent
  <2> QED
    BY <1>6, <2>1, <2>4, <2>7 DEF AfterOk, Follows, x
<1>7. CASE c.kind = "visits" /\ c.ok
  <2> DEFINE x == <<c.rows>>
             y == Within(u.hs, c.rows)
             v == [u EXCEPT !.recent = x, !.hs = y]
  <2>1. AfterCmd(u, c) = v
    BY <1>7 DEF AfterCmd, HistoryLoaded
  <2>2. Loaded(x) /\ x # <<>> /\ x[1] = c.rows
    BY <1>1 DEF Loaded
  <2>3. y \in Nat \ {0} /\ (c.rows = <<>> \/ y <= Len(c.rows))
    BY <1>1, WithinIs DEF CursorsSound
  <2> HIDE DEF x, y
  <2>4. OneScreen(v) /\ v.todo = u.todo /\ v.recent = x /\ v.waits = u.waits /\ v.marks = u.marks
    BY <1>1 DEF OneScreen, WebFields
  <2>5. v.bm = u.bm /\ v.hs = y /\ v.confirm = u.confirm
    BY <1>1 DEF OneScreen, WebFields
  <2> HIDE DEF v
  <2>6. Recent(v) = c.rows
    BY <2>2, <2>4 DEF Recent
  <2>7. ScreenSound(v, B, n)
    BY <1>1, <2>2, <2>3, <2>4, <2>5, <2>6 DEF ScreenSound, ListsSound, CursorsSound, QuestionSound, Marks
  <2> QED
    BY <1>7, <2>1, <2>4, <2>7 DEF AfterOk, Follows, x
<1> QED
  BY <1>4, <1>5, <1>6, <1>7

LEMMA WrittenIs ==
  ASSUME NEW u, NEW B, NEW n, ScreenSound(u, B, n), NEW c, JobSound(c, B, n), c.kind \notin {"bookmarks", "visits"}
  PROVE  AfterOk(u, AfterCmd(u, c), c, B, n)
<1>1. OneScreen(u) /\ CursorsSound(u)
  BY DEF ScreenSound
<1>2. Keying(u, u, B, n)
  BY DEF Keying
<1>3. CASE c.kind = "browse"
  <2> DEFINE x == IF c.ok THEN c.url ELSE u.last
             v == [u EXCEPT !.rich = FALSE, !.typing = TRUE, !.last = x]
  <2>1. AfterCmd(u, c) = ReloadHistory(v)
    BY <1>3 DEF AfterCmd, Exited
  <2> HIDE DEF x
  <2>2. Steady(u, v)
    BY <1>1 DEF OneScreen, WebFields, Steady, Alike
  <2> HIDE DEF v
  <2>3. Keying(u, v, B, n) /\ v.todo = u.todo
    BY <2>2, SteadyKeying DEF Steady, Alike
  <2> QED
    BY <1>3, <2>1, <2>3, Reloads DEF AfterOk, Follows
<1>4. CASE c.kind = "save"
  <2> DEFINE x == u.typing \/ u.focus = "url"
             v == [u EXCEPT !.editor = NoEditor, !.typing = x]
  <2>1. AfterCmd(u, c) = IF c.ok THEN ReloadBookmarks(v) ELSE v
    BY <1>4 DEF AfterCmd, BookmarkSaved
  <2>2. Steady(u, v)
    BY <1>1, Strokes
  <2> HIDE DEF v
  <2>3. Keying(u, v, B, n) /\ v.todo = u.todo
    BY <2>2, SteadyKeying DEF Steady, Alike
  <2>4. ScreenSound(v, B, n) /\ v.waits = u.waits
    BY <2>3 DEF Keying
  <2>5. AfterOk(u, ReloadBookmarks(v), c, B, n)
    BY <1>4, <2>3, Reloads DEF AfterOk, Follows
  <2>6. c.ok # TRUE => AfterOk(u, v, c, B, n)
    BY <1>4, <2>4 DEF AfterOk
  <2> QED
    BY <2>1, <2>5, <2>6
<1>5. CASE c.kind = "deleteBookmark"
  <2>1. AfterCmd(u, c) = IF c.ok THEN ReloadBookmarks(u) ELSE u
    BY <1>5 DEF AfterCmd, BookmarkDeleted
  <2>2. AfterOk(u, ReloadBookmarks(u), c, B, n)
    BY <1>2, <1>5, Reloads DEF AfterOk, Follows
  <2>3. c.ok # TRUE => AfterOk(u, u, c, B, n)
    BY <1>5 DEF AfterOk
  <2> QED
    BY <2>1, <2>2, <2>3
<1>6. CASE c.kind = "deleteVisit"
  <2>1. AfterCmd(u, c) = IF c.ok THEN ReloadHistory(u) ELSE u
    BY <1>6 DEF AfterCmd, HistoryDeleted
  <2>2. AfterOk(u, ReloadHistory(u), c, B, n)
    BY <1>2, <1>6, Reloads DEF AfterOk, Follows
  <2>3. c.ok # TRUE => AfterOk(u, u, c, B, n)
    BY <1>6 DEF AfterOk
  <2> QED
    BY <2>1, <2>2, <2>3
<1>7. CASE c.kind = "clearHistory"
  <2> DEFINE v == [u EXCEPT !.hs = 1]
  <2>1. AfterCmd(u, c) = IF c.ok THEN ReloadHistory(v) ELSE u
    BY <1>7 DEF AfterCmd, HistoryCleared
  <2>2. Placed(u, v, u.bm, 1, u.confirm)
    BY <1>1, CursorStrokes
  <2> HIDE DEF v
  <2>3. Recent(u) = <<>> \/ 1 <= Len(Recent(u))
    BY Lengths
  <2>4. QuestionSound(v, B, n)
    BY <2>2 DEF Placed, ScreenSound, QuestionSound
  <2>5. Keying(u, v, B, n) /\ v.todo = u.todo
    BY <1>1, <2>2, <2>3, <2>4, SameLists DEF Placed, Alike, CursorsSound
  <2>6. AfterOk(u, ReloadHistory(v), c, B, n)
    BY <1>7, <2>5, Reloads DEF AfterOk, Follows
  <2>7. c.ok # TRUE => AfterOk(u, u, c, B, n)
    BY <1>7 DEF AfterOk
  <2> QED
    BY <2>1, <2>6, <2>7
<1> QED
  BY <1>3, <1>4, <1>5, <1>6, <1>7 DEF JobSound, MarksJobs, VisitJobs

LEMMA AnswerKeeps ==
  ASSUME WebInv, NEW b \in Browsers, NEW i \in DOMAIN web[b].todo, GotCmd(b, i)
  PROVE  WebInv'
<1> DEFINE w == web[b]
           c == w.todo[i]
           u == Taken(w, i)
           v == AfterCmd(u, c)
<1> USE DEF WebInv
<1>1. /\ web' = [web EXCEPT ![b] = v] /\ c.done
      /\ bookmarks' = bookmarks /\ visited' = visited /\ nextRow' = nextRow
  BY DEF GotCmd, Typed, Taken
<1>2. JobSound(c, bookmarks, nextRow)
  BY CmdSound
<1>3. ScreenSound(w, bookmarks, nextRow) /\ IsList(w.todo)
  BY DEF ScreensSound, ScreenSound, TodoSound
<1>4. /\ ScreenSound(u, bookmarks, nextRow) /\ u.marks = w.marks /\ u.recent = w.recent
      /\ u.waits = w.waits /\ u.todo = RemoveAt(w.todo, i)
  BY <1>3, TakenIs
<1> HIDE DEF u
<1>5. AfterOk(u, v, c, bookmarks, nextRow)
  <2>1. CASE c.kind \in {"bookmarks", "visits"}
    BY <1>2, <1>4, <2>1, LoadedIs
  <2>2. CASE c.kind \notin {"bookmarks", "visits"}
    BY <1>2, <1>4, <2>2, WrittenIs
  <2> QED
    BY <2>1, <2>2
<1> HIDE DEF v
<1>6. web'[b] = v /\ \A a \in Browsers \ {b} : web'[a] = web[a]
  BY <1>1 DEF ScreensSound
<1>7. TablesSound'
  BY <1>1 DEF TablesSound
<1>8. ScreensSound'
  <2>1. web' = [a \in Browsers |-> web'[a]]
    BY <1>1 DEF ScreensSound
  <2>2. ASSUME NEW a \in Browsers PROVE ScreenSound(web'[a], bookmarks, nextRow)
    BY <1>5, <1>6 DEF ScreensSound, AfterOk
  <2> QED
    BY <1>1, <2>1, <2>2 DEF ScreensSound
<1>9. PatientKnow'
  <2> SUFFICES ASSUME NEW a \in Browsers, WaitsAt(a)' PROVE PatientOk(web[a], bookmarks, RecentWebHistory)'
    BY DEF PatientKnow
  <2>1. a = b /\ Browsers = {b}
    BY DEF WaitsAt
  <2>2. WaitsAt(b)
    BY <1>4, <1>5, <1>6, <2>1 DEF WaitsAt, AfterOk
  <2>3. PatientOk(w, bookmarks, RecentWebHistory)
    BY <2>2 DEF PatientKnow
  <2>4. JobTells(c, bookmarks, RecentWebHistory)
    BY <2>3 DEF PatientOk
  <2>5. Follows(u, v, c)
    BY <1>5, <2>4 DEF AfterOk, JobTells
  <2>6. c.done = TRUE
    BY <1>1, <1>2 DEF JobSound
  <2>7. PatientOk(v, bookmarks, RecentWebHistory)
    <3> HIDE DEF w
    <3>1. i \in DOMAIN w.todo /\ c = w.todo[i]
      BY DEF w
    <3> HIDE DEF c
    <3> QED
      BY <1>3, <1>4, <2>3, <2>5, <2>6, <3>1, AnswerPatience
  <2>8. RecentWebHistory' = RecentWebHistory
    BY <1>1 DEF RecentWebHistory
  <2> QED
    BY <1>1, <1>6, <2>1, <2>7, <2>8
<1> QED
  BY <1>7, <1>8, <1>9

-----------------------------------------------------------------------------
(* The invariant.                                                          *)
LEMMA FirstScreen ==
  ASSUME NEW waits, NEW B, NEW R, NEW n, NEW w, w = ReloadHistory(ReloadBookmarks(NewWeb(waits)))
  PROVE  ScreenSound(w, B, n) /\ PatientOk(w, B, R)
<1> DEFINE none == <<>>
           o == NewWeb(waits)
           p == ReloadBookmarks(o)
           c == WebCmd("bookmarks")
           d == WebCmd("visits")
<1>1. OneScreen(o) /\ o.marks = none /\ o.recent = none /\ o.todo = none
  BY DEF NewWeb, OneScreen, WebFields
<1>2. o.bm = 1 /\ o.hs = 1 /\ o.confirm = NoQuestion
  BY DEF NewWeb
<1> HIDE DEF o
<1>3. IsList(none) /\ DOMAIN none = {}
  <2>1. DOMAIN none = {}
    OBVIOUS
  <2> QED
    BY <2>1, ListOne
<1>4. Marks(o) = none /\ Recent(o) = none
  BY <1>1 DEF Marks, Recent
<1>5. ScreenSound(o, B, n)
  <2>1. TodoSound(o.todo, B, n)
    BY <1>1, <1>3 DEF TodoSound
  <2>2. ListsSound(o, B, n)
    BY <1>1, <1>3, <1>4 DEF ListsSound, Loaded, KnownRows
  <2>3. CursorsSound(o) /\ QuestionSound(o, B, n)
    BY <1>2, <1>4 DEF CursorsSound, QuestionSound
  <2> QED
    BY <1>1, <2>1, <2>2, <2>3 DEF ScreenSound
<1>6. Keying(o, o, B, n)
  BY <1>5 DEF Keying
<1>7. ScreenSound(p, B, n) /\ p.todo = Append(none, c)
  BY <1>1, <1>5, <1>6, Reloads
<1> HIDE DEF p
<1>8. Keying(p, p, B, n)
  BY <1>7 DEF Keying
<1>9. ScreenSound(w, B, n) /\ w.todo = Append(p.todo, d)
  BY <1>7, <1>8, Reloads DEF p, o
<1>10. c.kind = "bookmarks" /\ c.done = FALSE /\ c.ok = TRUE /\ d.kind = "visits" /\ d.done = FALSE /\ d.ok = TRUE
  <2>1. c.kind = "bookmarks" /\ c.done = FALSE /\ c.ok = TRUE
    BY NewCmd
  <2>2. d.kind = "visits" /\ d.done = FALSE /\ d.ok = TRUE
    BY NewCmd
  <2> QED
    BY <2>1, <2>2
<1> HIDE DEF c, d
<1>11. p.todo = <<c>>
  BY <1>7 DEF none
<1>12. Len(w.todo) = 2 /\ DOMAIN w.todo = {1, 2} /\ w.todo[1] = c /\ w.todo[2] = d
  <2>1. IsList(p.todo) /\ Len(p.todo) = 1 /\ p.todo[1] = c
    BY <1>11, ListOne
  <2>2. IsList(w.todo) /\ Len(w.todo) = 2
    BY <1>9, <2>1, ListAppended
  <2>3. w.todo[1] = c /\ w.todo[2] = d
    BY <1>9, <2>1, ListAppended
  <2>4. DOMAIN w.todo = 1 .. 2
    BY <2>2, ListIs
  <2> QED
    BY <2>2, <2>3, <2>4
<1>13. Alone(w.todo) /\ Brings(w.todo, MarksJobs) /\ Brings(w.todo, VisitJobs)
  BY <1>10, <1>12 DEF Alone, Brings, MarksJobs, VisitJobs
<1>14. JobTells(c, B, R) /\ JobTells(d, B, R)
  BY <1>10 DEF JobTells
<1> QED
  BY <1>9, <1>12, <1>13, <1>14 DEF PatientOk

LEMMA WebStarts == WebInit => WebInv
<1> SUFFICES ASSUME WebInit PROVE WebInv
  OBVIOUS
<1> DEFINE m == Len(Kept)
<1>1. m \in Nat /\ DOMAIN Kept = 1 .. m /\ Len(Seen) \in Nat /\ DOMAIN Seen = 1 .. Len(Seen)
  BY WebAssumption
<1>2. bookmarks = [i \in DOMAIN Kept |-> [id |-> i, url |-> Kept[i], title |-> 1]] /\ nextRow = m + Len(Seen) + 1
  BY DEF WebInit
<1>3. DOMAIN bookmarks = 1 .. m /\ bookmarks = [i \in 1 .. m |-> bookmarks[i]]
  BY <1>1, <1>2
<1>4. IsList(bookmarks)
  BY <1>1, <1>3, ListMapped
<1>5. \A i \in DOMAIN bookmarks :
        bookmarks[i].id = i /\ bookmarks[i] = [f \in MarkFields |-> bookmarks[i][f]]
  <2>1. ASSUME NEW i \in DOMAIN bookmarks
        PROVE  bookmarks[i].id = i /\ bookmarks[i] = [f \in MarkFields |-> bookmarks[i][f]]
    <3>1. bookmarks[i] = [id |-> i, url |-> Kept[i], title |-> 1]
      BY <1>2
    <3> QED
      BY <3>1 DEF MarkFields
  <2> QED
    BY <2>1
<1>6. ASSUME NEW i \in DOMAIN bookmarks PROVE Known(bookmarks[i], bookmarks, nextRow)
  <2>1. i \in Nat /\ i < nextRow
    BY <1>1, <1>2, <1>3
  <2> QED
    BY <1>5, <2>1 DEF Known
<1>7. MarksTable(bookmarks, nextRow)
  BY <1>1, <1>2, <1>4, <1>5, <1>6 DEF MarksTable, KnownRows
<1>8. IsList(visited)
  <2>1. visited = [i \in 1 .. Len(Seen) |-> visited[i]]
    BY <1>1 DEF WebInit
  <2> QED
    BY <1>1, <2>1, ListMapped
<1>9. PICK waits \in Waits : web = [b \in Browsers |-> ReloadHistory(ReloadBookmarks(NewWeb(waits)))]
  BY DEF WebInit
<1>10. ASSUME NEW b \in Browsers
       PROVE  ScreenSound(web[b], bookmarks, nextRow) /\ PatientOk(web[b], bookmarks, RecentWebHistory)
  <2>1. web[b] = ReloadHistory(ReloadBookmarks(NewWeb(waits)))
    BY <1>9
  <2> QED
    BY <2>1, FirstScreen
<1>11. web = [b \in Browsers |-> web[b]]
  BY <1>9
<1> QED
  BY <1>7, <1>8, <1>10, <1>11 DEF WebInv, TablesSound, ScreensSound, PatientKnow

LEMMA WebStutters ==
  ASSUME WebInv, UNCHANGED <<bookmarks, visited, web, nextRow>> PROVE WebInv'
<1>1. bookmarks' = bookmarks /\ visited' = visited /\ web' = web /\ nextRow' = nextRow
  OBVIOUS
<1>2. RecentWebHistory' = RecentWebHistory
  BY <1>1 DEF RecentWebHistory
<1> QED
  BY <1>1, <1>2 DEF WebInv, TablesSound, ScreensSound, PatientKnow, WaitsAt

LEMMA WebGoesOn == WebInv /\ [WebNext]_webVars => WebInv'
<1> SUFFICES ASSUME WebInv, [WebNext]_webVars PROVE WebInv'
  OBVIOUS
<1>1. CASE UNCHANGED webVars \/ (CarbonylNext /\ UNCHANGED <<bookmarks, visited, web, nextRow, edits>>)
  BY <1>1, WebStutters DEF webVars
<1>2. CASE \E b \in Browsers : Keyed(b)
  BY <1>2, FocusKeys, UrlKeyKeeps, BookmarksKeyKeeps, HistoryKeyKeeps, EditorKeyKeeps, ConfirmKeyKeeps DEF Keyed
<1>3. CASE \E b \in Browsers : Commands(b)
  <2>1. PICK b \in Browsers : Commands(b)
    BY <1>3
  <2>2. PICK i \in DOMAIN web[b].todo : RunCmd(b, i) \/ CmdFails(b, i) \/ Browsed(b, i) \/ GotCmd(b, i)
    BY <2>1 DEF Commands
  <2>3. CASE GotCmd(b, i)
    BY <2>3, AnswerKeeps
  <2>4. CASE RunCmd(b, i) \/ CmdFails(b, i) \/ Browsed(b, i)
    BY <2>4, ReadsRun, WritesRun, FailsRun, BrowsedRun, RunOkKeeps
  <2> QED
    BY <2>2, <2>3, <2>4
<1> QED
  BY <1>1, <1>2, <1>3 DEF WebNext

LEMMA WebHolds == WebSpec => []WebInv
BY WebStarts, WebGoesOn, PTL DEF WebSpec

LEMMA WebShows == WebInv => ListsAgree
<1> SUFFICES ASSUME WebInv, NEW b \in Browsers, Browsers = {b}, web[b].waits, web[b].todo = <<>>
    PROVE  /\ RowErrors \/ (web[b].marks = <<bookmarks>> /\ web[b].recent = <<RecentWebHistory>>)
           /\ web[b].focus = "history" => web[b].hs <= Len(Recent(web[b])) \/ Recent(web[b]) = <<>>
  BY DEF ListsAgree
<1>1. web[b].hs <= Len(Recent(web[b])) \/ Recent(web[b]) = <<>>
  BY DEF WebInv, ScreensSound, ScreenSound, CursorsSound
<1>2. ~RowErrors => PatientOk(web[b], bookmarks, RecentWebHistory)
  BY DEF WebInv, PatientKnow, WaitsAt
<1>3. ~Brings(web[b].todo, MarksJobs) /\ ~Brings(web[b].todo, VisitJobs)
  BY DEF Brings
<1> QED
  BY <1>1, <1>2, <1>3 DEF PatientOk

\* Nothing under way, the Web screen of a user who waits shows his rows as they are, and
\* its cursor stands in them.
THEOREM ListsStayTrue == WebSpec => []ListsAgree
BY WebHolds, WebShows, PTL

LEMMA WebDeletes ==
  ASSUME WebInv, [WebNext]_webVars
  PROVE  \A r \in ToSet(bookmarks) : r.id \notin {s.id : s \in ToSet(bookmarks')} =>
           \E b \in Browsers : \E c \in ToSet(web[b].todo) : c.kind = "deleteBookmark" /\ c.url = r.url
<1> SUFFICES ASSUME NEW r \in ToSet(bookmarks), r.id \notin {s.id : s \in ToSet(bookmarks')}
    PROVE  \E b \in Browsers : \E c \in ToSet(web[b].todo) : c.kind = "deleteBookmark" /\ c.url = r.url
  OBVIOUS
<1>1. PICK j \in DOMAIN bookmarks : r = bookmarks[j]
  BY DEF ToSet
<1>2. ~ \E k \in DOMAIN bookmarks' : bookmarks'[k].id = bookmarks[j].id
  BY <1>1 DEF ToSet
<1>3. bookmarks' # bookmarks
  BY <1>2
<1>4. PICK b \in Browsers : \E i \in DOMAIN web[b].todo : RunCmd(b, i) \/ Browsed(b, i)
  BY <1>3 DEF WebNext, webVars, Keyed, Commands, Tab, CtrlB, UrlKey, BookmarksKey, HistoryKey, EditorKey,
              ConfirmKey, Typed, Change, Launches, CmdFails, GotCmd
<1>5. PICK i \in DOMAIN web[b].todo : RunCmd(b, i) \/ Browsed(b, i)
  BY <1>4
<1> DEFINE c == web[b].todo[i]
<1>6. PICK d : RunOk(b, i, d)
  BY <1>5, ReadsRun, WritesRun, BrowsedRun
<1>7. bookmarks[j].id = Strikes(c)
  BY <1>2, <1>6 DEF RunOk, TableStep, Spares
<1>8. JobSound(c, bookmarks, nextRow) /\ MarksTable(bookmarks, nextRow)
  BY CmdSound
<1>9. bookmarks[j].id \in Nat
  BY <1>8 DEF MarksTable, KnownRows, Known
<1>10. c.kind = "deleteBookmark" /\ c.id = bookmarks[j].id
  BY <1>7, <1>9 DEF Strikes
<1>11. c.url = r.url
  BY <1>1, <1>8, <1>10 DEF JobSound, Known
<1>12. c \in ToSet(web[b].todo)
  BY DEF ToSet
<1> QED
  BY <1>10, <1>11, <1>12

\* A bookmark goes only by a command that was given for its own address, however many
\* screens edit the list, and although it may be loaded anew under the question.
THEOREM OnlyNamedGo == WebSpec => DeletesWhatWasNamed
<1>1. WebInv /\ [WebNext]_webVars =>
        [\A r \in ToSet(bookmarks) : r.id \notin {s.id : s \in ToSet(bookmarks')} =>
           \E b \in Browsers : \E c \in ToSet(web[b].todo) : c.kind = "deleteBookmark" /\ c.url = r.url]_webVars
  BY WebDeletes
<1> QED
  BY <1>1, WebHolds, PTL DEF WebSpec, DeletesWhatWasNamed

=============================================================================
