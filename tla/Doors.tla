-------------------------------- MODULE Doors --------------------------------
(***************************************************************************)
(* The single-player doors of internal/tui/screens: slots.go,              *)
(* blackjack.go, videopoker.go and holdem.go.  A screen keeps a copy of    *)
(* the wallet.  Whatever costs or pays is a command: it takes that copy    *)
(* along, runs beside the screen one statement at a time, and answers with *)
(* a message that puts its copy back.  Keys, animations and the messages   *)
(* of several commands meet in Update in any order.                        *)
(*                                                                         *)
(* Only the sum of a wallet's two buckets is kept here, and no midnight    *)
(* passes: Wallet is about those.                                          *)
(***************************************************************************)
EXTENDS DoorGames, SequencesExt

CONSTANTS
  DoorNames,  (* the doors this instance is about                           *)
  Ladder,     (* the bets (slotsBetLadder) or buy-ins (stepBuyIn) on offer  *)
  Purse,      (* what the wallet has at the start                           *)
  MaxVisits,  (* bound: times the screen is opened                          *)
  MaxGames,   (* bound: rounds, hands or tables paid for                    *)
  MaxCmds,    (* bound: commands at a time                                  *)
  MaxSteps,   (* bound: bot moves and hands of a heads-up table             *)
  Patient,    (* the doors whose player waits for one thing before the next *)
  Rebuying,   (* may he buy in again after a cash-out?                      *)
  DbErrors    (* may a statement fail?                                      *)

ASSUME DoorAssumption ==
  /\ Symbols \subseteq 0 .. 6 /\ Points \subseteq Nat /\ PokerHands \subseteq DOMAIN PayTable
  /\ Ladder \in Seq(Nat \ {0}) /\ Ladder # <<>>
  /\ Purse \in Nat
  /\ DoorNames \subseteq {"slots", "blackjack", "videopoker", "holdem"}

VARIABLES
  door,    (* the door that is open                                         *)
  balance, (* the wallet's row: daily credits and winnings                  *)
  ledger,  (* the sum of Net over the rows of game_rounds                   *)
  screen,  (* the screen's model                                            *)
  games,   (* the games its pointers point to                               *)
  cmds,    (* the commands under way, and those whose message waits         *)
  lost,    (* history: stakes of hands that were left unfinished            *)
  visits, rounds, steps, failed   (* history and bounds                             *)

doorVars == <<door, balance, ledger, screen, games, cmds, lost, visits, rounds, steps, failed>>

-----------------------------------------------------------------------------
(* The screen.  pending is the wallet a spin shows when its reels stop;    *)
(* dealing is an animation that is not Done, ticks and advances are the    *)
(* timers that will report.                                                *)
NewScreen ==
  [open |-> TRUE, wallet |-> 0, pending |-> 0, bet |-> Head(Ladder), game |-> 0,
   spinning |-> FALSE, cashedOut |-> FALSE, dealing |-> FALSE, ticks |-> 0, advances |-> 0]

Cmd(kind, st, g, pay) ==
  [kind |-> kind, st |-> st, copy |-> screen.wallet, bet |-> screen.bet, g |-> g, pay |-> pay,
   err |-> FALSE]

Ask(c) == cmds' = Append(cmds, c)

Here      == games[screen.game]
HasGame   == screen.game # 0
CanAfford == screen.wallet >= screen.bet

Deal(s) == [s EXCEPT !.dealing = TRUE, !.ticks = @ + 1]

\* stepBet, stepBuyIn: the next rung.
StepBet(dir) ==
  LET i == CHOOSE j \in DOMAIN Ladder : Ladder[j] = screen.bet
  IN  Ladder[IF i + dir \in DOMAIN Ladder THEN i + dir ELSE i]

Quiet == cmds = <<>> /\ screen.ticks = 0 /\ screen.advances = 0

\* A key reaches the screen; a patient player presses it when nothing is going on.
Key(d) == door = d /\ screen.open /\ (door \in Patient => Quiet) /\ Len(cmds) < MaxCmds

ChangeBet(may) ==
  /\ may
  /\ \E dir \in {-1, 1} : screen' = [screen EXCEPT !.bet = StepBet(dir)]
  /\ screen' # screen
  /\ UNCHANGED <<cmds, games, rounds, steps>>

\* Without the credits nothing is asked for.
Buy(kind, scr) ==
  /\ screen' = scr
  /\ IF CanAfford
     THEN rounds < MaxGames /\ rounds' = rounds + 1 /\ Ask(Cmd(kind, "bet", 0, 0))
     ELSE UNCHANGED <<cmds, rounds>>
  /\ UNCHANGED <<games, steps>>

-----------------------------------------------------------------------------
\* Mutant: a key counts while the reels turn.
SlotsKeyAnytime ==
  Key("slots") /\ (ChangeBet(TRUE) \/ Buy("spin", [screen EXCEPT !.spinning = CanAfford]))

(* Slots: the input is held until the reels stop.                          *)
SlotsKey ==
  /\ Key("slots") /\ ~screen.spinning
  /\ ChangeBet(TRUE) \/ Buy("spin", [screen EXCEPT !.spinning = CanAfford])

(* Blackjack. *)
BlackjackIdle == IF HasGame THEN Here.finished ELSE TRUE

\* settleCmd: the payout on the bet the screen shows.
SettleCmd(g, i) ==
  LET pay == BlackjackPayout(screen.bet, g.doubled, g.outcome)
  IN  Cmd("settle", IF pay > 0 THEN "credit" ELSE "record", i, pay)

\* Hit, Stand: a hand that is over is settled.
BlackjackMove(results) ==
  /\ \E g \in results :
       /\ games' = [games EXCEPT ![screen.game] = g]
       /\ IF g.finished THEN Ask(SettleCmd(g, screen.game)) ELSE UNCHANGED cmds
  /\ UNCHANGED <<screen, rounds, steps>>

\* Double: the second bet and the settlement are asked for together, the
\* settlement also without the second bet.
BlackjackDouble ==
  /\ CanDouble(Here)
  /\ \E g \in PlayerDoubles(Here) :
       /\ games' = [games EXCEPT ![screen.game] = g]
       /\ cmds' = cmds \o (IF CanAfford THEN <<Cmd("double", "bet", screen.game, 0)>> ELSE <<>>)
                       \o <<SettleCmd(g, screen.game)>>
  /\ UNCHANGED <<screen, rounds, steps>>

BlackjackKey ==
  /\ Key("blackjack")
  /\ \/ ChangeBet(BlackjackIdle)
     \/ BlackjackIdle /\ Buy("deal", [screen EXCEPT !.game = 0])
     \/ /\ HasGame /\ ~Here.finished /\ ~screen.dealing
        /\ \/ BlackjackMove(PlayerHits(Here))
           \/ BlackjackMove(DealerPlay(Here))
           \/ BlackjackDouble

(* Video poker: Space deals, draws and deals again. *)
VideoPokerKey ==
  /\ Key("videopoker")
  /\ \/ ChangeBet(~HasGame)
     \/ /\ ~screen.dealing
        /\ IF HasGame /\ ~Here.drawn
           THEN Ask(Cmd("draw", "draw", screen.game, 0)) /\ UNCHANGED <<screen, games, rounds, steps>>
           ELSE Buy("deal", [screen EXCEPT !.game = 0])

(* Heads-up Hold'em. *)
InHand == HasGame /\ Here.street # Ended

\* newHandCmd on a table of the heap.
NewHand(scr, heap, i) ==
  /\ steps < MaxSteps /\ steps' = steps + 1
  /\ games' = [heap EXCEPT ![i] = StartHand(@)]
  /\ screen' = Deal([scr EXCEPT !.game = i])

\* afterStateChange: a new street is dealt, then the bot's turn comes up.
AfterStateChange(g, scr) ==
  /\ games' = [games EXCEPT ![screen.game] = g]
  /\ screen' = IF g.street # Here.street /\ g.street # Ended THEN Deal(scr)
               ELSE [scr EXCEPT !.advances = @ + 1]
  /\ UNCHANGED cmds

\* applyPlayer.
ApplyPlayer ==
  /\ InHand /\ ~screen.dealing /\ Here.toAct = Player
  /\ \E a \in HeadsUpActions : \E g \in ApplyAction(Here, Player, a) : AfterStateChange(g, screen)
  /\ UNCHANGED <<rounds, steps>>

\* cashOutCmd: the stack as it is now, once, while the screen is open.
CashOut(scr) ==
  /\ HasGame /\ ~screen.cashedOut
  /\ LET stack == Here.stacks[Player]
     IN  Ask(Cmd("cashout", IF stack > 0 THEN "credit" ELSE "record", screen.game, stack))
  /\ screen' = scr
  /\ UNCHANGED <<games, rounds, steps>>

HoldemKey ==
  /\ Key("holdem")
  /\ \/ ChangeBet(~HasGame)
     \/ ~HasGame /\ (Rebuying \/ ~screen.cashedOut) /\ Buy("buyin", screen)
     \/ /\ HasGame /\ ~InHand /\ ~screen.dealing
        /\ NewHand(screen, [games EXCEPT ![screen.game] = AdvanceButton(@)], screen.game)
        /\ UNCHANGED <<cmds, rounds>>
     \/ ApplyPlayer
     \/ CashOut(screen)

\* The bot moves when its turn comes up and the hand is on.
Advance ==
  /\ screen.open /\ screen.advances > 0
  /\ LET scr == [screen EXCEPT !.advances = @ - 1]
     IN  IF InHand /\ Here.toAct = Bot
         THEN /\ steps < MaxSteps /\ steps' = steps + 1
              /\ \E g \in StepBot(Here) : AfterStateChange(g, scr)
         ELSE screen' = scr /\ UNCHANGED <<games, cmds, steps>>
  /\ UNCHANGED <<door, balance, ledger, lost, visits, rounds, failed>>

-----------------------------------------------------------------------------
(* Coming and going.  A screen left for the doors menu is forgotten; its   *)
(* commands go on, and their messages find no screen: the player comes     *)
(* back when they are done.                                                *)
Enter ==
  /\ ~screen.open /\ visits < MaxVisits /\ Quiet
  /\ visits' = visits + 1
  /\ screen' = NewScreen
  /\ cmds' = Append(cmds, [kind |-> "load", st |-> "load", copy |-> 0, bet |-> 0, g |-> 0,
                           pay |-> 0, err |-> FALSE])
  /\ UNCHANGED <<door, balance, ledger, games, lost, rounds, steps, failed>>

Closed == [screen EXCEPT !.open = FALSE, !.ticks = 0, !.advances = 0, !.game = 0]

\* The stake of a hand that is left in the middle is gone, and on no record.
Forfeited ==
  IF HasGame /\ \/ door = "blackjack" /\ ~Here.finished
                \/ door = "videopoker" /\ ~Here.drawn
  THEN Here.stake ELSE 0

\* Esc: a heads-up table is cashed out first.
Esc ==
  /\ Key(door)
  /\ IF door = "holdem" /\ HasGame /\ ~screen.cashedOut
     THEN CashOut(Closed)
     ELSE /\ door = "slots" => ~screen.spinning
          /\ screen' = Closed
          /\ UNCHANGED <<cmds, games, rounds, steps>>
  /\ lost' = lost + Forfeited
  /\ UNCHANGED <<door, balance, ledger, visits, failed>>

PressKey ==
  /\ SlotsKey \/ BlackjackKey \/ VideoPokerKey \/ HoldemKey
  /\ UNCHANGED <<door, balance, ledger, lost, visits, failed>>

-----------------------------------------------------------------------------
(* The commands, a statement at a time.                                    *)
To(i, st)  == [cmds EXCEPT ![i] = [@ EXCEPT !.st = st]]
Fail(i)    == cmds' = [cmds EXCEPT ![i] = [@ EXCEPT !.st = "done", !.err = TRUE]] /\ failed' = TRUE

\* persist: a write that is reported to have failed may have been made.
Writes(w)     == balance' = w /\ UNCHANGED failed
WriteFails(w) == DbErrors /\ balance' \in {balance, w}

\* A game, and what was paid for it.
Staked(g, n) == [f \in DOMAIN g \union {"stake"} |-> IF f = "stake" THEN n ELSE g[f]]

After(pay) == IF pay > 0 THEN "credit" ELSE "record"

\* Load.
LoadWallet(i) ==
  /\ cmds[i].st = "load"
  /\ \/ cmds' = [cmds EXCEPT ![i] = [@ EXCEPT !.st = "done", !.copy = balance]] /\ UNCHANGED failed
     \/ DbErrors /\ Fail(i)
  /\ UNCHANGED <<balance, ledger, games>>

\* What the bet buys: the spin, a new game, or nothing more than the debit.
BetTaken(i, c) ==
  CASE c.kind = "spin" ->
         /\ \E p \in SpinPayouts(c.bet) : cmds' = [cmds EXCEPT ![i] = [c EXCEPT !.pay = p, !.st = After(p)]]
         /\ UNCHANGED games
    [] c.kind = "deal" ->
         /\ \E g \in (IF door = "blackjack" THEN NewBlackjack ELSE {NewVideoPoker}) :
              games' = Append(games, Staked(g, c.bet))
         /\ cmds' = [cmds EXCEPT ![i] = [c EXCEPT !.g = Len(games) + 1, !.st = "done"]]
    [] OTHER -> cmds' = [cmds EXCEPT ![i] = [c EXCEPT !.st = "done"]] /\ UNCHANGED games

\* Bet: the copy less the bet goes over the row.
BetStatement(i) ==
  LET c == [cmds[i] EXCEPT !.copy = @ - cmds[i].bet]
  IN  /\ cmds[i].st = "bet"
      /\ \/ Writes(c.copy) /\ BetTaken(i, c)
         \/ WriteFails(c.copy) /\ Fail(i) /\ UNCHANGED games
      /\ UNCHANGED ledger

\* The draw replaces the cards that are not held, in the game the screen reads.
DrawCards(i) ==
  /\ cmds[i].st = "draw"
  /\ \E g \in DrawHands(games[cmds[i].g], cmds[i].bet) :
       /\ games' = [games EXCEPT ![cmds[i].g] = Staked(g, @.stake)]
       /\ cmds' = [cmds EXCEPT ![i] = [@ EXCEPT !.st = After(g.payout), !.pay = g.payout]]
  /\ UNCHANGED <<balance, ledger, failed>>

\* Credit.  Without it nothing is recorded, and the copy has the payout already.
CreditStatement(i) ==
  LET w == cmds[i].copy + cmds[i].pay
  IN  /\ cmds[i].st = "credit"
      /\ \/ Writes(w) /\ cmds' = [cmds EXCEPT ![i] = [@ EXCEPT !.st = "record", !.copy = w]]
         \/ /\ WriteFails(w) /\ failed' = TRUE
            /\ cmds' = [cmds EXCEPT ![i] = [@ EXCEPT !.st = "done", !.copy = w, !.err = TRUE]]
      /\ UNCHANGED <<ledger, games>>

Stake(c) == IF c.kind = "settle" /\ games[c.g].doubled THEN 2 * c.bet ELSE c.bet

\* Record: an error is dropped.
RecordStatement(i) ==
  /\ cmds[i].st = "record"
  /\ \/ ledger' = ledger + cmds[i].pay - Stake(cmds[i]) /\ UNCHANGED failed
     \/ DbErrors /\ failed' = TRUE /\ UNCHANGED ledger
  /\ cmds' = To(i, "done")
  /\ UNCHANGED <<balance, games>>

RunCommand ==
  /\ \E i \in DOMAIN cmds :
       LoadWallet(i) \/ BetStatement(i) \/ DrawCards(i) \/ CreditStatement(i) \/ RecordStatement(i)
  /\ UNCHANGED <<door, screen, lost, visits, rounds, steps>>

-----------------------------------------------------------------------------
(* Update on the message of a command.                                     *)

GotSpin(c) ==
  screen' = IF c.err THEN [screen EXCEPT !.spinning = FALSE]
            ELSE [screen EXCEPT !.pending = c.copy, !.ticks = @ + 1]

GotWallet(c) == screen' = IF c.err THEN screen ELSE [screen EXCEPT !.wallet = c.copy]

GotDeal(c) ==
  screen' = IF c.err THEN screen ELSE Deal([screen EXCEPT !.wallet = c.copy, !.game = c.g])

GotSettled(c) == screen' = [screen EXCEPT !.wallet = c.copy]

\* The cards that were not held are dealt, if there are any; with no game on the
\* screen the program is over.
GotDrawn(c) ==
  LET s == [screen EXCEPT !.wallet = c.copy]
  IN  screen' \in IF HasGame THEN {s, Deal(s)} ELSE {Closed}

GotBuyIn(c) ==
  IF c.err THEN UNCHANGED <<screen, games, steps>>
  ELSE LET bb == IF screen.bet \div 50 < 2 THEN 2 ELSE screen.bet \div 50
           table == Staked(NewHeadsUp(screen.bet, bb), c.bet)
       IN  NewHand([screen EXCEPT !.wallet = c.copy], Append(games, table), Len(games) + 1)

\* A second cash-out finds no table and ends the program.
GotCashOut(c) ==
  screen' = IF c.err THEN screen
            ELSE IF ~HasGame THEN [Closed EXCEPT !.wallet = c.copy]
            ELSE [screen EXCEPT !.wallet = c.copy, !.cashedOut = TRUE, !.game = 0]

Answer ==
  \E i \in DOMAIN cmds :
    LET c == cmds[i]
    IN  /\ c.st = "done"
        /\ cmds' = RemoveAt(cmds, i)
        /\ IF ~screen.open THEN UNCHANGED <<screen, games, steps>>
           ELSE IF c.kind = "buyin" THEN GotBuyIn(c)
           ELSE /\ CASE c.kind = "spin" -> GotSpin(c)
                     [] c.kind \in {"load", "double"} -> GotWallet(c)
                     [] c.kind = "deal" -> GotDeal(c)
                     [] c.kind = "settle" -> GotSettled(c)
                     [] c.kind = "draw" -> GotDrawn(c)
                     [] c.kind = "cashout" -> GotCashOut(c)
                /\ UNCHANGED <<games, steps>>
        /\ UNCHANGED <<door, balance, ledger, lost, visits, rounds, failed>>

\* The reels stop, or the last card of a deal is shown: a natural is settled
\* now, and at a heads-up table the bot's turn comes up.
Tick ==
  /\ screen.open /\ screen.ticks > 0
  /\ LET s == [screen EXCEPT !.ticks = @ - 1, !.dealing = FALSE]
     IN  CASE door = "slots" ->
                /\ screen' = IF screen.spinning
                             THEN [s EXCEPT !.wallet = screen.pending, !.spinning = FALSE] ELSE s
                /\ UNCHANGED cmds
           [] door = "blackjack" ->
                /\ screen' = s
                /\ IF HasGame /\ Here.finished THEN Ask(SettleCmd(Here, screen.game))
                   ELSE UNCHANGED cmds
           [] door = "videopoker" -> screen' = s /\ UNCHANGED cmds
           [] door = "holdem" -> screen' = [s EXCEPT !.advances = @ + 1] /\ UNCHANGED cmds
  /\ UNCHANGED <<door, balance, ledger, games, lost, visits, rounds, steps, failed>>

DoorInit ==
  /\ door \in DoorNames
  /\ balance = Purse /\ ledger = 0
  /\ screen = [NewScreen EXCEPT !.open = FALSE]
  /\ games = <<>> /\ cmds = <<>>
  /\ lost = 0 /\ visits = 0 /\ rounds = 0 /\ steps = 0 /\ failed = FALSE

DoorNext == Enter \/ Esc \/ PressKey \/ Advance \/ RunCommand \/ Answer \/ Tick

DoorSpec == DoorInit /\ [][DoorNext]_doorVars

-----------------------------------------------------------------------------
(* Properties.                                                             *)

\* What a hand on the screen has at stake: it is in no row of game_rounds yet.
AtStake ==
  IF ~HasGame THEN 0
  ELSE CASE door = "blackjack"  -> IF Here.finished THEN 0 ELSE Here.stake
         [] door = "videopoker" -> IF Here.drawn THEN 0 ELSE Here.stake
         [] door = "holdem"     -> Here.stake
         [] OTHER -> 0

\* Neither the record nor the wallet can be trusted once a statement failed, and
\* a doubled hand of blackjack writes the wallet from two copies at a time.
Undisturbed == ~failed /\ (door = "blackjack" => \A i \in DOMAIN games : ~games[i].doubled)

\* When nothing is under way, the wallet is what it was, plus the net of every
\* round on record, less the stake of the hand on the table and the hands that
\* were walked away from: no payout of a finished round is missing, none was
\* paid for a stake that was not taken, none was paid twice.
WalletAgreesWithRecord ==
  Quiet /\ Undisturbed => balance = Purse + ledger - lost - AtStake

\* A player who is not at a table has no chips on one: Esc and x bring them back
\* (holdem.go: "Cash out before leaving so the player's chips return to the
\* wallet").
ChipsReturn ==
  door = "holdem" /\ Quiet /\ ~HasGame /\ ~failed => balance = Purse + ledger

\* Heads-up, no chip is made, none is lost and none is owed, whatever is folded, called short
\* or split (holdem.go postBet, closeStreet, endByFold, resolveShowdown).
HeadsUpChips ==
  door = "holdem" => \A i \in DOMAIN games :
    /\ games[i].stacks[1] + games[i].stacks[2] + InPlay(games[i]) = 2 * games[i].stake
    /\ games[i].stacks[1] >= 0 /\ games[i].stacks[2] >= 0
=============================================================================
