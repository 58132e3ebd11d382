---------------------------- MODULE RouletteTable ----------------------------
(***************************************************************************)
(* The global roulette table: the Coordinator actor of                     *)
(* internal/doors/roulette/multiplayer/coordinator.go, the Registry that   *)
(* restores and persists it (registry.go), and main's shutdown sequence    *)
(* (cmd/nightms/main.go runListeners), which runs beside the actor once    *)
(* the context they share is cancelled.                                    *)
(*                                                                         *)
(* `main' is the place main has reached: it serves; it waits for the       *)
(* actor's answer to DrainPending; it refunds what it got; it waits for    *)
(* the answer to PersistShape; the row of roulette_state is written.  The  *)
(* actor may stop between any two of these.  The commands of the sessions  *)
(* are taken one at a time by the actor; the wallet is the promise of the  *)
(* Wallet interface, with the failures a call may report.  Who hears the   *)
(* broadcasts is left to the players.                                      *)
(***************************************************************************)
EXTENDS RouletteWheel, Sequences

CONSTANTS
  Users,        (* players                                                  *)
  Keys,         (* the bets they make: a subset of BetKeys                  *)
  Draws,        (* the pockets the ball falls in: a subset of Pockets       *)
  Amounts,      (* stakes, which the screen keeps positive                  *)
  Stack,        (* credits of each player at the start                      *)
  HistoryCap,   (* outcomes kept                                            *)
  MaxBets,      (* bound: bets accepted                                     *)
  MaxDraws,     (* bound: wheels spun                                       *)
  MaxBoots,     (* bound: processes started                                 *)
  DebitFaults,  (* may a debit be written and still report an error?        *)
  CreditFaults, (* may a credit fail?                                       *)
  Stops,        (* may the process be told to stop?                         *)
  StopInReveal, (* may the actor see the cancelled context in Reveal?       *)
  Crashes       (* may the process be killed?                               *)

NoPocket == -1

ASSUME WheelAssumption == Keys \subseteq BetKeys /\ Draws \subseteq Pockets
ASSUME StakeAssumption == Amounts \subseteq Nat \ {0} /\ Stack \in Nat
ASSUME CapAssumption == HistoryCap \in Nat \ {0}
ASSUME BoundAssumption == MaxBets \in Nat /\ MaxDraws \in Nat /\ MaxBoots \in Nat \ {0}
ASSUME SwitchAssumption ==
  DebitFaults \in BOOLEAN /\ CreditFaults \in BOOLEAN
  /\ Stops \in BOOLEAN /\ StopInReveal \in BOOLEAN /\ Crashes \in BOOLEAN

VARIABLES
  phase, late,  (* the phase, and whether the last-bet cutoff has passed    *)
  token,        (* phaseToken                                               *)
  winning,      (* the pocket drawn, or NoPocket                            *)
  pending,      (* pendingBets, as a set of positions of `bets'             *)
  aggregate,    (* credits on each key, as broadcast                        *)
  history,      (* the history ring, oldest first                           *)
  hand,         (* handNumber                                               *)
  actor,        (* is the actor's loop running?                             *)
  main,         (* where the shutdown sequence is                           *)
  drained,      (* the bets the registry got from DrainPending              *)
  saved,        (* the row of roulette_state                                *)
  boots,        (* processes started                                        *)
  wallet,       (* credits of each player                                   *)
  bets,         (* history: every bet accepted and what became of it        *)
  outcomes,     (* history: every pocket drawn                              *)
  handed        (* history: hand numbers handed to the ledger               *)

table    == <<phase, late, token, winning, pending, aggregate, history, hand>>
process  == <<actor, main, drained, saved, boots>>
money    == <<wallet, bets>>
vars     == <<table, process, money, outcomes, handed>>

Phases == {"Betting", "NoMoreBets", "Spinning", "Reveal"}
NoChips == [k \in Keys |-> 0]

Bets == [user : Users, key : Keys, amount : Amounts, round : Nat,
         back : Nat, fate : {"open", "settled", "refunded", "lost"}]

-----------------------------------------------------------------------------
(* The wallet, for the bets at the positions ids.                          *)

Returned(ids, back, fate) ==
  [i \in DOMAIN bets |->
     IF i \in ids THEN [bets[i] EXCEPT !.back = @ + back[i], !.fate = fate] ELSE bets[i]]

Credit(ids, back, fate) ==
  /\ wallet' = [u \in Users |-> wallet[u]
                 + MapThenSumSet(LAMBDA i : back[i], {i \in ids : bets[i].user = u})]
  /\ bets' = Returned(ids, back, fate)

\* A Credit that fails is logged and forgotten.
Credited(ids) == IF CreditFaults THEN SUBSET ids ELSE {ids}

Refund(ids) ==
  \E ok \in Credited(ids) :
    Credit(ids, [i \in ids |-> IF i \in ok THEN bets[i].amount ELSE 0], "refunded")

-----------------------------------------------------------------------------
(* The phases.                                                             *)

StartBettingKeepsTotals(h, t) ==
  /\ phase' = "Betting" /\ late' = FALSE /\ winning' = NoPocket
  /\ pending' = {} /\ aggregate' = aggregate
  /\ hand' = h + 1 /\ token' = t + 1

\* The hand number and the token of the round before are h and t.
StartBetting(h, t) ==
  /\ phase' = "Betting" /\ late' = FALSE /\ winning' = NoPocket
  /\ pending' = {} /\ aggregate' = NoChips
  /\ hand' = h + 1 /\ token' = t + 1

\* The clock passes EndsAt - LastBetCutoff.
Cutoff ==
  /\ actor /\ phase = "Betting" /\ ~late
  /\ late' = TRUE
  /\ UNCHANGED <<phase, token, winning, pending, aggregate, history, hand>>
  /\ UNCHANGED <<process, money, outcomes, handed>>

\* advancePhase at the deadline of Betting.
CloseBetting ==
  /\ actor /\ phase = "Betting"
  /\ phase' = "NoMoreBets" /\ token' = token + 1
  /\ UNCHANGED <<late, winning, pending, aggregate, history, hand>>
  /\ UNCHANGED <<process, money, outcomes, handed>>

\* advancePhase at the deadline of NoMoreBets: the ball is drawn.
Spin ==
  /\ actor /\ phase = "NoMoreBets"
  /\ Len(outcomes) < MaxDraws
  /\ phase' = "Spinning" /\ token' = token + 1
  /\ \E p \in Draws : winning' = p /\ outcomes' = Append(outcomes, p)
  /\ UNCHANGED <<late, pending, aggregate, history, hand>>
  /\ UNCHANGED <<process, money, handed>>

Push(h, p) == LET all == Append(h, p)
              IN  IF Len(all) > HistoryCap THEN Tail(all) ELSE all

\* The settled bets stay in pendingBets until the next round.
Settle(ids) ==
  \E ok \in Credited(ids) :
    Credit(ids, [i \in ids |-> IF i \in ok
                               THEN GrossReturn(winning, bets[i].key, bets[i].amount)
                               ELSE 0], "settled")

\* settleRound: the credits, the outcome into the history, and the hand, if
\* anybody played it, to the ledger.
SettleRound ==
  /\ Settle(pending)
  /\ history' = Push(history, winning)
  /\ handed' = IF pending = {} THEN handed ELSE Append(handed, hand)

\* advancePhase at the deadline of Spinning.
Reveal ==
  /\ actor /\ phase = "Spinning"
  /\ phase' = "Reveal" /\ token' = token + 1
  /\ SettleRound
  /\ UNCHANGED <<late, winning, pending, aggregate, hand>>
  /\ UNCHANGED <<process, outcomes>>

\* advancePhase at the deadline of Reveal.
NewRound ==
  /\ actor /\ phase = "Reveal"
  /\ Len(outcomes) < MaxDraws
  /\ StartBetting(hand, token)
  /\ UNCHANGED history
  /\ UNCHANGED <<process, money, outcomes, handed>>

-----------------------------------------------------------------------------
(* The commands.                                                           *)

Open == phase = "Betting" /\ ~late

\* cmdPlaceBet: a bet on time that the wallet covers is recorded.
PlaceBet(u, k, a) ==
  /\ actor /\ Open
  /\ wallet[u] >= a
  /\ Len(bets) < MaxBets
  /\ wallet' = [wallet EXCEPT ![u] = @ - a]
  /\ bets' = Append(bets, [user |-> u, key |-> k, amount |-> a,
                           round |-> Len(outcomes) + 1, back |-> 0, fate |-> "open"])
  /\ pending' = pending \union {Len(bets) + 1}
  /\ aggregate' = [aggregate EXCEPT ![k] = @ + a]
  /\ UNCHANGED <<phase, late, token, winning, history, hand>>
  /\ UNCHANGED <<process, outcomes, handed>>

\* The debit reports an error although the row was written: the three seconds
\* ran out while the answer was under way.  No bet is recorded.  (Bound: not from
\* winnings.)
LoseDebit(u, a) ==
  /\ DebitFaults
  /\ actor /\ Open
  /\ wallet[u] >= a /\ wallet[u] <= Stack
  /\ wallet' = [wallet EXCEPT ![u] = @ - a]
  /\ UNCHANGED <<table, process, bets, outcomes, handed>>

\* cmdPersistDrain, which the registry is waiting for.
DrainKeepsBets ==
  /\ actor /\ main = "draining"
  /\ drained' = pending
  /\ aggregate' = NoChips
  /\ main' = "refunding"
  /\ UNCHANGED <<phase, late, token, winning, pending, history, hand>>
  /\ UNCHANGED <<actor, saved, boots, money, outcomes, handed>>

DrainPending ==
  /\ actor /\ main = "draining"
  /\ StopInReveal \/ phase # "Reveal"
  /\ drained' = pending
  /\ pending' = {} /\ aggregate' = NoChips
  /\ main' = "refunding"
  /\ UNCHANGED <<phase, late, token, winning, history, hand>>
  /\ UNCHANGED <<actor, saved, boots, money, outcomes, handed>>

\* What outlives the process.
Shape == [history |-> history, token |-> token]

\* cmdPersistShape, and the row the registry writes with the answer.
PersistShape ==
  /\ actor /\ main = "shaping"
  /\ saved' = Shape
  /\ main' = "saved"
  /\ UNCHANGED <<table, actor, drained, boots, money, outcomes, handed>>

ExitForgets ==
  /\ actor /\ main # "serving"
  /\ pending' = {}
  /\ actor' = FALSE
  /\ UNCHANGED <<phase, late, token, winning, aggregate, history, hand>>
  /\ UNCHANGED <<main, drained, saved, boots, money, outcomes, handed>>

\* Run sees the cancelled context: drainAndRefund, and the loop is over.
Exit ==
  /\ actor /\ main # "serving"
  /\ StopInReveal \/ phase # "Reveal"
  /\ Refund(pending)
  /\ pending' = {}
  /\ actor' = FALSE
  /\ UNCHANGED <<phase, late, token, winning, aggregate, history, hand>>
  /\ UNCHANGED <<main, drained, saved, boots, outcomes, handed>>

-----------------------------------------------------------------------------
(* main and the registry.                                                  *)

\* The signal cancels the context; main calls Registry.Persist.
Signal ==
  /\ Stops /\ main = "serving"
  /\ main' = "draining"
  /\ UNCHANGED <<table, actor, drained, saved, boots, money, outcomes, handed>>

\* Persist refunds the bets it was given.
RefundDrained ==
  /\ main = "refunding"
  /\ Refund(drained)
  /\ drained' = {}
  /\ main' = "shaping"
  /\ UNCHANGED <<table, actor, saved, boots, outcomes, handed>>

\* A new coordinator takes the history of the row, and its token if that is ahead.
ApplyPersistShape(fresh) ==
  /\ history' = saved.history
  /\ StartBetting(0, IF saved.token > fresh THEN saved.token ELSE fresh)

\* The process is gone, because main returned or by force, and another one
\* starts: NewRegistry, Restore and the first startBetting of Run.
Restart ==
  /\ main = "saved" \/ Crashes
  /\ boots < MaxBoots /\ Len(outcomes) < MaxDraws
  /\ boots' = boots + 1
  /\ actor' = TRUE /\ main' = "serving" /\ drained' = {}
  /\ ApplyPersistShape(0)
  /\ bets' = [i \in DOMAIN bets |->
                IF bets[i].fate = "open" THEN [bets[i] EXCEPT !.fate = "lost"] ELSE bets[i]]
  /\ UNCHANGED <<saved, wallet, outcomes, handed>>

-----------------------------------------------------------------------------
Init ==
  /\ phase = "Betting" /\ late = FALSE /\ token = 1 /\ winning = NoPocket
  /\ pending = {} /\ aggregate = NoChips /\ history = <<>> /\ hand = 1
  /\ actor = TRUE /\ main = "serving" /\ drained = {}
  /\ saved = [history |-> <<>>, token |-> 0] /\ boots = 1
  /\ wallet = [u \in Users |-> Stack]
  /\ bets = <<>> /\ outcomes = <<>> /\ handed = <<>>

Timer == CloseBetting \/ Spin \/ Reveal \/ NewRound

Next ==
  \/ Cutoff \/ Timer
  \/ \E u \in Users, k \in Keys, a \in Amounts : PlaceBet(u, k, a)
  \/ \E u \in Users, a \in Amounts : LoseDebit(u, a)
  \/ DrainPending \/ PersistShape \/ Exit
  \/ Signal \/ RefundDrained \/ Restart

Spec == Init /\ [][Next]_vars

\* The deadline timer of the loop fires, the loop's select does not pass over
\* the cancelled context or a waiting command for ever, and main goes on.
FairSpec ==
  /\ Spec
  /\ WF_vars(Timer) /\ WF_vars(Exit)
  /\ WF_vars(DrainPending) /\ WF_vars(PersistShape) /\ WF_vars(RefundDrained)
-----------------------------------------------------------------------------
(* Properties.                                                             *)

\* The state stays within its types: a bet keeps a positive stake, no wallet and
\* no total on the felt goes negative, and what is drawn is on the wheel.
TypeOK ==
  /\ phase \in Phases /\ late \in BOOLEAN /\ token \in Nat /\ hand \in Nat
  /\ winning \in Draws \union {NoPocket}
  /\ pending \subseteq DOMAIN bets /\ drained \subseteq DOMAIN bets
  /\ aggregate \in [Keys -> Nat]
  /\ history \in Seq(Draws) /\ Len(history) <= HistoryCap
  /\ actor \in BOOLEAN
  /\ main \in {"serving", "draining", "refunding", "shaping", "saved"}
  /\ saved \in [history : Seq(Draws), token : Nat]
  /\ boots \in 1 .. MaxBoots
  /\ wallet \in [Users -> Nat]
  /\ bets \in Seq(Bets)
  /\ outcomes \in Seq(Draws) /\ handed \in Seq(Nat)

\* What a bet brought back is what the pocket of its own round pays, or its
\* stake if the process stopped before: not both, and not twice, however the
\* timer, the bets, the drain of the registry and the end of the actor
\* interleave (settleRound, drainAndRefund, Registry.Persist).
Due(b) == CASE b.fate = "settled"  -> GrossReturn(outcomes[b.round], b.key, b.amount)
            [] b.fate = "refunded" -> b.amount
            [] OTHER               -> 0

PaidExactly == \A i \in DOMAIN bets : bets[i].back = Due(bets[i])

\* With a wallet that may fail, and a process that may be killed, a bet brings
\* back nothing or what is due.
PaidOrNothing == \A i \in DOMAIN bets : bets[i].back \in {0, Due(bets[i])}

\* A bet whose stake was taken and that is not decided is still in the hands of
\* the actor or of the registry, also after the actor has stopped.
NoBetDropped ==
  \A i \in DOMAIN bets : bets[i].fate = "open" => i \in pending \union drained

\* No bet is placed on a pocket already drawn, and none is carried over from an
\* earlier round: the bets on the felt are those of this round.
BetsOfThisRound ==
  \A i \in pending :
    bets[i].round = IF winning = NoPocket THEN Len(outcomes) + 1 ELSE Len(outcomes)

\* The totals broadcast to the players are those of the bets that will be
\* settled, also after the registry has drained them.
AggregateIsTheBets ==
  actor => \A k \in Keys :
    aggregate[k] = MapThenSumSet(LAMBDA i : bets[i].amount,
                                 {i \in pending : bets[i].key = k})

\* Within one process the ledger gets each hand number once, in order: the
\* unique index of multiplayer_hands refuses no round.
HandedInOrder ==
  boots = 1 => \A m, n \in DOMAIN handed : m < n => handed[m] < handed[n]

\* The history shown is the tail of what was revealed: a pocket that is drawn
\* shows up once, and not before the reveal.
HistoryIsRevealed ==
  boots = 1 =>
    LET revealed == IF phase = "Spinning" THEN SubSeq(outcomes, 1, Len(outcomes) - 1) ELSE outcomes
    IN  /\ Len(history) = (IF Len(revealed) < HistoryCap THEN Len(revealed) ELSE HistoryCap)
        /\ \A j \in 1 .. Len(history) :
             history[j] = revealed[Len(revealed) - Len(history) + j]

\* What the players are shown of the round, and what the ledger will hold of it.
FeltExact == BetsOfThisRound /\ AggregateIsTheBets /\ HandedInOrder /\ HistoryIsRevealed

\* Every bet accepted before the signal is settled or refunded in the end, whether
\* the table goes on or is stopped at any moment, and whichever of the actor's own
\* refund and the registry's drain comes first (Run, drainAndRefund, Persist).
EveryBetDecided ==
  \A i \in 1 .. MaxBets :
    (i \in DOMAIN bets /\ bets[i].fate = "open" /\ main = "serving")
      ~> (i \in DOMAIN bets /\ bets[i].fate \in {"settled", "refunded"})

-----------------------------------------------------------------------------
(* What the comments of the code say, and the code does not do.  The first *)
(* is refuted by RouletteRefund.cfg; the others are in the same way, with the *)
(* configurations the README gives.                                        *)

\* coordinator.go:425 "refunds every in-flight bet so users don't lose chips that
\* were placed but never settled": what is refunded was not settled.
RefundsOnlyUnsettled ==
  [][\A i \in DOMAIN bets : bets[i].fate = "settled" => bets'[i].back = bets[i].back]_vars

\* The same comment, of a process that is told to stop and not killed: a bet placed
\* between the drain and the end of main is forgotten with it.
NoBetLost == \A i \in DOMAIN bets : bets[i].fate # "lost"

\* coordinator.go:572 "Returns the zero value if the actor is no longer running":
\* a stopped actor does not keep the shutdown sequence from its end.
PersistAnswered == main = "draining" ~> main = "saved"

\* coordinator.go:131 "monotonic round counter for ledger HandNumber".
HandNumberMonotonic == [][hand' >= hand]_vars

\* snapshot.go:54 "PhaseToken seeds the next-boot counter so monotonicity holds":
\* after a shutdown that saved the table, the next phase has a newer token.
TokenMonotonic == [][phase' # phase => token' > token]_vars
=============================================================================
