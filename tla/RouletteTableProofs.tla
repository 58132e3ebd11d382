------------------------- MODULE RouletteTableProofs -------------------------
(***************************************************************************)
(* Theorems about the roulette table, for any number of players, bets,     *)
(* rounds and restarts.                                                    *)
(*                                                                         *)
(* Kept is the inductive invariant of the bets' whereabouts: it holds      *)
(* whatever the wallet and the operator do.  Exact adds what the bets      *)
(* brought back; it needs a wallet that does what it promises, and no      *)
(* shutdown in Reveal, where the code refunds what it has settled.         *)
(* FeltInv is what the players are shown (the totals of the bets on the    *)
(* felt, the history of what was revealed) and what the ledger was handed; *)
(* it needs nothing of the wallet.                                         *)
(***************************************************************************)
EXTENDS RouletteTable, Sums, TLAPS

Typed ==
  /\ phase \in Phases
  /\ outcomes \in Seq(Draws)
  /\ bets \in Seq(Bets)
  /\ pending \subseteq DOMAIN bets
  /\ drained \subseteq DOMAIN bets

\* The pocket is drawn on entry to Spinning and is the last outcome.
WinningIsLast ==
  IF phase \in {"Spinning", "Reveal"}
  THEN /\ outcomes # <<>>
       /\ winning = outcomes[Len(outcomes)]
  ELSE winning = NoPocket

\* The bets still on the felt in Reveal are settled.
RevealIsSettled == phase = "Reveal" => \A i \in pending : bets[i].fate # "open"

\* The registry holds bets only between the drain and their refund.
DrainedInTransit == main # "refunding" => drained = {}

Kept ==
  /\ Typed
  /\ WinningIsLast
  /\ RevealIsSettled
  /\ DrainedInTransit
  /\ NoBetDropped
  /\ BetsOfThisRound

-----------------------------------------------------------------------------
\* What a bet pays is a number of credits.
LEMMA GrossIsNat ==
  ASSUME NEW p, NEW k, NEW a \in Nat
  PROVE  GrossReturn(p, k, a) \in Nat
<1>1. Multiplier(k) \in {35, 1, 2} BY DEF Multiplier
<1>2. a * (1 + Multiplier(k)) \in Nat
  <2>1. CASE Multiplier(k) = 35 BY <2>1
  <2>2. CASE Multiplier(k) = 1 BY <2>2
  <2>3. CASE Multiplier(k) = 2 BY <2>3
  <2>4. QED BY <1>1, <2>1, <2>2, <2>3
<1>3. QED BY <1>2 DEF GrossReturn

\* The numbers of a bet.
LEMMA BetFields ==
  ASSUME bets \in Seq(Bets), NEW i \in DOMAIN bets
  PROVE  bets[i].amount \in Nat /\ bets[i].back \in Nat /\ bets[i].round \in Nat
<1>1. bets[i] \in Bets OBVIOUS
<1>2. QED BY <1>1, StakeAssumption DEF Bets

\* A credit changes what the bets at ids brought back, and their fate.
LEMMA CreditStep ==
  ASSUME bets \in Seq(Bets), NEW ids, ids \subseteq DOMAIN bets,
         NEW back \in [ids -> Nat],
         NEW fate \in {"open", "settled", "refunded", "lost"},
         Credit(ids, back, fate)
  PROVE  /\ bets' \in Seq(Bets)
         /\ Len(bets') = Len(bets)
         /\ \A i \in DOMAIN bets :
              /\ bets'[i].round = bets[i].round
              /\ bets'[i].key = bets[i].key
              /\ bets'[i].amount = bets[i].amount
              /\ bets'[i].fate = IF i \in ids THEN fate ELSE bets[i].fate
              /\ bets'[i].back = IF i \in ids THEN bets[i].back + back[i] ELSE bets[i].back
<1> DEFINE new(i) == IF i \in ids
                     THEN [bets[i] EXCEPT !.back = @ + back[i], !.fate = fate]
                     ELSE bets[i]
<1>0. bets' = Returned(ids, back, fate) BY Zenon DEF Credit
<1>a. DOMAIN bets = 1 .. Len(bets) OBVIOUS
<1>b. bets' = [i \in DOMAIN bets |-> new(i)] BY Zenon, <1>0 DEF Returned
<1>1. bets' = [i \in 1 .. Len(bets) |-> new(i)] BY Zenon, <1>a, <1>b
<1>2. ASSUME NEW i \in 1 .. Len(bets) PROVE bets[i] \in Bets BY <1>2
<1>3. ASSUME NEW i \in 1 .. Len(bets), i \in ids
      PROVE  /\ new(i) \in Bets
             /\ new(i).round = bets[i].round
             /\ new(i).key = bets[i].key
             /\ new(i).amount = bets[i].amount
             /\ new(i).fate = fate
             /\ new(i).back = bets[i].back + back[i]
  <2>1. bets[i] \in Bets BY <1>2
  <2>2. back[i] \in Nat BY <1>3
  <2>3. bets[i].back + back[i] \in Nat BY <2>1, <2>2 DEF Bets
  <2>4. new(i) = [bets[i] EXCEPT !.back = @ + back[i], !.fate = fate] BY <1>3
  <2>5. QED BY <2>1, <2>3, <2>4 DEF Bets
<1>4. ASSUME NEW i \in 1 .. Len(bets) PROVE new(i) \in Bets
  BY <1>2, <1>3
<1> HIDE DEF new
<1>5. bets' \in [1 .. Len(bets) -> Bets] BY <1>1, <1>4
<1>6. bets' \in Seq(Bets) /\ Len(bets') = Len(bets) BY <1>5
<1>7. ASSUME NEW i \in 1 .. Len(bets) PROVE bets'[i] = new(i) BY <1>1
<1>8. ASSUME NEW i \in 1 .. Len(bets), i \notin ids PROVE new(i) = bets[i]
  BY <1>8 DEF new
<1>9. QED BY <1>3, <1>6, <1>7, <1>8

\* What Refund and Settle do to the bets, whatever the wallet does.
LEMMA RefundStep ==
  ASSUME bets \in Seq(Bets), NEW ids, ids \subseteq DOMAIN bets, Refund(ids)
  PROVE  /\ bets' \in Seq(Bets)
         /\ Len(bets') = Len(bets)
         /\ \A i \in DOMAIN bets :
              /\ bets'[i].round = bets[i].round
              /\ bets'[i].key = bets[i].key
              /\ bets'[i].amount = bets[i].amount
              /\ bets'[i].fate = IF i \in ids THEN "refunded" ELSE bets[i].fate
              /\ IF i \in ids
                 THEN /\ bets'[i].back \in {bets[i].back, bets[i].back + bets[i].amount}
                      /\ ~CreditFaults => bets'[i].back = bets[i].back + bets[i].amount
                 ELSE bets'[i].back = bets[i].back
<1> DEFINE paid(ok) == [i \in ids |-> IF i \in ok THEN bets[i].amount ELSE 0]
<1>1. PICK ok \in Credited(ids) : Credit(ids, paid(ok), "refunded") BY Zenon DEF Refund
<1>2. \A i \in ids : bets[i].amount \in Nat BY BetFields
<1>3. paid(ok) \in [ids -> Nat] BY <1>2
<1>4. ~CreditFaults => ok = ids BY <1>1 DEF Credited
<1>5. ~CreditFaults => \A i \in ids : paid(ok)[i] = bets[i].amount BY <1>4
<1> DEFINE back == paid(ok)
<1>6. Credit(ids, back, "refunded") BY <1>1
<1>7. back \in [ids -> Nat] BY <1>3
<1>8. ~CreditFaults => \A i \in ids : back[i] = bets[i].amount BY <1>5
<1>8a. \A i \in ids : back[i] \in {0, bets[i].amount} OBVIOUS
<1> HIDE DEF paid, back
<1>8b. \A i \in ids : bets[i].back + 0 = bets[i].back BY BetFields
<1>9. /\ bets' \in Seq(Bets)
      /\ Len(bets') = Len(bets)
      /\ \A i \in DOMAIN bets :
           /\ bets'[i].round = bets[i].round
           /\ bets'[i].key = bets[i].key
           /\ bets'[i].amount = bets[i].amount
           /\ bets'[i].fate = IF i \in ids THEN "refunded" ELSE bets[i].fate
           /\ bets'[i].back = IF i \in ids THEN bets[i].back + back[i] ELSE bets[i].back
  BY <1>6, <1>7, CreditStep, Zenon
<1>10. \A i \in ids : bets[i].back + back[i] \in {bets[i].back, bets[i].back + bets[i].amount}
  BY <1>8a, <1>8b
<1>11. QED BY <1>8, <1>9, <1>10, Zenon

LEMMA SettleStep ==
  ASSUME bets \in Seq(Bets), NEW ids, ids \subseteq DOMAIN bets, Settle(ids)
  PROVE  /\ bets' \in Seq(Bets)
         /\ Len(bets') = Len(bets)
         /\ \A i \in DOMAIN bets :
              /\ bets'[i].round = bets[i].round
              /\ bets'[i].key = bets[i].key
              /\ bets'[i].amount = bets[i].amount
              /\ bets'[i].fate = IF i \in ids THEN "settled" ELSE bets[i].fate
              /\ IF i \in ids
                 THEN LET gross == GrossReturn(winning, bets[i].key, bets[i].amount)
                      IN  /\ bets'[i].back \in {bets[i].back, bets[i].back + gross}
                          /\ ~CreditFaults => bets'[i].back = bets[i].back + gross
                 ELSE bets'[i].back = bets[i].back
<1> DEFINE gross(i) == GrossReturn(winning, bets[i].key, bets[i].amount)
           paid(ok) == [i \in ids |-> IF i \in ok THEN gross(i) ELSE 0]
<1>1. PICK ok \in Credited(ids) : Credit(ids, paid(ok), "settled") BY Zenon DEF Settle
<1>2. \A i \in ids : bets[i].amount \in Nat BY BetFields
<1>3. \A i \in ids : gross(i) \in Nat BY <1>2, GrossIsNat
<1> HIDE DEF gross
<1>4. paid(ok) \in [ids -> Nat] BY <1>3
<1>5. ~CreditFaults => ok = ids BY <1>1 DEF Credited
<1>6. ~CreditFaults => \A i \in ids : paid(ok)[i] = gross(i) BY <1>5
<1> DEFINE back == paid(ok)
<1>7. Credit(ids, back, "settled") BY <1>1
<1>8. back \in [ids -> Nat] BY <1>4
<1>9. ~CreditFaults => \A i \in ids : back[i] = gross(i) BY <1>6
<1>9a. \A i \in ids : back[i] \in {0, gross(i)} OBVIOUS
<1> HIDE DEF paid, back
<1>9b. \A i \in ids : bets[i].back + 0 = bets[i].back BY BetFields
<1>10. /\ bets' \in Seq(Bets)
      /\ Len(bets') = Len(bets)
      /\ \A i \in DOMAIN bets :
           /\ bets'[i].round = bets[i].round
           /\ bets'[i].key = bets[i].key
           /\ bets'[i].amount = bets[i].amount
           /\ bets'[i].fate = IF i \in ids THEN "settled" ELSE bets[i].fate
           /\ bets'[i].back = IF i \in ids THEN bets[i].back + back[i] ELSE bets[i].back
  BY <1>7, <1>8, CreditStep, Zenon
<1>11. \A i \in ids : bets[i].back + back[i] \in {bets[i].back, bets[i].back + gross(i)}
  BY <1>9a, <1>9b
<1>12. QED BY <1>9, <1>10, <1>11, Zenon DEF gross

\* A restart loses the bets that were open.
LEMMA RestartStep ==
  ASSUME bets \in Seq(Bets), Restart
  PROVE  /\ bets' \in Seq(Bets)
         /\ Len(bets') = Len(bets)
         /\ \A i \in DOMAIN bets :
              /\ bets'[i].round = bets[i].round
              /\ bets'[i].key = bets[i].key
              /\ bets'[i].amount = bets[i].amount
              /\ bets'[i].back = bets[i].back
              /\ bets'[i].fate = IF bets[i].fate = "open" THEN "lost" ELSE bets[i].fate
<1> DEFINE new(i) == IF bets[i].fate = "open" THEN [bets[i] EXCEPT !.fate = "lost"] ELSE bets[i]
<1>1. bets' = [i \in DOMAIN bets |-> new(i)] BY Zenon DEF Restart, ApplyPersistShape
<1>2. DOMAIN bets = 1 .. Len(bets) OBVIOUS
<1>3. ASSUME NEW i \in DOMAIN bets
      PROVE  /\ new(i) \in Bets
             /\ new(i).round = bets[i].round
             /\ new(i).key = bets[i].key
             /\ new(i).amount = bets[i].amount
             /\ new(i).back = bets[i].back
             /\ new(i).fate = IF bets[i].fate = "open" THEN "lost" ELSE bets[i].fate
  <2>1. bets[i] \in Bets BY <1>3
  <2>2. QED BY <2>1 DEF Bets
<1> HIDE DEF new
<1>4. bets' \in [1 .. Len(bets) -> Bets] BY <1>1, <1>2, <1>3
<1>5. bets' \in Seq(Bets) /\ Len(bets') = Len(bets) BY <1>4
<1>6. QED BY <1>1, <1>3, <1>5

\* A bet placed is appended to the bets.
LEMMA PlaceBetStep ==
  ASSUME bets \in Seq(Bets), outcomes \in Seq(Draws),
         NEW u \in Users, NEW k \in Keys, NEW a \in Amounts, PlaceBet(u, k, a)
  PROVE  /\ bets' \in Seq(Bets)
         /\ Len(bets') = Len(bets) + 1
         /\ \A i \in DOMAIN bets : bets'[i] = bets[i]
         /\ bets'[Len(bets) + 1].round = Len(outcomes) + 1
         /\ bets'[Len(bets) + 1].back = 0
         /\ bets'[Len(bets) + 1].fate = "open"
<1> DEFINE b == [user |-> u, key |-> k, amount |-> a,
                 round |-> Len(outcomes) + 1, back |-> 0, fate |-> "open"]
<1>1. bets' = Append(bets, b) BY Zenon DEF PlaceBet
<1>2. Len(outcomes) + 1 \in Nat OBVIOUS
<1>3. b \in Bets /\ b.round = Len(outcomes) + 1 /\ b.back = 0 /\ b.fate = "open"
  BY <1>2 DEF Bets
<1> HIDE DEF b
<1>4. QED BY <1>1, <1>3

-----------------------------------------------------------------------------
(* Where the bets are.                                                     *)

LEMMA KeptInit == Init => Kept
BY DEF Init, Kept, Typed, WinningIsLast, RevealIsSettled, DrainedInTransit, NoBetDropped,
       BetsOfThisRound, Phases

\* The places do not change when none of the variables they are told from does.
LEMMA KeptFrame ==
  ASSUME Kept,
         UNCHANGED <<phase, winning, pending, main, drained, bets, outcomes>>
  PROVE  Kept'
BY DEF Kept, Typed, WinningIsLast, RevealIsSettled, DrainedInTransit, NoBetDropped,
       BetsOfThisRound

LEMMA KeptStep == Kept /\ [Next]_vars => Kept'
<1> SUFFICES ASSUME Kept, [Next]_vars PROVE Kept'
  OBVIOUS
<1> USE DEF Kept, Typed
<1>1. CASE Cutoff BY <1>1, KeptFrame DEF Cutoff, process, money
<1>2. CASE CloseBetting
  BY <1>2 DEF CloseBetting, process, money, WinningIsLast, RevealIsSettled,
              DrainedInTransit, NoBetDropped, BetsOfThisRound, Phases
<1>3. CASE Spin
  <2>1. PICK p \in Draws : winning' = p /\ outcomes' = Append(outcomes, p) BY <1>3 DEF Spin
  <2>2. p # NoPocket BY WheelAssumption DEF NoPocket, Pockets
  <2>3. winning = NoPocket BY <1>3 DEF Spin, WinningIsLast
  <2>4. /\ outcomes' \in Seq(Draws) /\ Len(outcomes') = Len(outcomes) + 1
        /\ outcomes'[Len(outcomes')] = p /\ outcomes' # <<>>
    BY <2>1
  <2>5. UNCHANGED <<pending, main, drained, bets>> /\ phase' = "Spinning"
    BY <1>3 DEF Spin, process, money
  <2>6. QED
    BY <2>1, <2>2, <2>3, <2>4, <2>5
    DEF WinningIsLast, RevealIsSettled, DrainedInTransit, NoBetDropped, BetsOfThisRound, Phases
<1>4. CASE Reveal
  <2>1. Settle(pending) /\ UNCHANGED <<winning, pending, main, drained, outcomes>>
        /\ phase' = "Reveal" /\ phase = "Spinning"
    BY <1>4 DEF Reveal, SettleRound, process
  <2>2. /\ bets' \in Seq(Bets)
        /\ Len(bets') = Len(bets)
        /\ \A i \in DOMAIN bets :
             /\ bets'[i].round = bets[i].round
             /\ bets'[i].fate = IF i \in pending THEN "settled" ELSE bets[i].fate
    BY <2>1, SettleStep, Zenon
  <2>3. DOMAIN bets' = DOMAIN bets BY <2>2
  <2>4. QED
    BY <2>1, <2>2, <2>3
    DEF WinningIsLast, RevealIsSettled, DrainedInTransit, NoBetDropped, BetsOfThisRound, Phases
<1>5. CASE NewRound
  BY <1>5 DEF NewRound, StartBetting, process, money, WinningIsLast, RevealIsSettled,
              DrainedInTransit, NoBetDropped, BetsOfThisRound, Phases
<1>6. ASSUME NEW u \in Users, NEW k \in Keys, NEW a \in Amounts, PlaceBet(u, k, a)
      PROVE  Kept'
  <2>1. /\ bets' \in Seq(Bets)
        /\ Len(bets') = Len(bets) + 1
        /\ \A i \in DOMAIN bets : bets'[i] = bets[i]
        /\ bets'[Len(bets) + 1].round = Len(outcomes) + 1
    BY <1>6, PlaceBetStep, Zenon
  <2>2. /\ phase = "Betting" /\ pending' = pending \union {Len(bets) + 1}
        /\ UNCHANGED <<phase, winning, main, drained, outcomes>>
    BY <1>6 DEF PlaceBet, Open, process
  <2>3. DOMAIN bets' = DOMAIN bets \union {Len(bets) + 1} BY <2>1
  <2>4. QED
    BY <2>1, <2>2, <2>3
    DEF WinningIsLast, RevealIsSettled, DrainedInTransit, NoBetDropped, BetsOfThisRound
<1>7. ASSUME NEW u \in Users, NEW a \in Amounts, LoseDebit(u, a) PROVE Kept'
  BY <1>7, KeptFrame DEF LoseDebit, table, process
<1>8. CASE DrainPending
  BY <1>8 DEF DrainPending, money, WinningIsLast, RevealIsSettled,
              DrainedInTransit, NoBetDropped, BetsOfThisRound
<1>9. CASE PersistShape
  BY <1>9 DEF PersistShape, Shape, table, money, WinningIsLast, RevealIsSettled,
              DrainedInTransit, NoBetDropped, BetsOfThisRound
<1>10. CASE Exit
  <2>1. Refund(pending) /\ pending' = {} /\ UNCHANGED <<phase, winning, main, drained, outcomes>>
    BY <1>10 DEF Exit
  <2>2. /\ bets' \in Seq(Bets)
        /\ Len(bets') = Len(bets)
        /\ \A i \in DOMAIN bets :
             bets'[i].fate = IF i \in pending THEN "refunded" ELSE bets[i].fate
    BY <2>1, RefundStep, Zenon
  <2>3. DOMAIN bets' = DOMAIN bets BY <2>2
  <2>4. QED
    BY <2>1, <2>2, <2>3
    DEF WinningIsLast, RevealIsSettled, DrainedInTransit, NoBetDropped, BetsOfThisRound
<1>11. CASE Signal
  BY <1>11 DEF Signal, table, money, WinningIsLast, RevealIsSettled,
              DrainedInTransit, NoBetDropped, BetsOfThisRound
<1>12. CASE RefundDrained
  <2>1. Refund(drained) /\ drained' = {} /\ UNCHANGED <<phase, winning, pending, outcomes>>
    BY <1>12 DEF RefundDrained, table
  <2>2. /\ bets' \in Seq(Bets)
        /\ Len(bets') = Len(bets)
        /\ \A i \in DOMAIN bets :
             /\ bets'[i].round = bets[i].round
             /\ bets'[i].fate = IF i \in drained THEN "refunded" ELSE bets[i].fate
    BY <2>1, RefundStep, Zenon
  <2>3. DOMAIN bets' = DOMAIN bets BY <2>2
  <2>4. QED
    BY <2>1, <2>2, <2>3
    DEF WinningIsLast, RevealIsSettled, DrainedInTransit, NoBetDropped, BetsOfThisRound
<1>13. CASE Restart
  <2>1. /\ bets' \in Seq(Bets)
        /\ Len(bets') = Len(bets)
        /\ \A i \in DOMAIN bets :
             bets'[i].fate = IF bets[i].fate = "open" THEN "lost" ELSE bets[i].fate
    BY <1>13, RestartStep, Zenon
  <2>2. /\ phase' = "Betting" /\ winning' = NoPocket /\ pending' = {} /\ drained' = {}
        /\ UNCHANGED outcomes
    BY <1>13 DEF Restart, ApplyPersistShape, StartBetting
  <2>3. DOMAIN bets' = DOMAIN bets BY <2>1
  <2>4. QED
    BY <2>1, <2>2, <2>3
    DEF WinningIsLast, RevealIsSettled, DrainedInTransit, NoBetDropped, BetsOfThisRound, Phases
<1>14. CASE UNCHANGED vars BY <1>14, KeptFrame DEF vars, table, process, money
<1>15. QED
  BY <1>1, <1>2, <1>3, <1>4, <1>5, <1>6, <1>7, <1>8, <1>9, <1>10, <1>11, <1>12, <1>13, <1>14
  DEF Next, Timer

\* NoBetDropped and BetsOfThisRound, of every table: whatever the wallet does and
\* however the process ends, a bet that is not decided is in the hands of the
\* actor or the registry, and the felt holds bets of the current round only
\* (coordinator.go handlePlaceBet, settleRound, drainAndRefund; registry.go Persist).
THEOREM BetsKept == Spec => [](NoBetDropped /\ BetsOfThisRound)
<1>1. Init => Kept BY KeptInit
<1>2. Kept /\ [Next]_vars => Kept' BY KeptStep
<1>3. Kept => NoBetDropped /\ BetsOfThisRound BY DEF Kept
<1>4. QED BY <1>1, <1>2, <1>3, PTL DEF Spec

-----------------------------------------------------------------------------
(* What the bets brought back.                                             *)

\* Outside Reveal the bets on the felt are undecided.
FeltIsOpen == phase # "Reveal" => \A i \in pending : bets[i].fate = "open"

\* What the registry is about to refund is undecided, and no longer on the felt.
DrainIsOpen == \A i \in drained : bets[i].fate = "open" /\ i \notin pending

\* A settled bet belongs to a round that was drawn.
SettledWasDrawn ==
  \A i \in DOMAIN bets : bets[i].fate = "settled" => bets[i].round \in 1 .. Len(outcomes)

\* What is due or nothing, and with a wallet that does not fail what is due.
Paid == PaidOrNothing /\ (~CreditFaults => PaidExactly)

Exact == FeltIsOpen /\ DrainIsOpen /\ SettledWasDrawn /\ Paid

LEMMA ExactInit == Init => Exact
BY DEF Init, Exact, FeltIsOpen, DrainIsOpen, SettledWasDrawn, Paid, PaidOrNothing, PaidExactly

LEMMA ExactFrame ==
  ASSUME Exact, UNCHANGED <<phase, pending, drained, bets, outcomes>>
  PROVE  Exact'
BY DEF Exact, FeltIsOpen, DrainIsOpen, SettledWasDrawn, Paid, PaidOrNothing, PaidExactly, Due

\* A refund of undecided bets pays them their stake, and no other bet anything.
LEMMA ExactRefund ==
  ASSUME Kept, Exact, NEW ids, ids \subseteq DOMAIN bets,
         \A i \in ids : bets[i].fate = "open",
         Refund(ids), UNCHANGED outcomes
  PROVE  /\ DOMAIN bets' = DOMAIN bets
         /\ \A i \in DOMAIN bets \ ids : bets'[i].fate = bets[i].fate
         /\ SettledWasDrawn' /\ Paid'
<1>1. bets \in Seq(Bets) BY DEF Kept, Typed
<1>2. /\ bets' \in Seq(Bets)
      /\ Len(bets') = Len(bets)
      /\ \A i \in DOMAIN bets :
           /\ bets'[i].round = bets[i].round
           /\ bets'[i].key = bets[i].key
           /\ bets'[i].amount = bets[i].amount
           /\ bets'[i].fate = IF i \in ids THEN "refunded" ELSE bets[i].fate
           /\ IF i \in ids
              THEN /\ bets'[i].back \in {bets[i].back, bets[i].back + bets[i].amount}
                   /\ ~CreditFaults => bets'[i].back = bets[i].back + bets[i].amount
              ELSE bets'[i].back = bets[i].back
  BY <1>1, RefundStep, Zenon
<1>3. DOMAIN bets' = DOMAIN bets BY <1>1, <1>2
<1>4. ASSUME NEW i \in ids
      PROVE  /\ bets'[i].back \in {0, bets'[i].amount}
             /\ ~CreditFaults => bets'[i].back = bets'[i].amount
  <2>1. i \in DOMAIN bets OBVIOUS
  <2>2. bets[i].back = 0 BY <2>1 DEF Exact, Paid, PaidOrNothing, Due
  <2>3. bets[i].amount \in Nat BY <1>1, <2>1, BetFields
  <2>4. QED BY <1>2, <2>1, <2>2, <2>3
<1>5. Paid'
  BY <1>2, <1>3, <1>4 DEF Exact, Paid, Paid, PaidOrNothing, PaidExactly, Due
<1>6. QED BY <1>2, <1>3, <1>5 DEF Exact, SettledWasDrawn

LEMMA ExactStep ==
  ASSUME ~StopInReveal
  PROVE  Kept /\ Exact /\ [Next]_vars => Exact'
<1> SUFFICES ASSUME Kept, Exact, [Next]_vars PROVE Exact'
  OBVIOUS
<1> bets \in Seq(Bets) /\ outcomes \in Seq(Draws)
    /\ pending \subseteq DOMAIN bets /\ drained \subseteq DOMAIN bets
  BY DEF Kept, Typed
<1>1. CASE Cutoff BY <1>1, ExactFrame DEF Cutoff, process, money
<1>2. CASE CloseBetting
  BY <1>2 DEF CloseBetting, process, money, Exact, FeltIsOpen, DrainIsOpen, SettledWasDrawn,
              Paid, PaidOrNothing, PaidExactly, Due
<1>3. CASE Spin
  <2>1. PICK p \in Draws : outcomes' = Append(outcomes, p) BY <1>3 DEF Spin
  <2>2. /\ Len(outcomes') = Len(outcomes) + 1
        /\ \A r \in 1 .. Len(outcomes) : outcomes'[r] = outcomes[r]
    BY <2>1
  <2>3. UNCHANGED <<pending, drained, bets>> /\ phase = "NoMoreBets"
    BY <1>3 DEF Spin, process, money
  <2>4. SettledWasDrawn' BY <2>2, <2>3 DEF Exact, SettledWasDrawn
  <2>5. Paid' BY <2>2, <2>3 DEF Exact, SettledWasDrawn, Paid, PaidOrNothing, PaidExactly, Due
  <2>6. QED BY <2>3, <2>4, <2>5 DEF Exact, FeltIsOpen, DrainIsOpen
<1>4. CASE Reveal
  <2>1. Settle(pending) /\ UNCHANGED <<winning, pending, drained, outcomes>>
        /\ phase' = "Reveal" /\ phase = "Spinning"
    BY <1>4 DEF Reveal, SettleRound, process
  <2>2. /\ bets' \in Seq(Bets)
        /\ Len(bets') = Len(bets)
        /\ \A i \in DOMAIN bets :
             /\ bets'[i].round = bets[i].round
             /\ bets'[i].key = bets[i].key
             /\ bets'[i].amount = bets[i].amount
             /\ bets'[i].fate = IF i \in pending THEN "settled" ELSE bets[i].fate
             /\ IF i \in pending
                THEN LET gross == GrossReturn(winning, bets[i].key, bets[i].amount)
                     IN  /\ bets'[i].back \in {bets[i].back, bets[i].back + gross}
                         /\ ~CreditFaults => bets'[i].back = bets[i].back + gross
                ELSE bets'[i].back = bets[i].back
    BY <2>1, SettleStep, Zenon
  <2>3. DOMAIN bets' = DOMAIN bets BY <2>2
  <2>4. /\ winning = outcomes[Len(outcomes)] /\ outcomes # <<>> BY <2>1 DEF Kept, WinningIsLast
  <2>5. Len(outcomes) \in 1 .. Len(outcomes) /\ winning # NoPocket
    BY <2>4, WheelAssumption DEF NoPocket, Pockets
  <2>6. ASSUME NEW i \in pending
        PROVE  /\ bets[i].round = Len(outcomes)
               /\ LET gross == GrossReturn(winning, bets[i].key, bets[i].amount)
                  IN  /\ bets'[i].back \in {0, gross}
                      /\ ~CreditFaults => bets'[i].back = gross
    <3>1. bets[i].round = Len(outcomes) BY <2>5 DEF Kept, BetsOfThisRound
    <3>2. bets[i].back = 0 BY <2>1 DEF Exact, FeltIsOpen, Paid, PaidOrNothing, PaidExactly, Due
    <3>3. GrossReturn(winning, bets[i].key, bets[i].amount) \in Nat
      BY BetFields, GrossIsNat
    <3>4. QED BY <2>2, <3>1, <3>2, <3>3
  <2>7. SettledWasDrawn' BY <2>1, <2>2, <2>3, <2>5, <2>6 DEF Exact, SettledWasDrawn
  <2>8. Paid'
    BY <2>1, <2>2, <2>3, <2>4, <2>6 DEF Exact, Paid, PaidOrNothing, PaidExactly, Due
  <2>9. DrainIsOpen' BY <2>1, <2>2 DEF Exact, DrainIsOpen
  <2>10. QED BY <2>1, <2>7, <2>8, <2>9 DEF Exact, FeltIsOpen
<1>5. CASE NewRound
  BY <1>5 DEF NewRound, StartBetting, process, money, Exact, FeltIsOpen, DrainIsOpen,
              SettledWasDrawn, Paid, PaidOrNothing, PaidExactly, Due
<1>6. ASSUME NEW u \in Users, NEW k \in Keys, NEW a \in Amounts, PlaceBet(u, k, a)
      PROVE  Exact'
  <2>1. /\ bets' \in Seq(Bets)
        /\ Len(bets') = Len(bets) + 1
        /\ \A i \in DOMAIN bets : bets'[i] = bets[i]
        /\ bets'[Len(bets) + 1].back = 0
        /\ bets'[Len(bets) + 1].fate = "open"
    BY <1>6, PlaceBetStep, Zenon
  <2>2. /\ phase = "Betting" /\ pending' = pending \union {Len(bets) + 1}
        /\ UNCHANGED <<phase, drained, outcomes>>
    BY <1>6 DEF PlaceBet, Open, process
  <2>3. DOMAIN bets' = DOMAIN bets \union {Len(bets) + 1} /\ Len(bets) + 1 \notin DOMAIN bets
    BY <2>1
  <2>4. SettledWasDrawn' BY <2>1, <2>2, <2>3 DEF Exact, SettledWasDrawn
  <2>5. Paid' BY <2>1, <2>2, <2>3 DEF Exact, Paid, PaidOrNothing, PaidExactly, Due
  <2>6. QED BY <2>1, <2>2, <2>3, <2>4, <2>5 DEF Exact, FeltIsOpen, DrainIsOpen
<1>7. ASSUME NEW u \in Users, NEW a \in Amounts, LoseDebit(u, a) PROVE Exact'
  BY <1>7, ExactFrame DEF LoseDebit, table, process
<1>8. CASE DrainPending
  BY <1>8 DEF DrainPending, money, Exact, FeltIsOpen, DrainIsOpen, SettledWasDrawn,
              Paid, PaidOrNothing, PaidExactly, Due
<1>9. CASE PersistShape BY <1>9, ExactFrame DEF PersistShape, Shape, table, money
<1>10. CASE Exit
  <2>1. Refund(pending) /\ pending' = {} /\ UNCHANGED <<phase, drained, outcomes>>
        /\ phase # "Reveal"
    BY <1>10 DEF Exit
  <2>2. \A i \in pending : bets[i].fate = "open" BY <2>1 DEF Exact, FeltIsOpen
  <2>3. /\ DOMAIN bets' = DOMAIN bets
        /\ \A i \in DOMAIN bets \ pending : bets'[i].fate = bets[i].fate
        /\ SettledWasDrawn' /\ Paid'
    BY <2>1, <2>2, ExactRefund, Zenon
  <2>4. QED BY <2>1, <2>3 DEF Exact, FeltIsOpen, DrainIsOpen
<1>11. CASE Signal BY <1>11, ExactFrame DEF Signal, table, money
<1>12. CASE RefundDrained
  <2>1. Refund(drained) /\ drained' = {} /\ UNCHANGED <<phase, pending, outcomes>>
    BY <1>12 DEF RefundDrained, table
  <2>2. \A i \in drained : bets[i].fate = "open" BY DEF Exact, DrainIsOpen
  <2>3. /\ DOMAIN bets' = DOMAIN bets
        /\ \A i \in DOMAIN bets \ drained : bets'[i].fate = bets[i].fate
        /\ SettledWasDrawn' /\ Paid'
    BY <2>1, <2>2, ExactRefund, Zenon
  <2>4. QED BY <2>1, <2>3 DEF Exact, FeltIsOpen, DrainIsOpen
<1>13. CASE Restart
  <2>1. /\ bets' \in Seq(Bets)
        /\ Len(bets') = Len(bets)
        /\ \A i \in DOMAIN bets :
             /\ bets'[i].round = bets[i].round
             /\ bets'[i].key = bets[i].key
             /\ bets'[i].amount = bets[i].amount
             /\ bets'[i].back = bets[i].back
             /\ bets'[i].fate = IF bets[i].fate = "open" THEN "lost" ELSE bets[i].fate
    BY <1>13, RestartStep, Zenon
  <2>2. pending' = {} /\ drained' = {} /\ UNCHANGED outcomes
    BY <1>13 DEF Restart, ApplyPersistShape, StartBetting
  <2>3. DOMAIN bets' = DOMAIN bets BY <2>1
  <2>4. Paid' BY <2>1, <2>2, <2>3 DEF Exact, Paid, PaidOrNothing, PaidExactly, Due
  <2>5. QED BY <2>1, <2>2, <2>3, <2>4 DEF Exact, FeltIsOpen, DrainIsOpen, SettledWasDrawn
<1>14. CASE UNCHANGED vars BY <1>14, ExactFrame DEF vars, table, process, money
<1>15. QED
  BY <1>1, <1>2, <1>3, <1>4, <1>5, <1>6, <1>7, <1>8, <1>9, <1>10, <1>11, <1>12, <1>13, <1>14
  DEF Next, Timer

\* PaidExactly, of every table whose wallet keeps its promise and whose actor does
\* not stop in Reveal: a bet brings back exactly what its own round pays, or its
\* stake, never both, also across kills and restarts (coordinator.go settleRound,
\* drainAndRefund; registry.go Persist).
THEOREM BetsPaidExactly ==
  ASSUME ~CreditFaults, ~StopInReveal
  PROVE  Spec => []PaidExactly
<1>1. Init => Kept /\ Exact BY KeptInit, ExactInit
<1>2. Kept /\ Exact /\ [Next]_vars => Kept' /\ Exact' BY KeptStep, ExactStep
<1>3. Exact => PaidExactly BY DEF Exact, Paid
<1>4. QED BY <1>1, <1>2, <1>3, PTL DEF Spec

\* PaidOrNothing, of every table whose actor does not stop in Reveal: also when
\* credits fail, debits report errors and the process is killed, a bet brings back
\* nothing or what is due, never two of its payments (coordinator.go settleRound,
\* drainAndRefund; registry.go Persist).
THEOREM BetsPaidOrNothing ==
  ASSUME ~StopInReveal
  PROVE  Spec => []PaidOrNothing
<1>1. Init => Kept /\ Exact BY KeptInit, ExactInit
<1>2. Kept /\ Exact /\ [Next]_vars => Kept' /\ Exact' BY KeptStep, ExactStep
<1>3. Exact => PaidOrNothing BY DEF Exact, Paid
<1>4. QED BY <1>1, <1>2, <1>3, PTL DEF Spec

-----------------------------------------------------------------------------
(* What the players are shown, and the ledger gets.                        *)

Histories == {h \in Seq(Draws) : Len(h) <= HistoryCap}
MainPhases == {"serving", "draining", "refunding", "shaping", "saved"}
Shapes == [history : Histories, token : Nat]

\* The types of what Typed leaves out.
FeltTypes ==
  /\ late \in BOOLEAN /\ token \in Nat /\ hand \in Nat
  /\ winning \in Draws \union {NoPocket}
  /\ aggregate \in [Keys -> Nat]
  /\ history \in Histories
  /\ actor \in BOOLEAN
  /\ main \in MainPhases
  /\ saved \in Shapes
  /\ boots \in 1 .. MaxBoots
  /\ wallet \in [Users -> Nat]
  /\ handed \in Seq(Nat)

\* Within one process nothing handed to the ledger has a number above the
\* current round's, and the round has handed nothing in before its reveal.
HandedBelow ==
  boots = 1 => \A m \in DOMAIN handed :
                 handed[m] <= hand /\ (phase # "Reveal" => handed[m] < hand)

FeltInv ==
  FeltTypes /\ AggregateIsTheBets /\ HandedBelow /\ HandedInOrder /\ HistoryIsRevealed

\* The stakes of the bets at the positions ids.
Stakes(b, ids) == MapThenSumSet(LAMBDA i : b[i].amount, ids)
OnKey(b, ids, k) == {i \in ids : b[i].key = k}

LEMMA StakesAre ==
  ASSUME NEW b, NEW ids, NEW f, Summable(f, ids), \A i \in ids : f[i] = b[i].amount
  PROVE  Stakes(b, ids) = SumOn(f, ids)
<1> DEFINE Next0(iter) == [s \in SUBSET ids |->
                            IF s = {} THEN 0
                            ELSE b[Picked(s)].amount + iter[s \ {Picked(s)}]]
           fold == CHOOSE iter : iter = Next0(iter)
<1>1. \A iter : Next0(iter) = [s \in SUBSET ids |->
                  IF s = {} THEN 0 ELSE f[Picked(s)] + iter[s \ {Picked(s)}]]
  <2> SUFFICES ASSUME NEW iter, NEW s \in SUBSET ids, s # {}
               PROVE  b[Picked(s)].amount = f[Picked(s)]
    OBVIOUS
  <2>1. Picked(s) \in ids
    BY DEF Picked
  <2> QED
    BY <2>1
<1>2. \A iter : iter = Next0(iter) <=> Adds(iter, f, ids)
  BY <1>1, Zenon DEF Adds
<1>3. Adds(fold, f, ids)
  <2>1. Adds(SumIter(f, ids), f, ids)
    BY SumExists
  <2>2. \E iter : iter = Next0(iter)
    BY <1>2, <2>1
  <2> HIDE DEF Next0
  <2>3. fold = Next0(fold)
    BY <2>2
  <2> QED
    BY <1>2, <2>3
<1>4. fold[ids] = SumOn(f, ids)
  BY <1>3, SumUnique
<1>5. Stakes(b, ids) = fold[ids]
  BY DEF Stakes, MapThenSumSet, MapThenFoldSet, Picked
<1> QED
  BY <1>4, <1>5

LEMMA AggregateIs ==
  AggregateIsTheBets <=> (actor => \A k \in Keys : aggregate[k] = Stakes(bets, OnKey(bets, pending, k)))
BY DEF AggregateIsTheBets, Stakes, OnKey, MapThenSumSet, MapThenFoldSet

LEMMA AggregatePrimed ==
  AggregateIsTheBets' <=>
    (actor' => \A k \in Keys : aggregate'[k] = Stakes(bets', OnKey(bets', pending', k)))
BY DEF AggregateIsTheBets, Stakes, OnKey, MapThenSumSet, MapThenFoldSet

\* A sum of the stakes depends on the stakes alone, and takes in one more.
LEMMA StakesSame ==
  ASSUME NEW b, NEW c, NEW ids, IsFiniteSet(ids),
         \A i \in ids : b[i].amount \in Nat /\ c[i].amount = b[i].amount
  PROVE  Stakes(c, ids) = Stakes(b, ids)
<1> DEFINE f == [i \in ids |-> b[i].amount]
<1>1. /\ \A i \in ids : f[i] = b[i].amount /\ f[i] = c[i].amount
      /\ Summable(f, ids)
  BY DEF Summable
<1> HIDE DEF f
<1>2. Stakes(c, ids) = SumOn(f, ids)
  BY <1>1, StakesAre
<1>3. Stakes(b, ids) = SumOn(f, ids)
  BY <1>1, StakesAre
<1> QED
  BY <1>2, <1>3

LEMMA StakesAdd ==
  ASSUME NEW b, NEW ids, IsFiniteSet(ids), NEW n, n \notin ids,
         \A i \in ids \union {n} : b[i].amount \in Nat
  PROVE  Stakes(b, ids \union {n}) = Stakes(b, ids) + b[n].amount
<1> DEFINE all == ids \union {n}
           f == [i \in all |-> b[i].amount]
<1>1. /\ \A i \in all : f[i] = b[i].amount
      /\ Summable(f, all) /\ Summable(f, ids) /\ all \ {n} = ids /\ n \in all
  <2>1. IsFiniteSet(all)
    BY FS_AddElement
  <2> QED
    BY <2>1 DEF Summable
<1>2. \A i \in ids : f[i] = b[i].amount
  BY <1>1
<1>3. f[n] = b[n].amount /\ f[n] \in Nat
  BY <1>1
<1> HIDE DEF f, all
<1>4. Stakes(b, all) = SumOn(f, all)
  BY <1>1, StakesAre
<1>5. Stakes(b, ids) = SumOn(f, ids)
  BY <1>1, <1>2, StakesAre
<1>6. SumOn(f, all) = f[n] + SumOn(f, ids)
  BY <1>1, SumRemove
<1>7. SumOn(f, ids) \in Int
  BY <1>1, SumInt
<1> QED
  BY <1>3, <1>4, <1>5, <1>6, <1>7 DEF all

LEMMA StakesNone == ASSUME NEW b PROVE Stakes(b, {}) = 0
<1> DEFINE f == [i \in {} |-> 0]
<1>1. Summable(f, {}) /\ \A i \in {} : f[i] = b[i].amount
  BY FS_EmptySet DEF Summable
<1> HIDE DEF f
<1> QED
  BY <1>1, StakesAre, SumEmpty

\* Bets in hand are finitely many.
LEMMA PositionsFinite ==
  ASSUME NEW b \in Seq(Bets), NEW ids, ids \subseteq DOMAIN b
  PROVE  IsFiniteSet(ids) /\ \A i \in ids : b[i].amount \in Nat
<1>1. DOMAIN b = 1 .. Len(b) /\ Len(b) \in Nat /\ \A i \in ids : b[i] \in Bets
  OBVIOUS
<1>2. IsFiniteSet(1 .. Len(b))
  BY <1>1, FS_Interval
<1>3. \A i \in ids : b[i].amount \in Nat
  BY <1>1, StakeAssumption DEF Bets
<1> QED
  BY <1>1, <1>2, <1>3, FS_Subset

LEMMA CreditKeepsWallet ==
  ASSUME bets \in Seq(Bets), wallet \in [Users -> Nat],
         NEW ids, ids \subseteq DOMAIN bets, NEW back \in [ids -> Nat], NEW fate,
         Credit(ids, back, fate)
  PROVE  wallet' \in [Users -> Nat]
<1>1. ASSUME NEW u \in Users
      PROVE  MapThenSumSet(LAMBDA i : back[i], {i \in ids : bets[i].user = u}) \in Nat
  <2> DEFINE S == {i \in ids : bets[i].user = u}
  <2>1. IsFiniteSet(S) /\ \A i \in S : back[i] \in Nat
    BY PositionsFinite, FS_Subset
  <2>2. MapThenSumSet(LAMBDA i : back[i], S) = SumOn(back, S)
    BY DEF MapThenSumSet, MapThenFoldSet, SumOn, SumIter, Adds, Picked
  <2> HIDE DEF S
  <2>3. SumOn(back, S) \in Nat
    BY <2>1, SumCovers
  <2> QED
    BY <2>2, <2>3 DEF S
<1> DEFINE got(u) == MapThenSumSet(LAMBDA i : back[i], {i \in ids : bets[i].user = u})
<1>2. wallet' = [u \in Users |-> wallet[u] + got(u)]
  BY DEF Credit
<1>3. \A u \in Users : got(u) \in Nat
  BY <1>1
<1> HIDE DEF got
<1> QED
  BY <1>2, <1>3

\* The pockets of o that have been revealed, and that h is their tail.
RevealedOf(ph, o) == IF ph = "Spinning" THEN SubSeq(o, 1, Len(o) - 1) ELSE o

Shows(h, s) ==
  /\ Len(h) = (IF Len(s) < HistoryCap THEN Len(s) ELSE HistoryCap)
  /\ \A j \in 1 .. Len(h) : h[j] = s[Len(s) - Len(h) + j]

LEMMA HistoryShows ==
  /\ HistoryIsRevealed <=> (boots = 1 => Shows(history, RevealedOf(phase, outcomes)))
  /\ HistoryIsRevealed' <=> (boots' = 1 => Shows(history', RevealedOf(phase', outcomes')))
BY DEF HistoryIsRevealed, Shows, RevealedOf

LEMMA PushIs ==
  ASSUME NEW h \in Histories, NEW p \in Draws
  PROVE  /\ Push(h, p) \in Histories
         /\ Len(h) < HistoryCap =>
              /\ Len(Push(h, p)) = Len(h) + 1
              /\ \A j \in 1 .. Len(h) + 1 : Push(h, p)[j] = IF j = Len(h) + 1 THEN p ELSE h[j]
         /\ Len(h) >= HistoryCap =>
              /\ Len(Push(h, p)) = Len(h)
              /\ \A j \in 1 .. Len(h) : Push(h, p)[j] = IF j = Len(h) THEN p ELSE h[j + 1]
<1> DEFINE all == Append(h, p)
<1>1. /\ all \in Seq(Draws) /\ Len(all) = Len(h) + 1 /\ Len(h) \in Nat /\ Len(h) <= HistoryCap
      /\ \A j \in 1 .. Len(h) : all[j] = h[j]
      /\ all[Len(h) + 1] = p
  BY DEF Histories
<1>2. HistoryCap \in Nat \ {0}
  BY CapAssumption
<1>3. Push(h, p) = IF Len(all) > HistoryCap THEN Tail(all) ELSE all
  BY DEF Push
<1> HIDE DEF all
<1>4. CASE Len(h) < HistoryCap
  <2>1. Push(h, p) = all
    BY <1>1, <1>2, <1>3, <1>4
  <2> QED
    BY <1>1, <1>2, <1>4, <2>1 DEF Histories
<1>5. CASE ~(Len(h) < HistoryCap)
  <2>1. Push(h, p) = Tail(all)
    BY <1>1, <1>2, <1>3, <1>5
  <2>2. /\ Tail(all) \in Seq(Draws) /\ Len(Tail(all)) = Len(h)
        /\ \A j \in 1 .. Len(h) : Tail(all)[j] = all[j + 1]
    BY <1>1
  <2>3. \A j \in 1 .. Len(h) : all[j + 1] = IF j = Len(h) THEN p ELSE h[j + 1]
    BY <1>1
  <2> QED
    BY <1>1, <1>2, <1>5, <2>1, <2>2, <2>3 DEF Histories
<1> QED
  BY <1>4, <1>5

\* One more pocket revealed is one more shown, at the end.
LEMMA PushShows ==
  ASSUME NEW h \in Histories, NEW o \in Seq(Draws), o # <<>>,
         Shows(h, SubSeq(o, 1, Len(o) - 1))
  PROVE  Shows(Push(h, o[Len(o)]), o)
<1> DEFINE s == SubSeq(o, 1, Len(o) - 1)
           n == Len(o)
           p == o[n]
           r == Push(h, p)
<1>1. /\ n \in Nat \ {0} /\ s \in Seq(Draws) /\ Len(s) = n - 1 /\ p \in Draws
      /\ \A j \in 1 .. n - 1 : s[j] = o[j]
  <2>1. n \in Nat \ {0} /\ p \in Draws
    OBVIOUS
  <2>2. n - 1 \in 0 .. n /\ n - 1 \in Nat /\ n = Len(o)
    BY <2>1
  <2> HIDE DEF n
  <2>3. s \in Seq(Draws) /\ Len(s) = n - 1 /\ \A j \in 1 .. n - 1 : s[j] = o[j]
    BY <2>1, <2>2
  <2> QED
    BY <2>1, <2>3
<1>2. HistoryCap \in Nat \ {0} /\ Len(h) \in Nat /\ Len(h) <= HistoryCap
  BY CapAssumption DEF Histories
<1>3. /\ Len(h) = (IF n - 1 < HistoryCap THEN n - 1 ELSE HistoryCap)
      /\ \A j \in 1 .. Len(h) : h[j] = o[n - 1 - Len(h) + j]
  <2>1. /\ Len(h) = (IF Len(s) < HistoryCap THEN Len(s) ELSE HistoryCap)
        /\ \A j \in 1 .. Len(h) : h[j] = s[Len(s) - Len(h) + j]
    BY DEF Shows
  <2> HIDE DEF s, n
  <2>2. Len(h) = (IF n - 1 < HistoryCap THEN n - 1 ELSE HistoryCap)
    BY <1>1, <2>1
  <2>3. ASSUME NEW j \in 1 .. Len(h) PROVE h[j] = o[n - 1 - Len(h) + j]
    <3>1. h[j] = s[n - 1 - Len(h) + j]
      BY <1>1, <2>1
    <3>2. n - 1 - Len(h) + j \in 1 .. n - 1
      BY <1>1, <1>2, <2>2
    <3> QED
      BY <1>1, <3>1, <3>2
  <2> QED
    BY <2>2, <2>3
<1>4. /\ Len(h) < HistoryCap =>
           /\ Len(r) = Len(h) + 1
           /\ \A j \in 1 .. Len(h) + 1 : r[j] = IF j = Len(h) + 1 THEN p ELSE h[j]
      /\ Len(h) >= HistoryCap =>
           /\ Len(r) = Len(h)
           /\ \A j \in 1 .. Len(h) : r[j] = IF j = Len(h) THEN p ELSE h[j + 1]
  <2> HIDE DEF p
  <2> QED
    BY <1>1, PushIs
<1>5. p = o[n]
  OBVIOUS
<1> HIDE DEF s, n, p, r
<1>6. CASE Len(h) < HistoryCap
  <2>1. Len(h) = n - 1 /\ Len(r) = n /\ n <= HistoryCap
    BY <1>1, <1>2, <1>3, <1>4, <1>6
  <2>2. \A j \in 1 .. n : r[j] = o[j]
    BY <1>1, <1>3, <1>4, <1>5, <1>6, <2>1
  <2>3. Len(r) = (IF n < HistoryCap THEN n ELSE HistoryCap) /\ \A j \in 1 .. Len(r) : r[j] = o[n - Len(r) + j]
    BY <1>1, <1>2, <2>1, <2>2
  <2> QED
    BY <2>3 DEF Shows, r, p, n
<1>7. CASE ~(Len(h) < HistoryCap)
  <2>1. Len(h) = HistoryCap /\ Len(r) = HistoryCap /\ n > HistoryCap
    BY <1>1, <1>2, <1>3, <1>4, <1>7
  <2>2. ASSUME NEW j \in 1 .. HistoryCap PROVE r[j] = o[n - HistoryCap + j]
    <3>1. CASE j = HistoryCap
      BY <1>1, <1>2, <1>4, <1>5, <2>1, <3>1
    <3>2. CASE j # HistoryCap
      <4>1. j + 1 \in 1 .. Len(h) /\ n - 1 - Len(h) + (j + 1) = n - HistoryCap + j
        BY <1>1, <1>2, <2>1, <3>2
      <4>2. r[j] = h[j + 1]
        BY <1>2, <1>4, <2>1, <3>2
      <4> QED
        BY <1>3, <4>1, <4>2
    <3> QED
      BY <3>1, <3>2
  <2>3. Len(r) = (IF n < HistoryCap THEN n ELSE HistoryCap) /\ \A j \in 1 .. Len(r) : r[j] = o[n - Len(r) + j]
    BY <1>1, <1>2, <2>1, <2>2
  <2> QED
    BY <2>3 DEF Shows, r, p, n
<1> QED
  BY <1>6, <1>7

LEMMA RefundKeepsWallet ==
  ASSUME bets \in Seq(Bets), wallet \in [Users -> Nat],
         NEW ids, ids \subseteq DOMAIN bets, Refund(ids)
  PROVE  wallet' \in [Users -> Nat]
<1> DEFINE paid(ok) == [i \in ids |-> IF i \in ok THEN bets[i].amount ELSE 0]
<1>1. PICK ok \in Credited(ids) : Credit(ids, paid(ok), "refunded")
  BY Zenon DEF Refund
<1> DEFINE back == paid(ok)
<1>2. back \in [ids -> Nat]
  BY PositionsFinite
<1>3. Credit(ids, back, "refunded")
  BY <1>1
<1> HIDE DEF back
<1> QED
  BY <1>2, <1>3, CreditKeepsWallet

LEMMA SettleKeepsWallet ==
  ASSUME bets \in Seq(Bets), wallet \in [Users -> Nat],
         NEW ids, ids \subseteq DOMAIN bets, Settle(ids)
  PROVE  wallet' \in [Users -> Nat]
<1> DEFINE paid(ok) == [i \in ids |-> IF i \in ok
                                      THEN GrossReturn(winning, bets[i].key, bets[i].amount)
                                      ELSE 0]
<1>1. PICK ok \in Credited(ids) : Credit(ids, paid(ok), "settled")
  BY Zenon DEF Settle
<1> DEFINE back == paid(ok)
<1>2. back \in [ids -> Nat]
  <2>1. \A i \in ids : GrossReturn(winning, bets[i].key, bets[i].amount) \in Nat
    BY PositionsFinite, GrossIsNat
  <2> QED
    BY <2>1
<1>3. Credit(ids, back, "settled")
  BY <1>1
<1> HIDE DEF back
<1> QED
  BY <1>2, <1>3, CreditKeepsWallet

LEMMA FeltTypesStep == Kept /\ FeltTypes /\ [Next]_vars => FeltTypes'
<1> SUFFICES ASSUME Kept, FeltTypes, [Next]_vars PROVE FeltTypes'
  OBVIOUS
<1>1. /\ bets \in Seq(Bets) /\ outcomes \in Seq(Draws)
      /\ pending \subseteq DOMAIN bets /\ drained \subseteq DOMAIN bets
      /\ phase = "Spinning" => outcomes # <<>> /\ winning = outcomes[Len(outcomes)]
  BY DEF Kept, Typed, WinningIsLast
<1>2. NoChips \in [Keys -> Nat]
  BY DEF NoChips
<1>3. CASE Cutoff
  BY <1>3 DEF FeltTypes, Cutoff, process, money
<1>4. CASE CloseBetting
  BY <1>4 DEF FeltTypes, CloseBetting, process, money
<1>5. CASE Spin
  <2>1. winning' \in Draws
    BY <1>5 DEF Spin
  <2> QED
    BY <1>5, <2>1 DEF FeltTypes, Spin, process, money
<1>6. CASE Reveal
  <2>1. winning \in Draws
    <3>1. Len(outcomes) \in 1 .. Len(outcomes)
      BY <1>1, <1>6 DEF Reveal, SettleRound
    <3> QED
      BY <1>1, <1>6, <3>1 DEF Reveal, SettleRound
  <2>2. history' \in Histories
    BY <1>6, <2>1, PushIs DEF Reveal, SettleRound, FeltTypes
  <2>3. wallet' \in [Users -> Nat]
    BY <1>1, <1>6, SettleKeepsWallet DEF Reveal, SettleRound, FeltTypes
  <2>4. handed' \in Seq(Nat)
    <3>1. Append(handed, hand) \in Seq(Nat)
      BY DEF FeltTypes
    <3> QED
      BY <1>6, <3>1 DEF Reveal, SettleRound, FeltTypes
  <2>5. UNCHANGED <<late, winning, aggregate, hand, process>> /\ token' = token + 1
    BY <1>6 DEF Reveal, SettleRound
  <2> QED
    BY <2>2, <2>3, <2>4, <2>5 DEF FeltTypes, process
<1>7. CASE NewRound
  <2>1. /\ late' = FALSE /\ winning' = NoPocket /\ aggregate' = NoChips
        /\ hand' = hand + 1 /\ token' = token + 1
        /\ UNCHANGED <<history, actor, main, saved, boots, wallet, handed>>
    BY <1>7 DEF NewRound, StartBetting, process, money
  <2>2. aggregate' \in [Keys -> Nat]
    BY <1>2, <2>1
  <2>3. late' \in BOOLEAN /\ winning' \in Draws \union {NoPocket}
    BY <2>1
  <2> QED
    BY <2>1, <2>2, <2>3 DEF FeltTypes
<1>8. ASSUME NEW u \in Users, NEW k \in Keys, NEW a \in Amounts, PlaceBet(u, k, a)
      PROVE  FeltTypes'
  <2>1. a \in Nat /\ wallet[u] >= a /\ wallet' = [wallet EXCEPT ![u] = @ - a]
        /\ aggregate' = [aggregate EXCEPT ![k] = @ + a]
    BY <1>8, StakeAssumption DEF PlaceBet
  <2>2. wallet' \in [Users -> Nat] /\ aggregate' \in [Keys -> Nat]
    BY <2>1 DEF FeltTypes
  <2>3. UNCHANGED <<late, token, winning, history, hand, process, handed>>
    BY <1>8 DEF PlaceBet
  <2> QED
    BY <2>2, <2>3 DEF FeltTypes, process
<1>9. ASSUME NEW u \in Users, NEW a \in Amounts, LoseDebit(u, a) PROVE FeltTypes'
  <2>1. a \in Nat /\ wallet[u] >= a /\ wallet' = [wallet EXCEPT ![u] = @ - a]
    BY <1>9, StakeAssumption DEF LoseDebit
  <2>2. wallet' \in [Users -> Nat]
    BY <2>1 DEF FeltTypes
  <2> QED
    BY <1>9, <2>2 DEF FeltTypes, LoseDebit, table, process
<1>10. CASE DrainPending
  BY <1>2, <1>10 DEF FeltTypes, MainPhases, DrainPending, money
<1>11. CASE PersistShape
  BY <1>11 DEF FeltTypes, MainPhases, Shapes, PersistShape, Shape, table, money
<1>12. CASE Exit
  <2>1. wallet' \in [Users -> Nat]
    BY <1>1, <1>12, RefundKeepsWallet DEF Exit, FeltTypes
  <2> QED
    BY <1>12, <2>1 DEF FeltTypes, Exit
<1>13. CASE Signal
  BY <1>13 DEF FeltTypes, MainPhases, Signal, table, money
<1>14. CASE RefundDrained
  <2>1. wallet' \in [Users -> Nat]
    BY <1>1, <1>14, RefundKeepsWallet DEF RefundDrained, FeltTypes
  <2> QED
    BY <1>14, <2>1 DEF FeltTypes, MainPhases, RefundDrained, table
<1>15. CASE Restart
  <2>1. boots' \in 1 .. MaxBoots
    BY <1>15, BoundAssumption DEF FeltTypes, Restart, ApplyPersistShape
  <2>2. /\ late' = FALSE /\ winning' = NoPocket /\ aggregate' = NoChips
        /\ hand' = 0 + 1 /\ history' = saved.history
        /\ token' = (IF saved.token > 0 THEN saved.token ELSE 0) + 1
        /\ actor' = TRUE /\ main' = "serving" /\ UNCHANGED <<saved, wallet, handed>>
    BY <1>15 DEF Restart, ApplyPersistShape, StartBetting
  <2>3. saved.token \in Nat /\ saved.history \in Histories
    BY DEF FeltTypes, Shapes
  <2>4. aggregate' \in [Keys -> Nat]
    BY <1>2, <2>2
  <2>5. winning' \in Draws \union {NoPocket} /\ main' \in MainPhases
    BY <2>2 DEF MainPhases
  <2>6. hand' \in Nat /\ token' \in Nat /\ history' \in Histories
    BY <2>2, <2>3
  <2>7. late' \in BOOLEAN /\ actor' \in BOOLEAN
    BY <2>2, Zenon
  <2> QED
    BY <2>1, <2>2, <2>4, <2>5, <2>6, <2>7 DEF FeltTypes
<1>16. CASE UNCHANGED vars
  BY <1>16 DEF FeltTypes, vars, table, process, money
<1> QED
  BY <1>3, <1>4, <1>5, <1>6, <1>7, <1>8, <1>9, <1>10, <1>11, <1>12, <1>13, <1>14, <1>15, <1>16
  DEF Next, Timer

\* The totals: a bet adds to its key's, a drain or a new round clears all, and
\* what becomes of the bets does not change their stakes.
LEMMA AggregateStep == Kept /\ FeltTypes /\ AggregateIsTheBets /\ [Next]_vars => AggregateIsTheBets'
<1> SUFFICES ASSUME Kept, FeltTypes, AggregateIsTheBets, [Next]_vars, actor'
             PROVE  \A k \in Keys : aggregate'[k] = Stakes(bets', OnKey(bets', pending', k))
  BY AggregatePrimed
<1>1. /\ bets \in Seq(Bets) /\ outcomes \in Seq(Draws)
      /\ pending \subseteq DOMAIN bets /\ drained \subseteq DOMAIN bets
  BY DEF Kept, Typed
<1>2. ASSUME actor, aggregate' = aggregate, pending' = pending,
             \A i \in DOMAIN bets : bets'[i].key = bets[i].key /\ bets'[i].amount = bets[i].amount
      PROVE  \A k \in Keys : aggregate'[k] = Stakes(bets', OnKey(bets', pending', k))
  <2> SUFFICES ASSUME NEW k \in Keys
               PROVE  aggregate'[k] = Stakes(bets', OnKey(bets', pending', k))
    OBVIOUS
  <2>1. aggregate[k] = Stakes(bets, OnKey(bets, pending, k))
    BY <1>2, AggregateIs
  <2>2. OnKey(bets', pending', k) = OnKey(bets, pending, k)
    BY <1>1, <1>2 DEF OnKey
  <2>3. OnKey(bets, pending, k) \subseteq DOMAIN bets
    BY <1>1 DEF OnKey
  <2> DEFINE ids == OnKey(bets, pending, k)
  <2>4. IsFiniteSet(ids) /\ \A i \in ids : bets[i].amount \in Nat /\ bets'[i].amount = bets[i].amount
    BY <1>1, <1>2, <2>3, PositionsFinite
  <2> HIDE DEF ids
  <2>5. Stakes(bets', ids) = Stakes(bets, ids)
    BY <2>4, StakesSame
  <2> QED
    BY <1>2, <2>1, <2>2, <2>5 DEF ids
<1>3. ASSUME aggregate' = NoChips, pending' = {}
      PROVE  \A k \in Keys : aggregate'[k] = Stakes(bets', OnKey(bets', pending', k))
  <2>1. \A k \in Keys : OnKey(bets', pending', k) = {}
    BY <1>3 DEF OnKey
  <2> QED
    BY <1>3, <2>1, StakesNone DEF NoChips
<1>4. CASE Cutoff
  BY <1>2, <1>4 DEF Cutoff, process, money
<1>5. CASE CloseBetting
  BY <1>2, <1>5 DEF CloseBetting, process, money
<1>6. CASE Spin
  BY <1>2, <1>6 DEF Spin, process, money
<1>7. CASE Reveal
  <2>1. Settle(pending) /\ UNCHANGED <<pending, aggregate>> /\ actor
    BY <1>7 DEF Reveal, SettleRound
  <2>2. \A i \in DOMAIN bets : bets'[i].key = bets[i].key /\ bets'[i].amount = bets[i].amount
    BY <1>1, <2>1, SettleStep
  <2> QED
    BY <1>2, <2>1, <2>2
<1>8. CASE NewRound
  BY <1>3, <1>8 DEF NewRound, StartBetting
<1>9. ASSUME NEW u \in Users, NEW key \in Keys, NEW a \in Amounts, PlaceBet(u, key, a)
      PROVE  \A k \in Keys : aggregate'[k] = Stakes(bets', OnKey(bets', pending', k))
  <2> DEFINE n == Len(bets) + 1
             b == [user |-> u, key |-> key, amount |-> a,
                   round |-> Len(outcomes) + 1, back |-> 0, fate |-> "open"]
  <2>1. /\ actor /\ bets' = Append(bets, b) /\ pending' = pending \union {n}
        /\ aggregate' = [aggregate EXCEPT ![key] = @ + a]
    BY <1>9, Zenon DEF PlaceBet
  <2>2. b.key = key /\ b.amount = a /\ a \in Nat
    BY StakeAssumption
  <2> HIDE DEF b
  <2>3. /\ bets'[n] = b /\ \A i \in DOMAIN bets : bets'[i] = bets[i]
        /\ n \notin DOMAIN bets /\ n \notin pending
    BY <1>1, <2>1
  <2> HIDE DEF n
  <2> SUFFICES ASSUME NEW k \in Keys
               PROVE  aggregate'[k] = Stakes(bets', OnKey(bets', pending', k))
    OBVIOUS
  <2> DEFINE ids == OnKey(bets, pending, k)
  <2>4. aggregate[k] = Stakes(bets, ids)
    BY <2>1, AggregateIs
  <2>5. ids \subseteq DOMAIN bets /\ n \notin ids
    BY <1>1, <2>3 DEF OnKey
  <2>6. IsFiniteSet(ids) /\ \A i \in ids : bets[i].amount \in Nat /\ bets'[i].amount = bets[i].amount
    BY <1>1, <2>3, <2>5, PositionsFinite
  <2>7. OnKey(bets', pending', k) = IF k = key THEN ids \union {n} ELSE ids
    BY <1>1, <2>1, <2>2, <2>3 DEF OnKey
  <2> HIDE DEF ids
  <2>8. Stakes(bets', ids) = Stakes(bets, ids)
    BY <2>6, StakesSame
  <2>9. CASE k = key
    <3>1. \A i \in ids \union {n} : bets'[i].amount \in Nat
      BY <2>2, <2>3, <2>6
    <3>2. Stakes(bets', ids \union {n}) = Stakes(bets', ids) + bets'[n].amount
      BY <2>5, <2>6, <3>1, StakesAdd
    <3>3. aggregate'[k] = aggregate[k] + a
      BY <2>1, <2>9 DEF FeltTypes
    <3> QED
      BY <2>2, <2>3, <2>4, <2>7, <2>8, <2>9, <3>2, <3>3
  <2>10. CASE k # key
    <3>1. aggregate'[k] = aggregate[k]
      BY <2>1, <2>10 DEF FeltTypes
    <3> QED
      BY <2>4, <2>7, <2>8, <2>10, <3>1
  <2> QED
    BY <2>9, <2>10
<1>10. ASSUME NEW u \in Users, NEW a \in Amounts, LoseDebit(u, a)
       PROVE  \A k \in Keys : aggregate'[k] = Stakes(bets', OnKey(bets', pending', k))
  BY <1>2, <1>10 DEF LoseDebit, table
<1>11. CASE DrainPending
  BY <1>3, <1>11 DEF DrainPending
<1>12. CASE PersistShape
  BY <1>2, <1>12 DEF PersistShape, Shape, table, money
<1>13. CASE Exit
  BY <1>13 DEF Exit
<1>14. CASE Signal
  BY <1>2, <1>14 DEF Signal, table, money
<1>15. CASE RefundDrained
  <2>1. Refund(drained) /\ UNCHANGED <<pending, aggregate, actor>>
    BY <1>15 DEF RefundDrained, table
  <2>2. \A i \in DOMAIN bets : bets'[i].key = bets[i].key /\ bets'[i].amount = bets[i].amount
    BY <1>1, <2>1, RefundStep
  <2> QED
    BY <1>2, <2>1, <2>2
<1>16. CASE Restart
  BY <1>3, <1>16 DEF Restart, ApplyPersistShape, StartBetting
<1>17. CASE UNCHANGED vars
  BY <1>2, <1>17 DEF vars, table, process, money
<1> QED
  BY <1>4, <1>5, <1>6, <1>7, <1>8, <1>9, <1>10, <1>11, <1>12, <1>13, <1>14, <1>15, <1>16, <1>17
  DEF Next, Timer

\* A round's number goes to the ledger at its reveal, and the next is greater.
LEMMA HandedStep ==
  Kept /\ FeltTypes /\ HandedBelow /\ HandedInOrder /\ [Next]_vars
    => HandedBelow' /\ HandedInOrder'
<1> SUFFICES ASSUME Kept, FeltTypes, HandedBelow, HandedInOrder, [Next]_vars
             PROVE  HandedBelow' /\ HandedInOrder'
  OBVIOUS
<1>1. handed \in Seq(Nat) /\ hand \in Nat /\ \A m \in DOMAIN handed : handed[m] \in Nat
  BY DEF FeltTypes
<1>2. ASSUME boots' = boots, handed' = handed, hand' = hand, phase' # "Reveal" => phase # "Reveal"
      PROVE  HandedBelow' /\ HandedInOrder'
  BY <1>2 DEF HandedBelow, HandedInOrder
<1>3. CASE Cutoff
  BY <1>2, <1>3 DEF Cutoff, process
<1>4. CASE CloseBetting
  BY <1>2, <1>4 DEF CloseBetting, process
<1>5. CASE Spin
  BY <1>2, <1>5 DEF Spin, process
<1>6. CASE Reveal
  <2>1. /\ phase = "Spinning" /\ phase' = "Reveal" /\ UNCHANGED <<hand, boots>>
        /\ handed' = handed \/ handed' = Append(handed, hand)
    BY <1>6 DEF Reveal, SettleRound, process
  <2>2. CASE handed' = handed
    BY <2>1, <2>2 DEF HandedBelow, HandedInOrder
  <2>3. CASE handed' = Append(handed, hand)
    <3>1. /\ DOMAIN handed' = DOMAIN handed \union {Len(handed) + 1}
          /\ \A m \in DOMAIN handed : handed'[m] = handed[m] /\ m < Len(handed) + 1
          /\ handed'[Len(handed) + 1] = hand /\ Len(handed) \in Nat
          /\ \A m \in DOMAIN handed : m \in Nat
      BY <1>1, <2>3
    <3>2. boots = 1 => \A m \in DOMAIN handed : handed[m] < hand
      BY <2>1 DEF HandedBelow
    <3>3. HandedBelow'
      BY <1>1, <2>1, <3>1, <3>2 DEF HandedBelow
    <3>4. HandedInOrder'
      <4> SUFFICES ASSUME boots = 1, NEW m \in DOMAIN handed', NEW n \in DOMAIN handed', m < n
                   PROVE  handed'[m] < handed'[n]
        BY <2>1 DEF HandedInOrder
      <4>1. m \in DOMAIN handed
        BY <3>1
      <4>2. CASE n \in DOMAIN handed
        BY <3>1, <4>1, <4>2 DEF HandedInOrder
      <4>3. CASE n = Len(handed) + 1
        BY <3>1, <3>2, <4>1, <4>3
      <4> QED
        BY <3>1, <4>2, <4>3
    <3> QED
      BY <3>3, <3>4
  <2> QED
    BY <2>1, <2>2, <2>3
<1>7. CASE NewRound
  <2>1. hand' = hand + 1 /\ UNCHANGED <<boots, handed>>
    BY <1>7 DEF NewRound, StartBetting, process
  <2> QED
    BY <1>1, <2>1 DEF HandedBelow, HandedInOrder
<1>8. ASSUME NEW u \in Users, NEW k \in Keys, NEW a \in Amounts, PlaceBet(u, k, a)
      PROVE  HandedBelow' /\ HandedInOrder'
  BY <1>2, <1>8 DEF PlaceBet, process
<1>9. ASSUME NEW u \in Users, NEW a \in Amounts, LoseDebit(u, a)
      PROVE  HandedBelow' /\ HandedInOrder'
  BY <1>2, <1>9 DEF LoseDebit, table, process
<1>10. CASE DrainPending
  BY <1>2, <1>10 DEF DrainPending
<1>11. CASE PersistShape
  BY <1>2, <1>11 DEF PersistShape, Shape, table
<1>12. CASE Exit
  BY <1>2, <1>12 DEF Exit
<1>13. CASE Signal
  BY <1>2, <1>13 DEF Signal, table
<1>14. CASE RefundDrained
  BY <1>2, <1>14 DEF RefundDrained, table
<1>15. CASE Restart
  <2>1. boots' = boots + 1 /\ boots \in Nat /\ boots # 0
    BY <1>15, BoundAssumption DEF Restart, ApplyPersistShape, FeltTypes
  <2> QED
    BY <2>1 DEF HandedBelow, HandedInOrder
<1>16. CASE UNCHANGED vars
  BY <1>2, <1>16 DEF vars, table, process
<1> QED
  BY <1>3, <1>4, <1>5, <1>6, <1>7, <1>8, <1>9, <1>10, <1>11, <1>12, <1>13, <1>14, <1>15, <1>16
  DEF Next, Timer

LEMMA HistoryStep == Kept /\ FeltTypes /\ HistoryIsRevealed /\ [Next]_vars => HistoryIsRevealed'
<1> SUFFICES ASSUME Kept, FeltTypes, HistoryIsRevealed, [Next]_vars PROVE HistoryIsRevealed'
  OBVIOUS
<1>1. /\ outcomes \in Seq(Draws) /\ history \in Histories
      /\ phase = "Spinning" => outcomes # <<>> /\ winning = outcomes[Len(outcomes)]
  BY DEF Kept, Typed, WinningIsLast, FeltTypes
<1>2. ASSUME boots' = boots, history' = history, outcomes' = outcomes,
             phase' = "Spinning" <=> phase = "Spinning"
      PROVE  HistoryIsRevealed'
  BY <1>2, HistoryShows DEF RevealedOf
<1>3. CASE Cutoff
  BY <1>2, <1>3 DEF Cutoff, process
<1>4. CASE CloseBetting
  BY <1>2, <1>4 DEF CloseBetting, process
<1>5. CASE Spin
  <2>1. PICK p \in Draws : outcomes' = Append(outcomes, p)
    BY <1>5 DEF Spin
  <2>2. phase' = "Spinning" /\ phase = "NoMoreBets" /\ UNCHANGED <<history, boots>>
    BY <1>5 DEF Spin, process
  <2>3. RevealedOf(phase', outcomes') = outcomes
    <3>1. /\ Len(Append(outcomes, p)) - 1 = Len(outcomes)
          /\ SubSeq(Append(outcomes, p), 1, Len(outcomes)) = outcomes
      BY <1>1
    <3> QED
      BY <2>1, <2>2, <3>1 DEF RevealedOf
  <2>4. RevealedOf(phase, outcomes) = outcomes
    BY <2>2 DEF RevealedOf
  <2> QED
    BY <2>2, <2>3, <2>4, HistoryShows
<1>6. CASE Reveal
  <2>1. /\ phase = "Spinning" /\ phase' = "Reveal" /\ UNCHANGED <<outcomes, boots>>
        /\ history' = Push(history, outcomes[Len(outcomes)])
    BY <1>1, <1>6 DEF Reveal, SettleRound, process
  <2>2. /\ RevealedOf(phase, outcomes) = SubSeq(outcomes, 1, Len(outcomes) - 1)
        /\ RevealedOf(phase', outcomes') = outcomes
    BY <2>1 DEF RevealedOf
  <2>3. boots = 1 => Shows(history', outcomes)
    BY <1>1, <2>1, <2>2, HistoryShows, PushShows
  <2> QED
    BY <2>1, <2>2, <2>3, HistoryShows
<1>7. CASE NewRound
  BY <1>2, <1>7 DEF NewRound, StartBetting, process
<1>8. ASSUME NEW u \in Users, NEW k \in Keys, NEW a \in Amounts, PlaceBet(u, k, a)
      PROVE  HistoryIsRevealed'
  BY <1>2, <1>8 DEF PlaceBet, process
<1>9. ASSUME NEW u \in Users, NEW a \in Amounts, LoseDebit(u, a) PROVE HistoryIsRevealed'
  BY <1>2, <1>9 DEF LoseDebit, table, process
<1>10. CASE DrainPending
  BY <1>2, <1>10 DEF DrainPending
<1>11. CASE PersistShape
  BY <1>2, <1>11 DEF PersistShape, Shape, table
<1>12. CASE Exit
  BY <1>2, <1>12 DEF Exit
<1>13. CASE Signal
  BY <1>2, <1>13 DEF Signal, table
<1>14. CASE RefundDrained
  BY <1>2, <1>14 DEF RefundDrained, table
<1>15. CASE Restart
  <2>1. boots' = boots + 1 /\ boots \in Nat /\ boots # 0
    BY <1>15, BoundAssumption DEF Restart, ApplyPersistShape, FeltTypes
  <2> QED
    BY <2>1 DEF HistoryIsRevealed
<1>16. CASE UNCHANGED vars
  BY <1>2, <1>16 DEF vars, table, process
<1> QED
  BY <1>3, <1>4, <1>5, <1>6, <1>7, <1>8, <1>9, <1>10, <1>11, <1>12, <1>13, <1>14, <1>15, <1>16
  DEF Next, Timer

LEMMA FeltInit == Init => FeltInv
<1> SUFFICES ASSUME Init PROVE FeltInv
  OBVIOUS
<1>1. /\ NoChips \in [Keys -> Nat] /\ [u \in Users |-> Stack] \in [Users -> Nat]
      /\ <<>> \in Histories /\ 1 \in 1 .. MaxBoots
  BY StakeAssumption, BoundAssumption, CapAssumption DEF NoChips, Histories
<1>2. FeltTypes
  <2>1. saved \in Shapes
    BY <1>1 DEF Init, Shapes
  <2>2. aggregate \in [Keys -> Nat] /\ wallet \in [Users -> Nat]
    BY <1>1 DEF Init
  <2>3. winning \in Draws \union {NoPocket} /\ main \in MainPhases
    BY DEF Init, MainPhases
  <2>4. /\ hand \in Nat /\ token \in Nat /\ history \in Histories
        /\ boots \in 1 .. MaxBoots /\ handed \in Seq(Nat)
    BY <1>1 DEF Init
  <2>5. late \in BOOLEAN /\ actor \in BOOLEAN
    BY Zenon DEF Init
  <2> QED
    BY <2>1, <2>2, <2>3, <2>4, <2>5 DEF FeltTypes
<1>3. AggregateIsTheBets
  <2>1. \A k \in Keys : OnKey(bets, pending, k) = {}
    BY DEF Init, OnKey
  <2> QED
    BY <2>1, AggregateIs, StakesNone DEF Init, NoChips
<1>4. HandedBelow /\ HandedInOrder
  BY DEF Init, HandedBelow, HandedInOrder
<1>5. HistoryIsRevealed
  <2>1. history = <<>> /\ RevealedOf(phase, outcomes) = <<>>
    BY DEF Init, RevealedOf
  <2>2. Shows(<<>>, <<>>)
    BY CapAssumption DEF Shows
  <2> QED
    BY <2>1, <2>2, HistoryShows
<1> QED
  BY <1>2, <1>3, <1>4, <1>5 DEF FeltInv

LEMMA FeltStep == Kept /\ FeltInv /\ [Next]_vars => FeltInv'
BY FeltTypesStep, AggregateStep, HandedStep, HistoryStep DEF FeltInv

\* Stakes, totals and wallets stay natural numbers and what is drawn is on the
\* wheel, whatever the players, the wallet and main do.
THEOREM RouletteTyped == Spec => []TypeOK
<1>1. Kept /\ FeltInv => TypeOK
  BY DEF Kept, Typed, FeltInv, FeltTypes, MainPhases, Shapes, Histories, TypeOK
<1> QED
  BY <1>1, KeptInit, KeptStep, FeltInit, FeltStep, PTL DEF Spec

\* What the players are shown is the round: the bets on the felt are this round's,
\* the totals are theirs, the history is what has been revealed, and the ledger
\* gets each round once, in order (coordinator.go handlePlaceBet, startBetting,
\* advancePhase, settleRound).
THEOREM FeltIsExact == Spec => []FeltExact
<1>1. Kept /\ FeltInv => FeltExact
  BY DEF Kept, FeltInv, FeltExact
<1> QED
  BY <1>1, KeptInit, KeptStep, FeltInit, FeltStep, PTL DEF Spec
=============================================================================
