---------------------------- MODULE RouletteWheel ----------------------------
(***************************************************************************)
(* The American wheel and the bets of internal/doors/roulette: pure        *)
(* functions of a pocket and a bet.  Pocket 37 is the double zero.         *)
(***************************************************************************)
EXTENDS Integers, FiniteSets, FiniteSetsExt

Pocket00 == 37
Pockets  == 0 .. 37

Reds == {1, 3, 5, 7, 9, 12, 14, 16, 18, 19, 21, 23, 25, 27, 30, 32, 34, 36}

IsZero(p) == p \in {0, Pocket00}

Colour(p) == IF IsZero(p) THEN "green" ELSE IF p \in Reds THEN "red" ELSE "black"

Dozen(p) == IF IsZero(p) THEN 0 ELSE IF p <= 12 THEN 1 ELSE IF p <= 24 THEN 2 ELSE 3

Column(p) == IF IsZero(p) THEN 0 ELSE IF p % 3 = 0 THEN 3 ELSE p % 3

\* A BetKey: the number matters to a straight bet only, and is 0 elsewhere.
Outside == {"red", "black", "even", "odd", "low", "high",
            "1st12", "2nd12", "3rd12", "col1", "col2", "col3"}

BetKeys == [type : {"straight"}, number : Pockets] \union [type : Outside, number : {0}]

\* The pockets of an outside bet.
Covers(t) ==
  CASE t = "red"   -> {p \in Pockets : Colour(p) = "red"}
    [] t = "black" -> {p \in Pockets : Colour(p) = "black"}
    [] t = "even"  -> {p \in Pockets : ~IsZero(p) /\ p % 2 = 0}
    [] t = "odd"   -> {p \in Pockets : ~IsZero(p) /\ p % 2 = 1}
    [] t = "low"   -> {p \in Pockets : ~IsZero(p) /\ p <= 18}
    [] t = "high"  -> {p \in Pockets : ~IsZero(p) /\ p >= 19}
    [] t = "1st12" -> {p \in Pockets : Dozen(p) = 1}
    [] t = "2nd12" -> {p \in Pockets : Dozen(p) = 2}
    [] t = "3rd12" -> {p \in Pockets : Dozen(p) = 3}
    [] t = "col1"  -> {p \in Pockets : Column(p) = 1}
    [] t = "col2"  -> {p \in Pockets : Column(p) = 2}
    [] OTHER       -> {p \in Pockets : Column(p) = 3}

WinsEvenOnZero(p, k) ==
  IF k.type = "straight" THEN p = k.number
  ELSE p \in Covers(k.type) \/ (p = 0 /\ k.type = "even")

Wins(p, k) == IF k.type = "straight" THEN p = k.number ELSE p \in Covers(k.type)

Multiplier(k) ==
  IF k.type = "straight" THEN 35
  ELSE IF k.type \in {"red", "black", "even", "odd", "low", "high"} THEN 1 ELSE 2

\* What comes back to the wallet: the stake and the winnings, or nothing.
GrossReturn(p, k, amount) == IF Wins(p, k) THEN amount * (1 + Multiplier(k)) ELSE 0
=============================================================================
