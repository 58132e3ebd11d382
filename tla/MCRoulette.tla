------------------------------ MODULE MCRoulette ------------------------------
(* Small instances of RouletteTable for TLC, and what is true of the wheel.  *)
EXTENDS RouletteTable, TLC

CONSTANTS ann, ben

Red      == [type |-> "red", number |-> 0]
Straight == [type |-> "straight", number |-> 1]
RedAndStraight == {Red, Straight}

\* Every bet the table takes has the same odds: over the pockets a credit brings
\* back 36 of 38, the two zeros being the house's (bets.go Evaluate).
SameReturn ==
  \A key \in BetKeys : MapThenSumSet(LAMBDA p : GrossReturn(p, key, 1), Pockets) = 36

\* Wherever the ball falls, off the zeros exactly one bet of each kind wins, and
\* on a zero none: no pocket is left out of a kind or in two of its bets.
Kinds == {{"red", "black"}, {"even", "odd"}, {"low", "high"},
          {"1st12", "2nd12", "3rd12"}, {"col1", "col2", "col3"}}

OneWinner ==
  \A kind \in Kinds, p \in Pockets :
    Cardinality({t \in kind : Wins(p, [type |-> t, number |-> 0])})
      = IF IsZero(p) THEN 0 ELSE 1

\* The wheel is the casino's, while it spins.
WheelFair == phase = "Spinning" => SameReturn /\ OneWinner
=============================================================================
