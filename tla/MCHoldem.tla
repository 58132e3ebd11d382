------------------------------ MODULE MCHoldem ------------------------------
(* Model-checking companion of HoldemTable.                                *)
EXTENDS HoldemTable, TLC

\* Players are interchangeable: no action or property names one.
PlayerSymmetry == Permutations(Users)
=============================================================================
