------------------------------- MODULE MCWallet -------------------------------
(* Small instances of Wallet for TLC. *)
EXTENDS Wallet, TLC

CONSTANTS ann, ben, w1, w2

BothAnns == (w1 :> ann) @@ (w2 :> ann)
=============================================================================
