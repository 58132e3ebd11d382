------------------------------- MODULE MCGames -------------------------------
(***************************************************************************)
(* What one plays and browses: small instances of the wallets, of the      *)
(* Hold'em hall, of the single-player doors, of a roulette table whose     *)
(* wallet fails, and of the Web screen.  They share nothing here, so a     *)
(* behaviour is about one of them.                                         *)
(***************************************************************************)
EXTENDS Wallet, Cardroom, Doors, WebScreen

CONSTANTS
  Parts,  (* the parts this run is about                                    *)
  ann, ben, w1, w2

VARIABLES
  part,
  phase, late, token, winning, pending, aggregate, history, hand, actor, main,
  drained, saves, boots, wallet, bets, outcomes, handed   (* roulette       *)

OneEach  == [w \in {w1, w2} |-> IF w = w1 THEN ann ELSE ben]

Roulette ==
  INSTANCE RouletteTable WITH Users <- {ann}, Keys <- {[type |-> "red", number |-> 0]},
    Draws <- {1, 2}, Amounts <- {1}, Stack <- 2, HistoryCap <- 2, MaxBets <- 2, MaxDraws <- 2,
    MaxBoots <- 2, DebitFaults <- TRUE, CreditFaults <- TRUE, Stops <- TRUE, StopInReveal <- FALSE, Crashes <- TRUE,
    saved <- saves

\* The hall is played in by patient players, one after the other; or one of them
\* hurries and has commands fail, and no snapshot reaches the screens meanwhile; or it
\* is shut down and started again while players sit down, without a hand.
Settled(u) ==
  /\ ~Paying(u) /\ halls[u].call = "none" /\ halls[u].late = <<>>
  /\ halls[u].sub # 0 =>
       /\ subs[halls[u].sub].buf = <<>> /\ halls[u].sub \notin asks
       /\ \A p \in pushes : p.sub # halls[u].sub
Begins(u) ==
  /\ halls[u].call = "none"
  /\ halls'[u].call # "none" \/ (halls[u].mode = "away" /\ halls'[u].mode # "away")
Others(u) == Players \ {u}

Patiently ==
  /\ astray' = {}
  /\ \A u \in Players : Begins(u) => ~Paying(u) /\ \A x \in Others(u) : Settled(x)
Hurriedly ==
  /\ astray' \subseteq {1} /\ pushes' = {}
  /\ \A u \in Players :
       /\ halls'[u].late = <<>> /\ Cardinality({p \in payments' : p.user = u}) <= 2
       /\ Begins(u) => \A x \in Others(u) : ~Paying(x) /\ halls[x].call = "none"

Playing   == (Sitting \/ Paid \/ Dealing) /\ Patiently
Rushing   == (Sitting \/ Paid \/ Dealing) /\ Hurriedly
Restarted == RoomNext /\ UNCHANGED <<deals, leaves>> /\ Patiently

\* A patient user browses; an impatient one edits the lists.
Browse    == WebNext /\ edits' <= 1 /\ \A b \in Browsers : web[b].waits
EditLists == WebNext /\ launches' = 0 /\ changes' = 0 /\ \A b \in Browsers : ~web[b].waits

OneUser == [b \in Browsers |-> 1]
Caps    == {[global |-> 0, handle |-> 0], [global |-> 1, handle |-> 1]}
Kept12  == <<"a", "b">>
Seen12  == <<"b", "a">>
Rungs == <<2, 4>>

GamesInit ==
  /\ part \in Parts
  /\ Init /\ RoomInit /\ DoorInit /\ Roulette!Init /\ WebInit
  /\ part # "doors" => door = "slots"
  /\ part # "browse" => limits.global = 0
  /\ \A b \in Browsers : web[b].waits <=> part # "lists"

rouletteVars == <<phase, late, token, winning, pending, aggregate, history, hand, actor, main,
                  drained, saves, boots, wallet, bets, outcomes, handed>>

gamesVars == <<part, vars, roomVars, doorVars, rouletteVars, webVars>>

GamesNext ==
  \/ part = "wallets"  /\ Next          /\ UNCHANGED <<part, roomVars, doorVars, rouletteVars, webVars>>
  \/ part = "hall"     /\ Playing       /\ UNCHANGED <<part, vars, doorVars, rouletteVars, webVars>>
  \/ part = "rush"     /\ Rushing       /\ UNCHANGED <<part, vars, doorVars, rouletteVars, webVars>>
  \/ part = "restart"  /\ Restarted     /\ UNCHANGED <<part, vars, doorVars, rouletteVars, webVars>>
  \/ part = "doors"    /\ DoorNext      /\ UNCHANGED <<part, vars, roomVars, rouletteVars, webVars>>
  \/ part = "roulette" /\ Roulette!Next /\ UNCHANGED <<part, vars, roomVars, doorVars, webVars>>
  \/ part = "browse"   /\ Browse        /\ UNCHANGED <<part, vars, roomVars, doorVars, rouletteVars>>
  \/ part = "lists"    /\ EditLists     /\ UNCHANGED <<part, vars, roomVars, doorVars, rouletteVars>>

GamesSpec == GamesInit /\ [][GamesNext]_gamesVars

-----------------------------------------------------------------------------
\* A bet is paid what is due or nothing, also when the wallet fails and the
\* process is killed (coordinator.go settle, refundPending).
PaidOrNothing == Roulette!PaidOrNothing
=============================================================================
