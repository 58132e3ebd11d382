------------------------------- MODULE Wallet -------------------------------
(***************************************************************************)
(* The wallets of internal/doors/wallet.go, and who writes them: the game  *)
(* screens of the sessions, and the roulette coordinator on behalf of its  *)
(* players, each a "writer" here.                                          *)
(*                                                                         *)
(* A writer loads the row and keeps its copy; a bet or a credit changes    *)
(* the copy and writes the whole of it back.  A game screen holds its copy *)
(* as long as it is open; the coordinator's WalletAdapter loads a new one  *)
(* for each call.  Each SQL statement is one step.                         *)
(***************************************************************************)
EXTENDS Integers, FiniteSets

CONSTANTS
  Users, Writers,
  Owner,       (* the user whose wallet a writer writes                     *)
  Allowance,   (* DailyAllowance                                            *)
  Stakes, Payouts,
  MaxDay,      (* bound: midnights                                          *)
  MaxWinnings, (* bound: winnings in a wallet                               *)
  MaxDue,      (* bound: size of the history variable due                   *)
  Faults       (* may a statement report an error?                          *)

ASSUME OwnerAssumption == Owner \in [Writers -> Users]
ASSUME CreditAssumption ==
  Allowance \in Nat /\ Stakes \subseteq Nat \ {0} /\ Payouts \subseteq Nat
ASSUME BoundAssumption == MaxDay \in Nat /\ MaxWinnings \in Nat /\ MaxDue \in Nat
  /\ Faults \in BOOLEAN

VARIABLES
  row,    (* user_wallets; NoRow where there is none                        *)
  today,  (* the UTC day                                                    *)
  pc,     (* where a writer is: out, about to write the refresh, or in      *)
  copy,   (* the wallet a writer holds                                      *)
  due     (* history: credits a user has by what was reported to succeed    *)

vars == <<row, today, pc, copy, due>>

NoRow   == [daily |-> 0, winnings |-> 0, day |-> -1]
Wallets == [daily : 0 .. Allowance, winnings : Nat, day : -1 .. MaxDay]

Total(w) == w.daily + w.winnings

-----------------------------------------------------------------------------
\* GetOrCreateWallet: the row, or a new one with today's allowance.
Created(u) ==
  IF row[u] = NoRow THEN [daily |-> Allowance, winnings |-> 0, day |-> today] ELSE row[u]

Refreshed(w) == [daily |-> Allowance, winnings |-> w.winnings, day |-> today]

\* Load reads the row.  A row of another day is refreshed by a second statement.
Load(p) ==
  LET u == Owner[p]
  IN  /\ pc[p] = "out"
      /\ row' = [row EXCEPT ![u] = Created(u)]
      /\ IF row'[u].day = today
         THEN copy' = [copy EXCEPT ![p] = row'[u]] /\ pc' = [pc EXCEPT ![p] = "in"]
         ELSE /\ copy' = [copy EXCEPT ![p] = Refreshed(row'[u])]
              /\ pc' = [pc EXCEPT ![p] = "refresh"]
      /\ due' = [due EXCEPT ![u] = IF row[u] = NoRow THEN Allowance ELSE @]
      /\ UNCHANGED today

\* persist: the whole of w goes over the row of its user.
Persist(p, w) == row' = [row EXCEPT ![Owner[p]] = w]

\* The write of Load.  On an error the wallet is not used.
WriteRefresh(p) ==
  /\ pc[p] = "refresh"
  /\ \/ /\ Persist(p, copy[p])
        /\ pc' = [pc EXCEPT ![p] = "in"]
        /\ due' = [due EXCEPT ![Owner[p]] = @ + Allowance - row[Owner[p]].daily]
     \/ /\ Faults /\ (Persist(p, copy[p]) \/ UNCHANGED row)
        /\ pc' = [pc EXCEPT ![p] = "out"]
        /\ UNCHANGED due
  /\ due'[Owner[p]] <= MaxDue
  /\ UNCHANGED <<today, copy>>

\* Daily credits first, then winnings.
TakeWinnings(w, stake) == [w EXCEPT !.winnings = @ - stake]
Take(w, stake) ==
  IF w.daily >= stake THEN [w EXCEPT !.daily = @ - stake]
  ELSE [w EXCEPT !.daily = 0, !.winnings = @ - (stake - w.daily)]

CommitKeepsCopy(p, w, d) ==
  /\ Persist(p, w)
  /\ due' = [due EXCEPT ![Owner[p]] = @ + d]
  /\ UNCHANGED copy

\* A caller that is told of an error keeps the wallet it had.
Commit(p, w, d) ==
  \/ /\ Persist(p, w)
     /\ copy' = [copy EXCEPT ![p] = w]
     /\ due[Owner[p]] + d \in (0 - MaxDue) .. MaxDue
     /\ due' = [due EXCEPT ![Owner[p]] = @ + d]
  \/ /\ Faults /\ (Persist(p, w) \/ UNCHANGED row)
     /\ UNCHANGED <<copy, due>>

Bet(p, stake) ==
  /\ pc[p] = "in"
  /\ stake <= Total(copy[p])
  /\ Commit(p, Take(copy[p], stake), 0 - stake)
  /\ UNCHANGED <<today, pc>>

Credit(p, amount) ==
  /\ pc[p] = "in"
  /\ copy[p].winnings + amount <= MaxWinnings
  /\ Commit(p, [copy[p] EXCEPT !.winnings = @ + amount], amount)
  /\ UNCHANGED <<today, pc>>

\* The screen is left, or the coordinator's call is over.
Leave(p) ==
  /\ pc[p] = "in"
  /\ pc' = [pc EXCEPT ![p] = "out"]
  /\ UNCHANGED <<row, today, copy, due>>

Midnight ==
  /\ today < MaxDay
  /\ today' = today + 1
  /\ UNCHANGED <<row, pc, copy, due>>

Init ==
  /\ row = [u \in Users |-> NoRow]
  /\ today = 0
  /\ pc = [p \in Writers |-> "out"]
  /\ copy = [p \in Writers |-> NoRow]
  /\ due = [u \in Users |-> 0]

Next ==
  \/ \E p \in Writers :
       \/ Load(p) \/ WriteRefresh(p) \/ Leave(p)
       \/ \E s \in Stakes : Bet(p, s)
       \/ \E a \in Payouts : Credit(p, a)
  \/ Midnight

Spec == Init /\ [][Next]_vars

-----------------------------------------------------------------------------
(* Properties.                                                             *)

\* The state stays within its types: whatever the writers do to each other, no
\* bucket goes negative and no more than one allowance is there to be played.
TypeOK ==
  /\ row \in [Users -> Wallets]
  /\ today \in 0 .. MaxDay
  /\ pc \in [Writers -> {"out", "refresh", "in"}]
  /\ copy \in [Writers -> Wallets]
  /\ due \in [Users -> Int]

\* Each user has one writer.
OneWriter == \A p, q \in Writers : Owner[p] = Owner[q] => p = q

\* With one writer for each user, what is in the database is what was there and
\* every bet and credit reported since: also over midnight, with a screen that
\* stays open (wallet.go Load, Bet, Credit).
Accounted == \A u \in Users : Total(row[u]) = due[u]

\* With one writer for each user, the row is an account that bets, credits and
\* allowances change one at a time.
Promise == INSTANCE AtomicWallet WITH account <- row

AtomicPerCall == Promise!Spec
=============================================================================
