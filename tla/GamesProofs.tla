----------------------------- MODULE GamesProofs -----------------------------
(***************************************************************************)
(* Theorems about the wallets and about the hold'em hall.                  *)
(*                                                                         *)
(* Wallets, for any users, writers, stakes and days: TypeOK is inductive;  *)
(* a writer checks a bet against its own copy, and what it writes is that  *)
(* copy changed.  That the copy IS the row (Held) needs a user to have one *)
(* writer and no statement to fail; from it follow the accounts and the    *)
(* refinement of AtomicWallet.                                             *)
(*                                                                         *)
(* The hall, for any players, tables, seats and buy-ins: HallOk says which *)
(* subscription a screen must hold in each of its modes, for its own calls *)
(* and for the answers that are still on their way to it; StillWatching    *)
(* follows.                                                                *)
(*                                                                         *)
(* Its chips: what a player is to have is what the books say, and what the *)
(* answer he got will make him pay or get (Worth); a table holds its       *)
(* stacks and a running pot (Holds).  Money says that no step makes their  *)
(* sum greater.  For that a screen waits for one answer (UserOk), the      *)
(* calls in the actors' queues are those the screens wait for, each once   *)
(* (QueueOk), and a running pot covers the bets (TableOk).  RowsOk says    *)
(* that the row of a user with one wallet command at a time, and none that *)
(* failed, is what the books say or what the command will make them.       *)
(* NoFreeChips follows.                                                    *)
(***************************************************************************)
EXTENDS Wallet, Cardroom, SequenceTheorems, Sums

\* A wallet stays a wallet through a bet it covers, a credit and a refresh.
LEMMA TakeType ==
  ASSUME NEW w \in Wallets, NEW stake \in Nat, stake <= Total(w)
  PROVE  /\ Take(w, stake) \in Wallets
         /\ Total(Take(w, stake)) = Total(w) - stake
         /\ Take(w, stake).day = w.day
<1>1. w.daily \in 0 .. Allowance /\ w.winnings \in Nat BY DEF Wallets
<1>2. CASE w.daily >= stake
  <2>1. Take(w, stake) = [w EXCEPT !.daily = @ - stake] BY <1>2 DEF Take
  <2>2. w.daily - stake \in 0 .. Allowance BY <1>1, <1>2, CreditAssumption
  <2>3. QED BY <1>1, <2>1, <2>2, CreditAssumption DEF Wallets, Total
<1>3. CASE ~(w.daily >= stake)
  <2> DEFINE n == w.winnings - (stake - w.daily)
  <2>1. Take(w, stake) = [daily |-> 0, winnings |-> n, day |-> w.day]
    BY <1>3 DEF Take, Wallets
  <2>2. n \in Nat /\ n = Total(w) - stake BY <1>1, <1>3 DEF Total
  <2>3. 0 \in 0 .. Allowance /\ w.day \in -1 .. MaxDay BY CreditAssumption DEF Wallets
  <2> HIDE DEF n
  <2>4. [daily |-> 0, winnings |-> n, day |-> w.day] \in Wallets BY <2>2, <2>3 DEF Wallets
  <2>5. Total([daily |-> 0, winnings |-> n, day |-> w.day]) = n BY <2>2 DEF Total
  <2>6. QED BY <2>1, <2>2, <2>4, <2>5
<1>4. QED BY <1>1, <1>2, <1>3

LEMMA CreditType ==
  ASSUME NEW w \in Wallets, NEW amount \in Nat
  PROVE  /\ [w EXCEPT !.winnings = @ + amount] \in Wallets
         /\ Total([w EXCEPT !.winnings = @ + amount]) = Total(w) + amount
BY CreditAssumption DEF Wallets, Total

LEMMA RefreshType ==
  ASSUME NEW w \in Wallets, today \in 0 .. MaxDay
  PROVE  /\ Refreshed(w) \in Wallets
         /\ Total(Refreshed(w)) = Total(w) + Allowance - w.daily
<1>1. Refreshed(w) = [daily |-> Allowance, winnings |-> w.winnings, day |-> today]
  BY DEF Refreshed
<1>2. w.daily \in 0 .. Allowance /\ w.winnings \in Nat BY DEF Wallets
<1>3. today \in -1 .. MaxDay /\ Allowance \in 0 .. Allowance
  BY CreditAssumption, BoundAssumption
<1>4. QED BY <1>1, <1>2, <1>3, CreditAssumption DEF Wallets, Total

LEMMA CreatedType ==
  ASSUME TypeOK, NEW u \in Users
  PROVE  Created(u) \in Wallets
<1>1. today \in -1 .. MaxDay /\ Allowance \in 0 .. Allowance
  BY CreditAssumption, BoundAssumption DEF TypeOK
<1>2. QED BY <1>1 DEF TypeOK, Created, Wallets

LEMMA NoRowType == NoRow \in Wallets /\ Total(NoRow) = 0
BY CreditAssumption, BoundAssumption DEF NoRow, Wallets, Total

\* What a write of w with the account d does to the types.
LEMMA CommitType ==
  ASSUME TypeOK, NEW p \in Writers, NEW w \in Wallets, NEW d \in Int, Commit(p, w, d),
         UNCHANGED <<today, pc>>
  PROVE  TypeOK'
<1>1. Owner[p] \in Users BY OwnerAssumption
<1>2. row' \in [Users -> Wallets] BY <1>1 DEF TypeOK, Commit, Persist
<1>3. copy' \in [Writers -> Wallets] BY DEF TypeOK, Commit
<1>4. due' \in [Users -> Int] BY <1>1 DEF TypeOK, Commit
<1>5. QED BY <1>2, <1>3, <1>4 DEF TypeOK

LEMMA TypeStep == TypeOK /\ [Next]_vars => TypeOK'
<1> SUFFICES ASSUME TypeOK, [Next]_vars PROVE TypeOK'
  OBVIOUS
<1> USE OwnerAssumption
<1>1. ASSUME NEW p \in Writers, Load(p) PROVE TypeOK'
  <2>1. Owner[p] \in Users OBVIOUS
  <2>2. Created(Owner[p]) \in Wallets BY <2>1, CreatedType
  <2>3. row' \in [Users -> Wallets] /\ row'[Owner[p]] \in Wallets
    BY <1>1, <2>1, <2>2 DEF TypeOK, Load
  <2>4. Refreshed(row'[Owner[p]]) \in Wallets BY <2>3, RefreshType DEF TypeOK
  <2>5. copy' \in [Writers -> Wallets] BY <1>1, <2>3, <2>4 DEF TypeOK, Load
  <2>6. due' \in [Users -> Int] BY <1>1, <2>1, CreditAssumption DEF TypeOK, Load
  <2>7. pc' \in [Writers -> {"out", "refresh", "in"}] /\ today' = today
    BY <1>1 DEF TypeOK, Load
  <2>8. QED BY <2>3, <2>5, <2>6, <2>7 DEF TypeOK
<1>2. ASSUME NEW p \in Writers, WriteRefresh(p) PROVE TypeOK'
  <2>1. Owner[p] \in Users /\ copy[p] \in Wallets /\ row[Owner[p]] \in Wallets BY DEF TypeOK
  <2>2. row' \in [Users -> Wallets] BY <1>2, <2>1 DEF TypeOK, WriteRefresh, Persist
  <2>3. row[Owner[p]].daily \in Int BY <2>1 DEF Wallets
  <2>4. due' \in [Users -> Int] BY <1>2, <2>1, <2>3, CreditAssumption DEF TypeOK, WriteRefresh
  <2>5. pc' \in [Writers -> {"out", "refresh", "in"}] /\ UNCHANGED <<today, copy>>
    BY <1>2 DEF TypeOK, WriteRefresh
  <2>6. QED BY <2>2, <2>4, <2>5 DEF TypeOK
<1>3. ASSUME NEW p \in Writers, Leave(p) PROVE TypeOK' BY <1>3 DEF TypeOK, Leave
<1>4. ASSUME NEW p \in Writers, NEW s \in Stakes, Bet(p, s) PROVE TypeOK'
  <2>1. copy[p] \in Wallets /\ s \in Nat BY CreditAssumption DEF TypeOK
  <2>2. Take(copy[p], s) \in Wallets BY <1>4, <2>1, TakeType DEF Bet
  <2>3. 0 - s \in Int BY <2>1
  <2>4. QED BY <1>4, <2>2, <2>3, CommitType DEF Bet
<1>5. ASSUME NEW p \in Writers, NEW a \in Payouts, Credit(p, a) PROVE TypeOK'
  <2>1. copy[p] \in Wallets /\ a \in Nat BY CreditAssumption DEF TypeOK
  <2>2. [copy[p] EXCEPT !.winnings = @ + a] \in Wallets BY <2>1, CreditType
  <2>3. QED BY <1>5, <2>1, <2>2, CommitType DEF Credit
<1>6. CASE Midnight BY <1>6, BoundAssumption DEF TypeOK, Midnight
<1>7. CASE UNCHANGED vars BY <1>7 DEF TypeOK, vars
<1>8. QED BY <1>1, <1>2, <1>3, <1>4, <1>5, <1>6, <1>7 DEF Next

LEMMA TypeInit == Init => TypeOK
BY NoRowType, BoundAssumption DEF Init, TypeOK

\* TypeOK, of any wallets: whatever several writers of one wallet do to each other
\* and whatever errors they see, no bucket of a wallet goes negative and the daily
\* credits never exceed the allowance (wallet.go Load, Bet, Credit).
THEOREM WalletsStayCovered == Spec => []TypeOK
<1>1. Init => TypeOK BY TypeInit
<1>2. TypeOK /\ [Next]_vars => TypeOK' BY TypeStep
<1>3. QED BY <1>1, <1>2, PTL DEF Spec

-----------------------------------------------------------------------------
(* One writer for each user, and no errors.                                *)

\* A writer that is in holds the row; one that is about to write the refresh
\* holds the row of an earlier day with the allowance in it.
HeldBy(p) ==
  /\ pc[p] = "in" => copy[p] = row[Owner[p]] /\ row[Owner[p]] # NoRow
  /\ pc[p] = "refresh" =>
       /\ copy[p] = [daily |-> Allowance, winnings |-> row[Owner[p]].winnings,
                     day |-> copy[p].day]
       /\ row[Owner[p]].day < copy[p].day
       /\ copy[p].day >= 0 /\ copy[p].day <= today

\* A row is of a day that has been.
RowsDated ==
  \A u \in Users : row[u].day <= today /\ (row[u] # NoRow => row[u].day >= 0)

Held == TypeOK /\ Accounted /\ RowsDated /\ \A p \in Writers : HeldBy(p)

LEMMA HeldInit == Init => Held
BY TypeInit, NoRowType, BoundAssumption, OwnerAssumption
DEF Init, Held, HeldBy, Accounted, RowsDated, NoRow

\* A copy that may be bet with is of some day.
LEMMA InDated ==
  ASSUME Held, NEW p \in Writers, pc[p] = "in"
  PROVE  copy[p].day >= 0 /\ \A w : w.day = copy[p].day => w # NoRow
<1>1. copy[p] = row[Owner[p]] /\ row[Owner[p]] # NoRow BY DEF Held, HeldBy
<1>2. Owner[p] \in Users BY OwnerAssumption
<1>3. copy[p].day >= 0 BY <1>1, <1>2 DEF Held, RowsDated
<1>4. NoRow.day = -1 BY DEF NoRow
<1>5. copy[p].day # -1 BY <1>3
<1>6. QED BY <1>3, <1>4, <1>5

\* What a write by p of a changed copy does: p is its user's only writer.
LEMMA CommitHeld ==
  ASSUME OneWriter, ~Faults, Held, NEW p \in Writers, pc[p] = "in",
         NEW w \in Wallets, NEW d \in Int, Total(w) = Total(copy[p]) + d, w.day = copy[p].day,
         w # NoRow, Commit(p, w, d), UNCHANGED <<today, pc>>
  PROVE  Held'
<1> DEFINE u == Owner[p]
<1>1. u \in Users /\ copy[p] = row[u] BY OwnerAssumption DEF Held, HeldBy
<1>2. /\ row' = [row EXCEPT ![u] = w] /\ copy' = [copy EXCEPT ![p] = w]
      /\ due' = [due EXCEPT ![u] = @ + d]
  BY DEF Commit, Persist
<1>3. TypeOK' BY CommitType DEF Held
<1>4. Accounted' BY <1>1, <1>2 DEF Held, TypeOK, Accounted
<1>5. RowsDated' BY <1>1, <1>2 DEF Held, HeldBy, TypeOK, RowsDated
<1>6. ASSUME NEW q \in Writers PROVE HeldBy(q)'
  <2>1. CASE q = p BY <1>1, <1>2, <2>1 DEF Held, TypeOK, HeldBy
  <2>2. CASE q # p
    <3>1. Owner[q] # u /\ Owner[q] \in Users BY <2>2, OwnerAssumption DEF OneWriter
    <3>2. row'[Owner[q]] = row[Owner[q]] /\ copy'[q] = copy[q] BY <1>2, <2>2, <3>1 DEF Held, TypeOK
    <3>3. QED BY <3>2 DEF Held, HeldBy
  <2>3. QED BY <2>1, <2>2
<1>7. QED BY <1>3, <1>4, <1>5, <1>6 DEF Held

\* Load: a row that is there stays, a row that is not is created; the copy is the
\* row, or the row refreshed.
LEMMA LoadHeld ==
  ASSUME OneWriter, Held, NEW p \in Writers, Load(p)
  PROVE  Held'
<1> DEFINE u == Owner[p]
<1>0. TypeOK /\ TypeOK' BY TypeStep DEF Held, Next
<1>1. u \in Users /\ today \in Nat BY <1>0, OwnerAssumption DEF TypeOK
<1>2. Created(u) \in Wallets BY <1>0, <1>1, CreatedType
<1>3. /\ row' = [row EXCEPT ![u] = Created(u)] /\ row'[u] = Created(u)
      /\ today' = today
  BY <1>0, <1>1 DEF Load, TypeOK
<1>4. /\ Created(u).day <= today /\ Created(u).day >= 0 /\ Created(u) # NoRow
      /\ Total(Created(u)) = due'[u]
  <2>1. CASE row[u] = NoRow
    <3>1. Created(u) = [daily |-> Allowance, winnings |-> 0, day |-> today] BY <2>1 DEF Created
    <3>2. due'[u] = Allowance BY <1>0, <1>1, <2>1 DEF Load, TypeOK
    <3>3. Created(u).day = today /\ Total(Created(u)) = Allowance /\ NoRow.day = -1
      BY <3>1, CreditAssumption DEF Total, NoRow
    <3>4. QED BY <1>1, <3>2, <3>3
  <2>2. CASE row[u] # NoRow
    <3>1. Created(u) = row[u] BY <2>2 DEF Created
    <3>2. due'[u] = due[u] BY <1>0, <1>1, <2>2 DEF Load, TypeOK
    <3>3. QED BY <1>1, <2>2, <3>1, <3>2 DEF Held, RowsDated, Accounted
  <2>3. QED BY <2>1, <2>2
<1>5. \A v \in Users \ {u} : row'[v] = row[v] /\ due'[v] = due[v]
  BY <1>0, <1>1, <1>3 DEF Load, TypeOK
<1>6. Accounted' BY <1>3, <1>4, <1>5 DEF Held, Accounted
<1>7. RowsDated' BY <1>3, <1>4, <1>5 DEF Held, RowsDated
<1>8. HeldBy(p)'
  <2>1. CASE row'[u].day = today
    <3>1. copy'[p] = row'[u] /\ pc'[p] = "in" BY <1>0, <2>1 DEF Load, TypeOK
    <3>2. QED BY <1>3, <1>4, <3>1 DEF HeldBy
  <2>2. CASE row'[u].day # today
    <3>1. copy'[p] = Refreshed(row'[u]) /\ pc'[p] = "refresh" BY <1>0, <2>2 DEF Load, TypeOK
    <3>2. /\ copy'[p] = [daily |-> Allowance, winnings |-> row'[u].winnings, day |-> today]
          /\ copy'[p].day = today
      BY <3>1 DEF Refreshed
    <3>3. row'[u].day < today BY <1>1, <1>2, <1>3, <1>4, <2>2 DEF Wallets
    <3>4. QED BY <1>1, <1>3, <3>1, <3>2, <3>3 DEF HeldBy
  <2>3. QED BY <2>1, <2>2
<1>9. ASSUME NEW q \in Writers, q # p PROVE HeldBy(q)'
  <2>1. Owner[q] # u /\ Owner[q] \in Users BY <1>9, OwnerAssumption DEF OneWriter
  <2>2. row'[Owner[q]] = row[Owner[q]] BY <1>5, <2>1
  <2>3. copy'[q] = copy[q] /\ pc'[q] = pc[q] BY <1>0, <1>9 DEF Load, TypeOK
  <2>4. QED BY <1>3, <2>2, <2>3 DEF Held, HeldBy
<1>10. QED BY <1>0, <1>6, <1>7, <1>8, <1>9 DEF Held

\* The write of Load: the row becomes the refreshed copy.
LEMMA RefreshHeld ==
  ASSUME OneWriter, ~Faults, Held, NEW p \in Writers, WriteRefresh(p)
  PROVE  Held'
<1> DEFINE u == Owner[p]
<1>0. TypeOK /\ TypeOK' BY TypeStep DEF Held, Next
<1>1. u \in Users BY OwnerAssumption
<1>2. /\ pc[p] = "refresh" /\ row' = [row EXCEPT ![u] = copy[p]]
      /\ pc' = [pc EXCEPT ![p] = "in"]
      /\ due' = [due EXCEPT ![u] = @ + Allowance - row[u].daily]
      /\ today' = today /\ copy' = copy
  BY DEF WriteRefresh, Persist
<1>3. /\ copy[p] = [daily |-> Allowance, winnings |-> row[u].winnings, day |-> copy[p].day]
      /\ row[u].day < copy[p].day /\ copy[p].day >= 0 /\ copy[p].day <= today
  BY <1>2 DEF Held, HeldBy
<1>4. Total(copy[p]) = row[u].winnings + Allowance BY <1>3, <1>0, <1>1, CreditAssumption
  DEF Total, TypeOK, Wallets
<1>5. copy[p] # NoRow BY <1>3 DEF NoRow
<1>6. Accounted'
  <2>1. row[u] \in Wallets /\ due[u] = row[u].daily + row[u].winnings
    BY <1>0, <1>1 DEF TypeOK, Held, Accounted, Total
  <2>2. row[u].daily \in Int /\ row[u].winnings \in Int BY <2>1 DEF Wallets
  <2>3. due'[u] = row[u].winnings + Allowance
    BY <1>0, <1>1, <1>2, <2>1, <2>2, CreditAssumption DEF TypeOK
  <2>4. row'[u] = copy[p] BY <1>0, <1>1, <1>2 DEF TypeOK
  <2>5. \A v \in Users \ {u} : row'[v] = row[v] /\ due'[v] = due[v]
    BY <1>0, <1>2 DEF TypeOK
  <2>6. QED BY <1>4, <2>3, <2>4, <2>5 DEF Held, Accounted
<1>7. RowsDated' BY <1>0, <1>1, <1>2, <1>3 DEF Held, RowsDated, TypeOK
<1>8. HeldBy(p)' BY <1>0, <1>1, <1>2, <1>5 DEF HeldBy, TypeOK
<1>9. ASSUME NEW q \in Writers, q # p PROVE HeldBy(q)'
  <2>1. Owner[q] # u /\ Owner[q] \in Users BY <1>9, OwnerAssumption DEF OneWriter
  <2>2. row'[Owner[q]] = row[Owner[q]] BY <1>0, <1>2, <2>1 DEF TypeOK
  <2>3. copy'[q] = copy[q] /\ pc'[q] = pc[q] BY <1>0, <1>2, <1>9 DEF TypeOK
  <2>4. QED BY <1>2, <2>2, <2>3 DEF Held, HeldBy
<1>10. QED BY <1>0, <1>6, <1>7, <1>8, <1>9 DEF Held

LEMMA HeldStep ==
  ASSUME OneWriter, ~Faults
  PROVE  Held /\ [Next]_vars => Held'
<1> SUFFICES ASSUME Held, [Next]_vars PROVE Held'
  OBVIOUS
<1>0. TypeOK /\ TypeOK' BY TypeStep DEF Held
<1>1. ASSUME NEW p \in Writers, Load(p) PROVE Held' BY <1>1, LoadHeld
<1>2. ASSUME NEW p \in Writers, WriteRefresh(p) PROVE Held' BY <1>2, RefreshHeld
<1>3. ASSUME NEW p \in Writers, Leave(p) PROVE Held'
  BY <1>0, <1>3 DEF Leave, Held, HeldBy, Accounted, RowsDated, TypeOK
<1>4. ASSUME NEW p \in Writers, NEW s \in Stakes, Bet(p, s) PROVE Held'
  <2>1. copy[p] \in Wallets /\ s \in Nat /\ pc[p] = "in"
    BY <1>0, <1>4, CreditAssumption DEF TypeOK, Bet
  <2>2. /\ Take(copy[p], s) \in Wallets
        /\ Total(Take(copy[p], s)) = Total(copy[p]) - s
        /\ Take(copy[p], s).day = copy[p].day
    BY <1>4, <2>1, TakeType DEF Bet
  <2>3. Take(copy[p], s) # NoRow BY <2>1, <2>2, InDated
  <2>4. Total(copy[p]) \in Int BY <2>1 DEF Total, Wallets
  <2>5. 0 - s \in Int /\ Total(Take(copy[p], s)) = Total(copy[p]) + (0 - s)
    BY <2>1, <2>2, <2>4
  <2>6. QED BY <1>4, <2>1, <2>2, <2>3, <2>5, CommitHeld DEF Bet
<1>5. ASSUME NEW p \in Writers, NEW a \in Payouts, Credit(p, a) PROVE Held'
  <2>1. copy[p] \in Wallets /\ a \in Nat /\ a \in Int /\ pc[p] = "in"
    BY <1>0, <1>5, CreditAssumption DEF TypeOK, Credit
  <2> DEFINE w == [copy[p] EXCEPT !.winnings = @ + a]
  <2>2. w \in Wallets /\ Total(w) = Total(copy[p]) + a BY <2>1, CreditType
  <2>3. w.day = copy[p].day BY <2>1 DEF Wallets
  <2>4. w # NoRow BY <2>1, <2>3, InDated
  <2>5. Commit(p, w, a) /\ UNCHANGED <<today, pc>> BY <1>5 DEF Credit
  <2> HIDE DEF w
  <2>6. QED BY <2>1, <2>2, <2>3, <2>4, <2>5, CommitHeld
<1>6. CASE Midnight
  <2>1. UNCHANGED <<row, pc, copy, due>> /\ today' = today + 1 BY <1>6 DEF Midnight
  <2>2. today \in Int /\ \A u \in Users : row[u].day \in Int
    BY <1>0 DEF TypeOK, Wallets
  <2>3. \A p \in Writers : copy[p].day \in Int BY <1>0 DEF TypeOK, Wallets
  <2>4. QED BY <1>0, <2>1, <2>2, <2>3 DEF Held, HeldBy, Accounted, RowsDated
<1>7. CASE UNCHANGED vars BY <1>0, <1>7 DEF vars, Held, HeldBy, Accounted, RowsDated
<1>8. QED BY <1>1, <1>2, <1>3, <1>4, <1>5, <1>6, <1>7 DEF Next

\* Accounted, of any wallets with one writer each and no failing statement: the
\* database holds what every bet, credit and allowance adds up to.
THEOREM OneWriterAccounted ==
  ASSUME OneWriter, ~Faults
  PROVE  Spec => []Accounted
<1>1. Init => Held BY HeldInit
<1>2. Held /\ [Next]_vars => Held' BY HeldStep
<1>3. Held => Accounted BY DEF Held
<1>4. QED BY <1>1, <1>2, <1>3, PTL DEF Spec

-----------------------------------------------------------------------------
(* The refinement of AtomicWallet.                                         *)

LEMMA AtomicInit == Init => Promise!Init
BY DEF Init, Promise!Init, NoRow, Promise!NoAccount

\* What a committed copy does to the row of its user.
LEMMA CommitRow ==
  ASSUME Held, ~Faults, NEW p \in Writers, pc[p] = "in", NEW w, NEW d, Commit(p, w, d)
  PROVE  /\ Owner[p] \in Users
         /\ copy[p] = row[Owner[p]]
         /\ row[Owner[p]] # Promise!NoAccount
         /\ row' = [row EXCEPT ![Owner[p]] = w]
BY OwnerAssumption DEF Held, HeldBy, Commit, Persist, NoRow, Promise!NoAccount

LEMMA AtomicStep ==
  ASSUME OneWriter, ~Faults
  PROVE  Held /\ [Next]_vars => [Promise!Next]_row
<1> SUFFICES ASSUME Held, [Next]_vars PROVE [Promise!Next]_row
  OBVIOUS
<1>0. TypeOK BY DEF Held
<1>1. ASSUME NEW p \in Writers, Load(p) PROVE [Promise!Next]_row
  <2> DEFINE u == Owner[p]
  <2>1. u \in Users /\ today \in 0 .. MaxDay /\ row' = [row EXCEPT ![u] = Created(u)]
    BY <1>0, <1>1, OwnerAssumption DEF TypeOK, Load
  <2>2. CASE row[u] # NoRow
    <3>1. Created(u) = row[u] BY <2>2 DEF Created
    <3>2. row' = row BY <1>0, <2>1, <3>1 DEF TypeOK
    <3>3. QED BY <3>2
  <2>3. CASE row[u] = NoRow
    <3>1. Created(u) = [daily |-> Allowance, winnings |-> 0, day |-> today] BY <2>3 DEF Created
    <3>2. row[u].winnings = 0 /\ row[u].day = -1 BY <2>3 DEF NoRow
    <3>3. row[u].day < today BY <2>1, <3>2, BoundAssumption
    <3>4. Created(u) = [daily |-> Allowance, winnings |-> row[u].winnings, day |-> today]
      BY <3>1, <3>2
    <3>5. Promise!Grant(u) BY <2>1, <3>3, <3>4 DEF Promise!Grant
    <3>6. QED BY <2>1, <3>5 DEF Promise!Next
  <2>4. QED BY <2>2, <2>3
<1>2. ASSUME NEW p \in Writers, WriteRefresh(p) PROVE [Promise!Next]_row
  <2> DEFINE u == Owner[p]
  <2>1. /\ u \in Users /\ pc[p] = "refresh" /\ row' = [row EXCEPT ![u] = copy[p]]
    BY <1>2, OwnerAssumption DEF WriteRefresh, Persist
  <2>2. /\ copy[p] = [daily |-> Allowance, winnings |-> row[u].winnings, day |-> copy[p].day]
        /\ row[u].day < copy[p].day /\ copy[p].day >= 0
    BY <2>1 DEF Held, HeldBy
  <2>3. copy[p].day \in -1 .. MaxDay BY <1>0 DEF TypeOK, Wallets
  <2> DEFINE d == copy[p].day
  <2>4. d \in 0 .. MaxDay BY <2>2, <2>3, BoundAssumption
  <2>5. row' = [row EXCEPT ![u] = [daily |-> Allowance, winnings |-> row[u].winnings, day |-> d]]
    BY <2>1, <2>2
  <2>6. row[u].day < d BY <2>2
  <2> HIDE DEF d
  <2>7. Promise!Grant(u) BY <2>4, <2>5, <2>6 DEF Promise!Grant
  <2>8. QED BY <2>1, <2>7 DEF Promise!Next
<1>3. ASSUME NEW p \in Writers, Leave(p) PROVE [Promise!Next]_row BY <1>3 DEF Leave
<1>4. ASSUME NEW p \in Writers, NEW s \in Stakes, Bet(p, s) PROVE [Promise!Next]_row
  <2> DEFINE u == Owner[p]
  <2>1. /\ u \in Users /\ copy[p] = row[u] /\ row[u] # Promise!NoAccount
        /\ row' = [row EXCEPT ![u] = Take(copy[p], s)]
    BY <1>4, CommitRow DEF Bet
  <2>2. s <= row[u].daily + row[u].winnings BY <1>4, <2>1 DEF Bet, Total
  <2>3. Take(copy[p], s) = Promise!Take(row[u], s) BY <2>1 DEF Take, Promise!Take
  <2>4. Promise!Bet(u) BY <2>1, <2>2, <2>3 DEF Promise!Bet
  <2>5. QED BY <2>1, <2>4 DEF Promise!Next
<1>5. ASSUME NEW p \in Writers, NEW a \in Payouts, Credit(p, a) PROVE [Promise!Next]_row
  <2> DEFINE u == Owner[p]
             w == [copy[p] EXCEPT !.winnings = @ + a]
  <2>1. Commit(p, w, a) /\ pc[p] = "in" BY <1>5 DEF Credit
  <2> HIDE DEF w
  <2>2. /\ u \in Users /\ copy[p] = row[u] /\ row[u] # Promise!NoAccount
        /\ row' = [row EXCEPT ![u] = w]
    BY <2>1, CommitRow
  <2>3. w = [row[u] EXCEPT !.winnings = @ + a] BY <2>2 DEF w
  <2>4. row' = [row EXCEPT ![u].winnings = @ + a] BY <2>2, <2>3, Zenon
  <2>5. Promise!Credit(u) BY <2>2, <2>4, Zenon DEF Promise!Credit
  <2>6. QED BY <2>2, <2>5 DEF Promise!Next
<1>6. CASE Midnight BY <1>6 DEF Midnight
<1>7. CASE UNCHANGED vars BY <1>7 DEF vars
<1>8. QED BY <1>1, <1>2, <1>3, <1>4, <1>5, <1>6, <1>7 DEF Next

\* AtomicPerCall, of any wallets with one writer each and no failing statement: the
\* rows change as the accounts of AtomicWallet do, each bet and credit on the
\* balance of that moment (wallet.go; the comment at coordinator.go:70).
THEOREM OneWriterIsAtomic ==
  ASSUME OneWriter, ~Faults
  PROVE  Spec => AtomicPerCall
<1>1. Init => Held /\ Promise!Init BY HeldInit, AtomicInit
<1>2. Held /\ [Next]_vars => Held' /\ [Promise!Next]_row BY HeldStep, AtomicStep
<1>3. QED BY <1>1, <1>2, PTL DEF Spec, AtomicPerCall, Promise!Spec

-----------------------------------------------------------------------------
\* Sequences of whatever elements.
IsSeq(s) == \E S : s \in Seq(S)

LEMMA AppendSeq ==
  ASSUME NEW s, IsSeq(s), NEW e
  PROVE  /\ IsSeq(Append(s, e))
         /\ DOMAIN Append(s, e) = 1 .. Len(s) + 1
         /\ DOMAIN s = 1 .. Len(s) /\ Len(s) \in Nat
         /\ \A i \in DOMAIN s : i \in DOMAIN Append(s, e) /\ Append(s, e)[i] = s[i]
         /\ Append(s, e)[Len(s) + 1] = e
<1>1. PICK S : s \in Seq(S)
  BY DEF IsSeq
<1> DEFINE T == S \cup {e}
<1>2. s \in Seq(T) /\ e \in T
  BY <1>1
<1>3. Append(s, e) \in Seq(T)
  BY <1>2
<1> QED
  BY <1>2, <1>3 DEF IsSeq

LEMMA ExceptSeqAt ==
  ASSUME NEW s, IsSeq(s), NEW i, NEW e
  PROVE  IsSeq([s EXCEPT ![i] = e]) /\ DOMAIN [s EXCEPT ![i] = e] = DOMAIN s
<1>1. PICK S : s \in Seq(S)
  BY DEF IsSeq
<1> DEFINE T == S \cup {e}
           x == [s EXCEPT ![i] = e]
<1>2. s \in Seq(T) /\ e \in T
  BY <1>1
<1>3. DOMAIN s = 1 .. Len(s) /\ Len(s) \in Nat
  BY <1>2
<1>4. s \in [1 .. Len(s) -> T]
  BY <1>2, LenProperties
<1>5. x \in [1 .. Len(s) -> T]
  BY <1>2, <1>4
<1>6. x \in Seq(T)
  <2>1. CASE i \in 1 .. Len(s)
    BY <1>2, <2>1, ExceptSeq
  <2>2. CASE i \notin 1 .. Len(s)
    <3>1. x = s
      BY <1>4, <2>2
    <3> QED
      BY <1>2, <3>1
  <2> QED
    BY <2>1, <2>2
<1> QED
  BY <1>3, <1>5, <1>6 DEF IsSeq

-----------------------------------------------------------------------------
HallFields == {"mode", "tbl", "sub", "snap", "copy", "row", "call", "got", "waits", "late", "rejected"}
IsHall(h) == h = [f \in HallFields |-> h[f]]
IsSub(x) == x = [f \in {"tbl", "user", "open", "buf"} |-> x[f]] /\ x.open \in BOOLEAN

(* What a screen h finds among the subscriptions ss. One that it took before  *)
(* it came into the lobby is of a table that turned the user away.            *)
AtRest(h) == h.mode \in {"acting", "leaving"} \/ (h.mode = "table" /\ h.call \notin {"sit", "answered"})
HallOk(h, ss) ==
  /\ IsHall(h) /\ IsSeq(h.late) /\ h.sub \in 0 .. Len(ss)
  /\ h.call = "first" => h.mode = "lobby" /\ h.got \in 1 .. Len(ss)
  /\ h.mode = "lobby" /\ h.sub # 0 => h.rejected
  /\ h.mode \in {"table", "acting", "leaving"} /\ h.sub # 0 => (ss[h.sub].tbl = h.tbl \/ h.rejected)
  /\ AtRest(h) => h.sub # 0 /\ (ss[h.sub].open => h.sub \in h.waits \/ h.late # <<>>)

SubsOk(ss) == IsSeq(ss) /\ \A i \in 1 .. Len(ss) : IsSub(ss[i])

WatchInv ==
  /\ SubsOk(subs)
  /\ DOMAIN halls = Players
  /\ \A u \in Players : HallOk(halls[u], subs)

\* Subscriptions come, are closed and filled, and never change their table.
Later(ss, tt) ==
  /\ SubsOk(tt) /\ Len(ss) <= Len(tt)
  /\ \A i \in 1 .. Len(ss) : tt[i].tbl = ss[i].tbl /\ (tt[i].open => ss[i].open)

LEMMA AwayIsHall ==
  /\ IsHall(Away) /\ Away.mode = "away" /\ Away.call = "none" /\ Away.sub = 0 /\ Away.row = NoOne
  /\ Away.late = <<>>
BY DEF Away, IsHall, HallFields

LEMMA AwayIsOk ==
  ASSUME NEW ss, Len(ss) \in Nat PROVE HallOk(Away, ss)
<1>1. IsSeq(<<>>)
  <2>1. <<>> \in Seq({})
    OBVIOUS
  <2> QED
    BY <2>1 DEF IsSeq
<1> QED
  BY <1>1, AwayIsHall DEF HallOk, AtRest

LEMMA SeqLen ==
  ASSUME NEW s, IsSeq(s)
  PROVE  Len(s) \in Nat /\ DOMAIN s = 1 .. Len(s)
BY LenProperties DEF IsSeq

LEMMA LaterHall ==
  ASSUME NEW h, NEW ss, NEW tt, SubsOk(ss), Later(ss, tt), HallOk(h, ss)
  PROVE  HallOk(h, tt)
<1>1. Len(ss) \in Nat /\ Len(tt) \in Nat /\ Len(ss) <= Len(tt)
  BY SeqLen DEF Later, SubsOk
<1>2. h.sub \in 0 .. Len(tt) /\ (h.sub # 0 => h.sub \in 1 .. Len(ss))
  BY <1>1 DEF HallOk
<1>3. h.call = "first" => h.got \in 1 .. Len(tt)
  BY <1>1 DEF HallOk
<1>4. h.sub # 0 => ss[h.sub].tbl = tt[h.sub].tbl /\ (tt[h.sub].open => ss[h.sub].open)
  BY <1>2 DEF Later
<1> QED
  BY <1>2, <1>3, <1>4 DEF HallOk

\* A screen that differs in what HallOk does not speak of.
LEMMA SameHall ==
  ASSUME NEW g, NEW h, NEW ss, HallOk(g, ss), IsHall(h),
         h.mode = g.mode, h.tbl = g.tbl, h.sub = g.sub, h.call = g.call, h.got = g.got,
         h.waits = g.waits, h.late = g.late, h.rejected = g.rejected
  PROVE  HallOk(h, ss)
BY DEF HallOk, AtRest

LEMMA SubsLater ==
  ASSUME SubsOk(subs), subs' = subs
  PROVE  Later(subs, subs')
<1>1. Len(subs) \in Nat
  BY SeqLen DEF SubsOk
<1> QED
  BY <1>1 DEF Later

\* One screen changes.
LEMMA OneHall ==
  ASSUME WatchInv, Later(subs, subs'), NEW u \in Players, NEW h,
         halls' = [halls EXCEPT ![u] = h], HallOk(h, subs')
  PROVE  WatchInv'
<1>1. \A v \in Players : v # u => HallOk(halls[v], subs')
  BY LaterHall DEF WatchInv
<1> QED
  BY <1>1 DEF WatchInv, Later

LEMMA NoHall ==
  ASSUME WatchInv, Later(subs, subs'), halls' = halls
  PROVE  WatchInv'
BY LaterHall DEF WatchInv, Later

LEMMA SubsAppended ==
  ASSUME SubsOk(subs), NEW x, IsSub(x), subs' = Append(subs, x)
  PROVE  /\ Later(subs, subs') /\ NewSub \in 1 .. Len(subs') /\ NewSub # 0 /\ Len(subs') = Len(subs) + 1
         /\ subs'[NewSub] = x
<1>1. /\ IsSeq(subs') /\ DOMAIN subs' = 1 .. Len(subs) + 1 /\ Len(subs) \in Nat
      /\ DOMAIN subs = 1 .. Len(subs)
      /\ \A i \in DOMAIN subs : i \in DOMAIN subs' /\ subs'[i] = subs[i]
      /\ subs'[Len(subs) + 1] = x
  BY AppendSeq DEF SubsOk
<1>2. Len(subs') = Len(subs) + 1
  BY <1>1, SeqLen
<1>3. SubsOk(subs')
  <2> SUFFICES ASSUME NEW i \in 1 .. Len(subs') PROVE IsSub(subs'[i])
    BY <1>1 DEF SubsOk
  <2>1. i \in DOMAIN subs \/ i = Len(subs) + 1
    BY <1>1, <1>2
  <2> QED
    BY <1>1, <2>1 DEF SubsOk
<1>4. NewSub = Len(subs) + 1
  BY DEF NewSub
<1>5. NewSub \in 1 .. Len(subs') /\ NewSub # 0 /\ Len(subs) <= Len(subs')
  BY <1>1, <1>2, <1>4
<1> QED
  BY <1>1, <1>2, <1>3, <1>4, <1>5 DEF Later

\* A subscription is closed, or its buffer changes.
LEMMA SubChanged ==
  ASSUME SubsOk(subs), NEW s, NEW x, subs' = [subs EXCEPT ![s] = x],
         s \in DOMAIN subs => IsSub(x) /\ x.tbl = subs[s].tbl /\ (x.open => subs[s].open)
  PROVE  Later(subs, subs')
<1>1. IsSeq(subs') /\ DOMAIN subs' = DOMAIN subs
  BY ExceptSeqAt DEF SubsOk
<1>2. Len(subs) \in Nat /\ DOMAIN subs = 1 .. Len(subs) /\ Len(subs') \in Nat /\ DOMAIN subs' = 1 .. Len(subs')
  BY <1>1, SeqLen DEF SubsOk
<1>3. Len(subs') = Len(subs)
  BY <1>1, <1>2
<1>4. \A i \in 1 .. Len(subs) : subs'[i] = IF i = s THEN x ELSE subs[i]
  BY <1>2
<1> QED
  BY <1>1, <1>2, <1>3, <1>4 DEF Later, SubsOk
-----------------------------------------------------------------------------
LEMMA ReplyKeeps ==
  ASSUME WatchInv, subs' = subs, NEW u, NEW x, halls' = Replied(u, x)
  PROVE  WatchInv'
<1> DEFINE h == [halls[u] EXCEPT !.call = "answered", !.got = x]
<1>1. Later(subs, subs')
  BY SubsLater DEF WatchInv
<1>2. CASE u \in Players
  <2>1. halls' = [halls EXCEPT ![u] = h]
    BY DEF Replied
  <2>2. HallOk(halls[u], subs)
    BY <1>2 DEF WatchInv
  <2>3. /\ IsHall(h) /\ h.mode = halls[u].mode /\ h.tbl = halls[u].tbl /\ h.sub = halls[u].sub
        /\ h.call = "answered" /\ h.waits = halls[u].waits /\ h.late = halls[u].late
        /\ h.rejected = halls[u].rejected
    BY <2>2 DEF HallOk, IsHall, HallFields
  <2> HIDE DEF h
  <2>4. HallOk(h, subs')
    BY <2>2, <2>3 DEF HallOk, AtRest
  <2> QED
    BY <1>1, <1>2, <2>1, <2>4, OneHall
<1>3. CASE u \notin Players
  <2>1. DOMAIN halls' = Players /\ \A v \in Players : halls'[v] = halls[v]
    BY <1>3 DEF Replied, WatchInv
  <2> QED
    BY <2>1 DEF WatchInv
<1> QED
  BY <1>2, <1>3

LEMMA ProcessKeeps ==
  ASSUME WatchInv, NEW t, Process(t)
  PROVE  WatchInv'
<1> DEFINE c == Head(tables[t].queue)
<1>1. subs' = subs
  BY DEF Process
<1>2. CASE c.kind \in {"sit", "stand", "action"}
  <2>1. \E u, x : halls' = Replied(u, x)
    <3>1. CASE c.kind = "sit" /\ SitProcessed(t, c)
      BY <3>1 DEF SitProcessed
    <3>2. CASE c.kind = "stand" /\ StandProcessed(t, c)
      BY <3>2 DEF StandProcessed
    <3>3. CASE c.kind = "action" /\ ActionProcessed(t, c)
      BY <3>3 DEF ActionProcessed
    <3> QED
      BY <1>2, <3>1, <3>2, <3>3 DEF Process
  <2> QED
    BY <1>1, <2>1, ReplyKeeps
<1>3. CASE c.kind \in {"start", "snap"}
  <2>1. halls' = halls
    BY <1>3 DEF Process, StartHandProcessed, SnapshotProcessed
  <2> QED
    BY <1>1, <2>1, NoHall, SubsLater DEF WatchInv
<1> QED
  BY <1>2, <1>3 DEF Process

\* A snapshot is sent, into an open buffer or none.
LEMMA SentKeeps ==
  ASSUME WatchInv, halls' = halls, NEW s, NEW seated, Sent(s, seated)
  PROVE  WatchInv'
<1>1. CASE subs' = subs
  BY <1>1, NoHall, SubsLater DEF WatchInv
<1>2. CASE subs' = [subs EXCEPT ![s].buf = Append(@, seated)]
  <2> DEFINE x == [subs[s] EXCEPT !.buf = Append(@, seated)]
  <2>1. s \in DOMAIN subs => IsSub(x) /\ x.tbl = subs[s].tbl /\ (x.open => subs[s].open)
    BY SeqLen DEF WatchInv, SubsOk, IsSub
  <2>2. subs' = [subs EXCEPT ![s] = x]
    BY <1>2
  <2> HIDE DEF x
  <2>3. Later(subs, subs')
    BY <2>1, <2>2, SubChanged DEF WatchInv
  <2> QED
    BY <2>3, NoHall
<1> QED
  BY <1>1, <1>2 DEF Sent

LEMMA DealingKeeps ==
  ASSUME WatchInv, Dealing
  PROVE  WatchInv'
<1>1. CASE Push
  <2>1. halls' = halls /\ \E s, seated : Sent(s, seated)
    BY <1>1 DEF Push
  <2> QED
    BY <2>1, SentKeeps
<1>2. CASE AskSnapshot \/ TimerFires
  <2>1. halls' = halls /\ subs' = subs
    BY <1>2 DEF AskSnapshot, TimerFires
  <2> QED
    BY <2>1, NoHall, SubsLater DEF WatchInv
<1>3. ASSUME NEW t \in TableIds, Process(t) PROVE WatchInv'
  BY <1>3, ProcessKeeps
<1>4. ASSUME NEW t \in TableIds, Send(t) PROVE WatchInv'
  <2>1. halls' = halls /\ \E s, seated : Sent(s, seated)
    BY <1>4 DEF Send
  <2> QED
    BY <2>1, SentKeeps
<1> QED
  BY <1>1, <1>2, <1>3, <1>4 DEF Dealing

-----------------------------------------------------------------------------
LEMMA OpenHallKeeps ==
  ASSUME WatchInv, NEW u \in Players, OpenHall(u)
  PROVE  WatchInv'
<1> DEFINE h == [Away EXCEPT !.mode = "lobby", !.waits = halls[u].waits, !.late = halls[u].late]
<1>1. halls' = [halls EXCEPT ![u] = h] /\ subs' = subs
  BY DEF OpenHall
<1>2. IsHall(h) /\ h.mode = "lobby" /\ h.sub = 0 /\ h.call = "none" /\ h.late = halls[u].late
  BY DEF Away, IsHall, HallFields
<1>3. IsSeq(halls[u].late) /\ Len(subs) \in Nat
  BY SeqLen DEF WatchInv, SubsOk, HallOk
<1> HIDE DEF h
<1>4. HallOk(h, subs')
  BY <1>1, <1>2, <1>3 DEF HallOk, AtRest
<1> QED
  BY <1>1, <1>4, OneHall, SubsLater DEF WatchInv

LEMMA JoinKeeps ==
  ASSUME WatchInv, NEW u \in Players, NEW t, NEW ts, AtLobby(u), Join(u, t, ts)
  PROVE  WatchInv'
<1>0. HallOk(halls[u], subs) /\ halls[u].mode = "lobby"
  BY DEF WatchInv, AtLobby
<1>1. CASE halls[u].snap = 0
  <2> DEFINE x == Subscribed(u, t)
             h == [halls[u] EXCEPT !.tbl = t, !.mode = "table", !.call = "sit", !.sub = NewSub, !.rejected = FALSE]
  <2>1. subs' = Append(subs, x) /\ halls' = [halls EXCEPT ![u] = h]
    BY <1>1 DEF Join
  <2>2. IsSub(x) /\ x.tbl = t
    BY DEF IsSub, Subscribed
  <2>3. IsHall(h) /\ h.mode = "table" /\ h.tbl = t /\ h.call = "sit" /\ h.sub = NewSub /\ h.late = halls[u].late
    BY <1>0 DEF HallOk, IsHall, HallFields
  <2> HIDE DEF x, h
  <2>4. /\ Later(subs, subs') /\ NewSub \in 1 .. Len(subs') /\ NewSub # 0 /\ subs'[NewSub] = x
    BY <2>1, <2>2, SubsAppended DEF WatchInv
  <2>5. HallOk(h, subs')
    BY <1>0, <2>2, <2>3, <2>4 DEF HallOk, AtRest
  <2> QED
    BY <2>1, <2>4, <2>5, OneHall
<1>2. CASE halls[u].snap # 0
  <2> DEFINE h == [halls[u] EXCEPT !.tbl = t, !.mode = "table", !.call = "sit"]
  <2>1. subs' = subs /\ halls' = [halls EXCEPT ![u] = h]
    BY <1>2 DEF Join
  <2>2. /\ IsHall(h) /\ h.mode = "table" /\ h.call = "sit" /\ h.sub = halls[u].sub /\ h.late = halls[u].late
        /\ h.rejected = halls[u].rejected
    BY <1>0 DEF HallOk, IsHall, HallFields
  <2> HIDE DEF h
  <2>3. HallOk(h, subs')
    BY <1>0, <2>1, <2>2 DEF HallOk, AtRest
  <2> QED
    BY <2>1, <2>3, OneHall, SubsLater DEF WatchInv
<1> QED
  BY <1>1, <1>2

LEMMA JoinedKeeps ==
  ASSUME WatchInv, NEW u \in Players, Joined(u)
  PROVE  WatchInv'
<1> DEFINE old == halls[u]
           h == [old EXCEPT !.call = "none", !.got = 0]
<1>0. HallOk(old, subs) /\ old.mode = "table" /\ old.call = "answered"
  BY DEF WatchInv, Joined
<1>1. /\ IsHall(h) /\ h.mode = "table" /\ h.call = "none" /\ h.sub = old.sub /\ h.late = old.late
      /\ h.rejected = old.rejected /\ h.tbl = old.tbl /\ h.waits = old.waits
  BY <1>0 DEF HallOk, IsHall, HallFields
<1>2. /\ old.got = 0 => halls' = [halls EXCEPT ![u] = [h EXCEPT !.mode = "lobby", !.rejected = h.sub # 0]]
                         /\ subs' = subs
      /\ old.got # 0 /\ h.sub # 0 =>
            halls' = [halls EXCEPT ![u] = [h EXCEPT !.waits = @ \union {h.sub}]] /\ subs' = subs
      /\ old.got # 0 /\ h.sub = 0 =>
            /\ subs' = Append(subs, Subscribed(u, h.tbl))
            /\ halls' = [halls EXCEPT ![u] = [h EXCEPT !.sub = NewSub, !.waits = @ \union {NewSub}]]
  BY DEF Joined
<1> HIDE DEF h
<1>3. CASE old.got = 0
  <2> DEFINE g == [h EXCEPT !.mode = "lobby", !.rejected = h.sub # 0]
  <2>1. /\ IsHall(g) /\ g.mode = "lobby" /\ g.call = "none" /\ g.sub = h.sub /\ g.late = h.late
        /\ g.rejected = (h.sub # 0)
    BY <1>1 DEF IsHall, HallFields
  <2>2. halls' = [halls EXCEPT ![u] = g] /\ subs' = subs
    BY <1>2, <1>3
  <2> HIDE DEF g
  <2>3. HallOk(g, subs')
    BY <1>0, <1>1, <2>1, <2>2 DEF HallOk, AtRest
  <2> QED
    BY <2>2, <2>3, OneHall, SubsLater DEF WatchInv
<1>4. CASE old.got # 0 /\ h.sub # 0
  <2> DEFINE g == [h EXCEPT !.waits = @ \union {h.sub}]
  <2>1. /\ IsHall(g) /\ g.mode = "table" /\ g.call = "none" /\ g.sub = h.sub /\ g.late = h.late
        /\ g.rejected = h.rejected /\ g.tbl = h.tbl /\ g.waits = h.waits \union {h.sub}
    BY <1>1 DEF IsHall, HallFields
  <2>2. halls' = [halls EXCEPT ![u] = g] /\ subs' = subs
    BY <1>2, <1>4
  <2> HIDE DEF g
  <2>3. HallOk(g, subs')
    BY <1>0, <1>1, <1>4, <2>1, <2>2 DEF HallOk, AtRest
  <2> QED
    BY <2>2, <2>3, OneHall, SubsLater DEF WatchInv
<1>5. CASE old.got # 0 /\ h.sub = 0
  <2> DEFINE g == [h EXCEPT !.sub = NewSub, !.waits = @ \union {NewSub}]
             x == Subscribed(u, h.tbl)
  <2>1. /\ IsHall(g) /\ g.mode = "table" /\ g.call = "none" /\ g.sub = NewSub /\ g.late = h.late
        /\ g.tbl = h.tbl /\ g.waits = h.waits \union {NewSub}
    BY <1>1 DEF IsHall, HallFields
  <2>2. IsSub(x) /\ x.tbl = h.tbl
    BY DEF IsSub, Subscribed
  <2>3. halls' = [halls EXCEPT ![u] = g] /\ subs' = Append(subs, x)
    BY <1>2, <1>5
  <2> HIDE DEF g, x
  <2>4. Later(subs, subs') /\ NewSub \in 1 .. Len(subs') /\ NewSub # 0 /\ subs'[NewSub] = x
    BY <2>2, <2>3, SubsAppended DEF WatchInv
  <2>5. HallOk(g, subs')
    BY <1>0, <1>1, <2>1, <2>2, <2>4 DEF HallOk, AtRest
  <2> QED
    BY <2>3, <2>4, <2>5, OneHall
<1> QED
  BY <1>3, <1>4, <1>5

\* The steps of a screen at its table that no subscription changes.
LEMMA AtTableKeeps ==
  ASSUME WatchInv, NEW u \in Players, Act(u) \/ LeaveTable(u) \/ Acted(u)
  PROVE  WatchInv'
<1>0. HallOk(halls[u], subs) /\ subs' = subs
  BY DEF WatchInv, Act, LeaveTable, Acted, AskTable
<1>1. ASSUME NEW kind, NEW mode \in {"acting", "leaving"}, AtTable(u), AskTable(u, kind, mode),
             kind \in {"action", "stand"}
      PROVE  WatchInv'
  <2> DEFINE h == [halls[u] EXCEPT !.call = kind, !.mode = mode]
  <2>1. halls' = [halls EXCEPT ![u] = h] /\ halls[u].mode = "table" /\ halls[u].call = "none"
    BY <1>1 DEF AskTable, AtTable
  <2>2. /\ IsHall(h) /\ h.mode = mode /\ h.call = kind /\ h.sub = halls[u].sub /\ h.late = halls[u].late
        /\ h.rejected = halls[u].rejected /\ h.tbl = halls[u].tbl /\ h.waits = halls[u].waits
    BY <1>0 DEF HallOk, IsHall, HallFields
  <2> HIDE DEF h
  <2>3. HallOk(h, subs')
    BY <1>0, <1>1, <2>1, <2>2 DEF HallOk, AtRest
  <2> QED
    BY <1>0, <2>1, <2>3, OneHall, SubsLater DEF WatchInv
<1>2. CASE Acted(u)
  <2> DEFINE h == [halls[u] EXCEPT !.call = "none", !.mode = "table", !.got = 0]
  <2>1. halls' = [halls EXCEPT ![u] = h] /\ halls[u].mode = "acting"
    BY <1>2 DEF Acted
  <2>2. /\ IsHall(h) /\ h.mode = "table" /\ h.call = "none" /\ h.sub = halls[u].sub /\ h.late = halls[u].late
        /\ h.rejected = halls[u].rejected /\ h.tbl = halls[u].tbl /\ h.waits = halls[u].waits
    BY <1>0 DEF HallOk, IsHall, HallFields
  <2> HIDE DEF h
  <2>3. HallOk(h, subs')
    BY <1>0, <2>1, <2>2 DEF HallOk, AtRest
  <2> QED
    BY <1>0, <2>1, <2>3, OneHall, SubsLater DEF WatchInv
<1> QED
  BY <1>1, <1>2 DEF Act, LeaveTable

\* Subscription s is closed.
LEMMA SubClosed ==
  ASSUME SubsOk(subs), NEW s, subs' = [subs EXCEPT ![s].open = FALSE]
  PROVE  Later(subs, subs')
<1> DEFINE x == [subs[s] EXCEPT !.open = FALSE]
<1>1. s \in DOMAIN subs => IsSub(x) /\ x.tbl = subs[s].tbl /\ (x.open => subs[s].open)
  BY SeqLen DEF SubsOk, IsSub
<1>2. subs' = [subs EXCEPT ![s] = x]
  OBVIOUS
<1> HIDE DEF x
<1> QED
  BY <1>1, <1>2, SubChanged

\* A snapshot is taken from the buffer of subscription s.
LEMMA SubRead ==
  ASSUME SubsOk(subs), NEW s, subs' = [subs EXCEPT ![s].buf = Tail(@)]
  PROVE  Later(subs, subs')
<1> DEFINE x == [subs[s] EXCEPT !.buf = Tail(@)]
<1>1. s \in DOMAIN subs => IsSub(x) /\ x.tbl = subs[s].tbl /\ (x.open => subs[s].open)
  BY SeqLen DEF SubsOk, IsSub
<1>2. subs' = [subs EXCEPT ![s] = x]
  OBVIOUS
<1> HIDE DEF x
<1> QED
  BY <1>1, <1>2, SubChanged

LEMMA LeftKeeps ==
  ASSUME WatchInv, NEW u \in Players, Left(u)
  PROVE  WatchInv'
<1> DEFINE h == [halls[u] EXCEPT !.mode = "lobby", !.call = "none", !.got = 0, !.tbl = 0, !.sub = 0,
                                 !.snap = 0, !.rejected = FALSE]
<1>0. HallOk(halls[u], subs)
  BY DEF WatchInv
<1>1. halls' = [halls EXCEPT ![u] = h] /\ subs' = [subs EXCEPT ![halls[u].sub].open = FALSE]
  BY DEF Left
<1>2. IsHall(h) /\ h.mode = "lobby" /\ h.call = "none" /\ h.sub = 0 /\ h.late = halls[u].late
  BY <1>0 DEF HallOk, IsHall, HallFields
<1> HIDE DEF h
<1>3. Later(subs, subs')
  BY <1>1, SubClosed DEF WatchInv
<1>4. HallOk(h, subs')
  <2>1. Len(subs') \in Nat
    BY <1>3, SeqLen DEF Later, SubsOk
  <2> QED
    BY <1>0, <1>2, <2>1 DEF HallOk, AtRest
<1> QED
  BY <1>1, <1>3, <1>4, OneHall

LEMMA RejoinKeeps ==
  ASSUME WatchInv, NEW u \in Players, NEW t, Rejoin(u, t)
  PROVE  WatchInv'
<1> DEFINE x == Subscribed(u, t)
           h == [halls[u] EXCEPT !.call = "first", !.got = NewSub]
<1>0. HallOk(halls[u], subs) /\ halls[u].mode = "lobby"
  BY DEF WatchInv, Rejoin, AtLobby
<1>1. halls' = [halls EXCEPT ![u] = h] /\ subs' = Append(subs, x)
  BY DEF Rejoin
<1>2. IsSub(x)
  BY DEF IsSub, Subscribed
<1>3. /\ IsHall(h) /\ h.mode = "lobby" /\ h.call = "first" /\ h.got = NewSub /\ h.sub = halls[u].sub
      /\ h.late = halls[u].late /\ h.rejected = halls[u].rejected
  BY <1>0 DEF HallOk, IsHall, HallFields
<1> HIDE DEF x, h
<1>4. Later(subs, subs') /\ NewSub \in 1 .. Len(subs') /\ Len(subs') = Len(subs) + 1 /\ Len(subs) \in Nat
  BY <1>1, <1>2, SubsAppended, SeqLen DEF WatchInv, SubsOk
<1>5. h.sub \in 0 .. Len(subs')
  BY <1>0, <1>3, <1>4 DEF HallOk
<1>6. HallOk(h, subs')
  BY <1>0, <1>3, <1>4, <1>5 DEF HallOk, AtRest
<1> QED
  BY <1>1, <1>4, <1>6, OneHall

LEMMA RejoinedKeeps ==
  ASSUME WatchInv, NEW u \in Players, Rejoined(u)
  PROVE  WatchInv'
<1> DEFINE old == halls[u]
           s == old.got
           h == [old EXCEPT !.call = "none", !.got = 0]
           g == [h EXCEPT !.mode = "table", !.tbl = subs[s].tbl, !.snap = subs[s].tbl, !.sub = s,
                          !.waits = @ \union {s}, !.rejected = FALSE]
<1>0. HallOk(old, subs) /\ old.call = "first" /\ old.mode = "lobby" /\ s \in 1 .. Len(subs) /\ Len(subs) \in Nat
  BY SeqLen DEF WatchInv, SubsOk, Rejoined, HallOk
<1>1. /\ IsHall(h) /\ h.mode = "lobby" /\ h.call = "none" /\ h.sub = old.sub /\ h.late = old.late
      /\ h.rejected = old.rejected
  BY <1>0 DEF HallOk, IsHall, HallFields
<1>2. \/ halls' = [halls EXCEPT ![u] = g] /\ subs' = [subs EXCEPT ![s].buf = Tail(@)]
      \/ halls' = [halls EXCEPT ![u] = h] /\ subs' = [subs EXCEPT ![s].open = FALSE]
  BY DEF Rejoined
<1> HIDE DEF h
<1>3. /\ IsHall(g) /\ g.mode = "table" /\ g.call = "none" /\ g.tbl = subs[s].tbl /\ g.sub = s
      /\ s \in g.waits /\ g.late = h.late
  BY <1>1 DEF IsHall, HallFields
<1> HIDE DEF g, s
<1>4. CASE halls' = [halls EXCEPT ![u] = g] /\ subs' = [subs EXCEPT ![s].buf = Tail(@)]
  <2>1. Later(subs, subs')
    BY <1>4, SubRead DEF WatchInv
  <2>2. s \in 1 .. Len(subs') /\ Len(subs') \in Nat /\ subs'[s].tbl = subs[s].tbl /\ s # 0
    BY <1>0, <2>1, SeqLen DEF Later, SubsOk
  <2>3. HallOk(g, subs')
    BY <1>0, <1>1, <1>3, <2>2 DEF HallOk, AtRest
  <2> QED
    BY <1>4, <2>1, <2>3, OneHall
<1>5. CASE halls' = [halls EXCEPT ![u] = h] /\ subs' = [subs EXCEPT ![s].open = FALSE]
  <2>1. Later(subs, subs')
    BY <1>5, SubClosed DEF WatchInv
  <2>2. HallOk(old, subs')
    BY <1>0, <2>1, LaterHall DEF WatchInv
  <2>3. HallOk(h, subs')
    BY <1>0, <1>1, <2>2 DEF HallOk, AtRest
  <2> QED
    BY <1>5, <2>1, <2>3, OneHall
<1> QED
  BY <1>2, <1>4, <1>5

LEMMA DisconnectKeeps ==
  ASSUME WatchInv, NEW u \in Players, Disconnect(u)
  PROVE  WatchInv'
<1>1. halls' = [halls EXCEPT ![u] = Away] /\ subs' = subs
  BY DEF Disconnect
<1>2. HallOk(Away, subs')
  <2>1. Len(subs) \in Nat
    BY SeqLen DEF WatchInv, SubsOk
  <2> QED
    BY <1>1, <2>1, AwayIsOk
<1> QED
  BY <1>1, <1>2, OneHall, SubsLater DEF WatchInv

LEMMA LeaveHallKeeps ==
  ASSUME WatchInv, NEW u \in Players, LeaveHall(u)
  PROVE  WatchInv'
<1> DEFINE h == [Away EXCEPT !.waits = halls[u].waits, !.late = halls[u].late]
<1>1. halls' = [halls EXCEPT ![u] = h] /\ subs' = subs
  BY DEF LeaveHall
<1>2. IsHall(h) /\ h.mode = "away" /\ h.sub = 0 /\ h.call = "none" /\ h.late = halls[u].late
  BY DEF Away, IsHall, HallFields
<1>3. IsSeq(halls[u].late) /\ Len(subs) \in Nat
  BY SeqLen DEF WatchInv, SubsOk, HallOk
<1> HIDE DEF h
<1>4. HallOk(h, subs')
  BY <1>1, <1>2, <1>3 DEF HallOk, AtRest
<1> QED
  BY <1>1, <1>4, OneHall, SubsLater DEF WatchInv

LEMMA WaitSnapKeeps ==
  ASSUME WatchInv, NEW u \in Players, NEW s \in halls[u].waits, WaitSnap(u, s)
  PROVE  WatchInv'
<1> DEFINE old == halls[u]
<1>0. HallOk(old, subs)
  BY DEF WatchInv
<1>1. CASE subs[s].buf # <<>>
  <2> DEFINE h == [old EXCEPT !.waits = @ \ {s}, !.late = Append(@, subs[s].tbl)]
  <2>1. subs' = [subs EXCEPT ![s].buf = Tail(@)] /\ halls' = [halls EXCEPT ![u] = h]
    BY <1>1 DEF WaitSnap
  <2>2. /\ IsHall(h) /\ h.mode = old.mode /\ h.call = old.call /\ h.got = old.got /\ h.sub = old.sub
        /\ h.tbl = old.tbl /\ h.rejected = old.rejected /\ h.late = Append(old.late, subs[s].tbl)
    BY <1>0 DEF HallOk, IsHall, HallFields
  <2> HIDE DEF h
  <2>3. Later(subs, subs')
    BY <2>1, SubRead DEF WatchInv
  <2>4. HallOk(old, subs')
    BY <1>0, <2>3, LaterHall DEF WatchInv
  <2>5. IsSeq(h.late) /\ h.late # <<>>
    <3>1. IsSeq(h.late) /\ DOMAIN h.late = 1 .. Len(old.late) + 1 /\ Len(old.late) \in Nat
      BY <1>0, <2>2, AppendSeq DEF HallOk
    <3>2. 1 \in DOMAIN h.late
      BY <3>1
    <3> QED
      BY <3>1, <3>2
  <2>6. HallOk(h, subs')
    BY <2>2, <2>4, <2>5 DEF HallOk, AtRest
  <2> QED
    BY <2>1, <2>3, <2>6, OneHall
<1>2. CASE subs[s].buf = <<>>
  <2> DEFINE h == [old EXCEPT !.waits = @ \ {s}]
  <2>1. subs' = subs /\ halls' = [halls EXCEPT ![u] = h] /\ ~subs[s].open
    BY <1>2 DEF WaitSnap
  <2>2. /\ IsHall(h) /\ h.mode = old.mode /\ h.call = old.call /\ h.got = old.got /\ h.sub = old.sub
        /\ h.tbl = old.tbl /\ h.rejected = old.rejected /\ h.late = old.late /\ h.waits = old.waits \ {s}
    BY <1>0 DEF HallOk, IsHall, HallFields
  <2> HIDE DEF h
  <2>3. HallOk(h, subs')
    BY <1>0, <2>1, <2>2 DEF HallOk, AtRest
  <2> QED
    BY <2>1, <2>3, OneHall, SubsLater DEF WatchInv
<1> QED
  BY <1>1, <1>2

LEMMA GotSnapKeeps ==
  ASSUME WatchInv, NEW u \in Players, GotSnap(u)
  PROVE  WatchInv'
<1> DEFINE old == halls[u]
           h == [old EXCEPT !.late = Tail(@), !.snap = IF old.mode = "away" THEN @ ELSE Head(old.late),
                            !.waits = IF old.sub = 0 THEN @ ELSE @ \union {old.sub}]
<1>0. HallOk(old, subs) /\ old.late # <<>>
  BY DEF WatchInv, GotSnap
<1>1. subs' = subs /\ halls' = [halls EXCEPT ![u] = h]
  BY DEF GotSnap
<1>2. /\ IsHall(h) /\ h.mode = old.mode /\ h.call = old.call /\ h.got = old.got /\ h.sub = old.sub
      /\ h.tbl = old.tbl /\ h.rejected = old.rejected /\ h.late = Tail(old.late)
      /\ old.sub # 0 => old.sub \in h.waits
  BY <1>0 DEF HallOk, IsHall, HallFields
<1> HIDE DEF h
<1>3. IsSeq(h.late)
  <2>1. PICK S : old.late \in Seq(S)
    BY <1>0 DEF HallOk, IsSeq
  <2>2. h.late \in Seq(S)
    BY <1>0, <1>2, <2>1, HeadTailProperties
  <2> QED
    BY <2>2 DEF IsSeq
<1>4. HallOk(h, subs')
  BY <1>0, <1>1, <1>2, <1>3 DEF HallOk, AtRest
<1> QED
  BY <1>1, <1>4, OneHall, SubsLater DEF WatchInv

LEMMA PaidKeeps ==
  ASSUME WatchInv, Paid
  PROVE  WatchInv'
<1>1. ASSUME NEW p \in payments, Pay(p) PROVE WatchInv'
  BY <1>1, NoHall, SubsLater DEF Pay, WatchInv
<1>2. ASSUME NEW p \in payments, PayFails(p) PROVE WatchInv'
  BY <1>2, NoHall, SubsLater DEF PayFails, WatchInv
<1>3. ASSUME NEW p \in payments, GotPayment(p), halls[p.user].mode = "away" PROVE WatchInv'
  BY <1>3, NoHall, SubsLater DEF GotPayment, WatchInv
<1>4. ASSUME NEW p \in payments, GotPayment(p), halls[p.user].mode # "away" PROVE WatchInv'
  <2> DEFINE u == p.user
             h == [halls[u] EXCEPT !.copy = p.copy, !.row = p.row]
  <2>1. halls' = [halls EXCEPT ![u] = h] /\ subs' = subs
    BY <1>4 DEF GotPayment
  <2>2. CASE u \in Players
    <3>0. HallOk(halls[u], subs)
      BY <2>2 DEF WatchInv
    <3>1. /\ IsHall(h) /\ h.mode = halls[u].mode /\ h.tbl = halls[u].tbl /\ h.sub = halls[u].sub
          /\ h.call = halls[u].call /\ h.got = halls[u].got /\ h.waits = halls[u].waits
          /\ h.late = halls[u].late /\ h.rejected = halls[u].rejected
      BY <3>0 DEF HallOk, IsHall, HallFields
    <3> HIDE DEF h
    <3>2. HallOk(h, subs')
      BY <2>1, <3>0, <3>1, SameHall
    <3> QED
      BY <2>1, <2>2, <3>2, OneHall, SubsLater DEF WatchInv
  <2>3. CASE u \notin Players
    <3>1. DOMAIN halls' = Players /\ \A v \in Players : halls'[v] = halls[v]
      BY <2>1, <2>3 DEF WatchInv
    <3> QED
      BY <2>1, <3>1 DEF WatchInv
  <2> QED
    BY <2>2, <2>3
<1> QED
  BY <1>1, <1>2, <1>3, <1>4 DEF Paid

LEMMA StoppingKeeps ==
  ASSUME WatchInv, Stopping
  PROVE  WatchInv'
<1>1. CASE Shutdown \/ SaveAsks \/ SaveWrites \/ Saved
  BY <1>1, NoHall, SubsLater DEF Shutdown, SaveAsks, SaveWrites, Saved, WatchInv
<1>2. CASE Restart
  <2>1. subs' = <<>> /\ halls' = [u \in Players |-> Away]
    BY <1>2 DEF Restart
  <2>2. IsSeq(<<>>) /\ Len(<<>>) = 0
    <3>1. <<>> \in Seq({})
      OBVIOUS
    <3> QED
      BY <3>1 DEF IsSeq
  <2>3. HallOk(Away, <<>>) /\ SubsOk(<<>>)
    BY <2>2, AwayIsOk DEF SubsOk
  <2> QED
    BY <2>1, <2>3 DEF WatchInv
<1>3. ASSUME NEW t \in TableIds, ActorStops(t) PROVE WatchInv'
  <2> DEFINE tt == [s \in DOMAIN subs |-> IF s \in Range(tables[t].subs) THEN [subs[s] EXCEPT !.open = FALSE]
                                          ELSE subs[s]]
  <2>1. subs' = tt /\ halls' = halls
    BY <1>3 DEF ActorStops
  <2>2. SubsOk(subs) /\ DOMAIN subs = 1 .. Len(subs) /\ Len(subs) \in Nat
    BY SeqLen DEF WatchInv, SubsOk
  <2>3. \A i \in 1 .. Len(subs) : IsSub(tt[i]) /\ tt[i].tbl = subs[i].tbl /\ (tt[i].open => subs[i].open)
    BY <2>2 DEF SubsOk, IsSub
  <2>4. IsSeq(tt) /\ Len(tt) = Len(subs)
    <3> DEFINE S == {tt[i] : i \in 1 .. Len(subs)}
    <3>1. tt \in [1 .. Len(subs) -> S]
      BY <2>2
    <3>2. tt \in Seq(S)
      BY <2>2, <3>1
    <3>3. IsSeq(tt) /\ DOMAIN tt = 1 .. Len(subs)
      BY <3>1, <3>2 DEF IsSeq
    <3> HIDE DEF tt
    <3>4. DOMAIN tt = 1 .. Len(tt) /\ Len(tt) \in Nat
      BY <3>3, SeqLen
    <3> QED
      BY <2>2, <3>3, <3>4
  <2> HIDE DEF tt
  <2>5. Later(subs, subs')
    BY <2>1, <2>2, <2>3, <2>4 DEF Later, SubsOk
  <2> QED
    BY <2>1, <2>5, NoHall
<1> QED
  BY <1>1, <1>2, <1>3 DEF Stopping

-----------------------------------------------------------------------------
LEMMA WatchInit == RoomInit => WatchInv
<1> SUFFICES ASSUME RoomInit PROVE WatchInv
  OBVIOUS
<1>1. IsSeq(<<>>) /\ Len(<<>>) = 0
  <2>1. <<>> \in Seq({})
    OBVIOUS
  <2> QED
    BY <2>1 DEF IsSeq
<1>2. HallOk(Away, <<>>) /\ SubsOk(<<>>)
  BY <1>1, AwayIsOk DEF SubsOk
<1>3. subs = <<>> /\ halls = [u \in Players |-> Away]
  BY DEF RoomInit
<1> QED
  BY <1>2, <1>3 DEF WatchInv

LEMMA WatchNext == WatchInv /\ [RoomNext]_roomVars => WatchInv'
<1> SUFFICES ASSUME WatchInv, [RoomNext]_roomVars PROVE WatchInv'
  OBVIOUS
<1>1. CASE Sitting
  <2>1. PICK u \in Players :
          \/ OpenHall(u) \/ Create(u) \/ Joined(u) \/ Act(u) \/ Acted(u) \/ LeaveTable(u) \/ Left(u)
          \/ Rejoined(u) \/ LeaveHall(u) \/ Disconnect(u) \/ GotSnap(u)
          \/ \E t \in TableIds : Pick(u, t) \/ Rejoin(u, t)
          \/ \E s \in halls[u].waits : WaitSnap(u, s)
    BY <1>1 DEF Sitting
  <2>2. CASE Create(u)
    BY <2>2, JoinKeeps DEF Create
  <2>3. ASSUME NEW t \in TableIds, Pick(u, t) PROVE WatchInv'
    BY <2>3, JoinKeeps DEF Pick
  <2> QED
    BY <2>1, <2>2, <2>3, OpenHallKeeps, JoinedKeeps, AtTableKeeps, LeftKeeps, RejoinKeeps, RejoinedKeeps,
       LeaveHallKeeps, DisconnectKeeps, GotSnapKeeps, WaitSnapKeeps
<1>2. CASE UNCHANGED roomVars
  BY <1>2, NoHall, SubsLater DEF roomVars, WatchInv
<1> QED
  BY <1>1, <1>2, PaidKeeps, DealingKeeps, StoppingKeeps DEF RoomNext

\* For any tables, seats, players, buffers and restarts, whatever the actors, the
\* screens and a shutdown do in between (holdem_mp.go, coordinator.go): a screen at
\* a table has a subscription and will take its next snapshot, and the table is its
\* own unless it kept the subscription of one that turned it away.
THEOREM ScreensStillWatch == RoomSpec => []StillWatching
<1>1. WatchInv => StillWatching
  BY DEF WatchInv, StillWatching, HallOk, AtRest, AtTable
<1> QED
  BY <1>1, WatchInit, WatchNext, PTL DEF RoomSpec

-----------------------------------------------------------------------------
(* The chips of a table, and what a hand makes of them.                     *)
TableFields ==
  {"actor", "user", "chips", "in", "bet", "pot", "running", "hand", "queue", "subs", "sends"}
ChipsOf(tb) == SumOn(tb.chips, SeatNos)
BetsOf(tb)  == SumOn(tb.bet, SeatNos)
Holds(tb)   == ChipsOf(tb) + (IF tb.running THEN tb.pot ELSE 0)

IsTable(tb) == tb = [f \in TableFields |-> tb[f]]

TableOk(tb) ==
  /\ IsTable(tb)
  /\ tb.chips \in [SeatNos -> Nat] /\ tb.bet \in [SeatNos -> 0 .. 1]
  /\ tb.in \subseteq SeatNos /\ DOMAIN tb.user = SeatNos
  /\ tb.running \in BOOLEAN /\ tb.pot \in Int
  /\ tb.running => BetsOf(tb) <= tb.pot
  /\ IsSeq(tb.queue)

LEMMA TableSums ==
  ASSUME NEW tb, TableOk(tb)
  PROVE  /\ Summable(tb.chips, SeatNos) /\ Summable(tb.bet, SeatNos)
         /\ ChipsOf(tb) \in Nat /\ BetsOf(tb) \in Nat /\ Holds(tb) \in Nat
<1>1. IsFiniteSet(SeatNos)
  BY RoomAssumption
<1>2. \A i \in SeatNos : tb.chips[i] \in Nat /\ tb.bet[i] \in Nat
  BY DEF TableOk
<1>3. Summable(tb.chips, SeatNos) /\ Summable(tb.bet, SeatNos)
      /\ ChipsOf(tb) \in Nat /\ BetsOf(tb) \in Nat
  BY <1>1, <1>2, SumCovers DEF ChipsOf, BetsOf
<1>4. tb.running => tb.pot \in Nat
  BY <1>3 DEF TableOk
<1> QED
  BY <1>3, <1>4 DEF Holds, TableOk

\* A table that differs in the queue and in who is told.
LEMMA SameChips ==
  ASSUME NEW tb, TableOk(tb), NEW r, IsTable(r),
         r.user = tb.user, r.chips = tb.chips, r.in = tb.in, r.bet = tb.bet, r.pot = tb.pot,
         r.running = tb.running, IsSeq(r.queue)
  PROVE  TableOk(r) /\ Holds(r) = Holds(tb)
BY DEF TableOk, Holds, ChipsOf, BetsOf

LEMMA EmptyTable == TableOk(NoTable) /\ Holds(NoTable) = 0
<1> DEFINE zero == [i \in SeatNos |-> 0]
<1>1. SumOn(zero, SeatNos) = 0 * Cardinality({})
  <2>1. \A x \in SeatNos : zero[x] = IF x \in {} THEN 0 ELSE 0
    OBVIOUS
  <2>2. {} \in SUBSET SeatNos /\ 0 \in Nat /\ IsFiniteSet(SeatNos)
    BY RoomAssumption
  <2> HIDE DEF zero
  <2> QED
    BY <2>1, <2>2, SumCount
<1>2. SumOn(zero, SeatNos) = 0
  BY <1>1, FS_EmptySet
<1>3. IsSeq(<<>>)
  <2>1. <<>> \in Seq({})
    OBVIOUS
  <2> QED
    BY <2>1 DEF IsSeq
<1>4. /\ IsTable(NoTable)
      /\ NoTable.chips = zero /\ NoTable.bet = zero /\ NoTable.in = {} /\ DOMAIN NoTable.user = SeatNos
      /\ NoTable.running = FALSE /\ NoTable.pot = 0 /\ NoTable.queue = <<>>
  BY DEF NoTable, TableFields, IsTable
<1>5. zero \in [SeatNos -> Nat] /\ zero \in [SeatNos -> 0 .. 1]
  OBVIOUS
<1>6. NoTable.pot \in Int /\ NoTable.in \subseteq SeatNos
  BY <1>4
<1>9. NoTable.running \in BOOLEAN /\ ~NoTable.running
  BY <1>4, Zenon
<1> HIDE DEF zero
<1>7. TableOk(NoTable)
  BY <1>3, <1>4, <1>5, <1>6, <1>9, Zenon DEF TableOk
<1>8. Holds(NoTable) = 0
  BY <1>2, <1>4 DEF Holds, ChipsOf
<1> QED
  BY <1>7, <1>8

\* A hand is dealt: the antes come from the stacks.
LEMMA DealKeepsChips ==
  ASSUME NEW tb, TableOk(tb)
  PROVE  /\ TableOk(DealHand(tb)) /\ Holds(DealHand(tb)) <= Holds(tb)
         /\ DealHand(tb).queue = tb.queue
<1> DEFINE r == DealHand(tb)
           A == {i \in SeatNos : tb.chips[i] > 0}
           ante == [i \in SeatNos |-> Ante(tb, i)]
           rest == [i \in SeatNos |-> tb.chips[i] - Ante(tb, i)]
<1>0. CASE ~CanDeal(tb)
  BY <1>0, TableSums DEF DealHand
<1>1. CASE CanDeal(tb)
  <2>1. /\ IsTable(r)
        /\ r.running = TRUE /\ r.in = Occupied(tb) /\ r.pot = Cardinality(A)
        /\ r.chips = rest /\ r.bet = ante /\ r.user = tb.user /\ r.queue = tb.queue
    BY <1>1 DEF DealHand, TableOk, IsTable, TableFields
  <2> HIDE DEF r
  <2>2. \A i \in SeatNos : tb.chips[i] \in Nat /\ ante[i] \in 0 .. 1 /\ ante[i] <= tb.chips[i]
                           /\ rest[i] = tb.chips[i] - ante[i]
                           /\ ante[i] = IF i \in A THEN 1 ELSE 0
    BY DEF TableOk, Ante
  <2>3. rest \in [SeatNos -> Nat] /\ ante \in [SeatNos -> 0 .. 1]
    BY <2>2
  <2>4. Summable(ante, SeatNos) /\ SumOn(ante, SeatNos) = Cardinality(A) /\ Cardinality(A) \in Nat
    <3>1. IsFiniteSet(SeatNos) /\ A \in SUBSET SeatNos
      BY RoomAssumption
    <3>2. IsFiniteSet(A) /\ Cardinality(A) \in Nat
      BY <3>1, FS_Subset, FS_CardinalityType
    <3> HIDE DEF A, ante
    <3>3. Summable(ante, SeatNos) /\ SumOn(ante, SeatNos) = 1 * Cardinality(A)
      <4>1. 1 \in Nat /\ \A i \in SeatNos : ante[i] = IF i \in A THEN 1 ELSE 0
        BY <2>2
      <4> QED
        BY <3>1, <4>1, SumCount, Zenon
    <3> QED
      BY <3>2, <3>3
  <2>5. Summable(rest, SeatNos) /\ SumOn(rest, SeatNos) \in Int
    <3>1. \A i \in SeatNos : rest[i] \in Int
      BY <2>3
    <3>2. Summable(rest, SeatNos)
      BY <3>1, RoomAssumption DEF Summable
    <3> QED
      BY <3>2, SumInt
  <2>6. ChipsOf(tb) = SumOn(rest, SeatNos) + SumOn(ante, SeatNos)
    <3>1. \A i \in SeatNos : tb.chips[i] = rest[i] + ante[i]
      <4> HIDE DEF rest, ante
      <4> QED
        BY <2>2
    <3> HIDE DEF rest, ante
    <3> QED
      BY <2>4, <2>5, <3>1, SumPlus DEF ChipsOf
  <2>7. ChipsOf(tb) <= Holds(tb) /\ Holds(tb) \in Nat
    BY TableSums DEF Holds, TableOk
  <2>8. Holds(r) = ChipsOf(tb)
    BY <2>1, <2>4, <2>5, <2>6 DEF Holds, ChipsOf
  <2>9. TableOk(r)
    <3>1. DOMAIN tb.user = SeatNos /\ IsSeq(tb.queue) /\ Occupied(tb) \subseteq SeatNos
      BY DEF TableOk, Occupied
    <3>2. BetsOf(r) = Cardinality(A)
      BY <2>1, <2>4 DEF BetsOf
    <3>3. r.running \in BOOLEAN
      BY <2>1, Zenon
    <3>4. r.pot \in Int /\ BetsOf(r) <= r.pot
      BY <2>1, <2>4, <3>2
    <3> HIDE DEF A, rest, ante
    <3> QED
      BY <2>1, <2>3, <3>1, <3>3, <3>4, Zenon DEF TableOk
  <2> QED
    BY <2>1, <2>7, <2>8, <2>9 DEF r
<1> QED
  BY <1>0, <1>1

\* The pot goes to a seat.
LEMMA EndKeepsChips ==
  ASSUME NEW tb, TableOk(tb), tb.running, NEW e \in Ends(tb)
  PROVE  TableOk(e) /\ Holds(e) = Holds(tb) /\ e.queue = tb.queue
<1>1. PICK i \in tb.in : e = [tb EXCEPT !.running = FALSE, !.pot = 0, !.chips[i] = @ + tb.pot]
  BY DEF Ends
<1> DEFINE more == [tb.chips EXCEPT ![i] = @ + tb.pot]
<1>2. /\ IsTable(e) /\ e.running = FALSE /\ e.pot = 0 /\ e.in = tb.in
      /\ e.chips = more /\ e.bet = tb.bet /\ e.user = tb.user /\ e.queue = tb.queue
  BY <1>1 DEF TableOk, IsTable, TableFields
<1>3. i \in SeatNos /\ tb.pot \in Nat /\ tb.chips \in [SeatNos -> Nat]
  <2>1. BetsOf(tb) <= tb.pot /\ BetsOf(tb) \in Nat /\ tb.pot \in Int
    BY TableSums DEF TableOk
  <2> QED
    BY <2>1 DEF TableOk
<1>4. more \in [SeatNos -> Nat]
  BY <1>3
<1>5. SumOn(more, SeatNos) = ChipsOf(tb) + tb.pot
  <2>1. \A x \in SeatNos : more[x] = IF x = i THEN tb.chips[x] + tb.pot ELSE tb.chips[x]
    BY <1>3
  <2>2. Summable(tb.chips, SeatNos) /\ tb.pot \in Int
    BY <1>3, TableSums
  <2> DEFINE old == tb.chips
             d == tb.pot
  <2>3. Summable(old, SeatNos) /\ d \in Int /\ \A x \in SeatNos : more[x] = IF x = i THEN old[x] + d ELSE old[x]
    BY <2>1, <2>2
  <2> HIDE DEF more, old, d
  <2>4. SumOn(more, SeatNos) = SumOn(old, SeatNos) + d
    <3>1. i \in SeatNos
      BY <1>3
    <3> QED
      BY <2>3, <3>1, SumChanged, Zenon
  <2> QED
    BY <2>4 DEF ChipsOf, old, d
<1>6. Holds(e) = Holds(tb)
  <2>1. ChipsOf(tb) \in Nat
    BY TableSums
  <2> HIDE DEF more
  <2> QED
    BY <1>2, <1>3, <1>5, <2>1 DEF Holds, ChipsOf
<1>7. TableOk(e)
  <2>1. /\ tb.bet \in [SeatNos -> 0 .. 1] /\ tb.in \subseteq SeatNos /\ DOMAIN tb.user = SeatNos
        /\ IsSeq(tb.queue)
    BY DEF TableOk
  <2>2. e.pot \in Int
    BY <1>2
  <2>3. e.running \in BOOLEAN /\ ~e.running
    BY <1>2, Zenon
  <2> HIDE DEF more
  <2> QED
    BY <1>2, <1>4, <2>1, <2>2, <2>3, Zenon DEF TableOk
<1> QED
  BY <1>2, <1>6, <1>7

\* A player stands up: his stack goes with him, his bet stays or is forgotten.
LEMMA RiseKeepsChips ==
  ASSUME NEW tb, TableOk(tb), NEW i \in SeatNos, NEW r \in Rise(tb, i)
  PROVE  TableOk(r) /\ Holds(r) <= Holds(tb) - tb.chips[i] /\ r.queue = tb.queue
<1> DEFINE up(lost) == [tb EXCEPT !.user[i] = NoOne, !.chips[i] = 0, !.bet[i] = 0, !.in = @ \ {i},
                                  !.pot = @ - lost]
           less == [tb.chips EXCEPT ![i] = 0]
           bets == [tb.bet EXCEPT ![i] = 0]
<1>0. tb.chips[i] \in Nat /\ tb.bet[i] \in 0 .. 1 /\ tb.pot \in Int /\ ChipsOf(tb) \in Nat /\ BetsOf(tb) \in Nat
  BY TableSums DEF TableOk
<1>1. SumOn(less, SeatNos) = ChipsOf(tb) - tb.chips[i] /\ SumOn(bets, SeatNos) = BetsOf(tb) - tb.bet[i]
  <2>1. \A x \in SeatNos : less[x] = IF x = i THEN tb.chips[x] + (0 - tb.chips[i]) ELSE tb.chips[x]
    BY <1>0 DEF TableOk
  <2>2. \A x \in SeatNos : bets[x] = IF x = i THEN tb.bet[x] + (0 - tb.bet[i]) ELSE tb.bet[x]
    BY <1>0 DEF TableOk
  <2>3. 0 - tb.chips[i] \in Int /\ 0 - tb.bet[i] \in Int
    BY <1>0
  <2> HIDE DEF less, bets
  <2>4. SumOn(less, SeatNos) = SumOn(tb.chips, SeatNos) + (0 - tb.chips[i])
    BY <2>1, <2>3, TableSums, SumChanged
  <2>5. SumOn(bets, SeatNos) = SumOn(tb.bet, SeatNos) + (0 - tb.bet[i])
    BY <2>2, <2>3, TableSums, SumChanged
  <2> QED
    BY <1>0, <2>4, <2>5 DEF ChipsOf, BetsOf
<1>2. ASSUME NEW lost \in {0, tb.bet[i]}
      PROVE  /\ TableOk(up(lost)) /\ Holds(up(lost)) <= Holds(tb) - tb.chips[i]
             /\ up(lost).queue = tb.queue /\ up(lost).running = tb.running
  <2> DEFINE s == up(lost)
  <2>1. /\ IsTable(s) /\ s.running = tb.running /\ s.pot = tb.pot - lost
        /\ s.in = tb.in \ {i} /\ s.chips = less /\ s.bet = bets /\ DOMAIN s.user = SeatNos
        /\ s.queue = tb.queue
    BY DEF TableOk, IsTable, TableFields
  <2> HIDE DEF s
  <2>2. less \in [SeatNos -> Nat] /\ bets \in [SeatNos -> 0 .. 1]
    BY DEF TableOk
  <2>3. lost \in 0 .. tb.bet[i] /\ s.pot \in Int
    BY <1>0, <2>1
  <2>4. BetsOf(s) = BetsOf(tb) - tb.bet[i] /\ ChipsOf(s) = ChipsOf(tb) - tb.chips[i]
    BY <1>1, <2>1 DEF BetsOf, ChipsOf
  <2>5. tb.running => BetsOf(s) <= s.pot
    BY <1>0, <2>1, <2>3, <2>4 DEF TableOk
  <2>6. Holds(s) <= Holds(tb) - tb.chips[i]
    BY <1>0, <2>1, <2>3, <2>4 DEF Holds
  <2>7. TableOk(s)
    BY <2>1, <2>2, <2>3, <2>5 DEF TableOk
  <2> QED
    BY <2>1, <2>6, <2>7 DEF s
<1>3. CASE ~tb.running
  <2>1. r = up(0)
    BY <1>3 DEF Rise
  <2> HIDE DEF up
  <2> QED
    BY <1>2, <2>1
<1>4. CASE tb.running
  <2>1. PICK lost \in {0, tb.bet[i]} :
          r \in (IF Cardinality(tb.in \ {i}) = 1 THEN Ends(up(lost)) ELSE {up(lost)})
    BY <1>4 DEF Rise
  <2> HIDE DEF up
  <2>2. r \in Ends(up(lost)) \/ r = up(lost)
    BY <2>1
  <2> QED
    BY <1>2, <1>4, <2>2, EndKeepsChips
<1> QED
  BY <1>3, <1>4 DEF TableOk

\* A player sits down with a buy-in.
LEMMA SeatKeepsChips ==
  ASSUME NEW tb, TableOk(tb), NEW i \in SeatNos, NEW u
  PROVE  LET s == [tb EXCEPT !.user[i] = u, !.chips[i] = BuyIn, !.bet[i] = 0]
         IN  TableOk(s) /\ Holds(s) <= Holds(tb) + BuyIn /\ s.queue = tb.queue
<1> DEFINE s == [tb EXCEPT !.user[i] = u, !.chips[i] = BuyIn, !.bet[i] = 0]
           more == [tb.chips EXCEPT ![i] = BuyIn]
           bets == [tb.bet EXCEPT ![i] = 0]
<1>0. /\ tb.chips[i] \in Nat /\ tb.bet[i] \in 0 .. 1 /\ tb.pot \in Int /\ ChipsOf(tb) \in Nat /\ BetsOf(tb) \in Nat
      /\ BuyIn \in Nat
  BY TableSums, RoomAssumption DEF TableOk
<1>1. SumOn(more, SeatNos) = ChipsOf(tb) + (BuyIn - tb.chips[i]) /\ SumOn(bets, SeatNos) = BetsOf(tb) - tb.bet[i]
  <2>1. \A x \in SeatNos : more[x] = IF x = i THEN tb.chips[x] + (BuyIn - tb.chips[i]) ELSE tb.chips[x]
    BY <1>0 DEF TableOk
  <2>2. \A x \in SeatNos : bets[x] = IF x = i THEN tb.bet[x] + (0 - tb.bet[i]) ELSE tb.bet[x]
    BY <1>0 DEF TableOk
  <2>3. BuyIn - tb.chips[i] \in Int /\ 0 - tb.bet[i] \in Int
    BY <1>0
  <2> HIDE DEF more, bets
  <2>4. SumOn(more, SeatNos) = SumOn(tb.chips, SeatNos) + (BuyIn - tb.chips[i])
    BY <2>1, <2>3, TableSums, SumChanged
  <2>5. SumOn(bets, SeatNos) = SumOn(tb.bet, SeatNos) + (0 - tb.bet[i])
    BY <2>2, <2>3, TableSums, SumChanged
  <2> QED
    BY <1>0, <2>4, <2>5 DEF ChipsOf, BetsOf
<1>2. /\ IsTable(s) /\ s.running = tb.running /\ s.pot = tb.pot
      /\ s.in = tb.in /\ s.chips = more /\ s.bet = bets /\ DOMAIN s.user = SeatNos
      /\ s.queue = tb.queue
  BY DEF TableOk, IsTable, TableFields
<1> HIDE DEF s
<1>3. more \in [SeatNos -> Nat] /\ bets \in [SeatNos -> 0 .. 1]
  BY <1>0 DEF TableOk
<1>4. BetsOf(s) = BetsOf(tb) - tb.bet[i] /\ ChipsOf(s) = ChipsOf(tb) + (BuyIn - tb.chips[i])
  BY <1>1, <1>2 DEF BetsOf, ChipsOf
<1>5. tb.running => BetsOf(s) <= s.pot
  BY <1>0, <1>2, <1>4 DEF TableOk
<1>6. Holds(s) <= Holds(tb) + BuyIn
  BY <1>0, <1>2, <1>4 DEF Holds
<1>7. TableOk(s)
  BY <1>2, <1>3, <1>5 DEF TableOk
<1> QED
  BY <1>2, <1>6, <1>7 DEF s

-----------------------------------------------------------------------------
(* What a player is to have: the books, and what the answer he gets adds.     *)

\* What the answer a screen has will make it pay or get.
Answered(h) ==
  IF h.call # "answered" THEN 0
  ELSE IF h.mode = "leaving" THEN h.got
  ELSE IF h.mode = "table" /\ h.got # 0 THEN 0 - BuyIn ELSE 0

Worth(h, b) == b + Answered(h)

\* A screen waits for the answer that its mode can take.
UserOk(h, b) ==
  /\ IsHall(h) /\ b \in Int
  /\ h.call = "answered" => h.got \in Nat /\ h.mode \in {"table", "acting", "leaving"}
  /\ h.mode = "away" => h.call = "none"
  /\ h.call = "sit" => h.mode = "table"
  /\ h.call = "stand" => h.mode = "leaving"
  /\ h.call = "action" => h.mode = "acting"

LEMMA WorthInt ==
  ASSUME NEW h, NEW b, UserOk(h, b)
  PROVE  Worth(h, b) \in Int /\ Answered(h) \in Int
<1>1. BuyIn \in Nat
  BY RoomAssumption
<1>2. Answered(h) \in Int
  BY <1>1 DEF Answered, UserOk
<1> QED
  BY <1>2 DEF UserOk, Worth

-----------------------------------------------------------------------------
(* The calls in the tables' queues are those the screens wait for, once.    *)
Calls == {"sit", "stand", "action"}

QueueOk ==
  \A t \in TableIds : \A k \in DOMAIN tables[t].queue :
    tables[t].queue[k].kind \in Calls =>
      /\ tables[t].queue[k].user \in Players
      /\ halls[tables[t].queue[k].user].call = tables[t].queue[k].kind
      /\ \A t2 \in TableIds : \A k2 \in DOMAIN tables[t2].queue :
           /\ tables[t2].queue[k2].kind \in Calls
           /\ tables[t2].queue[k2].user = tables[t].queue[k].user
           => t2 = t /\ k2 = k

\* The queue q is a part of p: each call in it was in p, n places further on.
Part(q, p, n) ==
  \A k \in DOMAIN q : q[k].kind \in Calls => k + n \in DOMAIN p /\ p[k + n] = q[k]

LEMMA QueueKept ==
  ASSUME QueueOk, NEW n \in [TableIds -> Nat],
         \A t \in TableIds : IsSeq(tables'[t].queue) /\ Part(tables'[t].queue, tables[t].queue, n[t]),
         \A t \in TableIds : \A k \in DOMAIN tables'[t].queue :
           LET c == tables'[t].queue[k]
           IN  c.kind \in Calls => halls'[c.user].call = halls[c.user].call
  PROVE  QueueOk'
<1> SUFFICES ASSUME NEW t \in TableIds, NEW k \in DOMAIN tables'[t].queue, tables'[t].queue[k].kind \in Calls
             PROVE  /\ tables'[t].queue[k].user \in Players
                    /\ halls'[tables'[t].queue[k].user].call = tables'[t].queue[k].kind
                    /\ \A t2 \in TableIds : \A k2 \in DOMAIN tables'[t2].queue :
                         /\ tables'[t2].queue[k2].kind \in Calls
                         /\ tables'[t2].queue[k2].user = tables'[t].queue[k].user
                         => t2 = t /\ k2 = k
  BY DEF QueueOk
<1>1. k + n[t] \in DOMAIN tables[t].queue /\ tables[t].queue[k + n[t]] = tables'[t].queue[k]
  BY DEF Part
<1>2. ASSUME NEW t2 \in TableIds, NEW k2 \in DOMAIN tables'[t2].queue, tables'[t2].queue[k2].kind \in Calls,
             tables'[t2].queue[k2].user = tables'[t].queue[k].user
      PROVE  t2 = t /\ k2 = k
  <2>1. k2 + n[t2] \in DOMAIN tables[t2].queue /\ tables[t2].queue[k2 + n[t2]] = tables'[t2].queue[k2]
    BY <1>2 DEF Part
  <2>2. t2 = t /\ k2 + n[t2] = k + n[t]
    BY <1>1, <1>2, <2>1 DEF QueueOk
  <2>3. k \in Nat /\ k2 \in Nat /\ n[t] \in Nat
    BY SeqLen
  <2> QED
    BY <2>2, <2>3
<1> QED
  BY <1>1, <1>2 DEF QueueOk

LEMMA EmptyIsSeq == IsSeq(<<>>) /\ DOMAIN <<>> = {}
<1>1. <<>> \in Seq({})
  OBVIOUS
<1> QED
  BY <1>1 DEF IsSeq

\* The queues have got nothing, or what is no call.
Quieter(q, p) ==
  q = p \/ q = <<>> \/ \E c : c.kind \notin Calls /\ q = Append(p, c)

LEMMA QuietPart ==
  ASSUME NEW p, IsSeq(p), NEW q, Quieter(q, p)
  PROVE  IsSeq(q) /\ Part(q, p, 0)
<1>1. CASE q = p
  <2>1. \A k \in DOMAIN p : k + 0 = k
    BY SeqLen
  <2> QED
    BY <1>1, <2>1 DEF Part
<1>2. CASE q = <<>>
  BY <1>2, EmptyIsSeq DEF Part
<1>3. ASSUME NEW c, c.kind \notin Calls, q = Append(p, c) PROVE IsSeq(q) /\ Part(q, p, 0)
  <2>1. /\ IsSeq(q) /\ DOMAIN q = 1 .. Len(p) + 1 /\ DOMAIN p = 1 .. Len(p) /\ Len(p) \in Nat
        /\ \A i \in DOMAIN p : q[i] = p[i]
        /\ q[Len(p) + 1] = c
    BY <1>3, AppendSeq
  <2>2. ASSUME NEW k \in DOMAIN q, q[k].kind \in Calls PROVE k + 0 \in DOMAIN p /\ p[k + 0] = q[k]
    <3>1. k # Len(p) + 1
      BY <1>3, <2>1, <2>2
    <3>2. k \in DOMAIN p /\ k + 0 = k
      BY <2>1, <3>1
    <3> QED
      BY <2>1, <3>2
  <2> QED
    BY <2>1, <2>2 DEF Part
<1> QED
  BY <1>1, <1>2, <1>3 DEF Quieter

LEMMA QueueQuiet ==
  ASSUME QueueOk, \A t \in TableIds : IsSeq(tables[t].queue) /\ Quieter(tables'[t].queue, tables[t].queue),
         \A u \in Players : halls[u].call \in Calls => halls'[u].call = halls[u].call
  PROVE  QueueOk'
<1> DEFINE n == [t \in TableIds |-> 0]
<1>1. /\ n \in [TableIds -> Nat]
      /\ \A t \in TableIds : IsSeq(tables'[t].queue) /\ Part(tables'[t].queue, tables[t].queue, n[t])
  BY QuietPart
<1>2. ASSUME NEW t \in TableIds, NEW k \in DOMAIN tables'[t].queue, tables'[t].queue[k].kind \in Calls
      PROVE  halls'[tables'[t].queue[k].user].call = halls[tables'[t].queue[k].user].call
  <2>1. Part(tables'[t].queue, tables[t].queue, 0)
    BY QuietPart
  <2>2. k + 0 \in DOMAIN tables[t].queue /\ tables[t].queue[k + 0] = tables'[t].queue[k]
    BY <1>2, <2>1 DEF Part
  <2> QED
    BY <1>2, <2>2 DEF QueueOk
<1> HIDE DEF n
<1> QED
  BY <1>1, <1>2, QueueKept

\* The actor of t0 takes a request, and answers it if it is a call.
LEMMA QueueTaken ==
  ASSUME QueueOk, NEW t0 \in TableIds, tables[t0].queue # <<>>,
         \A t \in TableIds : IsSeq(tables[t].queue),
         \A t \in TableIds : tables'[t].queue = IF t = t0 THEN Tail(tables[t].queue) ELSE tables[t].queue,
         LET c == Head(tables[t0].queue)
         IN  \A u \in Players : (c.kind \in Calls /\ u = c.user) \/ halls'[u] = halls[u]
  PROVE  QueueOk'
<1> DEFINE n == [t \in TableIds |-> IF t = t0 THEN 1 ELSE 0]
           c == Head(tables[t0].queue)
<1>1. \A t \in TableIds : IsSeq(tables'[t].queue) /\ Part(tables'[t].queue, tables[t].queue, n[t])
  <2> TAKE t \in TableIds
  <2>1. CASE t # t0
    <3>1. Quieter(tables'[t].queue, tables[t].queue) /\ n[t] = 0
      BY <2>1 DEF Quieter
    <3> QED
      BY <3>1, QuietPart
  <2>2. CASE t = t0
    <3>1. PICK S : tables[t0].queue \in Seq(S)
      BY DEF IsSeq
    <3>2. tables'[t].queue = Tail(tables[t0].queue) /\ n[t] = 1
      BY <2>2
    <3>3. /\ tables'[t].queue \in Seq(S)
          /\ \A k \in DOMAIN tables'[t].queue :
               k + 1 \in DOMAIN tables[t0].queue /\ tables[t0].queue[k + 1] = tables'[t].queue[k]
      <4> DEFINE p == tables[t0].queue
                 q == tables'[t].queue
      <4>1. q \in Seq(S) /\ Len(q) = Len(p) - 1 /\ \A k \in 1 .. Len(q) : q[k] = p[k + 1]
        BY <3>1, <3>2, HeadTailProperties
      <4>2. DOMAIN q = 1 .. Len(q) /\ DOMAIN p = 1 .. Len(p) /\ Len(p) \in Nat /\ Len(q) \in Nat
        BY <3>1, <4>1, LenProperties
      <4> HIDE DEF p, q
      <4>3. \A k \in DOMAIN q : k + 1 \in DOMAIN p /\ p[k + 1] = q[k]
        BY <4>1, <4>2
      <4> QED
        BY <4>1, <4>3 DEF p, q
    <3> QED
      BY <2>2, <3>2, <3>3 DEF Part, IsSeq
  <2> QED
    BY <2>1, <2>2
<1>2. ASSUME NEW t \in TableIds, NEW k \in DOMAIN tables'[t].queue, tables'[t].queue[k].kind \in Calls
      PROVE  halls'[tables'[t].queue[k].user].call = halls[tables'[t].queue[k].user].call
  <2>1. k + n[t] \in DOMAIN tables[t].queue /\ tables[t].queue[k + n[t]] = tables'[t].queue[k]
    BY <1>1, <1>2 DEF Part
  <2>2. tables'[t].queue[k].user \in Players
    BY <1>2, <2>1 DEF QueueOk
  <2>3. c = tables[t0].queue[1] /\ 1 \in DOMAIN tables[t0].queue
    <3>1. PICK S : tables[t0].queue \in Seq(S)
      BY DEF IsSeq
    <3> QED
      BY <3>1, HeadTailProperties, LenProperties, EmptySeq
  <2>4. ~ (c.kind \in Calls /\ tables'[t].queue[k].user = c.user)
    <3>1. SUFFICES ASSUME c.kind \in Calls, tables'[t].queue[k].user = c.user PROVE FALSE
      OBVIOUS
    <3>2. t = t0 /\ k + n[t] = 1
      BY <1>2, <2>1, <2>3, <3>1 DEF QueueOk
    <3>3. k \in Nat \ {0}
      BY <1>1, SeqLen
    <3> QED
      BY <3>2, <3>3
  <2> HIDE DEF c
  <2> QED
    BY <2>2, <2>4 DEF c
<1>3. n \in [TableIds -> Nat]
  OBVIOUS
<1> HIDE DEF n
<1> QED
  BY <1>1, <1>2, <1>3, QueueKept

\* A screen asks the actor of t0.
LEMMA QueueAsked ==
  ASSUME QueueOk, NEW t0, NEW u \in Players, NEW kind \in Calls, halls[u].call \notin Calls,
         \A t \in TableIds : IsSeq(tables[t].queue),
         \A t \in TableIds : t # t0 => tables'[t].queue = tables[t].queue,
         t0 \in TableIds =>
           \/ tables'[t0].queue = Append(tables[t0].queue, Request(kind, u, 0))
           \/ tables'[t0].queue = Append(<<>>, Request(kind, u, 0)),
         halls'[u].call = kind, \A v \in Players : v # u => halls'[v].call = halls[v].call
  PROVE  QueueOk'
<1> DEFINE new == Request(kind, u, 0)
           old(t) == IF t = t0 /\ tables'[t0].queue = Append(<<>>, new) THEN <<>> ELSE tables[t].queue
<1>0. new.kind = kind /\ new.user = u
  BY DEF Request
<1>1. \A t \in TableIds : IsSeq(old(t)) /\ Part(old(t), tables[t].queue, 0)
  BY QuietPart, EmptyIsSeq DEF Quieter
<1>2. ASSUME NEW t \in TableIds, NEW k \in DOMAIN tables'[t].queue
      PROVE  \/ k \in DOMAIN old(t) /\ tables'[t].queue[k] = old(t)[k]
             \/ t = t0 /\ k = Len(old(t0)) + 1 /\ tables'[t].queue[k] = new
  <2>1. CASE t # t0
    BY <2>1
  <2>2. CASE t = t0
    <3>1. tables'[t0].queue = Append(old(t0), new) /\ IsSeq(old(t0))
      BY <1>1, <2>2
    <3> HIDE DEF old, new
    <3>2. /\ DOMAIN tables'[t0].queue = 1 .. Len(old(t0)) + 1
          /\ DOMAIN old(t0) = 1 .. Len(old(t0)) /\ Len(old(t0)) \in Nat
          /\ \A i \in DOMAIN old(t0) : tables'[t0].queue[i] = old(t0)[i]
          /\ tables'[t0].queue[Len(old(t0)) + 1] = new
      BY <3>1, AppendSeq
    <3> QED
      BY <2>2, <3>2
  <2> QED
    BY <2>1, <2>2
<1> HIDE DEF old, new
<1>3. ASSUME NEW t \in TableIds, NEW k \in DOMAIN old(t), old(t)[k].kind \in Calls
      PROVE  k \in DOMAIN tables[t].queue /\ tables[t].queue[k] = old(t)[k] /\ old(t)[k].user # u
  <2>1. k + 0 \in DOMAIN tables[t].queue /\ tables[t].queue[k + 0] = old(t)[k]
    BY <1>1, <1>3 DEF Part
  <2>2. k + 0 = k
    BY <1>1, SeqLen
  <2> QED
    BY <1>3, <2>1, <2>2 DEF QueueOk
<1>4. ASSUME NEW t \in TableIds, NEW k \in DOMAIN tables'[t].queue, tables'[t].queue[k].kind \in Calls
      PROVE  \/ /\ k \in DOMAIN tables[t].queue /\ tables[t].queue[k] = tables'[t].queue[k]
                /\ tables'[t].queue[k].user # u
             \/ t = t0 /\ k = Len(old(t0)) + 1 /\ tables'[t].queue[k] = new
  BY <1>2, <1>3, <1>4
<1> SUFFICES ASSUME NEW t \in TableIds, NEW k \in DOMAIN tables'[t].queue, tables'[t].queue[k].kind \in Calls
             PROVE  /\ tables'[t].queue[k].user \in Players
                    /\ halls'[tables'[t].queue[k].user].call = tables'[t].queue[k].kind
                    /\ \A t2 \in TableIds : \A k2 \in DOMAIN tables'[t2].queue :
                         /\ tables'[t2].queue[k2].kind \in Calls
                         /\ tables'[t2].queue[k2].user = tables'[t].queue[k].user
                         => t2 = t /\ k2 = k
  BY DEF QueueOk
<1>5. CASE /\ k \in DOMAIN tables[t].queue /\ tables[t].queue[k] = tables'[t].queue[k]
           /\ tables'[t].queue[k].user # u
  <2>1. /\ tables'[t].queue[k].user \in Players
        /\ halls'[tables'[t].queue[k].user].call = tables'[t].queue[k].kind
    BY <1>5 DEF QueueOk
  <2>2. ASSUME NEW t2 \in TableIds, NEW k2 \in DOMAIN tables'[t2].queue, tables'[t2].queue[k2].kind \in Calls,
               tables'[t2].queue[k2].user = tables'[t].queue[k].user
        PROVE  t2 = t /\ k2 = k
    <3>1. k2 \in DOMAIN tables[t2].queue /\ tables[t2].queue[k2] = tables'[t2].queue[k2]
      BY <1>0, <1>4, <1>5, <2>2
    <3> QED
      BY <1>5, <2>2, <3>1 DEF QueueOk
  <2> QED
    BY <2>1, <2>2
<1>6. CASE t = t0 /\ k = Len(old(t0)) + 1 /\ tables'[t].queue[k] = new
  BY <1>0, <1>4, <1>6
<1> QED
  BY <1>4, <1>5, <1>6

-----------------------------------------------------------------------------
(* No player and no table has more than what another one gave up.           *)
Worths == [u \in Players |-> Worth(halls[u], books[u])]
OnTables == [t \in TableIds |-> Holds(tables[t])]

Money ==
  /\ DOMAIN tables = TableIds /\ DOMAIN halls = Players /\ DOMAIN books = Players
  /\ \A t \in TableIds : TableOk(tables[t])
  /\ \A u \in Players : UserOk(halls[u], books[u])
  /\ QueueOk
  /\ SumOn(Worths, Players) + SumOn(OnTables, TableIds) <= Cardinality(Players) * Savings

\* A wallet command under way, and what it is to make of a row.
PaymentFields == {"nr", "user", "kind", "amount", "copy", "row", "done", "lost"}
IsPayment(p) ==
  /\ p = [f \in PaymentFields |-> p[f]]
  /\ p.user \in Players /\ p.row \in {NoOne, p.user}
  /\ p.kind \in {"load", "debit", "credit"} /\ (p.kind = "load" => p.amount = 0)

Mine(P, u) == {p \in P : p.user = u}

UnderWay(p, h, purse, book) ==
  /\ p.lost => h.mode = "away"
  /\ p.done => purse = book /\ p.copy = purse /\ p.row = p.user
  /\ ~p.done => \/ p.kind = "load" /\ purse = book
                \/ /\ p.kind \in {"debit", "credit"} /\ p.amount \in Int
                   /\ p.row = p.user /\ p.copy = purse /\ Changed(p) = book

\* A user with one command under way at most: his row is what the books say, or
\* what the command will make them.
RowOk(M, u, h, purse, book) ==
  /\ purse \in Int
  /\ M = {} => purse = book /\ (h.mode # "away" => h.copy = purse /\ h.row = u)
  /\ M # {} => \E p : M = {p} /\ UnderWay(p, h, purse, book)

RowsOk ==
  /\ DOMAIN purses = Players
  /\ \A p \in payments : IsPayment(p)
  /\ \A u \in Players : halls[u].row \in {NoOne, u}
  /\ \A u \in Players \ astray : RowOk(Mine(payments, u), u, halls[u], purses[u], books[u])

MoneyInv == stops \in Nat /\ (stops = 0 => Money /\ RowsOk)

\* The shape of the state after a step, the sums apart.
Sound ==
  /\ DOMAIN tables = TableIds /\ DOMAIN halls = Players /\ DOMAIN books = Players
  /\ \A t \in TableIds : TableOk(tables[t])
  /\ \A u \in Players : UserOk(halls[u], books[u])
  /\ QueueOk

LEMMA SoundSums ==
  ASSUME Sound
  PROVE  /\ Summable(Worths, Players) /\ Summable(OnTables, TableIds)
         /\ SumOn(Worths, Players) \in Int /\ SumOn(OnTables, TableIds) \in Int
<1>1. IsFiniteSet(Players) /\ IsFiniteSet(TableIds)
  BY PlayersAssumption, RoomAssumption
<1>2. \A u \in Players : Worths[u] \in Int
  BY WorthInt DEF Worths, Sound
<1>3. \A t \in TableIds : OnTables[t] \in Int
  BY TableSums DEF OnTables, Sound
<1>4. Summable(Worths, Players) /\ Summable(OnTables, TableIds)
  BY <1>1, <1>2, <1>3 DEF Summable
<1> QED
  BY <1>4, SumInt

LEMMA SoundSumsNext ==
  ASSUME Sound'
  PROVE  /\ Summable(Worths', Players) /\ Summable(OnTables', TableIds)
         /\ SumOn(Worths', Players) \in Int /\ SumOn(OnTables', TableIds) \in Int
<1>1. IsFiniteSet(Players) /\ IsFiniteSet(TableIds)
  BY PlayersAssumption, RoomAssumption
<1>2. \A u \in Players : Worths'[u] \in Int
  BY WorthInt DEF Worths, Sound
<1>3. \A t \in TableIds : OnTables'[t] \in Int
  BY TableSums DEF OnTables, Sound
<1>4. Summable(Worths', Players) /\ Summable(OnTables', TableIds)
  BY <1>1, <1>2, <1>3 DEF Summable
<1> QED
  BY <1>4, SumInt

LEMMA MoneyKept ==
  ASSUME Money, Sound',
         \A u \in Players : Worths'[u] <= Worths[u],
         \A t \in TableIds : OnTables'[t] <= OnTables[t]
  PROVE  Money'
<1>1. Sound
  BY DEF Money, Sound
<1>2. SumOn(Worths', Players) <= SumOn(Worths, Players)
  BY <1>1, SoundSums, SoundSumsNext, SumAtMost
<1>3. SumOn(OnTables', TableIds) <= SumOn(OnTables, TableIds)
  BY <1>1, SoundSums, SoundSumsNext, SumAtMost
<1>4. Cardinality(Players) * Savings \in Int
  BY PlayersAssumption, RoomAssumption, FS_CardinalityType
<1>5. SumOn(Worths', Players) + SumOn(OnTables', TableIds) <= Cardinality(Players) * Savings
  BY <1>1, <1>2, <1>3, <1>4, SoundSums, SoundSumsNext DEF Money
<1> QED
  BY <1>5 DEF Money, Sound

LEMMA MoneyMoves ==
  ASSUME Money, Sound', NEW u \in Players, NEW t0 \in TableIds, NEW d \in Int,
         \A v \in Players : Worths'[v] <= IF v = u THEN Worths[v] - d ELSE Worths[v],
         \A t \in TableIds : OnTables'[t] <= IF t = t0 THEN OnTables[t] + d ELSE OnTables[t]
  PROVE  Money'
<1> DEFINE wallets == [v \in Players |-> IF v = u THEN Worths[v] + (0 - d) ELSE Worths[v]]
           stakes  == [t \in TableIds |-> IF t = t0 THEN OnTables[t] + d ELSE OnTables[t]]
<1>1. Sound
  BY DEF Money, Sound
<1>2. Summable(wallets, Players) /\ SumOn(wallets, Players) = SumOn(Worths, Players) + (0 - d)
  <2>1. \A x \in Players : wallets[x] = IF x = u THEN Worths[x] + (0 - d) ELSE Worths[x]
    OBVIOUS
  <2>2. Summable(Worths, Players) /\ 0 - d \in Int
    BY <1>1, SoundSums
  <2> HIDE DEF wallets
  <2> QED
    BY <2>1, <2>2, SumChanged
<1>3. Summable(stakes, TableIds) /\ SumOn(stakes, TableIds) = SumOn(OnTables, TableIds) + d
  <2>1. \A x \in TableIds : stakes[x] = IF x = t0 THEN OnTables[x] + d ELSE OnTables[x]
    OBVIOUS
  <2>2. Summable(OnTables, TableIds)
    BY <1>1, SoundSums
  <2> HIDE DEF stakes
  <2> QED
    BY <2>1, <2>2, SumChanged
<1>4. \A v \in Players : Worths'[v] <= wallets[v]
  <2>1. \A v \in Players : Worths[v] \in Int
    BY <1>1, SoundSums DEF Summable
  <2> QED
    BY <2>1
<1>5. \A t \in TableIds : OnTables'[t] <= stakes[t]
  OBVIOUS
<1> HIDE DEF wallets, stakes
<1>6. SumOn(Worths', Players) <= SumOn(wallets, Players) /\ SumOn(OnTables', TableIds) <= SumOn(stakes, TableIds)
  BY <1>2, <1>3, <1>4, <1>5, SoundSumsNext, SumAtMost
<1>7. Cardinality(Players) * Savings \in Int
  BY PlayersAssumption, RoomAssumption, FS_CardinalityType
<1>8. SumOn(Worths', Players) + SumOn(OnTables', TableIds) <= Cardinality(Players) * Savings
  BY <1>1, <1>2, <1>3, <1>6, <1>7, SoundSums, SoundSumsNext DEF Money
<1> QED
  BY <1>8 DEF Money, Sound

\* A step of one screen, which leaves the tables' stacks alone.
LEMMA OneUser ==
  ASSUME Money, NEW u \in Players,
         DOMAIN tables' = TableIds, DOMAIN halls' = Players, DOMAIN books' = Players, QueueOk',
         \A t \in TableIds : TableOk(tables'[t]) /\ Holds(tables'[t]) <= Holds(tables[t]),
         \A v \in Players : v # u => halls'[v] = halls[v] /\ books'[v] = books[v],
         UserOk(halls'[u], books'[u]),
         Worth(halls'[u], books'[u]) <= Worth(halls[u], books[u])
  PROVE  Money'
<1>1. \A v \in Players : UserOk(halls'[v], books'[v])
  BY DEF Money
<1>2. Sound'
  BY <1>1 DEF Sound
<1>3. \A v \in Players : Worths'[v] <= Worths[v]
  <2>1. \A v \in Players : Worth(halls[v], books[v]) \in Int
    BY WorthInt DEF Money
  <2> QED
    BY <2>1 DEF Worths
<1>4. \A t \in TableIds : OnTables'[t] <= OnTables[t]
  BY DEF OnTables
<1> QED
  BY <1>2, <1>3, <1>4, MoneyKept

\* A step of the tables alone.
LEMMA OnlyTables ==
  ASSUME Money, halls' = halls, books' = books,
         DOMAIN tables' = TableIds, QueueOk',
         \A t \in TableIds : TableOk(tables'[t]) /\ Holds(tables'[t]) <= Holds(tables[t])
  PROVE  Money'
<1>2. Sound'
  BY DEF Sound, Money
<1>3. \A v \in Players : Worths'[v] <= Worths[v]
  <2>1. \A v \in Players : Worth(halls[v], books[v]) \in Int
    BY WorthInt DEF Money
  <2> QED
    BY <2>1 DEF Worths
<1>4. \A t \in TableIds : OnTables'[t] <= OnTables[t]
  BY DEF OnTables
<1> QED
  BY <1>2, <1>3, <1>4, MoneyKept

\* A step of something else.
LEMMA StillPays ==
  ASSUME Money, tables' = tables, halls' = halls, books' = books
  PROVE  Money'
BY DEF Money, QueueOk, Worths, OnTables

-----------------------------------------------------------------------------
(* The screens' steps.                                                      *)
LEMMA QueuesAlone ==
  ASSUME Money, \A t \in TableIds : tables'[t].queue = tables[t].queue,
         \A u \in Players : halls[u].call \in Calls => halls'[u].call = halls[u].call
  PROVE  QueueOk'
<1>1. \A t \in TableIds : IsSeq(tables[t].queue) /\ Quieter(tables'[t].queue, tables[t].queue)
  BY DEF Money, TableOk, Quieter
<1> QED
  BY <1>1, QueueQuiet DEF Money

\* A screen changes and pays nothing, or what its answer had it pay.
LEMMA ScreenKeeps ==
  ASSUME Money, NEW u \in Players, NEW h,
         halls' = [halls EXCEPT ![u] = h], books' = books,
         DOMAIN tables' = TableIds, QueueOk',
         \A t \in TableIds : TableOk(tables'[t]) /\ Holds(tables'[t]) <= Holds(tables[t]),
         UserOk(h, books[u]),
         Answered(h) <= Answered(halls[u])
  PROVE  Money'
<1>1. /\ halls'[u] = h /\ DOMAIN halls' = Players
      /\ \A v \in Players : v # u => halls'[v] = halls[v]
  BY DEF Money
<1>2. Worth(h, books[u]) <= Worth(halls[u], books[u])
  <2>1. UserOk(halls[u], books[u])
    BY DEF Money
  <2>2. Answered(h) \in Int /\ Answered(halls[u]) \in Int /\ books[u] \in Int
    BY <2>1, WorthInt DEF UserOk
  <2> QED
    BY <2>2 DEF Worth
<1> QED
  BY <1>1, <1>2, OneUser DEF Money

LEMMA AwayPays ==
  ASSUME Money, NEW u \in Players, NEW h, IsHall(h), h.mode = "away", h.call = "none",
         halls' = [halls EXCEPT ![u] = h], halls[u].call = "none", books' = books, tables' = tables
  PROVE  Money'
<1>0. UserOk(halls[u], books[u])
  BY DEF Money
<1>1. UserOk(h, books[u])
  BY <1>0 DEF UserOk
<1>2. Answered(h) <= Answered(halls[u])
  BY DEF Answered
<1>3. QueueOk'
  <2>1. \A v \in Players : halls[v].call \in Calls => halls'[v].call = halls[v].call
    BY DEF Calls, Money
  <2> QED
    BY <2>1, QueuesAlone
<1>4. /\ DOMAIN tables' = TableIds
      /\ \A t \in TableIds : TableOk(tables'[t]) /\ Holds(tables'[t]) <= Holds(tables[t])
  BY TableSums DEF Money
<1> QED
  BY <1>1, <1>2, <1>3, <1>4, ScreenKeeps, Zenon

LEMMA LeaveHallPays ==
  ASSUME Money, NEW u \in Players, LeaveHall(u)
  PROVE  Money'
<1> DEFINE h == [Away EXCEPT !.waits = halls[u].waits, !.late = halls[u].late]
<1>1. halls' = [halls EXCEPT ![u] = h] /\ books' = books /\ tables' = tables /\ halls[u].call = "none"
  BY DEF LeaveHall, AtLobby
<1>2. IsHall(h) /\ h.mode = "away" /\ h.call = "none"
  BY DEF Away, IsHall, HallFields
<1> HIDE DEF h
<1> QED
  BY <1>1, <1>2, AwayPays, Zenon

LEMMA DisconnectPays ==
  ASSUME Money, NEW u \in Players, Disconnect(u)
  PROVE  Money'
<1>1. halls' = [halls EXCEPT ![u] = Away] /\ books' = books /\ tables' = tables /\ halls[u].call = "none"
  BY DEF Disconnect
<1>2. IsHall(Away) /\ Away.mode = "away" /\ Away.call = "none"
  BY DEF Away, IsHall, HallFields
<1> QED
  BY <1>1, <1>2, AwayPays, Zenon

\* The tables keep their chips and their queues.
Untouched ==
  /\ DOMAIN tables' = TableIds
  /\ \A t \in TableIds : TableOk(tables'[t]) /\ Holds(tables'[t]) <= Holds(tables[t])
                         /\ tables'[t].queue = tables[t].queue

LEMMA SameTables ==
  ASSUME Money, tables' = tables PROVE Untouched
BY TableSums DEF Money, Untouched

LEMMA ListChanged ==
  ASSUME Money, NEW x, NEW y, tables' = [tables EXCEPT ![x].subs = y] PROVE Untouched
<1> SUFFICES ASSUME NEW t \in TableIds
             PROVE  /\ TableOk(tables'[t]) /\ Holds(tables'[t]) <= Holds(tables[t])
                    /\ tables'[t].queue = tables[t].queue
  BY DEF Money, Untouched
<1> DEFINE r == [tables[t] EXCEPT !.subs = y]
<1>0. TableOk(tables[t])
  BY DEF Money
<1>1. tables'[t] = tables[t] \/ tables'[t] = r
  BY DEF Money
<1>2. /\ IsTable(r) /\ r.user = tables[t].user /\ r.chips = tables[t].chips /\ r.in = tables[t].in
      /\ r.bet = tables[t].bet /\ r.pot = tables[t].pot /\ r.running = tables[t].running
      /\ r.queue = tables[t].queue
  BY <1>0 DEF TableOk, IsTable, TableFields
<1> HIDE DEF r
<1>3. IsSeq(r.queue)
  BY <1>0, <1>2 DEF TableOk
<1>4. TableOk(r) /\ Holds(r) = Holds(tables[t])
  BY <1>0, <1>2, <1>3, SameChips
<1> QED
  BY <1>0, <1>1, <1>2, <1>4, TableSums

LEMMA UnlistedSubs ==
  ASSUME NEW s PROVE \E x, y : Unlisted(tables, s) = [tables EXCEPT ![x].subs = y]
<1>1. Unlisted(tables, s) =
        [tables EXCEPT ![subs[s].tbl].subs = SelectSeq(tables[subs[s].tbl].subs, LAMBDA x : x # s)]
  BY DEF Unlisted
<1> QED
  BY <1>1

\* A screen that asks for nothing and is answered nothing.
LEMMA ScreenAlone ==
  ASSUME Money, Untouched, NEW u \in Players, NEW h,
         halls' = [halls EXCEPT ![u] = h], books' = books,
         halls[u].call \notin Calls, UserOk(h, books[u]),
         Answered(h) <= Answered(halls[u])
  PROVE  Money'
<1>1. \A v \in Players : halls[v].call \in Calls => halls'[v].call = halls[v].call
  BY DEF Money
<1>2. QueueOk'
  BY <1>1, QueuesAlone DEF Untouched
<1> QED
  BY <1>2, ScreenKeeps DEF Untouched

\* A screen that shows something else.
LEMMA SameUser ==
  ASSUME NEW g, NEW b, UserOk(g, b), NEW h, IsHall(h), h.mode = g.mode, h.call = g.call, h.got = g.got
  PROVE  UserOk(h, b) /\ Answered(h) = Answered(g)
BY DEF UserOk, Answered

LEMMA AnsweredInt ==
  ASSUME Money, NEW u \in Players PROVE Answered(halls[u]) \in Int
<1>1. UserOk(halls[u], books[u]) /\ BuyIn \in Nat
  BY RoomAssumption DEF Money
<1> QED
  BY <1>1 DEF UserOk, Answered

LEMMA GotSnapPays ==
  ASSUME Money, NEW u \in Players, GotSnap(u)
  PROVE  Money'
<1> DEFINE old == halls[u]
           h == [old EXCEPT !.late = Tail(@), !.snap = IF old.mode = "away" THEN @ ELSE Head(old.late),
                            !.waits = IF old.sub = 0 THEN @ ELSE @ \union {old.sub}]
<1>0. UserOk(old, books[u]) /\ old.call = "none"
  BY DEF Money, GotSnap
<1>1. halls' = [halls EXCEPT ![u] = h] /\ books' = books /\ tables' = tables
  BY DEF GotSnap
<1>2. IsHall(h) /\ h.mode = old.mode /\ h.copy = old.copy /\ h.call = old.call /\ h.got = old.got
  BY <1>0 DEF UserOk, IsHall, HallFields
<1> HIDE DEF h
<1>3. UserOk(h, books[u]) /\ Answered(h) = Answered(old)
  BY <1>0, <1>2, SameUser, Zenon
<1>4. Untouched /\ old.call \notin Calls /\ Answered(h) <= Answered(old)
  BY <1>0, <1>1, <1>3, SameTables, AnsweredInt DEF Calls
<1> QED
  BY <1>1, <1>3, <1>4, ScreenAlone, Zenon

LEMMA WaitSnapPays ==
  ASSUME Money, NEW u \in Players, NEW s, WaitSnap(u, s)
  PROVE  Money'
<1> DEFINE old == halls[u]
           g == [old EXCEPT !.waits = @ \ {s}, !.late = Append(@, subs[s].tbl)]
           h == [old EXCEPT !.waits = @ \ {s}]
<1>0. UserOk(old, books[u])
  BY DEF Money
<1>1. /\ halls' = [halls EXCEPT ![u] = g] \/ halls' = [halls EXCEPT ![u] = h]
      /\ books' = books /\ tables' = tables
  BY DEF WaitSnap
<1>2. /\ IsHall(h) /\ h.mode = old.mode /\ h.copy = old.copy /\ h.call = old.call /\ h.got = old.got
      /\ IsHall(g) /\ g.mode = old.mode /\ g.copy = old.copy /\ g.call = old.call /\ g.got = old.got
  BY <1>0 DEF UserOk, IsHall, HallFields
<1> HIDE DEF h, g
<1>3. \E x \in {g, h} : /\ halls' = [halls EXCEPT ![u] = x]
                        /\ UserOk(x, books[u]) /\ Answered(x) = Answered(old)
                        /\ x.call = old.call
  BY <1>0, <1>1, <1>2, SameUser
<1>4. PICK x \in {g, h} : /\ halls' = [halls EXCEPT ![u] = x]
                          /\ UserOk(x, books[u]) /\ Answered(x) = Answered(old)
                          /\ x.call = old.call
  BY <1>3
<1>5. Untouched /\ Answered(x) <= Answered(old)
  BY <1>1, <1>4, SameTables, AnsweredInt
<1>6. QueueOk'
  <2>1. \A v \in Players : halls'[v].call = halls[v].call
    BY <1>4 DEF Money
  <2> QED
    BY <1>5, <2>1, QueuesAlone DEF Untouched
<1>7. /\ DOMAIN tables' = TableIds
      /\ \A t \in TableIds : TableOk(tables'[t]) /\ Holds(tables'[t]) <= Holds(tables[t])
  BY <1>5 DEF Untouched
<1> QED
  BY <1>1, <1>4, <1>5, <1>6, <1>7, ScreenKeeps, Zenon

LEMMA ActedPays ==
  ASSUME Money, NEW u \in Players, Acted(u)
  PROVE  Money'
<1> DEFINE old == halls[u]
           h == [old EXCEPT !.call = "none", !.mode = "table", !.got = 0]
<1>0. UserOk(old, books[u]) /\ old.call = "answered" /\ old.mode = "acting"
  BY DEF Money, Acted
<1>1. halls' = [halls EXCEPT ![u] = h] /\ books' = books /\ tables' = tables
  BY DEF Acted
<1>2. IsHall(h) /\ h.mode = "table" /\ h.copy = old.copy /\ h.call = "none"
  BY <1>0 DEF UserOk, IsHall, HallFields
<1> HIDE DEF h
<1>3. UserOk(h, books[u]) /\ Answered(h) = 0 /\ Answered(old) = 0
  BY <1>0, <1>2 DEF UserOk, Answered
<1>4. Untouched /\ old.call \notin Calls /\ Answered(h) <= Answered(old)
  BY <1>0, <1>1, <1>3, SameTables DEF Calls
<1> QED
  BY <1>1, <1>3, <1>4, ScreenAlone, Zenon

LEMMA RejoinedPays ==
  ASSUME Money, NEW u \in Players, Rejoined(u)
  PROVE  Money'
<1> DEFINE old == halls[u]
           s == old.got
           h == [old EXCEPT !.call = "none", !.got = 0]
           g == [h EXCEPT !.mode = "table", !.tbl = subs[s].tbl, !.snap = subs[s].tbl, !.sub = s,
                          !.waits = @ \union {s}, !.rejected = FALSE]
<1>0. UserOk(old, books[u]) /\ old.call = "first"
  BY DEF Money, Rejoined
<1>1. /\ IsHall(h) /\ h.mode = old.mode /\ h.call = "none" /\ h.copy = old.copy
  BY <1>0 DEF UserOk, IsHall, HallFields
<1>2. /\ \/ halls' = [halls EXCEPT ![u] = g] /\ tables' = tables
         \/ halls' = [halls EXCEPT ![u] = h] /\ tables' = Unlisted(tables, s)
      /\ books' = books
  BY DEF Rejoined
<1> HIDE DEF h
<1>3. IsHall(g) /\ g.mode = "table" /\ g.call = "none" /\ g.copy = old.copy
  BY <1>1 DEF IsHall, HallFields
<1> HIDE DEF g, s
<1>4. UserOk(h, books[u]) /\ UserOk(g, books[u])
  BY <1>0, <1>1, <1>3 DEF UserOk
<1>5. /\ old.call \notin Calls
      /\ Answered(h) <= Answered(old) /\ Answered(g) <= Answered(old)
  BY <1>0, <1>1, <1>3 DEF Answered, Calls
<1>6. Untouched
  BY <1>2, SameTables, UnlistedSubs, ListChanged
<1>7. CASE halls' = [halls EXCEPT ![u] = g]
  BY <1>2, <1>4, <1>5, <1>6, <1>7, ScreenAlone, Zenon
<1>8. CASE halls' = [halls EXCEPT ![u] = h]
  BY <1>2, <1>4, <1>5, <1>6, <1>8, ScreenAlone, Zenon
<1> QED
  BY <1>2, <1>7, <1>8

LEMMA RejoinPays ==
  ASSUME Money, NEW u \in Players, NEW t, Rejoin(u, t)
  PROVE  Money'
<1> DEFINE old == halls[u]
           h == [old EXCEPT !.call = "first", !.got = NewSub]
<1>0. UserOk(old, books[u]) /\ old.call = "none" /\ old.mode = "lobby"
  BY DEF Money, Rejoin, AtLobby
<1>1. /\ halls' = [halls EXCEPT ![u] = h] /\ books' = books
      /\ \E y : tables' = [tables EXCEPT ![t].subs = y]
  BY DEF Rejoin
<1>2. IsHall(h) /\ h.mode = "lobby" /\ h.call = "first" /\ h.copy = old.copy
  BY <1>0 DEF UserOk, IsHall, HallFields
<1> HIDE DEF h
<1>4. UserOk(h, books[u])
  BY <1>0, <1>2 DEF UserOk
<1>5. old.call \notin Calls /\ Answered(h) <= Answered(old)
  BY <1>0, <1>2 DEF Answered, Calls
<1>6. Untouched
  BY <1>1, ListChanged
<1> QED
  BY <1>1, <1>4, <1>5, <1>6, ScreenAlone, Zenon

\* A table whose queue has got a request, and perhaps one more subscription.
LEMMA Queued ==
  ASSUME NEW tb, TableOk(tb), NEW c
  PROVE  LET r == [tb EXCEPT !.queue = Append(@, c)]
         IN  TableOk(r) /\ Holds(r) = Holds(tb) /\ r.queue = Append(tb.queue, c)
<1> DEFINE r == [tb EXCEPT !.queue = Append(@, c)]
<1>1. /\ IsTable(r) /\ r.user = tb.user /\ r.chips = tb.chips /\ r.in = tb.in
      /\ r.bet = tb.bet /\ r.pot = tb.pot /\ r.running = tb.running
      /\ r.queue = Append(tb.queue, c)
  BY DEF TableOk, IsTable, TableFields
<1> HIDE DEF r
<1>2. IsSeq(r.queue)
  <2>1. IsSeq(tb.queue)
    BY DEF TableOk
  <2> QED
    BY <1>1, <2>1, AppendSeq
<1>3. TableOk(r) /\ Holds(r) = Holds(tb)
  BY <1>1, <1>2, SameChips
<1> QED
  BY <1>1, <1>3 DEF r

LEMMA ListedAndQueued ==
  ASSUME NEW tb, TableOk(tb), NEW c, NEW y
  PROVE  LET r == [tb EXCEPT !.subs = y, !.queue = Append(@, c)]
         IN  TableOk(r) /\ Holds(r) = Holds(tb) /\ r.queue = Append(tb.queue, c)
<1> DEFINE r == [tb EXCEPT !.subs = y, !.queue = Append(@, c)]
<1>1. /\ IsTable(r) /\ r.user = tb.user /\ r.chips = tb.chips /\ r.in = tb.in
      /\ r.bet = tb.bet /\ r.pot = tb.pot /\ r.running = tb.running
      /\ r.queue = Append(tb.queue, c)
  BY DEF TableOk, IsTable, TableFields
<1> HIDE DEF r
<1>2. IsSeq(r.queue)
  <2>1. IsSeq(tb.queue)
    BY DEF TableOk
  <2> QED
    BY <1>1, <2>1, AppendSeq
<1>3. TableOk(r) /\ Holds(r) = Holds(tb)
  BY <1>1, <1>2, SameChips
<1> QED
  BY <1>1, <1>3 DEF r

\* A screen that asks a table, and waits.
ModeFor(kind) == CASE kind = "sit" -> "table" [] kind = "stand" -> "leaving" [] kind = "action" -> "acting"

\* The tables keep their chips, and t0 has one more request, or that one only.
AskedOf(t0, c) ==
  /\ DOMAIN tables' = TableIds
  /\ \A t \in TableIds : TableOk(tables'[t]) /\ Holds(tables'[t]) <= Holds(tables[t])
  /\ \A t \in TableIds : t # t0 => tables'[t].queue = tables[t].queue
  /\ t0 \in TableIds =>
       tables'[t0].queue = Append(tables[t0].queue, c) \/ tables'[t0].queue = Append(<<>>, c)

LEMMA ScreenAsks ==
  ASSUME Money, NEW u \in Players, NEW h, NEW kind \in Calls, NEW t0,
         halls' = [halls EXCEPT ![u] = h], books' = books,
         halls[u].call = "none", IsHall(h), h.call = kind,
         h.mode = ModeFor(kind),
         AskedOf(t0, Request(kind, u, 0))
  PROVE  Money'
<1>0. UserOk(halls[u], books[u])
  BY DEF Money
<1>9. /\ DOMAIN tables' = TableIds
      /\ \A t \in TableIds : TableOk(tables'[t]) /\ Holds(tables'[t]) <= Holds(tables[t])
      /\ \A t \in TableIds : t # t0 => tables'[t].queue = tables[t].queue
      /\ t0 \in TableIds =>
           \/ tables'[t0].queue = Append(tables[t0].queue, Request(kind, u, 0))
           \/ tables'[t0].queue = Append(<<>>, Request(kind, u, 0))
  BY DEF AskedOf
<1>1. kind = "sit" \/ kind = "stand" \/ kind = "action"
  BY DEF Calls
<1>2. h.mode # "away"
      /\ (kind = "sit" => h.mode = "table") /\ (kind = "stand" => h.mode = "leaving")
      /\ (kind = "action" => h.mode = "acting")
  BY <1>1 DEF ModeFor
<1>3. UserOk(h, books[u])
  BY <1>0, <1>1, <1>2 DEF UserOk
<1>4. Answered(h) <= Answered(halls[u])
  BY <1>1 DEF Answered
<1>5. halls'[u].call = kind /\ halls[u].call \notin Calls
      /\ \A v \in Players : v # u => halls'[v].call = halls[v].call
  BY DEF Money, Calls
<1>6. \A t \in TableIds : IsSeq(tables[t].queue)
  BY DEF Money, TableOk
<1>7. QueueOk
  BY DEF Money
<1>8. QueueOk'
  BY <1>5, <1>6, <1>7, <1>9, QueueAsked
<1> QED
  BY <1>3, <1>4, <1>8, <1>9, ScreenKeeps, Zenon

LEMMA AskTablePays ==
  ASSUME Money, NEW u \in Players, Act(u) \/ LeaveTable(u)
  PROVE  Money'
<1>1. PICK kind \in {"action", "stand"} :
        /\ AtTable(u) /\ AskTable(u, kind, IF kind = "stand" THEN "leaving" ELSE "acting")
  BY DEF Act, LeaveTable
<1> DEFINE old == halls[u]
           mode == IF kind = "stand" THEN "leaving" ELSE "acting"
           h == [old EXCEPT !.call = kind, !.mode = mode]
           c == Request(kind, u, 0)
           t0 == old.tbl
<1>2. UserOk(old, books[u]) /\ old.call = "none" /\ old.mode = "table"
  BY <1>1 DEF Money, AtTable
<1>3. /\ halls' = [halls EXCEPT ![u] = h] /\ books' = books
      /\ tables' = [tables EXCEPT ![t0].queue = Append(@, c)]
  BY <1>1 DEF AskTable, Put
<1>4. IsHall(h) /\ h.mode = mode /\ h.call = kind /\ h.copy = old.copy
  BY <1>2 DEF UserOk, IsHall, HallFields
<1>5. kind \in Calls
      /\ mode = ModeFor(kind)
  BY DEF Calls, ModeFor
<1> HIDE DEF h, mode
<1>7. DOMAIN tables' = TableIds
  BY <1>3 DEF Money
<1>8. ASSUME NEW t \in TableIds
      PROVE  /\ TableOk(tables'[t]) /\ Holds(tables'[t]) <= Holds(tables[t])
             /\ tables'[t].queue = IF t = t0 THEN Append(tables[t].queue, c) ELSE tables[t].queue
  <2>0. TableOk(tables[t]) /\ Holds(tables[t]) \in Nat
    BY TableSums DEF Money
  <2>1. CASE t = t0
    <3>1. tables'[t] = [tables[t] EXCEPT !.queue = Append(@, c)]
      BY <1>3, <2>1 DEF Money
    <3> DEFINE q == [tables[t] EXCEPT !.queue = Append(@, c)]
    <3>3. TableOk(q) /\ Holds(q) = Holds(tables[t]) /\ q.queue = Append(tables[t].queue, c)
      BY <2>0, Queued
    <3> HIDE DEF q
    <3>4. tables'[t] = q
      BY <3>1 DEF q
    <3>2. TableOk(tables'[t]) /\ Holds(tables'[t]) = Holds(tables[t])
          /\ tables'[t].queue = Append(tables[t].queue, c)
      BY <3>3, <3>4
    <3> QED
      BY <2>0, <2>1, <3>2
  <2>2. CASE t # t0
    <3>1. tables'[t] = tables[t]
      BY <1>3, <2>2 DEF Money
    <3> QED
      BY <2>0, <2>2, <3>1
  <2> QED
    BY <2>1, <2>2
<1>10. /\ \A t \in TableIds : TableOk(tables'[t]) /\ Holds(tables'[t]) <= Holds(tables[t])
       /\ \A t \in TableIds : t # t0 => tables'[t].queue = tables[t].queue
       /\ t0 \in TableIds => tables'[t0].queue = Append(tables[t0].queue, Request(kind, u, 0))
  BY <1>8
<1>11. h.mode = ModeFor(kind)
  BY <1>4, <1>5
<1>12. AskedOf(t0, Request(kind, u, 0))
  BY <1>7, <1>10 DEF AskedOf
<1> HIDE DEF c, t0
<1> QED
  BY <1>2, <1>3, <1>4, <1>5, <1>11, <1>12, ScreenAsks

LEMMA JoinPays ==
  ASSUME Money, NEW u \in Players, NEW t0 \in TableIds, NEW ts, Join(u, t0, ts),
         books' = books,
         halls[u].call = "none", halls[u].mode = "lobby",
         DOMAIN ts = TableIds, \A t \in TableIds \ {t0} : ts[t] = tables[t],
         TableOk(ts[t0]), Holds(ts[t0]) <= Holds(tables[t0]),
         ts[t0].queue \in {tables[t0].queue, <<>>}
  PROVE  Money'
<1> DEFINE old == halls[u]
           c == Request("sit", u, 0)
           g == [old EXCEPT !.tbl = t0, !.mode = "table", !.call = "sit", !.sub = NewSub, !.rejected = FALSE]
           h == [old EXCEPT !.tbl = t0, !.mode = "table", !.call = "sit"]
<1>0. UserOk(old, books[u])
  BY DEF Money
<1>1. /\ IsHall(g) /\ g.mode = "table" /\ g.call = "sit" /\ g.copy = old.copy
      /\ IsHall(h) /\ h.mode = "table" /\ h.call = "sit" /\ h.copy = old.copy
  BY <1>0 DEF UserOk, IsHall, HallFields
<1>2. \E y : \E x \in {g, h} :
        /\ halls' = [halls EXCEPT ![u] = x]
        /\ \/ tables' = [ts EXCEPT ![t0].subs = y, ![t0].queue = Append(@, c)]
           \/ tables' = [ts EXCEPT ![t0].queue = Append(@, c)]
  <2>1. CASE old.snap = 0
    <3>1. /\ halls' = [halls EXCEPT ![u] = g]
          /\ tables' = [ts EXCEPT ![t0].subs = Append(@, NewSub), ![t0].queue = Append(@, c)]
      BY <2>1 DEF Join
    <3>2. \E y : tables' = [ts EXCEPT ![t0].subs = y, ![t0].queue = Append(@, c)]
      BY <3>1, Zenon
    <3>3. g \in {g, h}
      OBVIOUS
    <3> QED
      BY <3>1, <3>2, <3>3, Zenon
  <2>2. CASE old.snap # 0
    <3>1. /\ halls' = [halls EXCEPT ![u] = h]
          /\ tables' = [ts EXCEPT ![t0].queue = Append(@, c)]
      BY <2>2 DEF Join
    <3> QED
      BY <3>1
  <2> QED
    BY <2>1, <2>2
<1> HIDE DEF g, h, c
<1>3. PICK y : \E x \in {g, h} :
        /\ halls' = [halls EXCEPT ![u] = x]
        /\ \/ tables' = [ts EXCEPT ![t0].subs = y, ![t0].queue = Append(@, c)]
           \/ tables' = [ts EXCEPT ![t0].queue = Append(@, c)]
  BY <1>2
<1>4. PICK x \in {g, h} :
        /\ halls' = [halls EXCEPT ![u] = x]
        /\ \/ tables' = [ts EXCEPT ![t0].subs = y, ![t0].queue = Append(@, c)]
           \/ tables' = [ts EXCEPT ![t0].queue = Append(@, c)]
  BY <1>3
<1>6. IsHall(x) /\ x.mode = "table" /\ x.call = "sit" /\ x.copy = old.copy
  BY <1>1
<1>7. /\ \/ tables'[t0] = [ts[t0] EXCEPT !.queue = Append(@, c)]
         \/ tables'[t0] = [ts[t0] EXCEPT !.subs = y, !.queue = Append(@, c)]
      /\ DOMAIN tables' = TableIds
      /\ \A t \in TableIds \ {t0} : tables'[t] = tables[t]
  BY <1>4
<1>8. TableOk(tables'[t0]) /\ Holds(tables'[t0]) = Holds(ts[t0]) /\ tables'[t0].queue = Append(ts[t0].queue, c)
  <2>1. CASE tables'[t0] = [ts[t0] EXCEPT !.queue = Append(@, c)]
    <3> DEFINE q == [ts[t0] EXCEPT !.queue = Append(@, c)]
    <3>1. TableOk(q) /\ Holds(q) = Holds(ts[t0]) /\ q.queue = Append(ts[t0].queue, c)
      BY Queued
    <3>2. tables'[t0] = q
      BY <2>1
    <3> HIDE DEF q
    <3> QED
      BY <3>1, <3>2
  <2>2. CASE tables'[t0] = [ts[t0] EXCEPT !.subs = y, !.queue = Append(@, c)]
    <3> DEFINE q == [ts[t0] EXCEPT !.subs = y, !.queue = Append(@, c)]
    <3>1. TableOk(q) /\ Holds(q) = Holds(ts[t0]) /\ q.queue = Append(ts[t0].queue, c)
      BY ListedAndQueued
    <3>2. tables'[t0] = q
      BY <2>2
    <3> HIDE DEF q
    <3> QED
      BY <3>1, <3>2
  <2> QED
    BY <1>7, <2>1, <2>2
<1>9. ASSUME NEW t \in TableIds PROVE TableOk(tables'[t]) /\ Holds(tables'[t]) <= Holds(tables[t])
  <2>1. TableOk(tables[t]) /\ Holds(tables[t]) \in Nat
    BY TableSums DEF Money
  <2> QED
    BY <1>7, <1>8, <2>1
<1>10. /\ \A t \in TableIds : t # t0 => tables'[t].queue = tables[t].queue
       /\ \/ tables'[t0].queue = Append(tables[t0].queue, Request("sit", u, 0))
          \/ tables'[t0].queue = Append(<<>>, Request("sit", u, 0))
  BY <1>7, <1>8 DEF c
<1>11. "sit" \in Calls
       /\ x.mode = ModeFor("sit")
  BY <1>6 DEF Calls, ModeFor
<1>12. AskedOf(t0, Request("sit", u, 0))
  BY <1>7, <1>9, <1>10 DEF AskedOf
<1> QED
  BY <1>4, <1>6, <1>11, <1>12, ScreenAsks

LEMMA CreatePays ==
  ASSUME Money, NEW u \in Players, Create(u)
  PROVE  Money'
<1> DEFINE t0 == nextId + 1
           tb == [NoTable EXCEPT !.actor = "running"]
<1>1. /\ Join(u, t0, NewTable) /\ t0 \in TableIds /\ books' = books
      /\ halls[u].call = "none" /\ halls[u].mode = "lobby"
  BY DEF Create, AtLobby
<1>3. TableOk(tb) /\ Holds(tb) = 0 /\ tb.queue = <<>>
  <2>1. /\ IsTable(tb) /\ tb.user = NoTable.user /\ tb.chips = NoTable.chips /\ tb.in = NoTable.in
        /\ tb.bet = NoTable.bet /\ tb.pot = NoTable.pot /\ tb.running = NoTable.running
        /\ tb.queue = <<>>
    BY DEF NoTable, IsTable, TableFields
  <2> HIDE DEF tb
  <2> QED
    BY <2>1, EmptyTable, EmptyIsSeq, SameChips
<1> HIDE DEF tb
<1>4. DOMAIN NewTable = TableIds /\ NewTable[t0] = tb /\ \A t \in TableIds \ {t0} : NewTable[t] = tables[t]
  BY <1>1 DEF NewTable, Money, tb
<1> HIDE DEF t0
<1>5. Holds(tables[t0]) \in Nat
  BY <1>1, TableSums DEF Money
<1>6. TableOk(NewTable[t0]) /\ Holds(NewTable[t0]) <= Holds(tables[t0])
      /\ NewTable[t0].queue \in {tables[t0].queue, <<>>}
  BY <1>3, <1>4, <1>5
<1> QED
  BY <1>1, <1>4, <1>6, JoinPays, Zenon

LEMMA PickPays ==
  ASSUME Money, NEW u \in Players, NEW t0 \in TableIds, Pick(u, t0)
  PROVE  Money'
<1>1. /\ Join(u, t0, tables) /\ books' = books
      /\ halls[u].call = "none" /\ halls[u].mode = "lobby"
  BY DEF Pick, AtLobby
<1>3. /\ DOMAIN tables = TableIds /\ TableOk(tables[t0]) /\ Holds(tables[t0]) <= Holds(tables[t0])
      /\ \A t \in TableIds \ {t0} : tables[t] = tables[t]
      /\ tables[t0].queue \in {tables[t0].queue, <<>>}
  BY TableSums DEF Money
<1> QED
  BY <1>1, <1>3, JoinPays, Zenon

\* A screen asks for a wallet command.
LEMMA ScreenPays ==
  ASSUME Money, Untouched, NEW u \in Players, NEW h, NEW d \in Int,
         halls' = [halls EXCEPT ![u] = h], books' = [books EXCEPT ![u] = @ + d],
         halls[u].call \notin Calls, IsHall(h), h.call = "none", d <= Answered(halls[u])
  PROVE  Money'
<1>0. UserOk(halls[u], books[u])
  BY DEF Money
<1>1. /\ halls'[u] = h /\ DOMAIN halls' = Players /\ books'[u] = books[u] + d /\ DOMAIN books' = Players
      /\ \A v \in Players : v # u => halls'[v] = halls[v] /\ books'[v] = books[v]
  BY DEF Money
<1>2. QueueOk'
  <2>1. \A v \in Players : halls[v].call \in Calls => halls'[v].call = halls[v].call
    BY <1>1
  <2> QED
    BY <2>1, QueuesAlone DEF Untouched
<1>3. UserOk(h, books[u] + d)
  BY <1>0 DEF UserOk
<1>4. Worth(h, books[u] + d) <= Worth(halls[u], books[u])
  <2>1. Answered(h) = 0 /\ Answered(halls[u]) \in Int /\ books[u] \in Int
    BY <1>0, WorthInt DEF Answered, UserOk
  <2> QED
    BY <2>1 DEF Worth
<1>5. /\ DOMAIN tables' = TableIds
      /\ \A t \in TableIds : TableOk(tables'[t]) /\ Holds(tables'[t]) <= Holds(tables[t])
  BY DEF Untouched
<1> QED
  BY <1>1, <1>2, <1>3, <1>4, <1>5, OneUser

LEMMA OpenHallPays ==
  ASSUME Money, NEW u \in Players, OpenHall(u)
  PROVE  Money'
<1> DEFINE h == [Away EXCEPT !.mode = "lobby", !.waits = halls[u].waits, !.late = halls[u].late]
<1>0. UserOk(halls[u], books[u]) /\ halls[u].mode = "away" /\ DOMAIN books = Players
  BY DEF Money, OpenHall
<1>1. halls[u].call = "none" /\ books[u] \in Int
  BY <1>0 DEF UserOk
<1>2. halls' = [halls EXCEPT ![u] = h] /\ books' = [books EXCEPT ![u] = books[u]] /\ tables' = tables
  BY DEF OpenHall, Asked
<1>3. IsHall(h) /\ h.mode = "lobby" /\ h.call = "none"
  BY DEF Away, IsHall, HallFields
<1> HIDE DEF h
<1>4. books' = [books EXCEPT ![u] = @ + 0] /\ 0 \in Int /\ 0 <= Answered(halls[u])
  <2>1. books[u] + 0 = books[u] /\ halls[u].call # "answered"
    BY <1>1
  <2>2. Answered(halls[u]) = 0
    BY <2>1 DEF Answered
  <2>3. books' = [books EXCEPT ![u] = books[u] + 0]
    BY <1>2, <2>1
  <2> QED
    BY <2>2, <2>3
<1>5. Untouched /\ halls[u].call \notin Calls
  BY <1>1, <1>2, SameTables DEF Calls
<1> QED
  BY <1>2, <1>3, <1>4, <1>5, ScreenPays, Zenon

LEMMA LeftPays ==
  ASSUME Money, NEW u \in Players, Left(u)
  PROVE  Money'
<1> DEFINE old == halls[u]
           h == [old EXCEPT !.mode = "lobby", !.call = "none", !.got = 0, !.tbl = 0, !.sub = 0,
                            !.snap = 0, !.rejected = FALSE]
<1>0. UserOk(old, books[u]) /\ old.call = "answered" /\ old.mode = "leaving"
  BY DEF Money, Left
<1>1. IsHall(old) /\ old.got \in Int
  BY <1>0 DEF UserOk
<1>2. /\ halls' = [halls EXCEPT ![u] = h] /\ books' = [books EXCEPT ![u] = @ + old.got]
      /\ tables' = Unlisted(tables, old.sub)
  BY DEF Left, Asked
<1>3. IsHall(h) /\ h.call = "none"
  BY <1>1 DEF IsHall, HallFields
<1> HIDE DEF h
<1>4. old.got <= Answered(old) /\ old.call \notin Calls
  BY <1>0, <1>1 DEF Answered, Calls
<1>5. Untouched
  BY <1>2, UnlistedSubs, ListChanged
<1> QED
  BY <1>1, <1>2, <1>3, <1>4, <1>5, ScreenPays, Zenon

LEMMA JoinedPays ==
  ASSUME Money, NEW u \in Players, Joined(u)
  PROVE  Money'
<1> DEFINE old == halls[u]
           k == [old EXCEPT !.call = "none", !.got = 0]
<1>0. /\ UserOk(old, books[u]) /\ old.call = "answered" /\ old.mode = "table" /\ BuyIn \in Nat
      /\ DOMAIN books = Players
  BY RoomAssumption DEF Money, Joined
<1>1. IsHall(k) /\ k.mode = "table" /\ k.call = "none"
  BY <1>0 DEF UserOk, IsHall, HallFields
<1>2. books' = [books EXCEPT ![u] = books[u] - BuyIn]
  BY DEF Joined, Asked
<1>3. /\ tables' = tables \/ \E x, y : tables' = [tables EXCEPT ![x].subs = y]
      /\ \E h : /\ halls' = [halls EXCEPT ![u] = h]
                /\ \/ h = [k EXCEPT !.mode = "lobby", !.rejected = k.sub # 0]
                   \/ h = [k EXCEPT !.waits = @ \union {k.sub}]
                   \/ h = [k EXCEPT !.sub = NewSub, !.waits = @ \union {NewSub}]
  <2>2. \/ /\ halls' = [halls EXCEPT ![u] = [k EXCEPT !.mode = "lobby", !.rejected = k.sub # 0]]
           /\ tables' = tables
        \/ /\ halls' = [halls EXCEPT ![u] = [k EXCEPT !.waits = @ \union {k.sub}]]
           /\ tables' = tables
        \/ /\ halls' = [halls EXCEPT ![u] = [k EXCEPT !.sub = NewSub, !.waits = @ \union {NewSub}]]
           /\ tables' = [tables EXCEPT ![k.tbl].subs = Append(@, NewSub)]
    BY DEF Joined
  <2> HIDE DEF k
  <2> QED
    BY <2>2, Zenon
<1>4. PICK h : /\ halls' = [halls EXCEPT ![u] = h]
               /\ \/ h = [k EXCEPT !.mode = "lobby", !.rejected = k.sub # 0]
                  \/ h = [k EXCEPT !.waits = @ \union {k.sub}]
                  \/ h = [k EXCEPT !.sub = NewSub, !.waits = @ \union {NewSub}]
  BY <1>3
<1> HIDE DEF k
<1>5. IsHall(h) /\ h.call = "none"
  BY <1>1, <1>4 DEF IsHall, HallFields
<1>6. books' = [books EXCEPT ![u] = @ + (0 - BuyIn)] /\ 0 - BuyIn \in Int
  <2>1. books[u] - BuyIn = books[u] + (0 - BuyIn) /\ 0 - BuyIn \in Int
    BY <1>0 DEF UserOk
  <2> QED
    BY <1>2, <2>1
<1>7. 0 - BuyIn <= Answered(old) /\ old.call \notin Calls
  BY <1>0 DEF Answered, Calls, UserOk
<1>8. Untouched
  BY <1>3, SameTables, ListChanged
<1> QED
  BY <1>4, <1>5, <1>6, <1>7, <1>8, ScreenPays, Zenon

\* A command that is through, and its answer, ask for nothing.
LEMMA GotPaymentPays ==
  ASSUME Money, NEW p \in payments, p.user \in Players, GotPayment(p)
  PROVE  Money'
<1> DEFINE u == p.user
           h == [halls[u] EXCEPT !.copy = p.copy, !.row = p.row]
<1>0. u \in Players
  OBVIOUS
<1>1. /\ halls' = halls \/ halls' = [halls EXCEPT ![u] = h]
      /\ halls[u].call = "none" /\ tables' = tables /\ books' = books
  BY DEF GotPayment
<1>2. CASE halls' = halls
  BY <1>1, <1>2, StillPays
<1>4. CASE halls' = [halls EXCEPT ![u] = h]
  <2>1. UserOk(halls[u], books[u])
    BY DEF Money
  <2>2. IsHall(h) /\ h.mode = halls[u].mode /\ h.call = halls[u].call /\ h.got = halls[u].got
    BY <2>1 DEF UserOk, IsHall, HallFields
  <2> HIDE DEF h, u
  <2>3. UserOk(h, books[u]) /\ Answered(h) = Answered(halls[u])
    BY <2>1, <2>2, SameUser, Zenon
  <2>4. Untouched /\ halls[u].call \notin Calls
    BY <1>1, SameTables DEF Calls
  <2>5. Answered(h) <= Answered(halls[u])
    BY <1>0, <2>3, AnsweredInt
  <2> QED
    BY <1>0, <1>1, <1>4, <2>3, <2>4, <2>5, ScreenAlone, Zenon
<1> QED
  BY <1>1, <1>2, <1>4

-----------------------------------------------------------------------------
(* The actors' steps.                                                       *)

\* The actor shows the table.
LEMMA ShownTable ==
  ASSUME NEW tb, TableOk(tb)
  PROVE  TableOk(Shown(tb)) /\ Holds(Shown(tb)) = Holds(tb) /\ Shown(tb).queue = tb.queue
<1> DEFINE r == Shown(tb)
<1>1. /\ IsTable(r) /\ r.user = tb.user /\ r.chips = tb.chips /\ r.in = tb.in
      /\ r.bet = tb.bet /\ r.pot = tb.pot /\ r.running = tb.running /\ r.queue = tb.queue
  BY DEF Shown, TableOk, IsTable, TableFields
<1> HIDE DEF r
<1>2. IsSeq(r.queue)
  BY <1>1 DEF TableOk
<1>3. TableOk(r) /\ Holds(r) = Holds(tb)
  BY <1>1, <1>2, SameChips
<1> QED
  BY <1>1, <1>3 DEF r

\* The actor takes a request.
Taken(t) == [tables[t] EXCEPT !.queue = Tail(@)]

LEMMA TakenTable ==
  ASSUME Money, NEW t \in TableIds, tables[t].queue # <<>>
  PROVE  /\ TableOk(Taken(t)) /\ Holds(Taken(t)) = Holds(tables[t])
         /\ Taken(t).queue = Tail(tables[t].queue)
         /\ Taken(t).user = tables[t].user /\ Taken(t).chips = tables[t].chips
<1> DEFINE r == Taken(t)
<1>0. TableOk(tables[t])
  BY DEF Money
<1>1. /\ IsTable(r) /\ r.user = tables[t].user /\ r.chips = tables[t].chips /\ r.in = tables[t].in
      /\ r.bet = tables[t].bet /\ r.pot = tables[t].pot /\ r.running = tables[t].running
      /\ r.queue = Tail(tables[t].queue)
  BY <1>0 DEF Taken, TableOk, IsTable, TableFields
<1> HIDE DEF r
<1>2. IsSeq(r.queue)
  <2>1. PICK S : tables[t].queue \in Seq(S)
    BY <1>0 DEF TableOk, IsSeq
  <2>2. Tail(tables[t].queue) \in Seq(S)
    BY <2>1, HeadTailProperties
  <2> QED
    BY <1>1, <2>2 DEF IsSeq
<1>3. TableOk(r) /\ Holds(r) = Holds(tables[t])
  BY <1>0, <1>1, <1>2, SameChips
<1> QED
  BY <1>1, <1>3 DEF r

\* Who asked is waiting, at the front of the queue and nowhere else.
LEMMA FrontCall ==
  ASSUME Money, NEW t \in TableIds, tables[t].queue # <<>>, Head(tables[t].queue).kind \in Calls
  PROVE  LET c == Head(tables[t].queue)
         IN  c.user \in Players /\ halls[c.user].call = c.kind
<1>1. PICK S : tables[t].queue \in Seq(S)
  BY DEF Money, TableOk, IsSeq
<1>2. Head(tables[t].queue) = tables[t].queue[1] /\ 1 \in DOMAIN tables[t].queue
  BY <1>1, HeadTailProperties, LenProperties, EmptySeq
<1>3. QueueOk
  BY DEF Money
<1> QED
  BY <1>2, <1>3 DEF QueueOk

Reply(u, x) == [halls[u] EXCEPT !.call = "answered", !.got = x]

LEMMA Answers ==
  ASSUME Money, NEW u \in Players, halls[u].call \in Calls, NEW x \in Nat
  PROVE  /\ UserOk(Reply(u, x), books[u]) /\ Answered(halls[u]) = 0
         /\ halls[u].call = "sit" => Answered(Reply(u, x)) = IF x # 0 THEN 0 - BuyIn ELSE 0
         /\ halls[u].call = "stand" => Answered(Reply(u, x)) = x
         /\ halls[u].call = "action" => Answered(Reply(u, x)) = 0
<1>0. UserOk(halls[u], books[u])
  BY DEF Money
<1> DEFINE h == Reply(u, x)
<1>1. IsHall(h) /\ h.mode = halls[u].mode /\ h.call = "answered" /\ h.got = x
  BY <1>0 DEF UserOk, IsHall, HallFields, Reply
<1>2. halls[u].call \in {"sit", "stand", "action"}
  BY DEF Calls
<1>3. /\ halls[u].call = "sit" => h.mode = "table"
      /\ halls[u].call = "stand" => h.mode = "leaving"
      /\ halls[u].call = "action" => h.mode = "acting"
  BY <1>0, <1>1 DEF UserOk
<1> HIDE DEF h
<1>4. UserOk(h, books[u])
  BY <1>0, <1>1, <1>2, <1>3 DEF UserOk
<1>5. Answered(halls[u]) = 0
  BY <1>2 DEF Answered
<1>6. /\ halls[u].call = "sit" => Answered(h) = IF x # 0 THEN 0 - BuyIn ELSE 0
      /\ halls[u].call = "stand" => Answered(h) = x
      /\ halls[u].call = "action" => Answered(h) = 0
  BY <1>1, <1>2, <1>3 DEF Answered
<1> QED
  BY <1>2, <1>4, <1>5, <1>6 DEF h

\* A call is answered: what the table gives the player is to get.
LEMMA AnswerPays ==
  ASSUME Money, NEW t0 \in TableIds, tables[t0].queue # <<>>,
         Head(tables[t0].queue).kind \in Calls,
         NEW r, TableOk(r), r.queue = Tail(tables[t0].queue), tables' = [tables EXCEPT ![t0] = r],
         NEW x \in Nat, halls' = Replied(Head(tables[t0].queue).user, x),
         books' = books,
         NEW d \in Int, Holds(r) <= Holds(tables[t0]) + d,
         Answered(Reply(Head(tables[t0].queue).user, x)) <= 0 - d
  PROVE  Money'
<1> DEFINE c == Head(tables[t0].queue)
           u == c.user
           h == Reply(u, x)
<1>1. u \in Players /\ halls[u].call \in Calls
  BY FrontCall
<1>2. UserOk(h, books[u]) /\ Answered(halls[u]) = 0
  BY <1>1, Answers
<1>3. halls' = [halls EXCEPT ![u] = h]
  BY DEF Replied, Reply
<1> HIDE DEF h, u
<1>4. halls'[u] = h /\ DOMAIN halls' = Players /\ \A v \in Players : v # u => halls'[v] = halls[v]
  BY <1>1, <1>3 DEF Money
<1>5. /\ DOMAIN tables' = TableIds /\ tables'[t0] = r
      /\ \A t \in TableIds : t # t0 => tables'[t] = tables[t]
  BY DEF Money
<1>6. QueueOk'
  <2>1. \A t \in TableIds : IsSeq(tables[t].queue)
    BY DEF Money, TableOk
  <2>2. \A t \in TableIds : tables'[t].queue = IF t = t0 THEN Tail(tables[t].queue) ELSE tables[t].queue
    BY <1>5
  <2>3. \A v \in Players : (c.kind \in Calls /\ v = c.user) \/ halls'[v] = halls[v]
    BY <1>4 DEF u
  <2>4. QueueOk
    BY DEF Money
  <2> QED
    BY <2>1, <2>2, <2>3, <2>4, QueueTaken
<1>7. Sound'
  <2>1. \A t \in TableIds : TableOk(tables'[t])
    BY <1>5 DEF Money
  <2>2. \A v \in Players : UserOk(halls'[v], books'[v])
    BY <1>2, <1>4 DEF Money
  <2>3. DOMAIN books' = Players
    BY DEF Money
  <2> QED
    BY <1>4, <1>5, <1>6, <2>1, <2>2, <2>3 DEF Sound
<1>8. \A v \in Players : Worths'[v] <= IF v = u THEN Worths[v] - d ELSE Worths[v]
  <2> TAKE v \in Players
  <2>1. Worths[v] = Worth(halls[v], books[v]) /\ Worths[v] \in Int
    BY WorthInt DEF Worths, Money
  <2>2. Worths'[v] = Worth(halls'[v], books[v])
    BY DEF Worths
  <2>3. CASE v # u
    BY <1>4, <2>1, <2>2, <2>3
  <2>4. CASE v = u
    <3>1. Worths'[v] = books[u] + Answered(h) /\ Worths[v] = books[u] + 0
      BY <1>2, <1>4, <2>1, <2>2, <2>4 DEF Worth
    <3>2. books[u] \in Int
      BY <1>2 DEF UserOk
    <3>3. Answered(h) \in Int
      <4>1. BuyIn \in Nat
        BY RoomAssumption
      <4> QED
        BY <1>2, <4>1 DEF Answered, UserOk
    <3>4. Answered(h) <= 0 - d
      BY DEF h, u
    <3> QED
      BY <2>4, <3>1, <3>2, <3>3, <3>4
  <2> QED
    BY <2>3, <2>4
<1>9. \A t \in TableIds : OnTables'[t] <= IF t = t0 THEN OnTables[t] + d ELSE OnTables[t]
  <2> TAKE t \in TableIds
  <2>1. OnTables[t] = Holds(tables[t]) /\ OnTables[t] \in Nat /\ OnTables'[t] = Holds(tables'[t])
    BY TableSums DEF OnTables, Money
  <2> QED
    BY <1>5, <2>1
<1> QED
  BY <1>1, <1>7, <1>8, <1>9, MoneyMoves

LEMMA LowestIn ==
  ASSUME NEW S \in SUBSET SeatNos, S # {} PROVE Lowest(S) \in S
<1>1. S \in SUBSET Nat
  BY RoomAssumption
<1>2. \E m \in S : \A k \in S : m <= k
  BY <1>1, LeastNatural
<1> QED
  BY <1>2 DEF Lowest

LEMMA SitPays ==
  ASSUME Money, NEW t \in TableIds, tables[t].queue # <<>>, Head(tables[t].queue).kind = "sit",
         SitProcessed(t, Head(tables[t].queue)), books' = books
  PROVE  Money'
<1> DEFINE c == Head(tables[t].queue)
           tb == Taken(t)
           free == SeatNos \ Occupied(tb)
<1>0. TableOk(tb) /\ Holds(tb) = Holds(tables[t]) /\ tb.queue = Tail(tables[t].queue)
  BY TakenTable
<1>1. /\ c.kind \in Calls /\ c.user \in Players /\ halls[c.user].call = "sit" /\ halls[c.user].call \in Calls
      /\ Holds(tables[t]) \in Nat /\ BuyIn \in Nat
  BY FrontCall, RoomAssumption, TableSums DEF Calls, Money
<1>2. \/ tables' = [tables EXCEPT ![t] = tb] /\ halls' = Replied(c.user, 0)
      \/ \E i \in SeatNos :
           LET s == [tb EXCEPT !.user[i] = c.user, !.chips[i] = BuyIn, !.bet[i] = 0]
               d == IF s.running THEN s ELSE DealHand(s)
           IN  tables' = [tables EXCEPT ![t] = Shown(d)] /\ halls' = Replied(c.user, 1)
  <2> HIDE DEF c
  <2> QED
    BY DEF SitProcessed, Taken, c
<1> HIDE DEF tb
<1>3. CASE tables' = [tables EXCEPT ![t] = tb] /\ halls' = Replied(c.user, 0)
  <2>1. Holds(tb) <= Holds(tables[t]) + 0 /\ Answered(Reply(c.user, 0)) <= 0 - 0
    BY <1>0, <1>1, Answers
  <2>2. 0 \in Nat /\ 0 \in Int
    OBVIOUS
  <2> QED
    BY <1>0, <1>1, <1>3, <2>1, <2>2, AnswerPays, Zenon
<1>4. CASE \E i \in SeatNos :
             LET s == [tb EXCEPT !.user[i] = c.user, !.chips[i] = BuyIn, !.bet[i] = 0]
                 d == IF s.running THEN s ELSE DealHand(s)
             IN  tables' = [tables EXCEPT ![t] = Shown(d)] /\ halls' = Replied(c.user, 1)
  <2>1. PICK i \in SeatNos :
             LET s == [tb EXCEPT !.user[i] = c.user, !.chips[i] = BuyIn, !.bet[i] = 0]
                 d == IF s.running THEN s ELSE DealHand(s)
             IN  tables' = [tables EXCEPT ![t] = Shown(d)] /\ halls' = Replied(c.user, 1)
    BY <1>4
  <2> DEFINE s == [tb EXCEPT !.user[i] = c.user, !.chips[i] = BuyIn, !.bet[i] = 0]
             d == IF s.running THEN s ELSE DealHand(s)
  <2>2. tables' = [tables EXCEPT ![t] = Shown(d)] /\ halls' = Replied(c.user, 1)
    BY <2>1
  <2>3. s = [tb EXCEPT !.user[i] = c.user, !.chips[i] = BuyIn, !.bet[i] = 0]
        /\ d = IF s.running THEN s ELSE DealHand(s)
    OBVIOUS
  <2> HIDE DEF s, d
  <2>4. TableOk(s) /\ Holds(s) <= Holds(tb) + BuyIn /\ s.queue = tb.queue /\ Holds(s) \in Nat
    <3>1. TableOk(s) /\ Holds(s) <= Holds(tb) + BuyIn /\ s.queue = tb.queue
      BY <1>0, <2>3, SeatKeepsChips, Zenon
    <3> QED
      BY <3>1, TableSums
  <2>5. TableOk(d) /\ Holds(d) <= Holds(s) /\ d.queue = s.queue
    <3>1. CASE s.running
      <4>1. d = s
        BY <2>3, <3>1, Zenon
      <4>2. Holds(s) <= Holds(s)
        BY <2>4
      <4> QED
        BY <2>4, <4>1, <4>2, Zenon
    <3>2. CASE ~s.running
      <4>1. d = DealHand(s)
        BY <2>3, <3>2, Zenon
      <4> QED
        BY <2>4, <4>1, DealKeepsChips, Zenon
    <3> QED
      BY <3>1, <3>2
  <2>6. TableOk(Shown(d)) /\ Holds(Shown(d)) = Holds(d) /\ Shown(d).queue = d.queue /\ Holds(d) \in Nat
    BY <2>5, ShownTable, TableSums
  <2>7. Holds(Shown(d)) <= Holds(tables[t]) + BuyIn
    BY <1>0, <1>1, <2>4, <2>5, <2>6
  <2>8. Shown(d).queue = Tail(tables[t].queue)
    BY <1>0, <2>4, <2>5, <2>6
  <2>9. Answered(Reply(c.user, 1)) <= 0 - BuyIn
    <3>1. 1 \in Nat /\ 1 # 0
      OBVIOUS
    <3>2. Answered(Reply(c.user, 1)) = 0 - BuyIn
      BY <1>1, <3>1, Answers
    <3> QED
      BY <1>1, <3>2
  <2>10. 1 \in Nat /\ BuyIn \in Int
    BY <1>1
  <2> QED
    BY <1>1, <2>2, <2>6, <2>7, <2>8, <2>9, <2>10, AnswerPays, Zenon
<1> QED
  BY <1>2, <1>3, <1>4, Zenon

LEMMA StandPays ==
  ASSUME Money, NEW t \in TableIds, tables[t].queue # <<>>, Head(tables[t].queue).kind = "stand",
         StandProcessed(t, Head(tables[t].queue)), books' = books
  PROVE  Money'
<1> DEFINE c == Head(tables[t].queue)
           tb == Taken(t)
           mine == SeatsOf(tb, c.user)
<1>0. TableOk(tb) /\ Holds(tb) = Holds(tables[t]) /\ tb.queue = Tail(tables[t].queue)
  BY TakenTable
<1>1. /\ c.kind \in Calls /\ c.user \in Players /\ halls[c.user].call = "stand" /\ halls[c.user].call \in Calls
      /\ Holds(tables[t]) \in Nat
  BY FrontCall, TableSums DEF Calls, Money
<1>2. \/ tables' = [tables EXCEPT ![t] = tb] /\ halls' = Replied(c.user, 0)
      \/ /\ mine # {}
         /\ \E r \in Rise(tb, Lowest(mine)) :
              tables' = [tables EXCEPT ![t] = Shown(r)] /\ halls' = Replied(c.user, tb.chips[Lowest(mine)])
  BY DEF StandProcessed, Taken
<1> HIDE DEF tb
<1>3. CASE tables' = [tables EXCEPT ![t] = tb] /\ halls' = Replied(c.user, 0)
  <2>1. Holds(tb) <= Holds(tables[t]) + 0 /\ Answered(Reply(c.user, 0)) <= 0 - 0
    BY <1>0, <1>1, Answers
  <2>2. 0 \in Nat /\ 0 \in Int
    OBVIOUS
  <2> QED
    BY <1>0, <1>1, <1>3, <2>1, <2>2, AnswerPays, Zenon
<1>4. ASSUME mine # {}, NEW r \in Rise(tb, Lowest(mine)), tables' = [tables EXCEPT ![t] = Shown(r)],
             halls' = Replied(c.user, tb.chips[Lowest(mine)])
      PROVE  Money'
  <2> DEFINE i == Lowest(mine)
             x == tb.chips[i]
  <2>1. i \in SeatNos
    <3>1. mine \in SUBSET SeatNos
      BY DEF SeatsOf
    <3>2. i \in mine
      BY <1>4, <3>1, LowestIn
    <3> QED
      BY <3>1, <3>2
  <2>2. x \in Nat
    BY <1>0, <2>1 DEF TableOk
  <2> HIDE DEF i
  <2>3. r \in Rise(tb, i) /\ tables' = [tables EXCEPT ![t] = Shown(r)] /\ halls' = Replied(c.user, x)
    BY <1>4 DEF i
  <2>4. TableOk(r) /\ Holds(r) <= Holds(tb) - x /\ r.queue = tb.queue
    BY <1>0, <2>1, <2>3, RiseKeepsChips
  <2>5. TableOk(Shown(r)) /\ Holds(Shown(r)) = Holds(r) /\ Shown(r).queue = r.queue /\ Holds(r) \in Nat
    BY <2>4, ShownTable, TableSums
  <2> HIDE DEF x
  <2>6. Holds(Shown(r)) <= Holds(tables[t]) + (0 - x)
    BY <1>0, <1>1, <2>2, <2>4, <2>5
  <2>7. Shown(r).queue = Tail(tables[t].queue)
    BY <1>0, <2>4, <2>5
  <2>8. Answered(Reply(c.user, x)) <= 0 - (0 - x)
    <3>1. Answered(Reply(c.user, x)) = x
      BY <1>1, <2>2, Answers
    <3> QED
      BY <2>2, <3>1
  <2>9. 0 - x \in Int
    BY <2>2
  <2> QED
    BY <1>1, <2>2, <2>3, <2>5, <2>6, <2>7, <2>8, <2>9, AnswerPays, Zenon
<1> QED
  BY <1>2, <1>3, <1>4, Zenon

LEMMA ActionPays ==
  ASSUME Money, NEW t \in TableIds, tables[t].queue # <<>>, Head(tables[t].queue).kind = "action",
         ActionProcessed(t, Head(tables[t].queue)), books' = books
  PROVE  Money'
<1> DEFINE c == Head(tables[t].queue)
           tb == Taken(t)
<1>0. TableOk(tb) /\ Holds(tb) = Holds(tables[t]) /\ tb.queue = Tail(tables[t].queue)
  BY TakenTable
<1>1. /\ c.kind \in Calls /\ c.user \in Players /\ halls[c.user].call = "action" /\ halls[c.user].call \in Calls
      /\ Holds(tables[t]) \in Nat
  BY FrontCall, TableSums DEF Calls, Money
<1>2. /\ halls' = Replied(c.user, 1)
      /\ \/ tables' = [tables EXCEPT ![t] = IF SeatsOf(tb, c.user) = {} THEN tb ELSE Shown(tb)]
         \/ tb.running /\ \E e \in Ends(tb) : tables' = [tables EXCEPT ![t] = Shown(e)]
  BY DEF ActionProcessed, Taken
<1> HIDE DEF tb
<1>3. \E r : /\ tables' = [tables EXCEPT ![t] = r] /\ TableOk(r) /\ Holds(r) = Holds(tb)
             /\ r.queue = tb.queue
  <2>1. CASE tables' = [tables EXCEPT ![t] = IF SeatsOf(tb, c.user) = {} THEN tb ELSE Shown(tb)]
    <3>1. TableOk(Shown(tb)) /\ Holds(Shown(tb)) = Holds(tb) /\ Shown(tb).queue = tb.queue
      BY <1>0, ShownTable
    <3> QED
      BY <1>0, <2>1, <3>1
  <2>2. ASSUME tb.running, NEW e \in Ends(tb), tables' = [tables EXCEPT ![t] = Shown(e)]
        PROVE  \E r : /\ tables' = [tables EXCEPT ![t] = r] /\ TableOk(r) /\ Holds(r) = Holds(tb)
                      /\ r.queue = tb.queue
    <3>1. TableOk(e) /\ Holds(e) = Holds(tb) /\ e.queue = tb.queue
      BY <1>0, <2>2, EndKeepsChips
    <3>2. TableOk(Shown(e)) /\ Holds(Shown(e)) = Holds(e) /\ Shown(e).queue = e.queue
      BY <3>1, ShownTable
    <3> QED
      BY <2>2, <3>1, <3>2
  <2> QED
    BY <1>2, <2>1, <2>2
<1>4. PICK r : /\ tables' = [tables EXCEPT ![t] = r] /\ TableOk(r) /\ Holds(r) = Holds(tb)
               /\ r.queue = tb.queue
  BY <1>3
<1>5. Holds(r) <= Holds(tables[t]) + 0 /\ r.queue = Tail(tables[t].queue)
  BY <1>0, <1>1, <1>4
<1>6. 1 \in Nat /\ 0 \in Int
  OBVIOUS
<1>7. Answered(Reply(c.user, 1)) <= 0 - 0
  <2>1. Answered(Reply(c.user, 1)) = 0
    BY <1>1, <1>6, Answers
  <2> QED
    BY <2>1
<1> QED
  BY <1>1, <1>2, <1>4, <1>5, <1>6, <1>7, AnswerPays, Zenon

\* A request nobody waits for.
LEMMA NoCallPays ==
  ASSUME Money, NEW t0 \in TableIds, tables[t0].queue # <<>>,
         Head(tables[t0].queue).kind \notin Calls,
         NEW r, TableOk(r), r.queue = Tail(tables[t0].queue), Holds(r) <= Holds(tables[t0]),
         tables' = [tables EXCEPT ![t0] = r],
         halls' = halls, books' = books
  PROVE  Money'
<1>1. /\ DOMAIN tables' = TableIds /\ tables'[t0] = r
      /\ \A t \in TableIds : t # t0 => tables'[t] = tables[t]
  BY DEF Money
<1>2. \A t \in TableIds : TableOk(tables'[t]) /\ Holds(tables'[t]) <= Holds(tables[t])
  BY <1>1, TableSums DEF Money
<1>3. QueueOk'
  <2>1. \A t \in TableIds : IsSeq(tables[t].queue)
    BY DEF Money, TableOk
  <2>2. \A t \in TableIds : tables'[t].queue = IF t = t0 THEN Tail(tables[t].queue) ELSE tables[t].queue
    BY <1>1
  <2>3. QueueOk /\ \A v \in Players : halls'[v] = halls[v]
    BY DEF Money
  <2> QED
    BY <2>1, <2>2, <2>3, QueueTaken
<1> QED
  BY <1>1, <1>2, <1>3, OnlyTables

LEMMA ProcessPays ==
  ASSUME Money, NEW t \in TableIds, Process(t)
  PROVE  Money'
<1> DEFINE c == Head(tables[t].queue)
           tb == Taken(t)
<1>1. tables[t].queue # <<>> /\ books' = books
  BY DEF Process
<1>2. CASE c.kind = "sit" /\ SitProcessed(t, c)
  BY <1>1, <1>2, SitPays
<1>3. CASE c.kind = "stand" /\ StandProcessed(t, c)
  BY <1>1, <1>3, StandPays
<1>4. CASE c.kind = "action" /\ ActionProcessed(t, c)
  BY <1>1, <1>4, ActionPays
<1>5. TableOk(tb) /\ Holds(tb) = Holds(tables[t]) /\ tb.queue = Tail(tables[t].queue) /\ Holds(tb) \in Nat
  BY <1>1, TakenTable, TableSums
<1>6. CASE c.kind = "start" /\ StartHandProcessed(t)
  <2>1. /\ halls' = halls
        /\ \E r : tables' = [tables EXCEPT ![t] = r] /\ r \in {DealHand(tb), Shown(DealHand(tb))}
    <3>1. halls' = halls /\ tables' = [tables EXCEPT ![t] = IF DealHand(tb).hand = tb.hand THEN DealHand(tb)
                                                            ELSE Shown(DealHand(tb))]
      BY <1>6 DEF StartHandProcessed, Taken
    <3> HIDE DEF tb
    <3> QED
      BY <3>1
  <2> HIDE DEF tb
  <2>2. PICK r : tables' = [tables EXCEPT ![t] = r] /\ r \in {DealHand(tb), Shown(DealHand(tb))}
    BY <2>1
  <2>3. TableOk(DealHand(tb)) /\ Holds(DealHand(tb)) <= Holds(tb) /\ DealHand(tb).queue = tb.queue
    BY <1>5, DealKeepsChips
  <2>4. TableOk(r) /\ Holds(r) <= Holds(tb) /\ r.queue = tb.queue
    BY <2>2, <2>3, ShownTable
  <2>5. r.queue = Tail(tables[t].queue) /\ Holds(r) <= Holds(tables[t]) /\ c.kind \notin Calls
    BY <1>5, <1>6, <2>4 DEF Calls
  <2> QED
    BY <1>1, <2>1, <2>2, <2>4, <2>5, NoCallPays, Zenon
<1>7. CASE c.kind = "snap" /\ SnapshotProcessed(t, c)
  <2>1. halls' = halls /\ tables' = [tables EXCEPT ![t] = tb]
    <3>1. halls' = halls /\ tables' = [tables EXCEPT ![t].queue = Tail(@)]
      BY <1>7 DEF SnapshotProcessed
    <3> QED
      BY <3>1 DEF Taken
  <2>2. c.kind \notin Calls /\ Holds(tb) <= Holds(tables[t])
    BY <1>5, <1>7 DEF Calls
  <2> QED
    BY <1>1, <1>5, <2>1, <2>2, NoCallPays, Zenon
<1> QED
  BY <1>2, <1>3, <1>4, <1>6, <1>7 DEF Process

\* A table to which what its chips do not depend on is changed.
LEMMA TableTended ==
  ASSUME Money, NEW t0, NEW r, tables' = [tables EXCEPT ![t0] = r],
         t0 \in TableIds => /\ IsTable(r) /\ r.user = tables[t0].user /\ r.chips = tables[t0].chips
                            /\ r.in = tables[t0].in /\ r.bet = tables[t0].bet /\ r.pot = tables[t0].pot
                            /\ r.running = tables[t0].running
                            /\ Quieter(r.queue, tables[t0].queue),
         halls' = halls, books' = books
  PROVE  Money'
<1>1. /\ DOMAIN tables' = TableIds /\ (t0 \in TableIds => tables'[t0] = r)
      /\ \A t \in TableIds : t # t0 => tables'[t] = tables[t]
  BY DEF Money
<1>2. \A t \in TableIds : TableOk(tables[t]) /\ IsSeq(tables[t].queue) /\ Holds(tables[t]) <= Holds(tables[t])
  BY TableSums DEF Money, TableOk
<1>3. t0 \in TableIds => TableOk(r) /\ Holds(r) = Holds(tables[t0])
  BY <1>2, QuietPart, SameChips
<1>4. \A t \in TableIds : TableOk(tables'[t]) /\ Holds(tables'[t]) <= Holds(tables[t])
  BY <1>1, <1>2, <1>3
<1>5. QueueOk'
  <2>1. \A t \in TableIds : Quieter(tables'[t].queue, tables[t].queue)
    BY <1>1 DEF Quieter
  <2>2. QueueOk /\ \A v \in Players : halls[v].call \in Calls => halls'[v].call = halls[v].call
    BY DEF Money
  <2> QED
    BY <1>2, <2>1, <2>2, QueueQuiet
<1> QED
  BY <1>1, <1>4, <1>5, OnlyTables

\* A snapshot, or the next hand, is asked for.
LEMMA PutPays ==
  ASSUME Money, NEW t0, NEW c, c.kind \notin Calls, tables' = Put(t0, c),
         halls' = halls, books' = books
  PROVE  Money'
<1> DEFINE r == [tables[t0] EXCEPT !.queue = Append(@, c)]
<1>1. tables' = [tables EXCEPT ![t0] = r]
  BY DEF Put
<1>2. t0 \in TableIds => /\ IsTable(r) /\ r.user = tables[t0].user /\ r.chips = tables[t0].chips
                         /\ r.in = tables[t0].in /\ r.bet = tables[t0].bet /\ r.pot = tables[t0].pot
                         /\ r.running = tables[t0].running
                         /\ r.queue = Append(tables[t0].queue, c)
  <2> SUFFICES ASSUME t0 \in TableIds
               PROVE  /\ IsTable(r) /\ r.user = tables[t0].user /\ r.chips = tables[t0].chips
                      /\ r.in = tables[t0].in /\ r.bet = tables[t0].bet /\ r.pot = tables[t0].pot
                      /\ r.running = tables[t0].running
                      /\ r.queue = Append(tables[t0].queue, c)
    OBVIOUS
  <2>1. TableOk(tables[t0])
    BY DEF Money
  <2> QED
    BY <2>1 DEF TableOk, IsTable, TableFields
<1> HIDE DEF r
<1>3. t0 \in TableIds => Quieter(r.queue, tables[t0].queue)
  BY <1>2 DEF Quieter
<1> QED
  BY <1>1, <1>2, <1>3, TableTended, Zenon

LEMMA SendPays ==
  ASSUME Money, NEW t0, Send(t0)
  PROVE  Money'
<1> DEFINE r == [tables[t0] EXCEPT !.sends = Tail(@)]
<1>1. tables' = [tables EXCEPT ![t0] = r] /\ halls' = halls /\ books' = books
  BY DEF Send
<1>2. t0 \in TableIds => /\ IsTable(r) /\ r.user = tables[t0].user /\ r.chips = tables[t0].chips
                         /\ r.in = tables[t0].in /\ r.bet = tables[t0].bet /\ r.pot = tables[t0].pot
                         /\ r.running = tables[t0].running
                         /\ r.queue = tables[t0].queue
  <2> SUFFICES ASSUME t0 \in TableIds
               PROVE  /\ IsTable(r) /\ r.user = tables[t0].user /\ r.chips = tables[t0].chips
                      /\ r.in = tables[t0].in /\ r.bet = tables[t0].bet /\ r.pot = tables[t0].pot
                      /\ r.running = tables[t0].running
                      /\ r.queue = tables[t0].queue
    OBVIOUS
  <2>1. TableOk(tables[t0])
    BY DEF Money
  <2> QED
    BY <2>1 DEF TableOk, IsTable, TableFields
<1> HIDE DEF r
<1>3. t0 \in TableIds => Quieter(r.queue, tables[t0].queue)
  BY <1>2 DEF Quieter
<1> QED
  BY <1>1, <1>2, <1>3, TableTended, Zenon

LEMMA ActorStopsPays ==
  ASSUME Money, NEW t0, ActorStops(t0)
  PROVE  Money'
<1> DEFINE r == [tables[t0] EXCEPT !.actor = "ended", !.subs = <<>>]
<1>1. tables' = [tables EXCEPT ![t0] = r] /\ halls' = halls /\ books' = books
  BY DEF ActorStops
<1>2. t0 \in TableIds => /\ IsTable(r) /\ r.user = tables[t0].user /\ r.chips = tables[t0].chips
                         /\ r.in = tables[t0].in /\ r.bet = tables[t0].bet /\ r.pot = tables[t0].pot
                         /\ r.running = tables[t0].running
                         /\ r.queue = tables[t0].queue
  <2> SUFFICES ASSUME t0 \in TableIds
               PROVE  /\ IsTable(r) /\ r.user = tables[t0].user /\ r.chips = tables[t0].chips
                      /\ r.in = tables[t0].in /\ r.bet = tables[t0].bet /\ r.pot = tables[t0].pot
                      /\ r.running = tables[t0].running
                      /\ r.queue = tables[t0].queue
    OBVIOUS
  <2>1. TableOk(tables[t0])
    BY DEF Money
  <2> QED
    BY <2>1 DEF TableOk, IsTable, TableFields
<1> HIDE DEF r
<1>3. t0 \in TableIds => Quieter(r.queue, tables[t0].queue)
  BY <1>2 DEF Quieter
<1> QED
  BY <1>1, <1>2, <1>3, TableTended, Zenon

LEMMA DealingPays ==
  ASSUME Money, Dealing
  PROVE  Money'
<1>1. CASE Push
  BY <1>1, StillPays DEF Push
<1>2. CASE AskSnapshot
  <2>1. PICK s \in asks : tables' = Put(subs[s].tbl, Request("snap", subs[s].user, s))
    BY <1>2 DEF AskSnapshot
  <2>2. Request("snap", subs[s].user, s).kind \notin Calls
    BY DEF Request, Calls
  <2>3. halls' = halls /\ books' = books
    BY <1>2 DEF AskSnapshot
  <2> QED
    BY <2>1, <2>2, <2>3, PutPays
<1>3. CASE TimerFires
  <2>1. halls' = halls /\ books' = books
    BY <1>3 DEF TimerFires
  <2>2. PICK t \in timers : tables' = Put(t, Request("start", NoOne, 0)) \/ tables' = tables
    BY <1>3 DEF TimerFires
  <2>3. Request("start", NoOne, 0).kind \notin Calls
    BY DEF Request, Calls
  <2> QED
    BY <2>1, <2>2, <2>3, PutPays, StillPays
<1>4. CASE \E t \in TableIds : Process(t) \/ Send(t)
  BY <1>4, ProcessPays, SendPays
<1> QED
  BY <1>1, <1>2, <1>3, <1>4 DEF Dealing

LEMMA StoppingPays ==
  ASSUME Money, Stopping, ~Restart
  PROVE  Money'
<1>1. CASE Shutdown \/ SaveWrites \/ Saved
  BY <1>1, StillPays DEF Shutdown, SaveWrites, Saved
<1>2. CASE SaveAsks
  <2>1. Request("snap", NoOne, 0).kind \notin Calls
    BY DEF Request, Calls
  <2> QED
    BY <1>2, <2>1, PutPays DEF SaveAsks
<1>3. CASE \E t \in TableIds : ActorStops(t)
  BY <1>3, ActorStopsPays
<1> QED
  BY <1>1, <1>2, <1>3 DEF Stopping

LEMMA SittingPays ==
  ASSUME Money, Sitting
  PROVE  Money'
<1>1. PICK u \in Players :
        \/ OpenHall(u) \/ Create(u) \/ Joined(u) \/ Act(u) \/ Acted(u) \/ LeaveTable(u) \/ Left(u)
        \/ Rejoined(u) \/ LeaveHall(u) \/ Disconnect(u) \/ GotSnap(u)
        \/ \E t \in TableIds : Pick(u, t) \/ Rejoin(u, t)
        \/ \E s \in halls[u].waits : WaitSnap(u, s)
  BY DEF Sitting
<1>2. CASE OpenHall(u) \/ Create(u) \/ Joined(u) \/ Act(u) \/ LeaveTable(u)
  BY <1>2, OpenHallPays, CreatePays, JoinedPays, AskTablePays
<1>3. CASE Acted(u) \/ Left(u) \/ Rejoined(u) \/ LeaveHall(u) \/ Disconnect(u) \/ GotSnap(u)
  BY <1>3, ActedPays, LeftPays, RejoinedPays, LeaveHallPays, DisconnectPays, GotSnapPays
<1>4. CASE \E t \in TableIds : Pick(u, t) \/ Rejoin(u, t)
  BY <1>4, PickPays, RejoinPays
<1>5. CASE \E s \in halls[u].waits : WaitSnap(u, s)
  BY <1>5, WaitSnapPays
<1> QED
  BY <1>1, <1>2, <1>3, <1>4, <1>5

\* Only a restart counts as one.
LEMMA StopsKept ==
  ASSUME RoomNext, ~Restart
  PROVE  stops' = stops
<1>1. CASE Dealing
  BY <1>1 DEF Dealing, Push, AskSnapshot, TimerFires, Process, Send
<1>2. CASE Paid
  BY <1>2 DEF Paid, Pay, PayFails, GotPayment
<1>3. CASE Stopping
  BY <1>3 DEF Stopping, Shutdown, SaveAsks, SaveWrites, Saved, ActorStops
<1>4. CASE Sitting
  <2>1. PICK u \in Players :
        \/ OpenHall(u) \/ Create(u) \/ Joined(u) \/ Act(u) \/ Acted(u) \/ LeaveTable(u) \/ Left(u)
        \/ Rejoined(u) \/ LeaveHall(u) \/ Disconnect(u) \/ GotSnap(u)
        \/ \E t \in TableIds : Pick(u, t) \/ Rejoin(u, t)
        \/ \E s \in halls[u].waits : WaitSnap(u, s)
    BY <1>4 DEF Sitting
  <2>2. CASE OpenHall(u) \/ Create(u) \/ Joined(u)
    BY <2>2 DEF OpenHall, Create, Joined
  <2>3. CASE Act(u) \/ Acted(u) \/ LeaveTable(u)
    BY <2>3 DEF Act, Acted, LeaveTable, AskTable
  <2>4. CASE Left(u) \/ Rejoined(u)
    BY <2>4 DEF Left, Rejoined
  <2>5. CASE LeaveHall(u) \/ Disconnect(u) \/ GotSnap(u) \/ \E s \in halls[u].waits : WaitSnap(u, s)
    BY <2>5 DEF LeaveHall, Disconnect, GotSnap, WaitSnap
  <2>6. CASE \E t \in TableIds : Pick(u, t) \/ Rejoin(u, t)
    BY <2>6 DEF Pick, Rejoin
  <2> QED
    BY <2>1, <2>2, <2>3, <2>4, <2>5, <2>6
<1> QED
  BY <1>1, <1>2, <1>3, <1>4 DEF RoomNext

-----------------------------------------------------------------------------
(* The rows of the wallets.                                                 *)

\* A screen that has the copy it had, or is another screen.
SameWallet(h, g) ==
  /\ h.row \in {NoOne, g.row}
  /\ h.mode = "away" \/ (g.mode # "away" /\ h.copy = g.copy /\ h.row = g.row)

LEMMA RowStays ==
  ASSUME NEW M, NEW u, NEW g, NEW h, NEW purse, NEW book, RowOk(M, u, g, purse, book), SameWallet(h, g)
  PROVE  RowOk(M, u, h, purse, book)
BY DEF RowOk, SameWallet, UnderWay

LEMMA RowsAlone ==
  ASSUME RowsOk, payments' = payments, purses' = purses, books' = books, astray' = astray,
         \A u \in Players : SameWallet(halls'[u], halls[u])
  PROVE  RowsOk'
<1>1. \A u \in Players \ astray : RowOk(Mine(payments, u), u, halls'[u], purses[u], books[u])
  BY RowStays DEF RowsOk
<1>2. \A u \in Players : halls'[u].row \in {NoOne, u}
  BY DEF RowsOk, SameWallet
<1> QED
  BY <1>1, <1>2 DEF RowsOk

\* One user's row, screen and commands.
LEMMA RowsOf ==
  ASSUME RowsOk, NEW u \in Players, DOMAIN purses' = Players,
         \A p \in payments' : IsPayment(p),
         halls'[u].row \in {NoOne, u},
         \A v \in Players \ {u} : /\ halls'[v] = halls[v] /\ purses'[v] = purses[v] /\ books'[v] = books[v]
                                  /\ Mine(payments', v) = Mine(payments, v),
         astray' \in {astray, astray \union {u}},
         u \notin astray' => RowOk(Mine(payments', u), u, halls'[u], purses'[u], books'[u])
  PROVE  RowsOk'
<1>1. ASSUME NEW v \in Players \ astray'
      PROVE  RowOk(Mine(payments', v), v, halls'[v], purses'[v], books'[v])
  <2>1. CASE v = u
    BY <2>1
  <2>2. CASE v # u
    <3>1. RowOk(Mine(payments, v), v, halls[v], purses[v], books[v])
      BY DEF RowsOk
    <3> QED
      BY <2>2, <3>1
  <2> QED
    BY <2>1, <2>2
<1>2. \A v \in Players : halls'[v].row \in {NoOne, v}
  BY DEF RowsOk
<1> QED
  BY <1>1, <1>2 DEF RowsOk

\* A step of a screen that touches no wallet.
LEMMA ScreenRows ==
  ASSUME Money, RowsOk, NEW u \in Players, NEW h, halls' = [halls EXCEPT ![u] = h], SameWallet(h, halls[u]),
         payments' = payments, purses' = purses, books' = books, astray' = astray
  PROVE  RowsOk'
<1>1. \A v \in Players : SameWallet(halls'[v], halls[v])
  BY DEF Money, SameWallet
<1> QED
  BY <1>1, RowsAlone

LEMMA AskedRows ==
  ASSUME Money, RowsOk, NEW u \in Players, NEW h, NEW kind, NEW amount, Asked(u, kind, amount),
         halls' = [halls EXCEPT ![u] = h], h.row \in {NoOne, u}, h.mode # "away", purses' = purses,
         \/ kind = "load" /\ amount = 0
         \/ kind \in {"debit", "credit"} /\ amount \in Int /\ halls[u].mode # "away"
  PROVE  RowsOk'
<1> DEFINE q == Payment(u, kind, amount)
<1>1. /\ q = [f \in PaymentFields |-> q[f]] /\ q.user = u /\ q.kind = kind /\ q.amount = amount
      /\ q.copy = halls[u].copy /\ q.row = halls[u].row /\ ~q.done /\ ~q.lost
  <2>1. PICK n : q = [nr |-> n, user |-> u, kind |-> kind, amount |-> amount, copy |-> halls[u].copy,
                      row |-> halls[u].row, done |-> FALSE, lost |-> FALSE]
    BY DEF Payment
  <2> HIDE DEF q
  <2> QED
    BY <2>1 DEF PaymentFields
<1>2. payments' = payments \union {q} /\ astray' = IF Paying(u) THEN astray \union {u} ELSE astray
  BY DEF Asked
<1> HIDE DEF q
<1>3. IsPayment(q)
  BY <1>1 DEF IsPayment, RowsOk
<1>4. \A v \in Players \ {u} : Mine(payments', v) = Mine(payments, v)
  BY <1>1, <1>2 DEF Mine
<1>5. halls'[u] = h /\ \A v \in Players \ {u} : halls'[v] = halls[v] /\ books'[v] = books[v]
  BY DEF Money, Asked
<1>6. ASSUME u \notin astray' PROVE RowOk(Mine(payments', u), u, h, purses'[u], books'[u])
  <2>1. u \notin astray /\ Mine(payments, u) = {}
    BY <1>2, <1>6 DEF Paying, Mine
  <2>2. Mine(payments', u) = {q}
    BY <1>1, <1>2, <2>1 DEF Mine
  <2>3. purses[u] \in Int /\ purses[u] = books[u]
        /\ (halls[u].mode # "away" => halls[u].copy = purses[u] /\ halls[u].row = u)
    BY <2>1 DEF RowsOk, RowOk
  <2>4. UnderWay(q, h, purses[u], books'[u])
    <3>1. CASE kind = "load"
      <4>1. books'[u] = books[u]
        BY <3>1 DEF Asked, Money
      <4> QED
        BY <1>1, <2>3, <3>1, <4>1 DEF UnderWay
    <3>2. CASE kind = "debit" /\ amount \in Int /\ halls[u].mode # "away"
      <4>1. books'[u] = books[u] - amount /\ Changed(q) = halls[u].copy - amount
        BY <1>1, <3>2 DEF Asked, Money, Changed
      <4> QED
        BY <1>1, <2>3, <3>2, <4>1 DEF UnderWay
    <3>3. CASE kind = "credit" /\ amount \in Int /\ halls[u].mode # "away"
      <4>1. books'[u] = books[u] + amount /\ Changed(q) = halls[u].copy + amount
        BY <1>1, <3>3 DEF Asked, Money, Changed
      <4> QED
        BY <1>1, <2>3, <3>3, <4>1 DEF UnderWay
    <3> QED
      BY <3>1, <3>2, <3>3
  <2> QED
    BY <2>2, <2>3, <2>4 DEF RowOk
<1>7. /\ DOMAIN purses' = Players /\ \A p \in payments' : IsPayment(p)
      /\ astray' \in {astray, astray \union {u}} /\ \A v \in Players \ {u} : purses'[v] = purses[v]
  BY <1>2, <1>3 DEF RowsOk
<1> QED
  BY <1>4, <1>5, <1>6, <1>7, RowsOf

\* Nobody's commands but p's user's are changed when p is.
LEMMA OthersMine ==
  ASSUME RowsOk, NEW p \in payments, NEW Q, Q \subseteq {q \in Q : q.user = p.user},
         payments' = (payments \ {p}) \union Q
  PROVE  /\ \A v \in Players \ {p.user} : Mine(payments', v) = Mine(payments, v)
         /\ Mine(payments, p.user) = {p} => Mine(payments', p.user) = Q
BY DEF Mine

\* The one command of a user who had no two.
LEMMA OneMine ==
  ASSUME RowsOk, NEW p \in payments, p.user \in Players \ astray
  PROVE  /\ Mine(payments, p.user) = {p} /\ purses[p.user] \in Int
         /\ UnderWay(p, halls[p.user], purses[p.user], books[p.user])
<1>1. p \in Mine(payments, p.user)
  BY DEF Mine
<1>2. RowOk(Mine(payments, p.user), p.user, halls[p.user], purses[p.user], books[p.user])
  BY DEF RowsOk
<1> QED
  BY <1>1, <1>2 DEF RowOk

LEMMA ThroughRows ==
  ASSUME RowsOk, NEW p \in payments, NEW made, NEW whose \in {NoOne, p.user}, Through(p, made, whose),
         halls' = halls, books' = books, DOMAIN purses' = Players,
         \A v \in Players \ {p.user} : purses'[v] = purses[v],
         astray' \in {astray, astray \union {p.user}},
         p.user \notin astray' =>
           /\ purses'[p.user] \in Int /\ purses'[p.user] = books[p.user]
           /\ made = purses'[p.user] /\ whose = p.user
  PROVE  RowsOk'
<1> DEFINE u == p.user
           q == [p EXCEPT !.done = TRUE, !.copy = made, !.row = whose]
           Q == IF p.lost THEN {} ELSE {q}
<1>0. IsPayment(p) /\ u \in Players /\ halls[u].row \in {NoOne, u}
  BY DEF RowsOk, IsPayment
<1>1. /\ q = [f \in PaymentFields |-> q[f]] /\ q.user = u /\ q.kind = p.kind /\ q.amount = p.amount
      /\ q.copy = made /\ q.row = whose /\ q.done /\ q.lost = p.lost
  BY <1>0 DEF IsPayment, PaymentFields
<1>2. payments' = (payments \ {p}) \union Q
  BY DEF Through
<1> HIDE DEF q
<1>3. IsPayment(q) /\ Q \subseteq {x \in Q : x.user = p.user}
  BY <1>0, <1>1 DEF IsPayment
<1>4. \A x \in payments' : IsPayment(x)
  BY <1>2, <1>3 DEF RowsOk
<1>5. /\ \A v \in Players \ {u} : Mine(payments', v) = Mine(payments, v)
      /\ Mine(payments, u) = {p} => Mine(payments', u) = Q
  BY <1>2, <1>3, OthersMine
<1>6. ASSUME u \notin astray' PROVE RowOk(Mine(payments', u), u, halls'[u], purses'[u], books'[u])
  <2>1. p.user \in Players \ astray
    BY <1>0, <1>6
  <2>2. Mine(payments, u) = {p} /\ UnderWay(p, halls[u], purses[u], books[u])
    BY <2>1, OneMine
  <2>3. p.lost => halls[u].mode = "away"
    BY <2>2 DEF UnderWay
  <2>4. Mine(payments', u) = Q
    BY <1>5, <2>2
  <2>5. CASE p.lost
    BY <1>6, <2>3, <2>4, <2>5 DEF RowOk
  <2>6. CASE ~p.lost
    <3>1. UnderWay(q, halls[u], purses'[u], books[u])
      BY <1>1, <1>6, <2>6 DEF UnderWay
    <3> QED
      BY <1>6, <2>4, <2>6, <3>1 DEF RowOk
  <2> QED
    BY <2>5, <2>6
<1> HIDE DEF u, Q
<1>7. u = p.user
  BY DEF u
<1> QED
  BY <1>0, <1>4, <1>5, <1>6, <1>7, RowsOf

\* What a command writes is its user's row.
LEMMA WriteRows ==
  ASSUME RowsOk, NEW p \in payments, Write(p)
  PROVE  /\ DOMAIN purses' = Players /\ \A v \in Players \ {p.user} : purses'[v] = purses[v]
         /\ p.row = p.user => purses'[p.user] = Changed(p)
<1>1. p.row \in {NoOne, p.user} /\ p.user \in Players /\ NoOne \notin Players /\ DOMAIN purses = Players
  BY PlayersAssumption DEF RowsOk, IsPayment
<1> QED
  BY <1>1 DEF Write

LEMMA PayRows ==
  ASSUME RowsOk, NEW p \in payments, Pay(p)
  PROVE  RowsOk'
<1> DEFINE u == p.user
<1>0. /\ u \in Players /\ p.row \in {NoOne, u} /\ DOMAIN purses = Players
      /\ p.kind \in {"load", "debit", "credit"} /\ (p.kind = "load" => p.amount = 0)
  BY DEF RowsOk, IsPayment
<1>1. halls' = halls /\ books' = books /\ astray' = astray /\ ~p.done
  BY DEF Pay
<1>2. u \notin astray => /\ purses[u] \in Int /\ UnderWay(p, halls[u], purses[u], books[u])
  BY <1>0, OneMine
<1>3. CASE p.kind = "load" /\ Through(p, purses[u], u) /\ UNCHANGED purses
  <2>1. u \notin astray => purses[u] \in Int /\ purses[u] = books[u]
    BY <1>1, <1>2, <1>3 DEF UnderWay
  <2> QED
    BY <1>0, <1>1, <1>3, <2>1, ThroughRows
<1>4. CASE p.kind = "credit" /\ p.amount = 0 /\ Through(p, p.copy, p.row) /\ UNCHANGED purses
  <2>1. u \notin astray => /\ purses[u] \in Int /\ p.copy = purses[u] /\ p.row = u
                           /\ Changed(p) = books[u]
    BY <1>1, <1>2, <1>4 DEF UnderWay
  <2>2. u \notin astray => purses[u] = books[u]
    BY <1>4, <2>1 DEF Changed
  <2> QED
    BY <1>0, <1>1, <1>4, <2>1, <2>2, ThroughRows
<1>5. CASE (p.kind = "debit" \/ p.amount > 0) /\ Write(p) /\ Through(p, Changed(p), p.row)
  <2>0. p.kind # "load"
    BY <1>0, <1>5
  <2>1. /\ DOMAIN purses' = Players /\ \A v \in Players \ {u} : purses'[v] = purses[v]
        /\ p.row = u => purses'[u] = Changed(p)
    BY <1>5, WriteRows
  <2>2. u \notin astray => /\ p.row = u /\ Changed(p) = books[u] /\ Changed(p) \in Int
    BY <1>1, <1>2, <2>0 DEF UnderWay, Changed
  <2>3. u \notin astray => purses'[u] = Changed(p) /\ purses'[u] = books[u] /\ purses'[u] \in Int /\ p.row = u
    BY <2>1, <2>2
  <2>4. Through(p, Changed(p), p.row)
    BY <1>5
  <2> QED
    BY <1>0, <1>1, <2>1, <2>3, <2>4, ThroughRows
<1> QED
  BY <1>3, <1>4, <1>5 DEF Pay

LEMMA PayFailsRows ==
  ASSUME RowsOk, NEW p \in payments, PayFails(p)
  PROVE  RowsOk'
<1> DEFINE u == p.user
<1>0. /\ u \in Players /\ p.row \in {NoOne, u} /\ DOMAIN purses = Players /\ halls[u].row \in {NoOne, u}
  BY DEF RowsOk, IsPayment
<1>1. halls' = halls /\ books' = books /\ astray' = astray \union {u}
  BY DEF PayFails
<1>2. DOMAIN purses' = Players /\ \A v \in Players \ {u} : purses'[v] = purses[v]
  BY <1>0, WriteRows DEF PayFails
<1>3. CASE Through(p, Changed(p), p.row)
  BY <1>0, <1>1, <1>2, <1>3, ThroughRows
<1>4. CASE payments' = payments \ {p}
  <2>2. \A v \in Players \ {u} : Mine(payments', v) = Mine(payments, v)
    BY <1>4 DEF Mine
  <2>3. \A x \in payments' : IsPayment(x)
    BY <1>4 DEF RowsOk
  <2> QED
    BY <1>0, <1>1, <1>2, <2>2, <2>3, RowsOf
<1> QED
  BY <1>3, <1>4 DEF PayFails

LEMMA GotPaymentRows ==
  ASSUME Money, RowsOk, NEW p \in payments, GotPayment(p)
  PROVE  RowsOk'
<1> DEFINE u == p.user
           h == [halls[u] EXCEPT !.copy = p.copy, !.row = p.row]
<1>0. /\ u \in Players /\ p.row \in {NoOne, u} /\ DOMAIN purses = Players /\ halls[u].row \in {NoOne, u}
      /\ IsHall(halls[u])
  BY DEF RowsOk, IsPayment, Money, UserOk
<1>1. /\ books' = books /\ astray' = astray /\ purses' = purses /\ p.done /\ payments' = payments \ {p}
      /\ halls' = IF halls[u].mode = "away" THEN halls ELSE [halls EXCEPT ![u] = h]
  <2>1. halls' = IF halls[u].mode = "away" THEN halls
                 ELSE [halls EXCEPT ![u].copy = p.copy, ![u].row = p.row]
    BY DEF GotPayment
  <2> QED
    BY <2>1 DEF GotPayment
<1>2. h.copy = p.copy /\ h.row = p.row
  BY <1>0 DEF IsHall, HallFields
<1> HIDE DEF h
<1>3. \A v \in Players \ {u} : halls'[v] = halls[v]
  BY <1>1
<1>4. halls'[u] = IF halls[u].mode = "away" THEN halls[u] ELSE h
  BY <1>0, <1>1 DEF Money
<1>5. payments' = (payments \ {p}) \union {} /\ {} \subseteq {q \in {} : q.user = u}
  BY <1>1
<1>6. /\ \A v \in Players \ {u} : Mine(payments', v) = Mine(payments, v)
      /\ Mine(payments, u) = {p} => Mine(payments', u) = {}
  BY <1>5, OthersMine
<1>7. \A x \in payments' : IsPayment(x)
  BY <1>1 DEF RowsOk
<1>8. ASSUME u \notin astray' PROVE RowOk(Mine(payments', u), u, halls'[u], purses'[u], books'[u])
  <2>1. p.user \in Players \ astray
    BY <1>0, <1>1, <1>8
  <2>2. /\ Mine(payments, u) = {p} /\ purses[u] \in Int
        /\ UnderWay(p, halls[u], purses[u], books[u])
    BY <2>1, OneMine
  <2>3. purses[u] = books[u] /\ p.copy = purses[u] /\ p.row = u
    BY <1>1, <2>2 DEF UnderWay
  <2>4. halls'[u].mode # "away" => halls'[u].copy = purses[u] /\ halls'[u].row = u
    BY <1>2, <1>4, <2>3
  <2> QED
    BY <1>1, <1>6, <2>2, <2>3, <2>4 DEF RowOk
<1>9. halls'[u].row \in {NoOne, u}
  BY <1>0, <1>2, <1>4
<1> HIDE DEF u
<1> QED
  BY <1>0, <1>1, <1>3, <1>6, <1>7, <1>8, <1>9, RowsOf

LEMMA DisconnectRows ==
  ASSUME Money, RowsOk, NEW u \in Players, Disconnect(u)
  PROVE  RowsOk'
<1> DEFINE L(p) == [p EXCEPT !.lost = TRUE]
<1>1. /\ payments' = {p \in payments : p.user # u}
                       \union {L(p) : p \in {q \in payments : q.user = u /\ ~q.done}}
      /\ halls' = [halls EXCEPT ![u] = Away]
      /\ books' = books /\ astray' = astray /\ purses' = purses
  BY DEF Disconnect
<1>2. ASSUME NEW p \in payments
      PROVE  /\ L(p) = [f \in PaymentFields |-> L(p)[f]] /\ L(p).user = p.user /\ L(p).kind = p.kind
             /\ L(p).amount = p.amount /\ L(p).copy = p.copy /\ L(p).row = p.row /\ L(p).done = p.done
             /\ IsPayment(p)
  BY DEF RowsOk, IsPayment, PaymentFields
<1> HIDE DEF L
<1>3. ASSUME NEW p \in payments PROVE IsPayment(L(p))
  BY <1>2 DEF IsPayment
<1>4. \A x \in payments' : IsPayment(x)
  BY <1>1, <1>2, <1>3
<1>5. \A v \in Players \ {u} : Mine(payments', v) = Mine(payments, v)
  BY <1>1, <1>2 DEF Mine
<1>6. halls'[u] = Away /\ \A v \in Players \ {u} : halls'[v] = halls[v]
  BY <1>1 DEF Money
<1>7. Away.mode = "away" /\ Away.row = NoOne
  BY AwayIsHall
<1>8. ASSUME u \notin astray PROVE RowOk(Mine(payments', u), u, Away, purses[u], books[u])
  <2>1. RowOk(Mine(payments, u), u, halls[u], purses[u], books[u])
    BY <1>8 DEF RowsOk
  <2>2. CASE Mine(payments, u) = {}
    <3>1. Mine(payments', u) = {}
      BY <1>1, <1>2, <2>2 DEF Mine
    <3> QED
      BY <1>7, <2>1, <2>2, <3>1 DEF RowOk
  <2>3. CASE Mine(payments, u) # {}
    <3>1. PICK p : Mine(payments, u) = {p} /\ UnderWay(p, halls[u], purses[u], books[u]) /\ purses[u] \in Int
      BY <2>1, <2>3 DEF RowOk
    <3>2. p \in payments /\ p.user = u
      BY <3>1 DEF Mine
    <3>3. CASE p.done
      <4>1. Mine(payments', u) = {}
        BY <1>1, <1>2, <3>1, <3>3 DEF Mine
      <4> QED
        BY <1>7, <3>1, <3>3, <4>1 DEF RowOk, UnderWay
    <3>4. CASE ~p.done
      <4>1. Mine(payments', u) = {L(p)}
        <5>1. \A x \in payments : x.user = u <=> x = p
          BY <3>1 DEF Mine
        <5>2. payments' = {x \in payments : x.user # u} \union {L(p)}
          BY <1>1, <3>2, <3>4, <5>1
        <5> QED
          BY <1>2, <3>2, <5>2 DEF Mine
      <4>2. UnderWay(L(p), Away, purses[u], books[u])
        BY <1>2, <1>7, <3>1, <3>2, <3>4 DEF UnderWay, Changed
      <4> QED
        BY <3>1, <4>1, <4>2 DEF RowOk
    <3> QED
      BY <3>3, <3>4
  <2> QED
    BY <2>2, <2>3
<1>9. /\ DOMAIN purses' = Players /\ halls'[u].row \in {NoOne, u} /\ astray' \in {astray, astray \union {u}}
      /\ \A v \in Players \ {u} : halls'[v] = halls[v] /\ purses'[v] = purses[v] /\ books'[v] = books[v]
  BY <1>1, <1>6, <1>7 DEF RowsOk
<1>10. u \notin astray' => RowOk(Mine(payments', u), u, halls'[u], purses'[u], books'[u])
  BY <1>1, <1>6, <1>8
<1> QED
  BY <1>4, <1>5, <1>9, <1>10, RowsOf

LEMMA SittingRows ==
  ASSUME Money, RowsOk, Sitting
  PROVE  RowsOk'
<1>0. PICK u \in Players :
        \/ OpenHall(u) \/ Create(u) \/ Joined(u) \/ Act(u) \/ Acted(u) \/ LeaveTable(u) \/ Left(u)
        \/ Rejoined(u) \/ LeaveHall(u) \/ Disconnect(u) \/ GotSnap(u)
        \/ \E t \in TableIds : Pick(u, t) \/ Rejoin(u, t)
        \/ \E s \in halls[u].waits : WaitSnap(u, s)
  BY DEF Sitting
<1> DEFINE old == halls[u]
<1>1. /\ IsHall(old) /\ old.row \in {NoOne, u} /\ BuyIn \in Int
      /\ old.call = "answered" => old.got \in Int
  BY RoomAssumption DEF Money, UserOk, RowsOk
<1>2. CASE OpenHall(u)
  <2> DEFINE h == [Away EXCEPT !.mode = "lobby", !.waits = old.waits, !.late = old.late]
  <2>1. h.row = NoOne /\ h.mode # "away"
    BY DEF Away
  <2>2. halls' = [halls EXCEPT ![u] = h] /\ Asked(u, "load", 0) /\ purses' = purses
    BY <1>2 DEF OpenHall
  <2> HIDE DEF h
  <2> QED
    BY <2>1, <2>2, AskedRows
<1>3. CASE Joined(u)
  <2>1. old.mode = "table" /\ Asked(u, "debit", BuyIn) /\ purses' = purses
    BY <1>3 DEF Joined
  <2>2. PICK h : halls' = [halls EXCEPT ![u] = h] /\ h.row = old.row /\ h.mode \in {"table", "lobby"}
    <3> DEFINE k == [old EXCEPT !.call = "none", !.got = 0]
               a == [k EXCEPT !.mode = "lobby", !.rejected = k.sub # 0]
               b == [k EXCEPT !.waits = @ \union {k.sub}]
               c == [k EXCEPT !.sub = NewSub, !.waits = @ \union {NewSub}]
    <3>1. \E h \in {a, b, c} : halls' = [halls EXCEPT ![u] = h]
      <4>1. \/ halls' = [halls EXCEPT ![u] = a] \/ halls' = [halls EXCEPT ![u] = b]
            \/ halls' = [halls EXCEPT ![u] = c]
        BY <1>3 DEF Joined
      <4> HIDE DEF a, b, c
      <4> QED
        BY <4>1
    <3>2. IsHall(k) /\ k.row = old.row /\ k.mode = "table"
      BY <1>1, <2>1 DEF IsHall, HallFields
    <3> HIDE DEF k
    <3>3. a.row = old.row /\ b.row = old.row /\ c.row = old.row
      BY <3>2 DEF IsHall, HallFields
    <3>4. a.mode = "lobby" /\ b.mode = "table" /\ c.mode = "table"
      BY <3>2 DEF IsHall, HallFields
    <3> HIDE DEF a, b, c
    <3> QED
      BY <3>1, <3>3, <3>4
  <2> QED
    BY <1>1, <2>1, <2>2, AskedRows
<1>4. CASE Left(u)
  <2> DEFINE h == [old EXCEPT !.mode = "lobby", !.call = "none", !.got = 0, !.tbl = 0, !.sub = 0,
                              !.snap = 0, !.rejected = FALSE]
  <2>1. /\ old.mode = "leaving" /\ old.call = "answered" /\ Asked(u, "credit", old.got) /\ purses' = purses
        /\ halls' = [halls EXCEPT ![u] = h]
    BY <1>4 DEF Left
  <2>2. h.row = old.row /\ h.mode = "lobby"
    BY <1>1 DEF IsHall, HallFields
  <2> HIDE DEF h
  <2> QED
    BY <1>1, <2>1, <2>2, AskedRows
<1>5. CASE Disconnect(u)
  BY <1>5, DisconnectRows
<1>6. CASE LeaveHall(u)
  <2> DEFINE h == [Away EXCEPT !.waits = old.waits, !.late = old.late]
  <2>1. h.row = NoOne /\ h.mode = "away"
    BY DEF Away
  <2>2. /\ halls' = [halls EXCEPT ![u] = h]
        /\ payments' = payments /\ purses' = purses /\ books' = books /\ astray' = astray
    BY <1>6 DEF LeaveHall
  <2> HIDE DEF h
  <2> QED
    BY <2>1, <2>2, ScreenRows DEF SameWallet
<1>7. CASE Act(u) \/ Acted(u) \/ LeaveTable(u)
  <2>1. PICK call, mode, got : /\ halls' = [halls EXCEPT ![u] = [old EXCEPT !.call = call, !.mode = mode, !.got = got]]
                               /\ old.mode # "away"
    <3>1. CASE Acted(u)
      <4>1. old.mode = "acting" /\ halls' = [halls EXCEPT ![u] = [old EXCEPT !.call = "none", !.mode = "table", !.got = 0]]
        BY <3>1 DEF Acted
      <4> QED
        BY <4>1
    <3>2. CASE Act(u) \/ LeaveTable(u)
      <4>1. PICK kind, mode : halls' = [halls EXCEPT ![u] = [old EXCEPT !.call = kind, !.mode = mode]]
        <5>1. AskTable(u, "action", "acting") \/ AskTable(u, "stand", "leaving")
          BY <3>2 DEF Act, LeaveTable
        <5>2. \/ halls' = [halls EXCEPT ![u] = [old EXCEPT !.call = "action", !.mode = "acting"]]
              \/ halls' = [halls EXCEPT ![u] = [old EXCEPT !.call = "stand", !.mode = "leaving"]]
          BY <5>1 DEF AskTable
        <5> QED
          BY <5>2
      <4>2. [old EXCEPT !.call = kind, !.mode = mode] = [old EXCEPT !.call = kind, !.mode = mode, !.got = old.got]
        BY <1>1 DEF IsHall, HallFields
      <4>3. old.mode = "table"
        BY <3>2 DEF Act, LeaveTable, AtTable
      <4>4. halls' = [halls EXCEPT ![u] = [old EXCEPT !.call = kind, !.mode = mode, !.got = old.got]]
        BY <4>1, <4>2
      <4> QED
        BY <4>3, <4>4
    <3> QED
      BY <1>7, <3>1, <3>2
  <2> DEFINE h == [old EXCEPT !.call = call, !.mode = mode, !.got = got]
  <2>2. h.row = old.row /\ h.copy = old.copy
    BY <1>1 DEF IsHall, HallFields
  <2>3. halls' = [halls EXCEPT ![u] = h]
    BY <2>1
  <2> HIDE DEF h
  <2>4. SameWallet(h, old)
    BY <2>1, <2>2 DEF SameWallet
  <2>5. payments' = payments /\ purses' = purses /\ books' = books /\ astray' = astray
    BY <1>7 DEF Act, Acted, LeaveTable, AskTable
  <2> QED
    BY <2>3, <2>4, <2>5, ScreenRows
<1>8. CASE Rejoined(u)
  <2> DEFINE h == [old EXCEPT !.call = "none", !.got = 0]
             s == old.got
             g == [h EXCEPT !.mode = "table", !.tbl = subs[s].tbl, !.snap = subs[s].tbl, !.sub = s,
                            !.waits = @ \union {s}, !.rejected = FALSE]
  <2>1. halls' = [halls EXCEPT ![u] = g] \/ halls' = [halls EXCEPT ![u] = h]
    BY <1>8 DEF Rejoined
  <2>2. IsHall(h) /\ h.row = old.row /\ h.copy = old.copy /\ h.mode = old.mode
    BY <1>1 DEF IsHall, HallFields
  <2> HIDE DEF h
  <2>3. g.row = old.row /\ g.copy = old.copy
    BY <2>2 DEF IsHall, HallFields
  <2>4. old.mode # "away"
    BY <1>8 DEF Rejoined, Money, UserOk
  <2> HIDE DEF g
  <2>5. SameWallet(h, old) /\ SameWallet(g, old)
    BY <2>2, <2>3, <2>4 DEF SameWallet
  <2>6. payments' = payments /\ purses' = purses /\ books' = books /\ astray' = astray
    BY <1>8 DEF Rejoined
  <2> QED
    BY <2>1, <2>5, <2>6, ScreenRows
<1>9. CASE GotSnap(u)
  <2> DEFINE h == [old EXCEPT !.late = Tail(@), !.snap = IF old.mode = "away" THEN @ ELSE Head(old.late),
                              !.waits = IF old.sub = 0 THEN @ ELSE @ \union {old.sub}]
  <2>1. halls' = [halls EXCEPT ![u] = h]
    BY <1>9 DEF GotSnap
  <2>2. h.row = old.row /\ h.copy = old.copy /\ h.mode = old.mode
    BY <1>1 DEF IsHall, HallFields
  <2> HIDE DEF h
  <2>3. SameWallet(h, old)
    BY <2>2 DEF SameWallet
  <2>4. payments' = payments /\ purses' = purses /\ books' = books /\ astray' = astray
    BY <1>9 DEF GotSnap
  <2> QED
    BY <2>1, <2>3, <2>4, ScreenRows
<1>10. ASSUME NEW s, WaitSnap(u, s) PROVE RowsOk'
  <2> DEFINE g == [old EXCEPT !.waits = @ \ {s}, !.late = Append(@, subs[s].tbl)]
             h == [old EXCEPT !.waits = @ \ {s}]
  <2>1. halls' = [halls EXCEPT ![u] = g] \/ halls' = [halls EXCEPT ![u] = h]
    BY <1>10 DEF WaitSnap
  <2>2. h.row = old.row /\ h.copy = old.copy /\ h.mode = old.mode
        /\ g.row = old.row /\ g.copy = old.copy /\ g.mode = old.mode
    BY <1>1 DEF IsHall, HallFields
  <2> HIDE DEF h, g
  <2>3. SameWallet(h, old) /\ SameWallet(g, old)
    BY <2>2 DEF SameWallet
  <2>4. payments' = payments /\ purses' = purses /\ books' = books /\ astray' = astray
    BY <1>10 DEF WaitSnap
  <2> QED
    BY <2>1, <2>3, <2>4, ScreenRows
<1>11. ASSUME NEW t, Rejoin(u, t) PROVE RowsOk'
  <2> DEFINE h == [old EXCEPT !.call = "first", !.got = NewSub]
  <2>1. halls' = [halls EXCEPT ![u] = h]
    BY <1>11 DEF Rejoin
  <2>2. h.row = old.row /\ h.copy = old.copy /\ h.mode = old.mode
    BY <1>1 DEF IsHall, HallFields
  <2> HIDE DEF h
  <2>3. SameWallet(h, old)
    BY <2>2 DEF SameWallet
  <2>4. payments' = payments /\ purses' = purses /\ books' = books /\ astray' = astray
    BY <1>11 DEF Rejoin
  <2> QED
    BY <2>1, <2>3, <2>4, ScreenRows
<1>12. ASSUME NEW t, NEW ts, Join(u, t, ts), old.mode = "lobby",
              payments' = payments, purses' = purses, books' = books, astray' = astray
       PROVE  RowsOk'
  <2> DEFINE g == [old EXCEPT !.tbl = t, !.mode = "table", !.call = "sit", !.sub = NewSub, !.rejected = FALSE]
             h == [old EXCEPT !.tbl = t, !.mode = "table", !.call = "sit"]
  <2>1. halls' = [halls EXCEPT ![u] = g] \/ halls' = [halls EXCEPT ![u] = h]
    BY <1>12 DEF Join
  <2>2. h.row = old.row /\ h.copy = old.copy /\ g.row = old.row /\ g.copy = old.copy
    BY <1>1 DEF IsHall, HallFields
  <2> HIDE DEF h, g
  <2>3. SameWallet(h, old) /\ SameWallet(g, old)
    BY <1>12, <2>2 DEF SameWallet
  <2> QED
    BY <1>12, <2>1, <2>3, ScreenRows
<1>13. CASE Create(u)
  BY <1>12, <1>13 DEF Create, AtLobby
<1>14. ASSUME NEW t, Pick(u, t) PROVE RowsOk'
  BY <1>12, <1>14 DEF Pick, AtLobby
<1> QED
  BY <1>0, <1>2, <1>3, <1>4, <1>5, <1>6, <1>7, <1>8, <1>9, <1>10, <1>11, <1>13, <1>14

LEMMA DealingRows ==
  ASSUME Money, RowsOk, Dealing
  PROVE  RowsOk'
<1>1. payments' = payments /\ purses' = purses /\ books' = books /\ astray' = astray
  BY DEF Dealing, Push, AskSnapshot, TimerFires, Process, Send
<1>2. halls' = halls \/ \E u, x : halls' = Replied(u, x)
  <2>1. CASE Push \/ AskSnapshot \/ TimerFires \/ \E t \in TableIds : Send(t)
    BY <2>1 DEF Push, AskSnapshot, TimerFires, Send
  <2>2. ASSUME NEW t \in TableIds, Process(t) PROVE halls' = halls \/ \E u, x : halls' = Replied(u, x)
    <3> DEFINE c == Head(tables[t].queue)
    <3>1. \/ SitProcessed(t, c) \/ StandProcessed(t, c) \/ ActionProcessed(t, c) \/ StartHandProcessed(t)
          \/ SnapshotProcessed(t, c)
      BY <2>2 DEF Process
    <3> HIDE DEF c
    <3>2. CASE SitProcessed(t, c)
      BY <3>2 DEF SitProcessed
    <3>3. CASE StandProcessed(t, c)
      BY <3>3 DEF StandProcessed
    <3>4. CASE ActionProcessed(t, c)
      BY <3>4 DEF ActionProcessed
    <3>5. CASE StartHandProcessed(t) \/ SnapshotProcessed(t, c)
      BY <3>5 DEF StartHandProcessed, SnapshotProcessed
    <3> QED
      BY <3>1, <3>2, <3>3, <3>4, <3>5
  <2> QED
    BY <2>1, <2>2 DEF Dealing
<1>3. ASSUME NEW v \in Players PROVE SameWallet(halls'[v], halls[v])
  <2>1. IsHall(halls[v]) /\ DOMAIN halls = Players
    BY DEF Money, UserOk
  <2>2. CASE halls' = halls
    BY <2>2 DEF SameWallet
  <2>3. ASSUME NEW u, NEW x, halls' = Replied(u, x) PROVE SameWallet(halls'[v], halls[v])
    <3> DEFINE h == [halls[v] EXCEPT !.call = "answered", !.got = x]
    <3>1. halls'[v] = halls[v] \/ halls'[v] = h
      BY <2>1, <2>3 DEF Replied
    <3>2. h.row = halls[v].row /\ h.copy = halls[v].copy /\ h.mode = halls[v].mode
      BY <2>1 DEF IsHall, HallFields
    <3> HIDE DEF h
    <3> QED
      BY <3>1, <3>2 DEF SameWallet
  <2> QED
    BY <1>2, <2>2, <2>3
<1> QED
  BY <1>1, <1>3, RowsAlone

LEMMA PaidRows ==
  ASSUME Money, RowsOk, Paid
  PROVE  RowsOk'
<1>0. PICK p \in payments : Pay(p) \/ PayFails(p) \/ GotPayment(p)
  BY DEF Paid
<1> DEFINE u == p.user
<1>1. /\ IsPayment(p) /\ u \in Players /\ p.row \in {NoOne, u} /\ NoOne \notin Players
      /\ DOMAIN purses = Players /\ halls[u].row \in {NoOne, u}
  BY PlayersAssumption DEF RowsOk, IsPayment
<1>2. books' = books /\ astray' \in {astray, astray \union {u}}
  BY <1>0 DEF Pay, PayFails, GotPayment
<1>3. CASE GotPayment(p)
  BY <1>1, <1>3, GotPaymentRows
<1>4. CASE Pay(p)
  BY <1>1, <1>4, PayRows
<1>5. CASE PayFails(p)
  BY <1>1, <1>5, PayFailsRows
<1> QED
  BY <1>0, <1>3, <1>4, <1>5

LEMMA RowsNext ==
  ASSUME Money, RowsOk, RoomNext, ~Restart
  PROVE  RowsOk'
<1>1. CASE Stopping
  <2>1. UNCHANGED <<payments, purses, books, astray, halls>>
    BY <1>1 DEF Stopping, Shutdown, SaveAsks, SaveWrites, Saved, ActorStops
  <2> QED
    BY <2>1 DEF RowsOk
<1> QED
  BY <1>1, SittingRows, PaidRows, DealingRows DEF RoomNext

LEMMA MoneyNext == ASSUME MoneyInv, [RoomNext]_roomVars PROVE MoneyInv'
<1>1. CASE Restart
  <2>1. stops' = stops + 1
    BY <1>1 DEF Restart
  <2>2. stops \in Nat
    BY DEF MoneyInv
  <2>3. stops' \in Nat /\ stops' # 0
    BY <2>1, <2>2
  <2> QED
    BY <2>3 DEF MoneyInv
<1>2. CASE RoomNext /\ ~Restart
  <2>1. stops' = stops
    BY <1>2, StopsKept
  <2>2. ASSUME Money, RowsOk PROVE Money'
    <3>1. CASE Sitting
      BY <2>2, <3>1, SittingPays
    <3>2. CASE Paid
      <4>1. PICK p \in payments : Pay(p) \/ PayFails(p) \/ GotPayment(p)
        BY <3>2 DEF Paid
      <4>2. CASE Pay(p) \/ PayFails(p)
        BY <2>2, <4>2, StillPays DEF Pay, PayFails
      <4> QED
        BY <2>2, <4>1, <4>2, GotPaymentPays DEF RowsOk, IsPayment
    <3>3. CASE Dealing
      BY <2>2, <3>3, DealingPays
    <3>4. CASE Stopping
      BY <1>2, <2>2, <3>4, StoppingPays
    <3> QED
      BY <1>2, <3>1, <3>2, <3>3, <3>4 DEF RoomNext
  <2>3. ASSUME Money, RowsOk PROVE RowsOk'
    BY <1>2, <2>3, RowsNext
  <2> QED
    BY <2>1, <2>2, <2>3 DEF MoneyInv
<1>3. CASE UNCHANGED roomVars
  BY <1>3, StillPays DEF roomVars, MoneyInv, RowsOk
<1> QED
  BY <1>1, <1>2, <1>3

LEMMA MoneyInit == RoomInit => MoneyInv
<1> SUFFICES ASSUME RoomInit PROVE MoneyInv
  OBVIOUS
<1>1. /\ DOMAIN tables = TableIds /\ \A t \in TableIds : tables[t] = NoTable
      /\ DOMAIN halls = Players /\ \A u \in Players : halls[u] = Away
      /\ DOMAIN books = Players /\ \A u \in Players : books[u] = Savings
      /\ stops = 0
  BY DEF RoomInit
<1>2. \A t \in TableIds : TableOk(tables[t]) /\ Holds(tables[t]) = 0 /\ tables[t].queue = <<>>
  <2>1. NoTable.queue = <<>>
    BY DEF NoTable
  <2> QED
    BY <1>1, <2>1, EmptyTable, Zenon
<1>4. IsHall(Away) /\ Away.mode = "away" /\ Away.call = "none"
  BY DEF Away, IsHall, HallFields
<1>5. Savings \in Nat /\ IsFiniteSet(Players) /\ IsFiniteSet(TableIds)
  BY PlayersAssumption, RoomAssumption
<1>6. \A u \in Players : UserOk(halls[u], books[u])
  BY <1>1, <1>4, <1>5 DEF UserOk
<1>7. \A u \in Players : Worths[u] = Savings
  <2>1. Answered(Away) = 0
    BY <1>4 DEF Answered
  <2> QED
    BY <1>1, <1>5, <2>1 DEF Worths, Worth
<1>8. SumOn(Worths, Players) = Savings * Cardinality(Players)
  <2>1. Players \in SUBSET Players /\ \A u \in Players : Worths[u] = IF u \in Players THEN Savings ELSE 0
    BY <1>7
  <2> QED
    BY <1>5, <2>1, SumCount
<1>9. SumOn(OnTables, TableIds) = 0
  <2>1. {} \in SUBSET TableIds /\ \A t \in TableIds : OnTables[t] = IF t \in {} THEN 0 ELSE 0
    BY <1>2 DEF OnTables
  <2>2. SumOn(OnTables, TableIds) = 0 * Cardinality({})
    BY <1>5, <2>1, SumCount
  <2> QED
    BY <2>2, FS_EmptySet
<1>10. SumOn(Worths, Players) + SumOn(OnTables, TableIds) <= Cardinality(Players) * Savings
  BY <1>5, <1>8, <1>9, FS_CardinalityType
<1>11. QueueOk
  BY <1>2, EmptyIsSeq DEF QueueOk
<1>12. RowsOk
  <2>1. payments = {} /\ astray = {} /\ DOMAIN purses = Players /\ \A u \in Players : purses[u] = Savings
    BY DEF RoomInit
  <2>2. \A u \in Players : Mine(payments, u) = {} /\ halls[u] = Away /\ Away.mode = "away" /\ Away.row = NoOne
    BY <1>1, <2>1, AwayIsHall DEF Mine
  <2> QED
    BY <1>1, <1>5, <2>1, <2>2 DEF RowsOk, RowOk
<1> QED
  BY <1>1, <1>2, <1>6, <1>10, <1>11, <1>12 DEF MoneyInv, Money

-----------------------------------------------------------------------------
(* The sums of the property.                                                *)
LEMMA BooksSum == SumOver(Players, LAMBDA u : books[u]) = SumOn([u \in Players |-> books[u]], Players)
BY DEF SumOver, FoldFunction, FoldFunctionOnSet, MapThenFoldSet, SumOn, SumIter, Adds, Picked

LEMMA TablesSum == SumOver(TableIds, OnTable) = SumOn([t \in TableIds |-> OnTable(t)], TableIds)
BY DEF SumOver, FoldFunction, FoldFunctionOnSet, MapThenFoldSet, SumOn, SumIter, Adds, Picked

LEMMA StacksSum ==
  ASSUME NEW t
  PROVE  OnTable(t) = SumOn([i \in SeatNos |-> tables[t].chips[i]], SeatNos)
                      + (IF tables[t].running THEN tables[t].pot ELSE 0)
BY DEF OnTable, SumOver, FoldFunction, FoldFunctionOnSet, MapThenFoldSet, SumOn, SumIter, Adds, Picked

LEMMA BooksAreFair ==
  ASSUME Money, Idle
  PROVE  SumOver(Players, LAMBDA u : books[u]) + SumOver(TableIds, OnTable)
           <= Cardinality(Players) * Savings
<1> DEFINE rows == [u \in Players |-> books[u]]
           felt == [t \in TableIds |-> OnTable(t)]
<1>1. Summable(Worths, Players) /\ Summable(OnTables, TableIds)
  BY SoundSums DEF Money, Sound
<1>2. \A u \in Players : Worths[u] = rows[u]
  <2> TAKE u \in Players
  <2>1. Answered(halls[u]) = 0
    BY DEF Answered, Idle
  <2>2. books[u] \in Int
    BY DEF Money, UserOk
  <2> QED
    BY <2>1, <2>2 DEF Worths, Worth
<1>3. \A t \in TableIds : OnTables[t] = felt[t]
  <2> TAKE t \in TableIds
  <2> DEFINE stacks == [i \in SeatNos |-> tables[t].chips[i]]
  <2>1. TableOk(tables[t]) /\ Summable(tables[t].chips, SeatNos)
    BY TableSums DEF Money
  <2>2. \A i \in SeatNos : tables[t].chips[i] = stacks[i]
    OBVIOUS
  <2>3. OnTable(t) = SumOn(stacks, SeatNos) + (IF tables[t].running THEN tables[t].pot ELSE 0)
    BY StacksSum
  <2> HIDE DEF stacks
  <2>4. SumOn(tables[t].chips, SeatNos) = SumOn(stacks, SeatNos)
    BY <2>1, <2>2, SumSame
  <2> QED
    BY <2>3, <2>4 DEF OnTables, Holds, ChipsOf
<1>4. SumOver(Players, LAMBDA u : books[u]) = SumOn(rows, Players) /\ SumOver(TableIds, OnTable) = SumOn(felt, TableIds)
  BY BooksSum, TablesSum
<1> HIDE DEF rows, felt
<1>5. SumOn(Worths, Players) = SumOn(rows, Players) /\ SumOn(OnTables, TableIds) = SumOn(felt, TableIds)
  BY <1>1, <1>2, <1>3, SumSame
<1> QED
  BY <1>4, <1>5 DEF Money

LEMMA MoneyIsFair == MoneyInv => NoFreeChips
<1> SUFFICES ASSUME Money, RowsOk
             PROVE  /\ Idle => SumOver(Players, LAMBDA u : books[u]) + SumOver(TableIds, OnTable)
                                 <= Cardinality(Players) * Savings
                    /\ \A u \in Players \ astray : ~Paying(u) => purses[u] = books[u]
  BY DEF MoneyInv, NoFreeChips
<1>1. ASSUME NEW u \in Players \ astray, ~Paying(u) PROVE purses[u] = books[u]
  <2>1. Mine(payments, u) = {}
    BY <1>1 DEF Mine, Paying
  <2> QED
    BY <2>1 DEF RowsOk, RowOk
<1> QED
  BY <1>1, BooksAreFair

\* For any players, tables, seats, buy-ins and savings, however the players hurry
\* and whatever fails: what is bought in for and cashed out leaves no more than the
\* players came with, and the wallet of one who had one command under way at a
\* time, and none that failed, is what he asked for (holdem_mp.go joinTable,
\* leaveTable; wallet.go Bet, Credit; coordinator.go Stand).
THEOREM ChipsAreBoughtOnce == RoomSpec => []NoFreeChips
<1>1. RoomInit => MoneyInv
  BY MoneyInit
<1>2. MoneyInv /\ [RoomNext]_roomVars => MoneyInv'
  BY MoneyNext
<1>3. MoneyInv => NoFreeChips
  BY MoneyIsFair
<1> QED
  BY <1>1, <1>2, <1>3, PTL DEF RoomSpec
=============================================================================
