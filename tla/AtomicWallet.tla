---------------------------- MODULE AtomicWallet ----------------------------
(***************************************************************************)
(* What a wallet promises: every bet and every credit is applied to the    *)
(* balance as it is at that moment, a bet only if it is covered, daily     *)
(* credits first, and the daily allowance is granted once a day.           *)
(***************************************************************************)
EXTENDS Integers

CONSTANTS Users, Allowance, Stakes, Payouts, MaxDay

VARIABLE account   (* what each user has: daily credits, winnings, and the  *)
                   (* day of the allowance; NoAccount before his first game *)

NoAccount == [daily |-> 0, winnings |-> 0, day |-> -1]

Take(a, stake) ==
  IF a.daily >= stake THEN [a EXCEPT !.daily = @ - stake]
  ELSE [a EXCEPT !.daily = 0, !.winnings = @ - (stake - a.daily)]

Grant(u) ==
  \E d \in 0 .. MaxDay :
    /\ account[u].day < d
    /\ account' = [account EXCEPT ![u] =
                     [daily |-> Allowance, winnings |-> @.winnings, day |-> d]]

Bet(u) ==
  \E stake \in Stakes :
    /\ account[u] # NoAccount
    /\ stake <= account[u].daily + account[u].winnings
    /\ account' = [account EXCEPT ![u] = Take(@, stake)]

Credit(u) ==
  \E p \in Payouts :
    /\ account[u] # NoAccount
    /\ account' = [account EXCEPT ![u].winnings = @ + p]

Init == account = [u \in Users |-> NoAccount]
Next == \E u \in Users : Grant(u) \/ Bet(u) \/ Credit(u)
Spec == Init /\ [][Next]_account
=============================================================================
