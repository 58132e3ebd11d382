--------------------------- MODULE CommunityProofs ---------------------------
(***************************************************************************)
(* Theorems about what a user of the community sees.                       *)
(*                                                                         *)
(* ScreenListens: the chat screen, for any users, channels, plans and      *)
(* bound on the subscriptions: a screen that shows a channel listens.      *)
(*                                                                         *)
(* A screen can go deaf in two ways.  Somebody may give up the             *)
(* subscription it reads: a join gives up the one it knew when it was      *)
(* started, a load that fails the one it has opened, esc the screen's own. *)
(* And the chain of waiters may break: each event handled has to start the *)
(* next wait.  The invariant follows every subscription through the        *)
(* goroutines: from the command that opens it, to the message in the       *)
(* inbox, to the screen.  On the way it has one holder (Apart), no join    *)
(* knows it, and the one that the screen reads is no command's.            *)
(*                                                                         *)
(* PlacesHold: the saved places, for any list of locations, limit, query   *)
(* and keys.  Rows that no two share a position are numbered by their rank *)
(* (an injection of the rows into as many positions, so that every one is  *)
(* taken), which is what ORDER BY returns.  One invariant holds whoever    *)
(* writes: ids and labels are unique (Table).  The rest is about a user at *)
(* one terminal who waits for each answer (Waits): at most one thing is    *)
(* under way, and a call or an answer on its way keeps, statement by       *)
(* statement, what the page will be shown to know.                         *)
(*                                                                         *)
(* ScreenLands, BoardsTell: the forums, for any forums, writers, plans and *)
(* page size, with statements that fail or without. Nothing is ever        *)
(* deleted and a post keeps its place among those that were there, so that *)
(* what a thread has shown stays the list as it once stood. While the      *)
(* reader has written nothing, every load whose number is the screen's     *)
(* brings what the last key asked for (Guided). The writers' statements    *)
(* interleave: a topic is not in its forum's counter yet exactly while one *)
(* call has still to count it (Alone, Counted), and a post that is later   *)
(* than its forum's time has a call that has still to write it (Timed).    *)
(***************************************************************************)
EXTENDS ChatScreen, Places, Forums, FiniteSetTheorems, SequenceTheorems, Sums, TLAPS

-----------------------------------------------------------------------------
(* Bags: what one step puts in or takes out.                               *)

LEMMA BagPut ==
  ASSUME NEW B, IsABag(B), NEW S
  PROVE  /\ IsABag(B (+) SetToBag(S))
         /\ DOMAIN (B (+) SetToBag(S)) = DOMAIN B \cup S
         /\ \A e \in DOMAIN B \ S : (B (+) SetToBag(S))[e] = B[e]
         /\ \A e \in S \ DOMAIN B : (B (+) SetToBag(S))[e] = 1
<1> DEFINE C == B (+) SetToBag(S)
<1>1. C = [e \in DOMAIN B \cup S |->
             (IF e \in DOMAIN B THEN B[e] ELSE 0) + (IF e \in S THEN 1 ELSE 0)]
  BY DEF (+), SetToBag
<1> HIDE DEF C
<1>2. \A e \in DOMAIN B : B[e] \in Nat /\ B[e] > 0 BY DEF IsABag
<1>3. DOMAIN C = DOMAIN B \cup S BY <1>1
<1>4. \A e \in DOMAIN B \cup S : C[e] = (IF e \in DOMAIN B THEN B[e] ELSE 0) + (IF e \in S THEN 1 ELSE 0)
  BY <1>1
<1>5. \A e \in DOMAIN C : C[e] \in Nat /\ C[e] > 0 BY <1>2, <1>3, <1>4
<1>6. C = [e \in DOMAIN C |-> C[e]] BY <1>1
<1>7. IsABag(C) BY <1>5, <1>6 DEF IsABag
<1>8. (\A e \in DOMAIN B \ S : C[e] = B[e]) /\ (\A e \in S \ DOMAIN B : C[e] = 1)
  BY <1>2, <1>4
<1> QED BY <1>3, <1>7, <1>8 DEF C

\* The same for the provers, which cannot use a fact about the infix terms.
PutIn(B, S) == B (+) SetToBag(S)
TakeOut(B, x) == B (-) SetToBag({x})

LEMMA PutInBag == ASSUME NEW B, IsABag(B), NEW S
  PROVE IsABag(PutIn(B, S)) /\ DOMAIN PutIn(B, S) = DOMAIN B \cup S
BY BagPut, Zenon DEF PutIn
LEMMA PutInKeeps == ASSUME NEW B, IsABag(B), NEW S, NEW e \in DOMAIN B, e \notin S
  PROVE PutIn(B, S)[e] = B[e]
<1>1. e \in DOMAIN B \ S OBVIOUS
<1> QED BY <1>1, BagPut, Zenon DEF PutIn
LEMMA PutInNew == ASSUME NEW B, IsABag(B), NEW S, NEW e \in S, e \notin DOMAIN B
  PROVE PutIn(B, S)[e] = 1
<1>1. e \in S \ DOMAIN B OBVIOUS
<1>2. \A g \in S \ DOMAIN B : (B (+) SetToBag(S))[g] = 1 BY BagPut, Zenon
<1>3. (B (+) SetToBag(S))[e] = 1 BY <1>1, <1>2, Zenon
<1> QED BY <1>3 DEF PutIn

LEMMA BagTake ==
  ASSUME NEW B, IsABag(B), NEW x \in DOMAIN B
  PROVE  /\ IsABag(B (-) SetToBag({x}))
         /\ DOMAIN (B (-) SetToBag({x})) \subseteq DOMAIN B
         /\ \A e \in DOMAIN B : e # x => /\ e \in DOMAIN (B (-) SetToBag({x}))
                                         /\ (B (-) SetToBag({x}))[e] = B[e]
         /\ B[x] = 1 => x \notin DOMAIN (B (-) SetToBag({x}))
<1> DEFINE C == B (-) SetToBag({x})
           D == [e \in DOMAIN B |-> IF e = x THEN B[e] - 1 ELSE B[e]]
<1>1. C = [e \in {d \in DOMAIN B : D[d] > 0} |-> D[e]]
  <2>1. D = [e \in DOMAIN B |-> IF e \in DOMAIN SetToBag({x}) THEN B[e] - SetToBag({x})[e] ELSE B[e]]
    BY DEF SetToBag
  <2> QED BY <2>1 DEF (-)
<1>2. \A e \in DOMAIN B : B[e] \in Nat /\ B[e] > 0 BY DEF IsABag
<1>3. \A e \in DOMAIN B : D[e] = IF e = x THEN B[e] - 1 ELSE B[e] OBVIOUS
<1> HIDE DEF C, D
<1>4. DOMAIN C = {d \in DOMAIN B : D[d] > 0} BY <1>1
<1>5. \A e \in DOMAIN C : C[e] = D[e] BY <1>1
<1>6. \A e \in DOMAIN C : C[e] \in Nat /\ C[e] > 0 BY <1>2, <1>3, <1>4, <1>5
<1>7. C = [e \in DOMAIN C |-> C[e]] BY <1>1
<1>8. IsABag(C) BY <1>6, <1>7 DEF IsABag
<1>9. DOMAIN C \subseteq DOMAIN B BY <1>4
<1>10. \A e \in DOMAIN B : e # x => e \in DOMAIN C /\ C[e] = B[e]
  <2>1. TAKE e \in DOMAIN B
  <2>2. HAVE e # x
  <2>3. D[e] = B[e] BY <1>3, <2>2
  <2>4. e \in DOMAIN C BY <1>2, <1>4, <2>3
  <2> QED BY <1>5, <2>3, <2>4
<1>11. B[x] = 1 => x \notin DOMAIN C
  <2>1. D[x] = B[x] - 1 BY <1>3
  <2> QED BY <1>4, <2>1
<1> QED BY <1>8, <1>9, <1>10, <1>11 DEF C

LEMMA TakeOutBag == ASSUME NEW B, IsABag(B), NEW x \in DOMAIN B
  PROVE IsABag(TakeOut(B, x)) /\ DOMAIN TakeOut(B, x) \subseteq DOMAIN B
BY BagTake, Zenon DEF TakeOut
LEMMA TakeOutKeeps == ASSUME NEW B, IsABag(B), NEW x \in DOMAIN B, NEW e \in DOMAIN B, e # x
  PROVE e \in DOMAIN TakeOut(B, x) /\ TakeOut(B, x)[e] = B[e]
BY BagTake, Zenon DEF TakeOut
LEMMA TakeOutGone == ASSUME NEW B, IsABag(B), NEW x \in DOMAIN B, B[x] = 1
  PROVE x \notin DOMAIN TakeOut(B, x)
BY BagTake, Zenon DEF TakeOut

-----------------------------------------------------------------------------
(* The inductive invariant.                                                *)
SubFields == {"open", "topics", "queue"}
CmdFields == {"k", "step", "ch", "from", "old", "sub", "joined", "unread", "hist", "loaded"}
IsSub(s) == s = [f \in SubFields |-> s[f]]
IsCmd(x) == x = [f \in CmdFields |-> x[f]]
Loader(x) == x.k \in {"boot", "join", "switch"}
Refan(x) == x.k \in {"boot", "join"}
Local(x) == x.k = "switch" /\ IsCmd(x) /\ x.sub = 0
Carries(m) == m.m = "loaded" /\ Refan(m.cmd)

SubsTyped ==
  /\ Len(subs) \in 0 .. MaxSubs
  /\ subs = [s \in 1 .. Len(subs) |-> subs[s]]
  /\ \A s \in 1 .. Len(subs) : IsSub(subs[s])
ScreenTyped ==
  /\ SubsTyped
  /\ stream \in 0 .. Len(subs)
  /\ waiters \in [1 .. MaxSubs -> Nat]
  /\ IsABag(cmds) /\ IsABag(inbox)
  /\ \A x \in DOMAIN cmds : Loader(x) => IsCmd(x) /\ (x.k = "switch" => x.sub = 0)

\* A command that loads a channel holds the subscription it opened until its message
\* has been handled, alone, and nobody gives that up.
CmdOk(x) ==
  /\ x.old \in 0 .. Len(subs) /\ x.sub \in 0 .. Len(subs) /\ ~x.loaded
  /\ x.step \in {"leave", "cancel", "resolve", "create", "member", "list", "subscribe"} => x.sub = 0
  /\ x.step \in {"history", "overlays"} => x.sub # 0
  /\ x.sub # 0 => subs[x.sub].open /\ x.sub # stream /\ cmds[x] = 1
MsgOk(m) ==
  /\ m.cmd.sub \in 1 .. Len(subs) /\ subs[m.cmd.sub].open /\ m.cmd.sub # stream /\ inbox[m] = 1
Apart ==
  /\ \A x, y \in DOMAIN cmds : Refan(x) /\ Refan(y) /\ x.sub # 0 => y.old # x.sub /\ (y.sub = x.sub => y = x)
  /\ \A x \in DOMAIN cmds, m \in DOMAIN inbox :
       Refan(x) /\ Carries(m) => x.old # m.cmd.sub /\ x.sub # m.cmd.sub
  /\ \A m, n \in DOMAIN inbox : Carries(m) /\ Carries(n) /\ m.cmd.sub = n.cmd.sub => m = n
Held ==
  /\ \A x \in DOMAIN cmds : Refan(x) => CmdOk(x)
  /\ \A m \in DOMAIN inbox : Carries(m) => MsgOk(m)
  /\ Apart

\* The screen's stream, while it is open, is read by a waiter or by the handler of an
\* event in hand; and with no load and no failure under way it is there and open.
Reads == up /\ stream # 0 /\ subs[stream].open => waiters[stream] > 0 \/ EventsInHand
Tuned == up /\ ~err /\ ~FailureInHand /\ ~Loading => stream # 0 /\ subs[stream].open
ListenInv == ScreenTyped /\ Held /\ Reads /\ Tuned

-----------------------------------------------------------------------------
(* The subscriptions.                                                      *)
LEMMA LenIs ==
  ASSUME NEW f, NEW n \in Nat, f = [i \in 1 .. n |-> f[i]]
  PROVE  Len(f) = n /\ f \in Seq({f[i] : i \in 1 .. n}) /\ DOMAIN f = 1 .. n
<1>1. f \in [1 .. n -> {f[i] : i \in 1 .. n}] OBVIOUS
<1>2. f \in Seq({f[i] : i \in 1 .. n}) BY <1>1
<1> QED BY <1>1, <1>2

\* Events come and go; which subscriptions there are and which are open stays.
SubsKept ==
  /\ SubsTyped' /\ Len(subs') = Len(subs)
  /\ \A s \in 1 .. Len(subs) : subs'[s].open = subs[s].open

LEMMA SubsStay == ASSUME SubsTyped, subs' = subs PROVE SubsKept
BY DEF SubsTyped, SubsKept

LEMMA PublishKeeps == ASSUME SubsTyped, NEW ev, PublishTo(ev) PROVE SubsKept
<1>1. Len(subs) \in Nat /\ DOMAIN subs = 1 .. Len(subs)
  BY ChatAssumption DEF SubsTyped
<1>2. subs' = [s \in 1 .. Len(subs) |->
           IF subs[s].open /\ ev.ch \in subs[s].topics
           THEN [subs[s] EXCEPT !.queue[ev.ch] = Append(@, ev)] ELSE subs[s]]
  BY <1>1 DEF PublishTo
<1>3. subs' = [s \in 1 .. Len(subs) |-> subs'[s]] BY <1>2
<1>4. Len(subs') = Len(subs) BY <1>1, <1>3, LenIs
<1>5. ASSUME NEW s \in 1 .. Len(subs)
      PROVE  IsSub(subs'[s]) /\ subs'[s].open = subs[s].open
  <2>1. IsSub(subs[s]) BY DEF SubsTyped
  <2>2. PICK q : subs'[s] = subs[s] \/ subs'[s] = [subs[s] EXCEPT !.queue = q] BY <1>2
  <2> QED BY <2>1, <2>2 DEF IsSub, SubFields
<1> QED BY <1>3, <1>4, <1>5 DEF SubsKept, SubsTyped

LEMMA ReceiveKeeps ==
  ASSUME SubsTyped, NEW s \in 1 .. Len(subs), NEW ch, Received(s, ch) PROVE SubsKept
<1>1. Len(subs) \in Nat /\ DOMAIN subs = 1 .. Len(subs)
  BY ChatAssumption DEF SubsTyped
<1>2. PICK q : subs' = [subs EXCEPT ![s] = [@ EXCEPT !.queue = q]] BY DEF Received
<1>3. subs' = [t \in 1 .. Len(subs) |-> subs'[t]] BY <1>1, <1>2
<1>4. Len(subs') = Len(subs) BY <1>1, <1>3, LenIs
<1>5. ASSUME NEW t \in 1 .. Len(subs)
      PROVE  IsSub(subs'[t]) /\ subs'[t].open = subs[t].open
  <2>1. IsSub(subs[t]) BY DEF SubsTyped
  <2>2. subs'[t] = subs[t] \/ subs'[t] = [subs[t] EXCEPT !.queue = q] BY <1>1, <1>2
  <2> QED BY <2>1, <2>2 DEF IsSub, SubFields
<1> QED BY <1>3, <1>4, <1>5 DEF SubsKept, SubsTyped

LEMMA CancelShuts ==
  ASSUME SubsTyped, NEW s \in 1 .. Len(subs), Cancel(s)
  PROVE  /\ SubsTyped' /\ Len(subs') = Len(subs) /\ ~subs'[s].open
         /\ \A t \in 1 .. Len(subs) : t # s => subs'[t].open = subs[t].open
<1>1. Len(subs) \in Nat /\ DOMAIN subs = 1 .. Len(subs)
  BY ChatAssumption DEF SubsTyped
<1>2. subs' = [subs EXCEPT ![s] = [@ EXCEPT !.open = FALSE]] BY DEF Cancel
<1>3. subs' = [t \in 1 .. Len(subs) |-> subs'[t]] BY <1>1, <1>2
<1>4. Len(subs') = Len(subs) BY <1>1, <1>3, LenIs
<1>5. ASSUME NEW t \in 1 .. Len(subs), t # s PROVE subs'[t] = subs[t]
  <2>1. PICK r : subs' = [subs EXCEPT ![s] = r] BY <1>2
  <2> QED BY <1>1, <1>5, <2>1
<1>6. subs'[s] = [subs[s] EXCEPT !.open = FALSE] BY <1>1, <1>2
<1>7. IsSub(subs'[s]) /\ ~subs'[s].open BY <1>6 DEF SubsTyped, IsSub, SubFields
<1>8. \A t \in 1 .. Len(subs) : IsSub(subs'[t]) BY <1>5, <1>7 DEF SubsTyped
<1> QED BY <1>3, <1>4, <1>5, <1>7, <1>8 DEF SubsTyped

LEMMA SubscribeAdds ==
  ASSUME SubsTyped, NEW names, SubscribeChannels(names), Len(subs) < MaxSubs
  PROVE  /\ SubsTyped' /\ Len(subs') = Len(subs) + 1 /\ subs'[Len(subs) + 1].open
         /\ \A t \in 1 .. Len(subs) : subs'[t].open = subs[t].open
<1>1. Len(subs) \in Nat /\ DOMAIN subs = 1 .. Len(subs)
  BY ChatAssumption DEF SubsTyped
<1> DEFINE new == [open |-> TRUE, topics |-> names, queue |-> [ch \in Names |-> <<>>]]
<1>2. IsSub(new) /\ new.open BY DEF IsSub, SubFields
<1>3. subs' = Append(subs, new) BY DEF SubscribeChannels
<1> HIDE DEF new
<1> DEFINE S == {subs[i] : i \in 1 .. Len(subs)} \cup {new}
<1>4. subs \in Seq(S)
  <2>1. subs \in Seq({subs[i] : i \in 1 .. Len(subs)}) BY <1>1, LenIs DEF SubsTyped
  <2> QED BY <1>1, <2>1
<1>5. subs' = [t \in 1 .. Len(subs) + 1 |-> IF t = Len(subs) + 1 THEN new ELSE subs[t]]
  <2> HIDE DEF S
  <2>1. new \in S BY DEF S
  <2>2. /\ subs' \in Seq(S) /\ Len(subs') = Len(subs) + 1
        /\ \A i \in 1 .. Len(subs) : subs'[i] = subs[i]
        /\ subs'[Len(subs) + 1] = new
    BY <1>3, <1>4, <2>1, AppendProperties
  <2> QED BY <1>1, <2>2
<1>6. subs' = [t \in 1 .. Len(subs) + 1 |-> subs'[t]] BY <1>5
<1>7. Len(subs') = Len(subs) + 1 BY <1>1, <1>6, LenIs
<1>8. subs'[Len(subs) + 1] = new BY <1>1, <1>5
<1>9. \A t \in 1 .. Len(subs) : subs'[t] = subs[t] BY <1>1, <1>5
<1>10. \A t \in 1 .. Len(subs) + 1 : IsSub(subs'[t]) BY <1>1, <1>2, <1>8, <1>9 DEF SubsTyped
<1> QED BY <1>1, <1>2, <1>6, <1>7, <1>8, <1>9, <1>10, ChatAssumption DEF SubsTyped

-----------------------------------------------------------------------------
(* What every step leaves held.                                            *)
\* A command that has opened nothing yet, whose old subscription nobody holds.
Early(x) ==
  /\ IsCmd(x) /\ x.sub = 0 /\ ~x.loaded /\ x.step \notin {"history", "overlays"}
  /\ x.old \in 0 .. Len(subs)
  /\ \A y \in DOMAIN cmds : Refan(y) /\ y.sub # 0 => x.old # y.sub
  /\ \A m \in DOMAIN inbox : Carries(m) => x.old # m.cmd.sub

LEMMA EarlyOnes == ASSUME ScreenTyped, Held, NEW x \in DOMAIN cmds, Refan(x), x.sub = 0
  PROVE  Early(x)
<1>1. IsCmd(x) BY DEF ScreenTyped, Loader, Refan
<1>2. CmdOk(x) BY DEF Held
<1>3. Apart BY DEF Held
<1> QED BY <1>1, <1>2, <1>3 DEF Early, CmdOk, Apart

\* The commands and messages that stay keep what they hold, if that stays open and
\* does not become the screen's.
LEMMA HeldOn ==
  ASSUME ScreenTyped, Held,
         SubsTyped', Len(subs) <= Len(subs'), stream' \in 0 .. Len(subs'),
         waiters' \in [1 .. MaxSubs -> Nat], IsABag(cmds'), IsABag(inbox'),
         \A x \in DOMAIN cmds' :
           \/ ~Loader(x)
           \/ Local(x)
           \/ Refan(x) /\ Early(x)
           \/ /\ x \in DOMAIN cmds /\ Refan(x) /\ x.sub # 0
              /\ cmds'[x] = cmds[x] /\ subs'[x.sub].open /\ x.sub # stream',
         \A m \in DOMAIN inbox' :
           Carries(m) => /\ m \in DOMAIN inbox /\ inbox'[m] = inbox[m]
                         /\ subs'[m.cmd.sub].open /\ m.cmd.sub # stream'
  PROVE  ScreenTyped' /\ Held'
<1> DEFINE Old(x) == /\ x \in DOMAIN cmds /\ Refan(x) /\ x.sub # 0
                     /\ cmds'[x] = cmds[x] /\ subs'[x.sub].open /\ x.sub # stream'
<1>1. Len(subs) \in Nat /\ Len(subs') \in Nat BY ChatAssumption DEF ScreenTyped, SubsTyped
<1>2. \A x \in DOMAIN cmds' : Refan(x) => Loader(x) /\ ~Local(x) BY DEF Refan, Loader, Local
<1>3. \A x \in DOMAIN cmds' : Refan(x) => Early(x) \/ Old(x) BY <1>2
<1>4. \A x \in DOMAIN cmds : Loader(x) => IsCmd(x) /\ (x.k = "switch" => x.sub = 0) BY DEF ScreenTyped
<1>5. \A x \in DOMAIN cmds' : Loader(x) => IsCmd(x) /\ (x.k = "switch" => x.sub = 0)
  BY <1>4 DEF Early, Local, Refan
<1>6. ScreenTyped' BY <1>5 DEF ScreenTyped, Loader, IsCmd
<1>7. Apart /\ (\A x \in DOMAIN cmds : Refan(x) => CmdOk(x))
      /\ (\A m \in DOMAIN inbox : Carries(m) => MsgOk(m))
  BY DEF Held
<1>8. ASSUME NEW x \in DOMAIN cmds', Refan(x) PROVE CmdOk(x)'
  <2>1. CASE Early(x) BY <1>1, <2>1 DEF Early, CmdOk
  <2>2. CASE Old(x) BY <1>1, <1>7, <2>2 DEF CmdOk
  <2> QED BY <1>3, <1>8, <2>1, <2>2
<1>9. ASSUME NEW m \in DOMAIN inbox', Carries(m) PROVE MsgOk(m)'
  BY <1>1, <1>7, <1>9 DEF MsgOk
<1>10. ASSUME NEW x \in DOMAIN cmds', NEW y \in DOMAIN cmds', Refan(x), Refan(y), x.sub # 0
       PROVE  y.old # x.sub /\ (y.sub = x.sub => y = x)
  <2>1. Old(x) BY <1>3, <1>10 DEF Early
  <2>2. CASE Early(y) BY <1>10, <2>1, <2>2 DEF Early
  <2>3. CASE Old(y) BY <1>7, <1>10, <2>1, <2>3 DEF Apart
  <2> QED BY <1>3, <1>10, <2>2, <2>3
<1>11. ASSUME NEW x \in DOMAIN cmds', NEW m \in DOMAIN inbox', Refan(x), Carries(m)
       PROVE  x.old # m.cmd.sub /\ x.sub # m.cmd.sub
  <2>1. m \in DOMAIN inbox /\ MsgOk(m) BY <1>7, <1>11
  <2>2. m.cmd.sub # 0 BY <1>1, <2>1 DEF MsgOk
  <2>3. CASE Early(x) BY <1>11, <2>1, <2>2, <2>3 DEF Early
  <2>4. CASE Old(x) BY <1>7, <1>11, <2>1, <2>4 DEF Apart
  <2> QED BY <1>3, <1>11, <2>3, <2>4
<1>12. ASSUME NEW m \in DOMAIN inbox', NEW n \in DOMAIN inbox', Carries(m), Carries(n), m.cmd.sub = n.cmd.sub
       PROVE  m = n
  BY <1>7, <1>12 DEF Apart
<1>13. Apart' BY <1>10, <1>11, <1>12 DEF Apart, Refan, Carries
<1>14. Held' BY <1>8, <1>9, <1>13 DEF Held, Refan, Carries
<1> QED BY <1>6, <1>14

LEMMA HeldStays ==
  ASSUME ScreenTyped, Held
  PROVE  /\ \A x \in DOMAIN cmds :
              \/ ~Loader(x) \/ Local(x) \/ (Refan(x) /\ Early(x))
              \/ Refan(x) /\ x.sub # 0 /\ x.sub \in 1 .. Len(subs) /\ subs[x.sub].open /\ x.sub # stream
         /\ \A m \in DOMAIN inbox :
              Carries(m) => m.cmd.sub \in 1 .. Len(subs) /\ subs[m.cmd.sub].open /\ m.cmd.sub # stream
<1>1. ASSUME NEW x \in DOMAIN cmds, Loader(x), x.k # "switch", x.sub # 0
      PROVE  Refan(x) /\ x.sub \in 1 .. Len(subs) /\ subs[x.sub].open /\ x.sub # stream
  BY <1>1, ChatAssumption DEF Held, CmdOk, Refan, Loader, ScreenTyped, SubsTyped
<1>2. ASSUME NEW x \in DOMAIN cmds, Loader(x), x.k # "switch", x.sub = 0
      PROVE  Refan(x) /\ Early(x)
  <2>1. Refan(x) BY <1>2 DEF Refan, Loader
  <2> QED BY <1>2, <2>1, EarlyOnes
<1>3. ASSUME NEW x \in DOMAIN cmds, Loader(x) PROVE IsCmd(x) /\ (x.k = "switch" => x.sub = 0)
  BY <1>3 DEF ScreenTyped
<1>4. \A m \in DOMAIN inbox : Carries(m) => MsgOk(m) BY DEF Held
<1> QED BY <1>1, <1>2, <1>3, <1>4 DEF MsgOk, Local

\* Nothing is read less, and no failure or load under way is forgotten.
LEMMA Heard ==
  ASSUME ScreenTyped, Reads, Tuned, SubsKept, stream' = stream, waiters' = waiters,
         up' => up, err => err',
         EventsInHand => EventsInHand', FailureInHand => FailureInHand', Loading => Loading'
  PROVE  Reads' /\ Tuned'
<1>1. stream # 0 => stream \in 1 .. Len(subs) BY ChatAssumption DEF ScreenTyped, SubsTyped
<1>2. stream # 0 => subs'[stream].open = subs[stream].open BY <1>1 DEF SubsKept
<1> QED BY <1>2 DEF Reads, Tuned

\* Of the screen itself, nothing that decides whether it listens has changed.
SameScreen == up' = up /\ err' = err /\ stream' = stream /\ waiters' = waiters

\* Update starts commands: none holds a subscription yet.
LEMMA NewCmds ==
  ASSUME ListenInv, SubsKept, SameScreen, inbox' = inbox, NEW S, cmds' = cmds (+) SetToBag(S),
         \A x \in S : ~Loader(x) \/ Local(x) \/ (Refan(x) /\ Early(x))
  PROVE  ListenInv'
<1> USE DEF ListenInv
<1>1. IsABag(cmds) /\ IsABag(inbox) BY DEF ScreenTyped
<1>2. /\ IsABag(cmds') /\ DOMAIN cmds' = DOMAIN cmds \cup S
      /\ \A e \in DOMAIN cmds \ S : cmds'[e] = cmds[e]
  BY <1>1, BagPut
<1>3. /\ SubsTyped' /\ Len(subs) <= Len(subs') /\ stream' \in 0 .. Len(subs')
      /\ waiters' \in [1 .. MaxSubs -> Nat]
  BY ChatAssumption DEF SubsKept, SameScreen, ScreenTyped, SubsTyped
<1>4. \A x \in DOMAIN cmds' :
           \/ ~Loader(x)
           \/ Local(x)
           \/ Refan(x) /\ Early(x)
           \/ /\ x \in DOMAIN cmds /\ Refan(x) /\ x.sub # 0
              /\ cmds'[x] = cmds[x] /\ subs'[x.sub].open /\ x.sub # stream'
  BY <1>2, HeldStays DEF SubsKept, SameScreen
<1>5. \A m \in DOMAIN inbox' :
           Carries(m) => /\ m \in DOMAIN inbox /\ inbox'[m] = inbox[m]
                         /\ subs'[m.cmd.sub].open /\ m.cmd.sub # stream'
  BY HeldStays DEF SubsKept, SameScreen
<1>6. ScreenTyped' /\ Held' BY <1>1, <1>2, <1>3, <1>4, <1>5, HeldOn
<1>7. EventsInHand' = EventsInHand /\ FailureInHand' = FailureInHand
  BY DEF EventsInHand, FailureInHand
<1>8. Loading => Loading' BY <1>2 DEF Loading
<1>9. Reads' /\ Tuned' BY <1>7, <1>8, Heard DEF SameScreen
<1> QED BY <1>6, <1>9

\* A step that only reads, writes tables or redraws, or delivers events.
LEMMA Calm ==
  ASSUME ListenInv, SubsKept, SameScreen, inbox' = inbox, cmds' = cmds PROVE ListenInv'
<1> USE DEF ListenInv
<1>1. IsABag(cmds) /\ IsABag(inbox) BY DEF ScreenTyped
<1>3. /\ SubsTyped' /\ Len(subs) <= Len(subs') /\ stream' \in 0 .. Len(subs')
      /\ waiters' \in [1 .. MaxSubs -> Nat]
  BY ChatAssumption DEF SubsKept, SameScreen, ScreenTyped, SubsTyped
<1>4. \A x \in DOMAIN cmds' :
           \/ ~Loader(x)
           \/ Local(x)
           \/ Refan(x) /\ Early(x)
           \/ /\ x \in DOMAIN cmds /\ Refan(x) /\ x.sub # 0
              /\ cmds'[x] = cmds[x] /\ subs'[x.sub].open /\ x.sub # stream'
  BY HeldStays DEF SubsKept, SameScreen
<1>5. \A m \in DOMAIN inbox' :
           Carries(m) => /\ m \in DOMAIN inbox /\ inbox'[m] = inbox[m]
                         /\ subs'[m.cmd.sub].open /\ m.cmd.sub # stream'
  BY HeldStays DEF SubsKept, SameScreen
<1>6. ScreenTyped' /\ Held' BY <1>1, <1>3, <1>4, <1>5, HeldOn
<1>7. EventsInHand' = EventsInHand /\ FailureInHand' = FailureInHand /\ Loading' = Loading
  BY DEF EventsInHand, FailureInHand, Loading
<1>9. Reads' /\ Tuned' BY <1>7, Heard DEF SameScreen
<1> QED BY <1>6, <1>9

\* A command that holds nothing goes on; it may tell.
LEMMA CmdMoves ==
  ASSUME ListenInv, SubsKept, SameScreen, NEW x \in DOMAIN cmds, NEW y, Advance(x, y),
         ~Loader(y) \/ Local(y) \/ (Refan(y) /\ Early(y)),
         Refan(x) => Refan(y) /\ x.sub = 0,
         inbox' = inbox \/ (\E m : ~Carries(m) /\ Post(m))
  PROVE  ListenInv'
<1> USE DEF ListenInv
<1>1. IsABag(cmds) /\ IsABag(inbox) BY DEF ScreenTyped
<1> DEFINE C == cmds (-) SetToBag({x})
<1>2. /\ IsABag(C) /\ DOMAIN C \subseteq DOMAIN cmds
      /\ \A e \in DOMAIN cmds : e # x => e \in DOMAIN C /\ C[e] = cmds[e]
  BY <1>1, BagTake
<1>3. cmds' = C (+) SetToBag({y}) BY DEF Advance
<1> HIDE DEF C
<1>4. /\ IsABag(cmds') /\ DOMAIN cmds' = DOMAIN C \cup {y}
      /\ \A e \in DOMAIN C \ {y} : cmds'[e] = C[e]
  BY <1>2, <1>3, BagPut
<1>5. /\ IsABag(inbox') /\ DOMAIN inbox \subseteq DOMAIN inbox'
      /\ \A m \in DOMAIN inbox' : Carries(m) => m \in DOMAIN inbox /\ inbox'[m] = inbox[m]
  <2>1. CASE inbox' = inbox BY <1>1, <2>1
  <2>2. CASE \E m : ~Carries(m) /\ Post(m)
    <3>1. PICK m : ~Carries(m) /\ Post(m) BY <2>2
    <3>2. inbox' = inbox (+) SetToBag({m}) BY <3>1 DEF Post
    <3>3. /\ IsABag(inbox') /\ DOMAIN inbox' = DOMAIN inbox \cup {m}
          /\ \A e \in DOMAIN inbox \ {m} : inbox'[e] = inbox[e]
      BY <1>1, <3>2, BagPut
    <3> QED BY <3>1, <3>3
  <2> QED BY <2>1, <2>2
<1>6. /\ SubsTyped' /\ Len(subs) <= Len(subs') /\ stream' \in 0 .. Len(subs')
      /\ waiters' \in [1 .. MaxSubs -> Nat]
  BY ChatAssumption DEF SubsKept, SameScreen, ScreenTyped, SubsTyped
<1>7. \A z \in DOMAIN cmds' :
           \/ ~Loader(z)
           \/ Local(z)
           \/ Refan(z) /\ Early(z)
           \/ /\ z \in DOMAIN cmds /\ Refan(z) /\ z.sub # 0
              /\ cmds'[z] = cmds[z] /\ subs'[z.sub].open /\ z.sub # stream'
  BY <1>2, <1>4, HeldStays DEF SubsKept, SameScreen
<1>8. \A m \in DOMAIN inbox' :
           Carries(m) => /\ m \in DOMAIN inbox /\ inbox'[m] = inbox[m]
                         /\ subs'[m.cmd.sub].open /\ m.cmd.sub # stream'
  BY <1>5, HeldStays DEF SubsKept, SameScreen
<1>9. ScreenTyped' /\ Held' BY <1>4, <1>5, <1>6, <1>7, <1>8, HeldOn
<1>10. (EventsInHand => EventsInHand') /\ (FailureInHand => FailureInHand')
  BY <1>5 DEF EventsInHand, FailureInHand
<1>11. Loading => Loading'
  <2>1. \A z \in DOMAIN cmds : Refan(z) => (\E w \in DOMAIN cmds' : Refan(w)) BY <1>2, <1>4
  <2> QED BY <1>5, <2>1 DEF Loading, Refan
<1>12. Reads' /\ Tuned' BY <1>10, <1>11, Heard DEF SameScreen
<1> QED BY <1>9, <1>12

\* A command ends that brings no subscription; it may tell.
LEMMA CmdEnds ==
  ASSUME ListenInv, SubsKept, SameScreen, NEW x \in DOMAIN cmds, Finish(x), ~Refan(x),
         inbox' = inbox \/ (\E m : ~Carries(m) /\ Post(m))
  PROVE  ListenInv'
<1> USE DEF ListenInv
<1>1. IsABag(cmds) /\ IsABag(inbox) BY DEF ScreenTyped
<1>2. /\ IsABag(cmds') /\ DOMAIN cmds' \subseteq DOMAIN cmds
      /\ \A e \in DOMAIN cmds : e # x => e \in DOMAIN cmds' /\ cmds'[e] = cmds[e]
  BY <1>1, BagTake DEF Finish
<1>5. /\ IsABag(inbox') /\ DOMAIN inbox \subseteq DOMAIN inbox'
      /\ \A m \in DOMAIN inbox' : Carries(m) => m \in DOMAIN inbox /\ inbox'[m] = inbox[m]
  <2>1. CASE inbox' = inbox BY <1>1, <2>1
  <2>2. CASE \E m : ~Carries(m) /\ Post(m)
    <3>1. PICK m : ~Carries(m) /\ Post(m) BY <2>2
    <3>2. inbox' = inbox (+) SetToBag({m}) BY <3>1 DEF Post
    <3>3. /\ IsABag(inbox') /\ DOMAIN inbox' = DOMAIN inbox \cup {m}
          /\ \A e \in DOMAIN inbox \ {m} : inbox'[e] = inbox[e]
      BY <1>1, <3>2, BagPut
    <3> QED BY <3>1, <3>3
  <2> QED BY <2>1, <2>2
<1>6. /\ SubsTyped' /\ Len(subs) <= Len(subs') /\ stream' \in 0 .. Len(subs')
      /\ waiters' \in [1 .. MaxSubs -> Nat]
  BY ChatAssumption DEF SubsKept, SameScreen, ScreenTyped, SubsTyped
<1>7. \A z \in DOMAIN cmds' :
           \/ ~Loader(z)
           \/ Local(z)
           \/ Refan(z) /\ Early(z)
           \/ /\ z \in DOMAIN cmds /\ Refan(z) /\ z.sub # 0
              /\ cmds'[z] = cmds[z] /\ subs'[z.sub].open /\ z.sub # stream'
  BY <1>2, HeldStays DEF SubsKept, SameScreen
<1>8. \A m \in DOMAIN inbox' :
           Carries(m) => /\ m \in DOMAIN inbox /\ inbox'[m] = inbox[m]
                         /\ subs'[m.cmd.sub].open /\ m.cmd.sub # stream'
  BY <1>5, HeldStays DEF SubsKept, SameScreen
<1>9. ScreenTyped' /\ Held' BY <1>2, <1>5, <1>6, <1>7, <1>8, HeldOn
<1>10. (EventsInHand => EventsInHand') /\ (FailureInHand => FailureInHand')
  BY <1>5 DEF EventsInHand, FailureInHand
<1>11. Loading => Loading' BY <1>2, <1>5 DEF Loading, Refan
<1>12. Reads' /\ Tuned' BY <1>10, <1>11, Heard DEF SameScreen
<1> QED BY <1>9, <1>12

\* Update takes a message that brings no subscription.
LEMMA Handled ==
  ASSUME ListenInv, subs' = subs, up' = up, stream' = stream,
         NEW m \in DOMAIN inbox, Take(m), ~Carries(m),
         cmds' = cmds \/ (\E S : (\A x \in S : ~Loader(x)) /\ Run(S)),
         \/ m.m = "event" /\ Wait(stream) /\ err' = err
         \/ m.m = "err" /\ waiters' = waiters /\ err' = TRUE
         \/ m.m \notin {"event", "err"} /\ waiters' = waiters /\ err' = err
         \/ ~up /\ waiters' = waiters
  PROVE  ListenInv'
<1> USE DEF ListenInv
<1>1. IsABag(cmds) /\ IsABag(inbox) BY DEF ScreenTyped
<1>2. /\ IsABag(inbox') /\ DOMAIN inbox' \subseteq DOMAIN inbox
      /\ \A e \in DOMAIN inbox : e # m => e \in DOMAIN inbox' /\ inbox'[e] = inbox[e]
  BY <1>1, BagTake DEF Take
<1>3. /\ IsABag(cmds') /\ DOMAIN cmds \subseteq DOMAIN cmds'
      /\ \A x \in DOMAIN cmds' : ~Loader(x) \/ (x \in DOMAIN cmds /\ cmds'[x] = cmds[x])
  <2>1. CASE cmds' = cmds BY <1>1, <2>1
  <2>2. CASE \E S : (\A x \in S : ~Loader(x)) /\ Run(S)
    <3>1. PICK S : (\A x \in S : ~Loader(x)) /\ Run(S) BY <2>2
    <3>2. /\ IsABag(cmds') /\ DOMAIN cmds' = DOMAIN cmds \cup S
          /\ \A e \in DOMAIN cmds \ S : cmds'[e] = cmds[e]
      BY <1>1, <3>1, BagPut DEF Run
    <3> QED BY <3>1, <3>2
  <2> QED BY <2>1, <2>2
<1>4. SubsKept BY SubsStay DEF ScreenTyped
<1>5. Len(subs) \in Nat /\ Len(subs) <= MaxSubs /\ (stream # 0 => stream \in 1 .. MaxSubs)
      /\ waiters \in [1 .. MaxSubs -> Nat]
  BY ChatAssumption DEF ScreenTyped, SubsTyped
<1>6. /\ waiters' \in [1 .. MaxSubs -> Nat] /\ (stream # 0 => waiters'[stream] >= waiters[stream])
      /\ (up /\ m.m = "event" => (stream # 0 => waiters'[stream] > 0))
  <2>1. CASE waiters' = waiters /\ ~(up /\ m.m = "event") BY <1>5, <2>1
  <2>2. CASE Wait(stream)
    <3>1. CASE stream = 0 BY <1>5, <2>2, <3>1 DEF Wait
    <3>2. CASE stream # 0
      <4>1. waiters' = [waiters EXCEPT ![stream] = @ + 1] BY <2>2, <3>2 DEF Wait
      <4>2. stream \in 1 .. MaxSubs /\ waiters[stream] \in Nat BY <1>5, <3>2
      <4> QED BY <1>5, <4>1, <4>2
    <3> QED BY <3>1, <3>2
  <2> QED BY <2>1, <2>2
<1>7. SubsTyped' /\ Len(subs) <= Len(subs') /\ stream' \in 0 .. Len(subs')
  BY <1>4, <1>5 DEF SubsKept, ScreenTyped
<1>8. \A z \in DOMAIN cmds' :
           \/ ~Loader(z)
           \/ Local(z)
           \/ Refan(z) /\ Early(z)
           \/ /\ z \in DOMAIN cmds /\ Refan(z) /\ z.sub # 0
              /\ cmds'[z] = cmds[z] /\ subs'[z.sub].open /\ z.sub # stream'
  BY <1>3, HeldStays
<1>9. \A n \in DOMAIN inbox' :
           Carries(n) => /\ n \in DOMAIN inbox /\ inbox'[n] = inbox[n]
                         /\ subs'[n.cmd.sub].open /\ n.cmd.sub # stream'
  BY <1>2, HeldStays
<1>10. ScreenTyped' /\ Held' BY <1>2, <1>3, <1>6, <1>7, <1>8, <1>9, HeldOn
<1>11. Reads'
  <2>1. EventsInHand => EventsInHand' \/ m.m = "event" BY <1>2 DEF EventsInHand
  <2> QED BY <1>5, <1>6, <2>1 DEF Reads
<1>12. Tuned'
  <2>1. Loading => Loading'
    <3>1. \A n \in DOMAIN inbox : Carries(n) => n \in DOMAIN inbox' BY <1>2
    <3> QED BY <1>3, <3>1 DEF Loading, Carries, Refan
  <2>2. FailureInHand => FailureInHand' \/ m.m = "err" BY <1>2 DEF FailureInHand
  <2> QED BY <2>1, <2>2 DEF Tuned
<1> QED BY <1>10, <1>11, <1>12

\* What holds a subscription goes on holding it, or the one it has just opened.
LEMMA HolderMoves ==
  ASSUME ListenInv, SameScreen, inbox' = inbox, NEW x \in DOMAIN cmds, NEW y, Advance(x, y),
         Refan(x), Refan(y), IsCmd(y), y.old = x.old, ~y.loaded,
         y.step \in {"history", "overlays"}, y.sub # 0,
         SubsTyped', Len(subs) <= Len(subs'), y.sub \in 1 .. Len(subs'), subs'[y.sub].open,
         \A s \in 1 .. Len(subs) : subs'[s].open = subs[s].open,
         y.sub = x.sub \/ (x.sub = 0 /\ y.sub \notin 1 .. Len(subs))
  PROVE  ListenInv'
<1> USE DEF ListenInv
<1>1. IsABag(cmds) /\ IsABag(inbox) BY DEF ScreenTyped
<1>2. /\ Apart /\ (\A z \in DOMAIN cmds : Refan(z) => CmdOk(z))
      /\ (\A m \in DOMAIN inbox : Carries(m) => MsgOk(m))
  BY DEF Held
<1>3. Len(subs) \in Nat /\ Len(subs') \in Nat /\ (stream # 0 => stream \in 1 .. Len(subs))
  BY ChatAssumption DEF ScreenTyped, SubsTyped
<1> DEFINE C == cmds (-) SetToBag({x})
<1>4. /\ IsABag(C) /\ DOMAIN C \subseteq DOMAIN cmds
      /\ \A e \in DOMAIN cmds : e # x => e \in DOMAIN C /\ C[e] = cmds[e]
      /\ cmds[x] = 1 => x \notin DOMAIN C
  BY <1>1, BagTake
<1>5. cmds' = PutIn(C, {y}) BY Zenon DEF Advance, PutIn
<1> HIDE DEF C
<1>6. /\ IsABag(cmds') /\ DOMAIN cmds' = DOMAIN C \cup {y}
      /\ \A e \in DOMAIN C \ {y} : cmds'[e] = C[e]
      /\ (y \notin DOMAIN C => cmds'[y] = 1)
  <2>1. IsABag(C) BY <1>4
  <2>2. IsABag(cmds') /\ DOMAIN cmds' = DOMAIN C \cup {y} BY <1>5, <2>1, PutInBag
  <2>3. \A e \in DOMAIN C \ {y} : cmds'[e] = C[e] BY <1>5, <2>1, PutInKeeps
  <2>4. y \notin DOMAIN C => cmds'[y] = 1 BY <1>5, <2>1, PutInNew
  <2> QED BY <2>2, <2>3, <2>4
<1>7. \A z \in DOMAIN C : Refan(z) => z.sub # y.sub /\ (z.sub # 0 => z # x)
  <2>1. ASSUME NEW z \in DOMAIN C, Refan(z), z.sub # 0 PROVE z # x
    <3>1. z \in DOMAIN cmds /\ CmdOk(z) BY <1>2, <1>4, <2>1
    <3>2. cmds[z] = 1 BY <2>1, <3>1 DEF CmdOk
    <3> QED BY <1>4, <3>2
  <2>2. ASSUME NEW z \in DOMAIN C, Refan(z), z.sub = y.sub PROVE FALSE
    <3>1. z \in DOMAIN cmds /\ CmdOk(z) BY <1>2, <1>4, <2>2
    <3>2. z.sub \in 1 .. Len(subs) BY <1>3, <2>2, <3>1 DEF CmdOk
    <3>3. y.sub = x.sub BY <2>2, <3>2
    <3>4. z = x BY <1>2, <2>2, <3>1, <3>3 DEF Apart
    <3> QED BY <2>1, <2>2, <3>4
  <2> QED BY <2>1, <2>2
<1>8. y \notin DOMAIN C /\ cmds'[y] = 1 BY <1>6, <1>7
<1>9. ASSUME NEW z \in DOMAIN C, Refan(z)
      PROVE  CmdOk(z)' /\ z.old # y.sub /\ (z.sub # 0 => y.old # z.sub)
  <2>1. z \in DOMAIN cmds /\ CmdOk(z) /\ CmdOk(x) BY <1>2, <1>4, <1>9
  <2>2. z # y BY <1>8
  <2>3. z.sub # 0 => cmds'[z] = 1 BY <1>4, <1>6, <1>7, <1>9, <2>1, <2>2 DEF CmdOk
  <2>4. CmdOk(z)' BY <1>3, <2>1, <2>3 DEF CmdOk, SameScreen
  <2>5. z.old # y.sub BY <1>2, <1>3, <1>9, <2>1 DEF CmdOk, Apart
  <2>6. z.sub # 0 => y.old # z.sub BY <1>2, <1>9, <2>1 DEF Apart
  <2> QED BY <2>4, <2>5, <2>6
<1>10. CmdOk(y)' /\ y.old # y.sub
  <2>1. CmdOk(x) BY <1>2
  <2>2. y.sub # stream BY <1>3, <2>1 DEF CmdOk
  <2>3. y.old # y.sub BY <1>2, <1>3, <2>1 DEF CmdOk, Apart
  <2> QED BY <1>3, <1>8, <2>1, <2>2, <2>3 DEF CmdOk, SameScreen
<1>11. ASSUME NEW m \in DOMAIN inbox, Carries(m)
       PROVE  MsgOk(m)' /\ y.old # m.cmd.sub /\ y.sub # m.cmd.sub
  <2>1. MsgOk(m) /\ CmdOk(x) BY <1>2, <1>11
  <2>2. MsgOk(m)' BY <1>3, <2>1 DEF MsgOk, SameScreen
  <2>3. y.old # m.cmd.sub BY <1>2, <1>11 DEF Apart
  <2>4. y.sub # m.cmd.sub BY <1>2, <1>11, <2>1 DEF Apart, MsgOk
  <2> QED BY <2>2, <2>3, <2>4
<1>12. Apart'
  <2>1. \A z, w \in DOMAIN cmds' : Refan(z) /\ Refan(w) /\ z.sub # 0 => w.old # z.sub /\ (w.sub = z.sub => w = z)
    BY <1>2, <1>4, <1>6, <1>7, <1>9, <1>10 DEF Apart
  <2>2. \A z \in DOMAIN cmds', m \in DOMAIN inbox' :
          Refan(z) /\ Carries(m) => z.old # m.cmd.sub /\ z.sub # m.cmd.sub
    BY <1>2, <1>4, <1>6, <1>11 DEF Apart
  <2>3. \A m, n \in DOMAIN inbox' : Carries(m) /\ Carries(n) /\ m.cmd.sub = n.cmd.sub => m = n
    BY <1>2 DEF Apart
  <2> QED BY <2>1, <2>2, <2>3 DEF Apart, Refan, Carries
<1>13. Held' BY <1>6, <1>9, <1>10, <1>11, <1>12 DEF Held, Refan, Carries
<1>14. ScreenTyped'
  <2>1. \A z \in DOMAIN cmds' : Loader(z) => IsCmd(z) /\ (z.k = "switch" => z.sub = 0)
    BY <1>4, <1>6 DEF ScreenTyped, Refan
  <2> QED BY <1>1, <1>3, <1>6, <2>1 DEF ScreenTyped, SameScreen, Loader, IsCmd
<1>15. Reads' BY <1>3 DEF Reads, SameScreen, EventsInHand
<1>16. Tuned'
  <2>1. Loading' BY <1>6 DEF Loading, Refan
  <2> QED BY <2>1 DEF Tuned
<1> QED BY <1>13, <1>14, <1>15, <1>16

-----------------------------------------------------------------------------
(* The goroutines that load a channel.                                     *)
\* A join gives up the subscription it knew: the screen may go deaf, but is loading.
LEMMA CancelOldStep == ASSUME ListenInv, NEW x \in DOMAIN cmds, CancelOld(x), SameScreen PROVE ListenInv'
<1> USE DEF ListenInv
<1>1. IsABag(cmds) /\ IsABag(inbox) BY DEF ScreenTyped
<1>2. /\ Apart /\ (\A z \in DOMAIN cmds : Refan(z) => CmdOk(z))
  BY DEF Held
<1>3. Len(subs) \in Nat /\ (stream # 0 => stream \in 1 .. Len(subs))
  BY ChatAssumption DEF ScreenTyped, SubsTyped
<1> DEFINE y == [x EXCEPT !.step = "resolve"]
           C == cmds (-) SetToBag({x})
<1>4. x.k = "join" /\ x.step = "cancel" /\ Refan(x) /\ inbox' = inbox /\ Advance(x, y)
  BY DEF CancelOld, Refan
<1>5. IsCmd(x) BY <1>4 DEF ScreenTyped, Loader
<1>6. IsCmd(y) /\ y.step = "resolve" /\ y.k = x.k /\ y.old = x.old /\ y.sub = x.sub /\ y.loaded = x.loaded
  BY <1>5 DEF IsCmd, CmdFields
<1>7. CmdOk(x) /\ x.sub = 0 BY <1>2, <1>4 DEF CmdOk
<1>8. Early(x) BY <1>4, <1>7, EarlyOnes
<1>9. Refan(y) /\ Early(y) BY <1>4, <1>6, <1>8 DEF Refan, Early
<1>10. /\ SubsTyped' /\ Len(subs') = Len(subs)
       /\ \A s \in 1 .. Len(subs) : s # x.old => subs'[s].open = subs[s].open
       /\ \A s \in 1 .. Len(subs) : subs'[s].open => subs[s].open
  <2>1. CASE x.old = 0
    <3>1. subs' = subs BY <2>1 DEF CancelOld
    <3> QED BY <3>1, SubsStay DEF SubsKept, ScreenTyped
  <2>2. CASE x.old # 0
    <3>1. x.old \in 1 .. Len(subs) BY <1>3, <1>7, <2>2 DEF CmdOk
    <3>2. Cancel(x.old) BY <2>2 DEF CancelOld
    <3> QED BY <3>1, <3>2, CancelShuts DEF ScreenTyped
  <2> QED BY <2>1, <2>2
<1>11. /\ IsABag(C) /\ DOMAIN C \subseteq DOMAIN cmds
       /\ \A e \in DOMAIN cmds : e # x => e \in DOMAIN C /\ C[e] = cmds[e]
  BY <1>1, BagTake
<1>12. cmds' = C (+) SetToBag({y}) BY <1>4 DEF Advance
<1> HIDE DEF C, y
<1>13. /\ IsABag(cmds') /\ DOMAIN cmds' = DOMAIN C \cup {y}
       /\ \A e \in DOMAIN C \ {y} : cmds'[e] = C[e]
  BY <1>11, <1>12, BagPut
<1>14. \A z \in DOMAIN cmds' :
           \/ ~Loader(z)
           \/ Local(z)
           \/ Refan(z) /\ Early(z)
           \/ /\ z \in DOMAIN cmds /\ Refan(z) /\ z.sub # 0
              /\ cmds'[z] = cmds[z] /\ subs'[z.sub].open /\ z.sub # stream'
  BY <1>8, <1>7, <1>9, <1>10, <1>11, <1>13, HeldStays DEF SameScreen, Early
<1>15. \A m \in DOMAIN inbox' :
           Carries(m) => /\ m \in DOMAIN inbox /\ inbox'[m] = inbox[m]
                         /\ subs'[m.cmd.sub].open /\ m.cmd.sub # stream'
  BY <1>4, <1>8, <1>10, HeldStays DEF SameScreen, Early
<1>16. Len(subs) <= Len(subs') /\ stream' \in 0 .. Len(subs') /\ waiters' \in [1 .. MaxSubs -> Nat] /\ IsABag(inbox')
  BY <1>1, <1>3, <1>4, <1>10 DEF SameScreen, ScreenTyped
<1>17. ScreenTyped' /\ Held' BY <1>10, <1>13, <1>14, <1>15, <1>16, HeldOn
<1>18. Reads' BY <1>3, <1>4, <1>10 DEF Reads, SameScreen, EventsInHand
<1>19. Tuned'
  <2>1. Loading' BY <1>9, <1>13 DEF Loading, Refan
  <2> QED BY <2>1 DEF Tuned
<1> QED BY <1>17, <1>18, <1>19

\* The statements between, up to the subscription and the history.
LEMMA LoadStepKeeps ==
  ASSUME ListenInv, NEW x \in DOMAIN cmds, LoadStep(x), ~CancelOld(x), ~LoadDecorations(x), ~CommandFails(x)
  PROVE  ListenInv'
<1> USE DEF ListenInv
<1>1. SameScreen \/ ~SameScreen OBVIOUS
<1>2. UNCHANGED screenRest BY DEF LoadStep
<1>3. \A z \in DOMAIN cmds : Refan(z) => CmdOk(z) BY DEF Held
<1>4. SubsTyped BY DEF ScreenTyped
<1>5. CASE Leave(x) \/ ResolvePublicChannel(x) \/ Join(x) \/ ListJoined(x)
  <2>1. /\ subs' = subs /\ waiters' = waiters /\ inbox' = inbox /\ Refan(x)
        /\ x.step \in {"leave", "resolve", "create", "member", "list"}
    BY <1>5 DEF Leave, ResolvePublicChannel, Join, ListJoined, Refan, chatVars, LeaveChannelMembership,
         JoinChannelMembership
  <2>2. SubsKept BY <1>4, <2>1, SubsStay
  <2>3. SameScreen BY <1>2, <2>1 DEF SameScreen, screenRest
  <2>4. IsCmd(x) /\ x.sub = 0 BY <1>3, <2>1 DEF CmdOk, ScreenTyped, Loader, Refan
  <2>5. Early(x) BY <2>1, <2>4, EarlyOnes
  <2>6. ASSUME NEW y, Advance(x, y), IsCmd(y), y.k = x.k, y.old = x.old, y.sub = 0, ~y.loaded,
               y.step \notin {"history", "overlays"}
        PROVE  ListenInv'
    <3>1. Refan(y) /\ Early(y) BY <2>1, <2>5, <2>6 DEF Early, Refan
    <3> QED BY <2>1, <2>2, <2>3, <2>4, <2>6, <3>1, CmdMoves
  <2>7. CASE Leave(x) \/ ResolvePublicChannel(x) \/ Join(x)
    <3>1. PICK st \in {"cancel", "member", "create", "list"} : Advance(x, [x EXCEPT !.step = st])
      BY <2>7 DEF Leave, ResolvePublicChannel, Join
    <3> DEFINE y == [x EXCEPT !.step = st]
    <3>2. IsCmd(y) /\ y.k = x.k /\ y.old = x.old /\ y.sub = x.sub /\ y.loaded = x.loaded /\ y.step = st
      BY <2>4 DEF IsCmd, CmdFields
    <3> HIDE DEF y
    <3> QED BY <2>4, <2>5, <2>6, <3>1, <3>2 DEF Early, y
  <2>8. CASE ListJoined(x)
    <3>1. PICK j, u : Advance(x, [x EXCEPT !.step = "subscribe", !.joined = j, !.unread = u])
      BY <2>8 DEF ListJoined
    <3> DEFINE y == [x EXCEPT !.step = "subscribe", !.joined = j, !.unread = u]
    <3>2. IsCmd(y) /\ y.k = x.k /\ y.old = x.old /\ y.sub = x.sub /\ y.loaded = x.loaded /\ y.step = "subscribe"
      BY <2>4 DEF IsCmd, CmdFields
    <3>3. Advance(x, y) BY <3>1
    <3> HIDE DEF y
    <3> QED BY <2>4, <2>5, <2>6, <3>2, <3>3 DEF Early
  <2> QED BY <1>5, <2>7, <2>8
<1>6. CASE OpenMergedSub(x)
  <2>1. /\ waiters' = waiters /\ inbox' = inbox /\ Refan(x) /\ x.step = "subscribe" /\ Len(subs) < MaxSubs
    BY <1>6 DEF OpenMergedSub, Refan
  <2>2. SameScreen BY <1>2, <2>1 DEF SameScreen, screenRest
  <2>3. IsCmd(x) /\ x.sub = 0 BY <1>3, <2>1 DEF CmdOk, ScreenTyped, Loader, Refan
  <2>4. ~x.loaded BY <1>3, <2>1 DEF CmdOk
  <2> DEFINE y == [x EXCEPT !.step = "history", !.sub = Len(subs) + 1]
  <2>5. Advance(x, y) BY <1>6 DEF OpenMergedSub
  <2>6. /\ IsCmd(y) /\ y.k = x.k /\ y.old = x.old /\ y.sub = Len(subs) + 1 /\ y.loaded = x.loaded
        /\ y.step = "history"
    BY <2>3 DEF IsCmd, CmdFields
  <2> HIDE DEF y
  <2>7. SubscribeChannels(x.joined) BY <1>6 DEF OpenMergedSub
  <2>8. /\ SubsTyped' /\ Len(subs') = Len(subs) + 1 /\ subs'[Len(subs) + 1].open
        /\ \A s \in 1 .. Len(subs) : subs'[s].open = subs[s].open
    BY <1>4, <2>1, <2>7, SubscribeAdds
  <2>9. Len(subs) \in Nat BY <1>4, ChatAssumption DEF SubsTyped
  <2>10. Refan(y) BY <2>1, <2>6 DEF Refan
  <2>11. y.sub # 0 /\ y.sub \in 1 .. Len(subs') /\ y.sub \notin 1 .. Len(subs) /\ Len(subs) <= Len(subs')
    BY <2>6, <2>8, <2>9
  <2> QED BY <2>1, <2>2, <2>3, <2>4, <2>5, <2>6, <2>8, <2>10, <2>11, HolderMoves
<1>7. CASE LoadHistory(x)
  <2>1. /\ waiters' = waiters /\ inbox' = inbox /\ subs' = subs /\ Loader(x) /\ x.step = "history" /\ ~x.loaded
    BY <1>7 DEF LoadHistory, Loader, chatVars
  <2>2. SameScreen BY <1>2, <2>1 DEF SameScreen, screenRest
  <2>3. SubsKept BY <1>4, <2>1, SubsStay
  <2>4. IsCmd(x) BY <2>1 DEF ScreenTyped
  <2>5. PICK h : Advance(x, [x EXCEPT !.step = "overlays", !.hist = h]) BY <1>7 DEF LoadHistory
  <2> DEFINE y == [x EXCEPT !.step = "overlays", !.hist = h]
  <2>6. IsCmd(y) /\ y.k = x.k /\ y.old = x.old /\ y.sub = x.sub /\ y.loaded = x.loaded /\ y.step = "overlays"
    BY <2>4 DEF IsCmd, CmdFields
  <2>7. Advance(x, y) BY <2>5
  <2> HIDE DEF y
  <2>8. CASE x.k = "switch"
    <3>1. Local(y) /\ ~Refan(x) BY <2>1, <2>6, <2>8 DEF Local, Refan, ScreenTyped
    <3> QED BY <2>1, <2>2, <2>3, <2>7, <3>1, CmdMoves
  <2>9. CASE x.k # "switch"
    <3>1. Refan(x) /\ Refan(y) BY <2>1, <2>6, <2>9 DEF Loader, Refan
    <3>2. CmdOk(x) BY <1>3, <3>1
    <3>3. Len(subs) \in Nat BY <1>4, ChatAssumption DEF SubsTyped
    <3>4. y.sub # 0 /\ y.sub \in 1 .. Len(subs) /\ subs[y.sub].open
      BY <2>1, <2>6, <3>2, <3>3 DEF CmdOk
    <3>5. /\ SubsTyped' /\ Len(subs) <= Len(subs') /\ y.sub \in 1 .. Len(subs') /\ subs'[y.sub].open
          /\ \A s \in 1 .. Len(subs) : subs'[s].open = subs[s].open
      BY <2>1, <2>3, <3>3, <3>4 DEF SubsKept
    <3> QED BY <2>1, <2>2, <2>6, <2>7, <3>1, <3>4, <3>5, HolderMoves
  <2> QED BY <2>8, <2>9
<1> QED BY <1>5, <1>6, <1>7 DEF LoadStep

\* The result is posted: the message holds from now on what the command held.
LEMMA LoadedIsPosted ==
  ASSUME ListenInv, NEW x \in DOMAIN cmds, LoadDecorations(x), UNCHANGED screenRest
  PROVE  ListenInv'
<1> USE DEF ListenInv
<1>1. /\ Loader(x) /\ (x.step = "overlays" \/ x.loaded) /\ Finish(x)
      /\ subs' = subs /\ waiters' = waiters
  BY DEF LoadDecorations, Loader, chatVars
<1>2. PICK r, p, h : Post([m |-> "loaded", cmd |-> x, reactions |-> r, replies |-> p, pfp |-> h])
  BY DEF LoadDecorations
<1> DEFINE n == [m |-> "loaded", cmd |-> x, reactions |-> r, replies |-> p, pfp |-> h]
<1>3. n.m = "loaded" /\ n.cmd = x /\ Post(n) BY <1>2
<1> HIDE DEF n
<1>4. SameScreen BY <1>1 DEF SameScreen, screenRest
<1>5. SubsKept BY <1>1, SubsStay DEF ScreenTyped
<1>6. CASE ~Refan(x)
  BY <1>1, <1>3, <1>4, <1>5, <1>6, CmdEnds DEF Carries
<1>7. CASE Refan(x)
  <2>1. /\ Apart /\ (\A z \in DOMAIN cmds : Refan(z) => CmdOk(z))
        /\ (\A m \in DOMAIN inbox : Carries(m) => MsgOk(m))
    BY DEF Held
  <2>2. IsABag(cmds) /\ IsABag(inbox) BY DEF ScreenTyped
  <2>3. Len(subs) \in Nat /\ (stream # 0 => stream \in 1 .. Len(subs))
    BY ChatAssumption DEF ScreenTyped, SubsTyped
  <2>4. CmdOk(x) /\ x.sub # 0 /\ cmds[x] = 1 BY <1>1, <1>7, <2>1 DEF CmdOk
  <2>5. cmds' = TakeOut(cmds, x) BY <1>1, Zenon DEF Finish, TakeOut
  <2>6. IsABag(cmds') /\ DOMAIN cmds' \subseteq DOMAIN cmds BY <2>2, <2>5, TakeOutBag
  <2>7. x \notin DOMAIN cmds' BY <2>2, <2>4, <2>5, TakeOutGone
  <2>8. \A z \in DOMAIN cmds' : cmds'[z] = cmds[z] BY <2>2, <2>5, <2>6, <2>7, TakeOutKeeps
  <2>9. inbox' = PutIn(inbox, {n}) BY <1>3, Zenon DEF Post, PutIn
  <2>10. IsABag(inbox') /\ DOMAIN inbox' = DOMAIN inbox \cup {n} BY <2>2, <2>9, PutInBag
  <2>11. \A m \in DOMAIN inbox : m # n => inbox'[m] = inbox[m] BY <2>2, <2>9, PutInKeeps
  <2>12. Carries(n) BY <1>3, <1>7 DEF Carries
  <2>13. \A m \in DOMAIN inbox : Carries(m) => m.cmd.sub # x.sub BY <1>7, <2>1 DEF Apart
  <2>14. n \notin DOMAIN inbox BY <1>3, <2>12, <2>13
  <2>15. inbox'[n] = 1 BY <2>2, <2>9, <2>14, PutInNew
  <2>16. ScreenTyped'
    <3>1. \A z \in DOMAIN cmds' : Loader(z) => IsCmd(z) /\ (z.k = "switch" => z.sub = 0)
      BY <2>6 DEF ScreenTyped
    <3> QED BY <1>1, <1>4, <1>5, <2>6, <2>10, <3>1 DEF ScreenTyped, SameScreen, SubsKept, Loader, IsCmd
  <2>17. ASSUME NEW z \in DOMAIN cmds', Refan(z)
         PROVE  CmdOk(z)' /\ z.old # x.sub /\ z.sub # x.sub
    <3>1. z \in DOMAIN cmds /\ z # x /\ CmdOk(z) BY <2>1, <2>6, <2>7, <2>17
    <3>2. CmdOk(z)' BY <1>1, <1>4, <2>8, <3>1 DEF CmdOk, SameScreen
    <3> QED BY <1>7, <2>1, <2>4, <2>17, <3>1, <3>2 DEF Apart
  <2>18. ASSUME NEW m \in DOMAIN inbox', Carries(m) PROVE MsgOk(m)'
    <3>1. CASE m = n
      BY <1>1, <1>3, <1>4, <2>3, <2>4, <2>15, <3>1 DEF MsgOk, CmdOk, SameScreen
    <3>2. CASE m # n
      <4>1. m \in DOMAIN inbox /\ MsgOk(m) BY <2>1, <2>10, <2>18, <3>2
      <4> QED BY <1>1, <1>4, <2>11, <3>2, <4>1 DEF MsgOk, SameScreen
    <3> QED BY <3>1, <3>2
  <2>19. Apart'
    <3>1. \A z, w \in DOMAIN cmds' : Refan(z) /\ Refan(w) /\ z.sub # 0 => w.old # z.sub /\ (w.sub = z.sub => w = z)
      BY <2>1, <2>6 DEF Apart
    <3>2. \A z \in DOMAIN cmds', m \in DOMAIN inbox' :
            Refan(z) /\ Carries(m) => z.old # m.cmd.sub /\ z.sub # m.cmd.sub
      BY <1>3, <2>1, <2>6, <2>10, <2>17 DEF Apart
    <3>3. \A m, o \in DOMAIN inbox' : Carries(m) /\ Carries(o) /\ m.cmd.sub = o.cmd.sub => m = o
      BY <1>3, <2>1, <2>10, <2>13 DEF Apart
    <3> QED BY <3>1, <3>2, <3>3 DEF Apart, Refan, Carries
  <2>20. Held' BY <2>17, <2>18, <2>19 DEF Held, Refan, Carries
  <2>21. Reads'
    <3>1. EventsInHand => EventsInHand' BY <2>10 DEF EventsInHand
    <3> QED BY <1>1, <1>4, <3>1 DEF Reads, SameScreen
  <2>22. Tuned'
    <3>1. Loading' BY <2>10, <2>12 DEF Loading, Carries, Refan
    <3> QED BY <3>1 DEF Tuned
  <2> QED BY <2>16, <2>20, <2>21, <2>22
<1> QED BY <1>6, <1>7

-----------------------------------------------------------------------------
(* The screen takes over, and the streams.                                 *)
LEMMA WaitCounts == ASSUME waiters \in [1 .. MaxSubs -> Nat], NEW s \in 1 .. MaxSubs, Wait(s)
  PROVE  waiters' \in [1 .. MaxSubs -> Nat] /\ waiters'[s] > 0
<1>1. s # 0 BY ChatAssumption
<1>2. waiters' = [waiters EXCEPT ![s] = @ + 1] BY <1>1 DEF Wait
<1>3. waiters[s] \in Nat OBVIOUS
<1> QED BY <1>2, <1>3

LEMMA WaiterGoes == ASSUME waiters \in [1 .. MaxSubs -> Nat], NEW s \in 1 .. MaxSubs, waiters[s] > 0,
                           waiters' = [waiters EXCEPT ![s] = @ - 1]
  PROVE  /\ waiters' \in [1 .. MaxSubs -> Nat]
         /\ \A t \in 1 .. MaxSubs : t # s => waiters'[t] = waiters[t]
<1>1. waiters[s] \in Nat OBVIOUS
<1>2. waiters[s] - 1 \in Nat BY <1>1
<1> QED BY <1>2

\* A statement fails: what the command had opened is given up, and the failure told.
LEMMA CommandFailsKeeps ==
  ASSUME ListenInv, NEW x \in DOMAIN cmds, CommandFails(x), UNCHANGED screenRest PROVE ListenInv'
<1> USE DEF ListenInv
<1> DEFINE told == [m |-> "err"]
<1>1. Loader(x) /\ Post(told) /\ waiters' = waiters BY DEF CommandFails, Loader
<1>2. told.m = "err" /\ ~Carries(told) BY DEF Carries
<1> HIDE DEF told
<1>3. SameScreen BY <1>1 DEF SameScreen, screenRest
<1>4. IsABag(cmds) /\ IsABag(inbox) /\ SubsTyped BY DEF ScreenTyped
<1>5. /\ Apart /\ (\A z \in DOMAIN cmds : Refan(z) => CmdOk(z))
      /\ (\A m \in DOMAIN inbox : Carries(m) => MsgOk(m))
  BY DEF Held
<1>6. Len(subs) \in Nat /\ (stream # 0 => stream \in 1 .. Len(subs))
  BY ChatAssumption DEF ScreenTyped, SubsTyped
<1>7. IsCmd(x) /\ (x.k = "switch" => x.sub = 0) BY <1>1 DEF ScreenTyped
<1>8. CASE x.sub = 0
  <2>1. subs' = subs BY <1>8 DEF CommandFails
  <2>2. SubsKept BY <1>4, <2>1, SubsStay
  <2>3. CASE x.step = "leave"
    <3> DEFINE y == [x EXCEPT !.step = "cancel"]
    <3>1. Advance(x, y) BY <2>3 DEF CommandFails
    <3>2. IsCmd(y) /\ y.k = x.k /\ y.old = x.old /\ y.sub = x.sub /\ y.loaded = x.loaded /\ y.step = "cancel"
      BY <1>7 DEF IsCmd, CmdFields
    <3> HIDE DEF y
    <3>3. CASE Refan(x)
      <4>1. Early(x) BY <1>8, <3>3, EarlyOnes
      <4>2. Refan(y) /\ Early(y) BY <3>2, <3>3, <4>1 DEF Early, Refan
      <4> QED BY <1>1, <1>2, <1>3, <1>8, <2>2, <3>1, <4>2, CmdMoves
    <3>4. CASE ~Refan(x)
      <4>1. Local(y) BY <1>1, <1>8, <3>2, <3>4 DEF Local, Refan, Loader
      <4> QED BY <1>1, <1>2, <1>3, <2>2, <3>1, <3>4, <4>1, CmdMoves
    <3> QED BY <3>3, <3>4
  <2>4. CASE x.step # "leave"
    <3>1. Finish(x) BY <2>4 DEF CommandFails
    <3>2. CASE ~Refan(x) BY <1>1, <1>2, <1>3, <2>2, <3>1, <3>2, CmdEnds
    <3>3. CASE Refan(x)
      <4>1. cmds' = TakeOut(cmds, x) BY <3>1, Zenon DEF Finish, TakeOut
      <4>2. IsABag(cmds') /\ DOMAIN cmds' \subseteq DOMAIN cmds BY <1>4, <4>1, TakeOutBag
      <4>3. \A z \in DOMAIN cmds : z # x => cmds'[z] = cmds[z] BY <1>4, <4>1, TakeOutKeeps
      <4>4. inbox' = PutIn(inbox, {told}) BY <1>1, Zenon DEF Post, PutIn
      <4>5. IsABag(inbox') /\ DOMAIN inbox' = DOMAIN inbox \cup {told} BY <1>4, <4>4, PutInBag
      <4>6. \A m \in DOMAIN inbox : m # told => inbox'[m] = inbox[m] BY <1>4, <4>4, PutInKeeps
      <4>7. \A z \in DOMAIN cmds' :
               \/ ~Loader(z)
               \/ Local(z)
               \/ Refan(z) /\ Early(z)
               \/ /\ z \in DOMAIN cmds /\ Refan(z) /\ z.sub # 0
                  /\ cmds'[z] = cmds[z] /\ subs'[z.sub].open /\ z.sub # stream'
        BY <1>3, <1>8, <2>1, <4>2, <4>3, HeldStays DEF SameScreen
      <4>8. \A m \in DOMAIN inbox' :
               Carries(m) => /\ m \in DOMAIN inbox /\ inbox'[m] = inbox[m]
                             /\ subs'[m.cmd.sub].open /\ m.cmd.sub # stream'
        BY <1>2, <1>3, <2>1, <4>5, <4>6, HeldStays DEF SameScreen
      <4>9. /\ SubsTyped' /\ Len(subs) <= Len(subs') /\ stream' \in 0 .. Len(subs')
            /\ waiters' \in [1 .. MaxSubs -> Nat]
        BY <1>3, <1>6, <2>2 DEF SubsKept, SameScreen, ScreenTyped
      <4>10. ScreenTyped' /\ Held' BY <4>2, <4>5, <4>7, <4>8, <4>9, HeldOn
      <4>11. FailureInHand' BY <1>2, <4>5 DEF FailureInHand
      <4>12. EventsInHand => EventsInHand' BY <4>5 DEF EventsInHand
      <4>13. Reads' BY <1>3, <2>1, <4>12 DEF Reads, SameScreen
      <4>14. Tuned' BY <4>11 DEF Tuned
      <4> QED BY <4>10, <4>13, <4>14
    <3> QED BY <3>2, <3>3
  <2> QED BY <2>3, <2>4
<1>9. CASE x.sub # 0
  <2>1. Refan(x) BY <1>1, <1>7, <1>9 DEF Refan, Loader
  <2>2. CmdOk(x) /\ cmds[x] = 1 /\ x.sub \in 1 .. Len(subs) /\ x.sub # stream
    BY <1>5, <1>6, <1>9, <2>1 DEF CmdOk
  <2>3. x.step # "leave" BY <1>9, <2>2 DEF CmdOk
  <2>4. Finish(x) /\ Cancel(x.sub) BY <1>9, <2>3 DEF CommandFails
  <2>5. /\ SubsTyped' /\ Len(subs') = Len(subs)
        /\ \A s \in 1 .. Len(subs) : s # x.sub => subs'[s].open = subs[s].open
    BY <1>4, <2>2, <2>4, CancelShuts
  <2>6. cmds' = TakeOut(cmds, x) BY <2>4, Zenon DEF Finish, TakeOut
  <2>7. IsABag(cmds') /\ DOMAIN cmds' \subseteq DOMAIN cmds BY <1>4, <2>6, TakeOutBag
  <2>8. \A z \in DOMAIN cmds : z # x => cmds'[z] = cmds[z] BY <1>4, <2>6, TakeOutKeeps
  <2>9. x \notin DOMAIN cmds' BY <1>4, <2>2, <2>6, TakeOutGone
  <2>10. inbox' = PutIn(inbox, {told}) BY <1>1, Zenon DEF Post, PutIn
  <2>11. IsABag(inbox') /\ DOMAIN inbox' = DOMAIN inbox \cup {told} BY <1>4, <2>10, PutInBag
  <2>12. \A m \in DOMAIN inbox : m # told => inbox'[m] = inbox[m] BY <1>4, <2>10, PutInKeeps
  <2>13. \A z \in DOMAIN cmds' :
           \/ ~Loader(z)
           \/ Local(z)
           \/ Refan(z) /\ Early(z)
           \/ /\ z \in DOMAIN cmds /\ Refan(z) /\ z.sub # 0
              /\ cmds'[z] = cmds[z] /\ subs'[z.sub].open /\ z.sub # stream'
    <3>1. \A z \in DOMAIN cmds : Refan(z) /\ z # x => z.sub # x.sub
      BY <1>5, <1>9, <2>1 DEF Apart
    <3> QED BY <1>3, <2>5, <2>7, <2>8, <2>9, <3>1, HeldStays DEF SameScreen
  <2>14. \A m \in DOMAIN inbox' :
           Carries(m) => /\ m \in DOMAIN inbox /\ inbox'[m] = inbox[m]
                         /\ subs'[m.cmd.sub].open /\ m.cmd.sub # stream'
    <3>1. \A m \in DOMAIN inbox : Carries(m) => x.sub # m.cmd.sub BY <1>5, <2>1 DEF Apart
    <3> QED BY <1>2, <1>3, <2>5, <2>11, <2>12, <3>1, HeldStays DEF SameScreen
  <2>15. Len(subs) <= Len(subs') /\ stream' \in 0 .. Len(subs') /\ waiters' \in [1 .. MaxSubs -> Nat]
    BY <1>3, <1>6, <2>5 DEF SameScreen, ScreenTyped
  <2>16. ScreenTyped' /\ Held' BY <2>5, <2>7, <2>11, <2>13, <2>14, <2>15, HeldOn
  <2>17. FailureInHand' BY <1>2, <2>11 DEF FailureInHand
  <2>18. EventsInHand => EventsInHand' BY <2>11 DEF EventsInHand
  <2>19. stream # 0 => subs'[stream].open = subs[stream].open BY <1>6, <2>2, <2>5
  <2>20. Reads' BY <1>3, <2>18, <2>19 DEF Reads, SameScreen
  <2>21. Tuned' BY <2>17 DEF Tuned
  <2> QED BY <2>16, <2>20, <2>21
<1> QED BY <1>8, <1>9

\* The screen takes over the subscription that a command has brought, and reads it.
LEMMA HandleLoadedKeeps ==
  ASSUME ListenInv, NEW msg \in DOMAIN inbox, HandleLoaded(msg) PROVE ListenInv'
<1> USE DEF ListenInv
<1> DEFINE x == msg.cmd
<1>1. msg.m = "loaded" /\ Take(msg) /\ subs' = subs /\ up' = up /\ err' = err
  BY DEF HandleLoaded, chatVars
<1>2. PICK S : (\A z \in S : ~Loader(z)) /\ Run(S)
  <2>1. \A ch, u : ~Loader(TouchActiveAtLatest(ch)) /\ ~Loader(FetchImage(u, ch))
    BY DEF Loader, TouchActiveAtLatest, FetchImage
  <2>2. PICK U : Run({TouchActiveAtLatest(x.ch)} \cup {FetchImage(u, x.ch) : u \in U})
    BY DEF HandleLoaded
  <2> QED BY <2>1, <2>2
<1>3. CASE ~Refan(x)
  <2>1. stream' = stream /\ waiters' = waiters BY <1>3 DEF HandleLoaded, Refan
  <2> QED BY <1>1, <1>2, <1>3, <2>1, Handled DEF Carries
<1>4. CASE Refan(x)
  <2>1. Carries(msg) BY <1>1, <1>4 DEF Carries
  <2>2. stream' = x.sub /\ Wait(x.sub) BY <1>4 DEF HandleLoaded, Refan
  <2>3. IsABag(cmds) /\ IsABag(inbox) /\ SubsTyped BY DEF ScreenTyped
  <2>4. /\ Apart /\ (\A z \in DOMAIN cmds : Refan(z) => CmdOk(z))
        /\ (\A m \in DOMAIN inbox : Carries(m) => MsgOk(m))
    BY DEF Held
  <2>5. Len(subs) \in 0 .. MaxSubs BY ChatAssumption DEF ScreenTyped, SubsTyped
  <2>6. x.sub \in 1 .. Len(subs) /\ subs[x.sub].open /\ inbox[msg] = 1 BY <2>1, <2>4 DEF MsgOk
  <2>7. waiters' \in [1 .. MaxSubs -> Nat] /\ waiters'[x.sub] > 0
    <3>1. x.sub \in 1 .. MaxSubs BY <2>5, <2>6, ChatAssumption
    <3> QED BY <2>2, <3>1, WaitCounts DEF ScreenTyped
  <2>8. inbox' = TakeOut(inbox, msg) BY <1>1, Zenon DEF Take, TakeOut
  <2>9. IsABag(inbox') /\ DOMAIN inbox' \subseteq DOMAIN inbox BY <2>3, <2>8, TakeOutBag
  <2>10. msg \notin DOMAIN inbox' BY <2>3, <2>6, <2>8, TakeOutGone
  <2>11. \A m \in DOMAIN inbox : m # msg => inbox'[m] = inbox[m] BY <2>3, <2>8, TakeOutKeeps
  <2>12. cmds' = PutIn(cmds, S) BY <1>2, Zenon DEF Run, PutIn
  <2>13. IsABag(cmds') /\ DOMAIN cmds' = DOMAIN cmds \cup S BY <2>3, <2>12, PutInBag
  <2>14. \A z \in DOMAIN cmds : z \notin S => cmds'[z] = cmds[z] BY <2>3, <2>12, PutInKeeps
  <2>15. \A z \in DOMAIN cmds' :
           \/ ~Loader(z)
           \/ Local(z)
           \/ Refan(z) /\ Early(z)
           \/ /\ z \in DOMAIN cmds /\ Refan(z) /\ z.sub # 0
              /\ cmds'[z] = cmds[z] /\ subs'[z.sub].open /\ z.sub # stream'
    <3>1. \A z \in DOMAIN cmds : Refan(z) => z.sub # x.sub BY <2>1, <2>4 DEF Apart
    <3> QED BY <1>1, <1>2, <2>2, <2>13, <2>14, <3>1, HeldStays
  <2>16. \A m \in DOMAIN inbox' :
           Carries(m) => /\ m \in DOMAIN inbox /\ inbox'[m] = inbox[m]
                         /\ subs'[m.cmd.sub].open /\ m.cmd.sub # stream'
    <3>1. \A m \in DOMAIN inbox : Carries(m) /\ m # msg => m.cmd.sub # x.sub BY <2>1, <2>4 DEF Apart
    <3> QED BY <1>1, <2>2, <2>9, <2>10, <2>11, <3>1, HeldStays
  <2>17. SubsTyped' /\ Len(subs) <= Len(subs') /\ stream' \in 0 .. Len(subs')
    <3>1. SubsKept BY <1>1, <2>3, SubsStay
    <3> QED BY <1>1, <2>2, <2>5, <2>6, <3>1 DEF SubsKept
  <2>18. ScreenTyped' /\ Held' BY <2>7, <2>9, <2>13, <2>15, <2>16, <2>17, HeldOn
  <2>19. stream' # 0 /\ subs'[stream'].open BY <1>1, <2>2, <2>6, <2>5
  <2>20. Reads' BY <2>2, <2>7 DEF Reads
  <2>21. Tuned' BY <2>19 DEF Tuned
  <2> QED BY <2>18, <2>20, <2>21
<1> QED BY <1>3, <1>4

\* What is under way stays under way when only the screen's own stream is touched.
LEMMA HeldAside ==
  ASSUME ListenInv, SubsTyped', Len(subs') = Len(subs), stream' = stream, cmds' = cmds, inbox' = inbox,
         waiters' \in [1 .. MaxSubs -> Nat],
         \A s \in 1 .. Len(subs) : s # stream => subs'[s].open = subs[s].open
  PROVE  ScreenTyped' /\ Held'
<1> USE DEF ListenInv
<1>1. IsABag(cmds) /\ IsABag(inbox) BY DEF ScreenTyped
<1>2. Len(subs) <= Len(subs') /\ stream' \in 0 .. Len(subs')
  BY ChatAssumption DEF ScreenTyped, SubsTyped
<1>3. \A x \in DOMAIN cmds' :
           \/ ~Loader(x)
           \/ Local(x)
           \/ Refan(x) /\ Early(x)
           \/ /\ x \in DOMAIN cmds /\ Refan(x) /\ x.sub # 0
              /\ cmds'[x] = cmds[x] /\ subs'[x.sub].open /\ x.sub # stream'
  BY HeldStays
<1>4. \A m \in DOMAIN inbox' :
           Carries(m) => /\ m \in DOMAIN inbox /\ inbox'[m] = inbox[m]
                         /\ subs'[m.cmd.sub].open /\ m.cmd.sub # stream'
  BY HeldStays
<1> QED BY <1>1, <1>2, <1>3, <1>4, HeldOn

LEMMA StreamClosesKeeps == ASSUME ListenInv, NEW s \in DOMAIN subs, StreamCloses(s) PROVE ListenInv'
<1> USE DEF ListenInv
<1>1. /\ waiters[s] > 0 /\ ~subs[s].open /\ waiters' = [waiters EXCEPT ![s] = @ - 1]
      /\ subs' = subs /\ cmds' = cmds /\ inbox' = inbox /\ up' = up /\ err' = err /\ stream' = stream
  BY DEF StreamCloses, chatVars, screenRest
<1>2. SubsTyped /\ Len(subs) \in Nat /\ Len(subs) <= MaxSubs /\ (stream # 0 => stream \in 1 .. MaxSubs)
  BY ChatAssumption DEF ScreenTyped, SubsTyped
<1>3. s \in 1 .. MaxSubs BY <1>2, ChatAssumption DEF SubsTyped
<1>4. /\ waiters' \in [1 .. MaxSubs -> Nat]
      /\ \A t \in 1 .. MaxSubs : t # s => waiters'[t] = waiters[t]
  BY <1>1, <1>3, WaiterGoes DEF ScreenTyped
<1>5. SubsKept BY <1>1, <1>2, SubsStay
<1>6. ScreenTyped' /\ Held' BY <1>1, <1>4, <1>5, HeldAside DEF SubsKept
<1>7. EventsInHand' = EventsInHand /\ FailureInHand' = FailureInHand /\ Loading' = Loading
  BY <1>1 DEF EventsInHand, FailureInHand, Loading
<1>8. Reads' BY <1>1, <1>2, <1>4, <1>7 DEF Reads
<1>9. Tuned' BY <1>1, <1>7 DEF Tuned
<1> QED BY <1>6, <1>8, <1>9

LEMMA EventArrivesKeeps == ASSUME ListenInv, NEW s \in DOMAIN subs, EventArrives(s) PROVE ListenInv'
<1> USE DEF ListenInv
<1>1. /\ waiters[s] > 0 /\ waiters' = [waiters EXCEPT ![s] = @ - 1]
      /\ cmds' = cmds /\ up' = up /\ err' = err /\ stream' = stream
  BY DEF EventArrives, screenRest
<1>2. /\ SubsTyped /\ Len(subs) \in Nat /\ Len(subs) <= MaxSubs /\ (stream # 0 => stream \in 1 .. Len(subs))
      /\ IsABag(cmds) /\ IsABag(inbox)
  BY ChatAssumption DEF ScreenTyped, SubsTyped
<1>3. s \in 1 .. Len(subs) /\ s \in 1 .. MaxSubs BY <1>2, ChatAssumption DEF SubsTyped
<1>4. /\ waiters' \in [1 .. MaxSubs -> Nat]
      /\ \A t \in 1 .. MaxSubs : t # s => waiters'[t] = waiters[t]
  BY <1>1, <1>3, WaiterGoes DEF ScreenTyped
<1>5. PICK ch : Received(s, ch) /\ Post([m |-> "event", ev |-> Head(subs[s].queue[ch])])
  BY DEF EventArrives
<1> DEFINE n == [m |-> "event", ev |-> Head(subs[s].queue[ch])]
<1>6. n.m = "event" /\ Post(n) BY <1>5
<1> HIDE DEF n
<1>7. SubsKept BY <1>2, <1>3, <1>5, ReceiveKeeps
<1>8. inbox' = PutIn(inbox, {n}) BY <1>6, Zenon DEF Post, PutIn
<1>9. IsABag(inbox') /\ DOMAIN inbox' = DOMAIN inbox \cup {n} BY <1>2, <1>8, PutInBag
<1>10. \A m \in DOMAIN inbox : m # n => inbox'[m] = inbox[m] BY <1>2, <1>8, PutInKeeps
<1>11. \A x \in DOMAIN cmds' :
           \/ ~Loader(x)
           \/ Local(x)
           \/ Refan(x) /\ Early(x)
           \/ /\ x \in DOMAIN cmds /\ Refan(x) /\ x.sub # 0
              /\ cmds'[x] = cmds[x] /\ subs'[x.sub].open /\ x.sub # stream'
  BY <1>1, <1>7, HeldStays DEF SubsKept
<1>12. \A m \in DOMAIN inbox' :
           Carries(m) => /\ m \in DOMAIN inbox /\ inbox'[m] = inbox[m]
                         /\ subs'[m.cmd.sub].open /\ m.cmd.sub # stream'
  BY <1>1, <1>6, <1>7, <1>9, <1>10, HeldStays DEF SubsKept, Carries
<1>13. SubsTyped' /\ Len(subs) <= Len(subs') /\ stream' \in 0 .. Len(subs')
  BY <1>1, <1>2, <1>7 DEF SubsKept, ScreenTyped
<1>14. ScreenTyped' /\ Held' BY <1>1, <1>2, <1>4, <1>9, <1>11, <1>12, <1>13, HeldOn
<1>15. EventsInHand' BY <1>6, <1>9 DEF EventsInHand
<1>16. Reads' BY <1>15 DEF Reads
<1>17. Tuned'
  <2>1. FailureInHand => FailureInHand' BY <1>9 DEF FailureInHand
  <2>2. Loading => Loading' BY <1>1, <1>9 DEF Loading
  <2>3. stream # 0 => subs'[stream].open = subs[stream].open BY <1>2, <1>7 DEF SubsKept
  <2> QED BY <1>1, <2>1, <2>2, <2>3 DEF Tuned
<1> QED BY <1>14, <1>16, <1>17

-----------------------------------------------------------------------------
(* The service and Update.                                                 *)
IsNew(x, k, step, old) ==
  IsCmd(x) /\ x.k = k /\ x.step = step /\ x.old = old /\ x.sub = 0 /\ x.loaded = FALSE
LEMMA CommandIs == ASSUME NEW k, NEW step, NEW ch, NEW from, NEW old
  PROVE  IsNew(Command(k, step, ch, from, old), k, step, old)
BY DEF IsNew, Command, IsCmd, CmdFields

\* A join knows the subscription the screen reads, and that is nobody else's.
LEMMA JoinIsEarly == ASSUME ScreenTyped, Held, NEW step \in {"cancel", "leave"}, NEW ch, NEW from
  PROVE  LET x == Command("join", step, ch, from, stream) IN Refan(x) /\ Early(x)
<1> DEFINE x == Command("join", step, ch, from, stream)
<1>1. IsNew(x, "join", step, stream) BY CommandIs
<1> HIDE DEF x
<1>2. (\A y \in DOMAIN cmds : Refan(y) => CmdOk(y)) /\ (\A m \in DOMAIN inbox : Carries(m) => MsgOk(m))
  BY DEF Held
<1>3. stream \in 0 .. Len(subs) BY DEF ScreenTyped
<1>4. Refan(x) /\ Early(x) BY <1>1, <1>2, <1>3 DEF IsNew, Refan, Early, CmdOk, MsgOk
<1> QED BY <1>4 DEF x

LEMMA ServiceKeeps == ASSUME ListenInv, NEW c \in Callers, ServiceStep(c), UNCHANGED screenVars
  PROVE  ListenInv'
<1>1. inbox' = inbox /\ cmds' = cmds /\ SameScreen BY DEF screenVars, SameScreen
<1>2. SubsTyped BY DEF ListenInv, ScreenTyped
<1>3. ASSUME subs' = subs PROVE ListenInv'
  <2>1. SubsKept BY <1>2, <1>3, SubsStay
  <2> QED BY <1>1, <2>1, Calm
<1>4. CASE Publish(c)
  <2>1. subs' = subs \/ PublishTo(chatCalls[c].event) BY <1>4 DEF Publish
  <2>2. CASE PublishTo(chatCalls[c].event)
    <3>1. SubsKept BY <1>2, <2>2, PublishKeeps
    <3> QED BY <1>1, <3>1, Calm
  <2> QED BY <1>3, <2>1, <2>2
<1>5. CASE SendMessage(c) BY <1>3, <1>5 DEF SendMessage
<1>6. CASE Find(c) BY <1>3, <1>6 DEF Find
<1>7. CASE EditLastOwnInChannel(c) BY <1>3, <1>7 DEF EditLastOwnInChannel
<1>8. CASE React(c) BY <1>3, <1>8 DEF React
<1>9. CASE Unreact(c) BY <1>3, <1>9 DEF Unreact
<1>10. CASE DeleteMessage(c) BY <1>3, <1>10 DEF DeleteMessage
<1>11. CASE SoftDelete(c) BY <1>3, <1>11 DEF SoftDelete
<1>12. CASE SetPinned(c) BY <1>3, <1>12 DEF SetPinned
<1>13. CASE WritePin(c) BY <1>3, <1>13 DEF WritePin
<1>14. CASE SetTopic(c) BY <1>3, <1>14 DEF SetTopic
<1>15. CASE WriteTopic(c) BY <1>3, <1>15 DEF WriteTopic
<1>16. CASE PublishTyping(c) BY <1>3, <1>16 DEF PublishTyping
<1>17. CASE ResolveDM(c) BY <1>3, <1>17 DEF ResolveDM
<1>18. CASE CreateDM(c) BY <1>3, <1>18 DEF CreateDM
<1>19. CASE EnsureMembership(c) BY <1>3, <1>19 DEF EnsureMembership
<1> QED BY <1>4, <1>5, <1>6, <1>7, <1>8, <1>9, <1>10, <1>11, <1>12, <1>13, <1>14, <1>15, <1>16, <1>17,
           <1>18, <1>19 DEF ServiceStep

LEMMA OtherCommandsKeep ==
  ASSUME ListenInv, NEW x \in DOMAIN cmds,
         TouchRead(x) \/ FindLatest(x) \/ ImageFetched(x) \/ PfpResolved(x) \/ Reported(x)
  PROVE  ListenInv'
<1>1. SubsTyped BY DEF ListenInv, ScreenTyped
<1>2. /\ subs' = subs /\ SameScreen
  BY DEF TouchRead, FindLatest, ImageFetched, PfpResolved, Reported, screenRest, chatVars, SameScreen
<1>3. SubsKept BY <1>1, <1>2, SubsStay
<1>4. ~Refan(x) BY DEF TouchRead, FindLatest, ImageFetched, PfpResolved, Reported, Refan
<1>5. CASE TouchRead(x)
  <2>1. Finish(x) /\ inbox' = inbox BY <1>5 DEF TouchRead
  <2> QED BY <1>2, <1>3, <1>4, <2>1, CmdEnds
<1>6. CASE FindLatest(x)
  <2>1. PICK y : Advance(x, y) /\ ~Loader(y) /\ inbox' = inbox
    <3>1. ~Loader(Touch(x.ch, LatestMessageIDInChannel(x.ch))) BY DEF Touch, Loader
    <3> QED BY <1>6, <3>1 DEF FindLatest
  <2> QED BY <1>2, <1>3, <1>4, <2>1, CmdMoves
<1>7. CASE ImageFetched(x) \/ PfpResolved(x) \/ Reported(x)
  <2>1. PICK m : ~Carries(m) /\ Post(m)
    <3>1. CASE ImageFetched(x)
      <4>1. PICK result \in {"ok", "failed"} :
              Post([m |-> "image", url |-> x.url, ch |-> x.ch, ok |-> result = "ok"])
        BY <3>1 DEF ImageFetched
      <4>2. ~Carries([m |-> "image", url |-> x.url, ch |-> x.ch, ok |-> result = "ok"]) BY DEF Carries
      <4> QED BY <4>1, <4>2
    <3>2. CASE PfpResolved(x)
      <4>1. ~Carries([m |-> "pfp", handle |-> x.handle, has |-> x.handle \in WithPicture]) BY DEF Carries
      <4> QED BY <3>2, <4>1 DEF PfpResolved
    <3>3. CASE Reported(x)
      <4>1. PICK f : Post([m |-> "notice", found |-> f]) BY <3>3 DEF Reported
      <4>2. ~Carries([m |-> "notice", found |-> f]) BY DEF Carries
      <4> QED BY <4>1, <4>2
    <3> QED BY <1>7, <3>1, <3>2, <3>3
  <2>2. Finish(x) BY <1>7 DEF ImageFetched, PfpResolved, Reported
  <2> QED BY <1>2, <1>3, <1>4, <2>1, <2>2, CmdEnds
<1> QED BY <1>5, <1>6, <1>7

LEMMA LoadingKeeps == ASSUME ListenInv, NEW x \in DOMAIN cmds, LoadStep(x) PROVE ListenInv'
<1>1. UNCHANGED screenRest BY DEF LoadStep
<1>2. CASE CancelOld(x)
  <2>1. SameScreen BY <1>1, <1>2 DEF CancelOld, SameScreen, screenRest
  <2> QED BY <1>2, <2>1, CancelOldStep
<1> QED BY <1>1, <1>2, LoadedIsPosted, CommandFailsKeeps, LoadStepKeeps

LEMMA UpdateKeeps == ASSUME ListenInv, Update PROVE ListenInv'
<1>1. SubsTyped BY DEF ListenInv, ScreenTyped
<1>2. CASE TypingTick
  <2>1. subs' = subs /\ inbox' = inbox /\ cmds' = cmds /\ SameScreen
    BY <1>2 DEF TypingTick, chatVars, SameScreen
  <2>2. SubsKept BY <1>1, <2>1, SubsStay
  <2> QED BY <2>1, <2>2, Calm
<1>3. ASSUME NEW m \in DOMAIN inbox, up, HandleLoaded(m) PROVE ListenInv'
  BY <1>3, HandleLoadedKeeps
<1>4. ASSUME NEW m \in DOMAIN inbox, up, HandleImage(m) \/ HandlePfp(m) \/ HandleNotice(m)
      PROVE  ListenInv'
  <2>1. /\ Take(m) /\ m.m \notin {"loaded", "event", "err"} /\ subs' = subs /\ up' = up
        /\ stream' = stream /\ cmds' = cmds /\ waiters' = waiters /\ err' = err
    BY <1>4 DEF HandleImage, HandlePfp, HandleNotice, chatVars
  <2> QED BY <2>1, Handled DEF Carries
<1>5. ASSUME NEW m \in DOMAIN inbox, up, HandleErr(m) PROVE ListenInv'
  <2>1. /\ Take(m) /\ m.m = "err" /\ subs' = subs /\ up' = up
        /\ stream' = stream /\ cmds' = cmds /\ waiters' = waiters /\ err' = TRUE
    BY <1>5 DEF HandleErr, chatVars
  <2> QED BY <2>1, Handled DEF Carries
<1>6. ASSUME NEW m \in DOMAIN inbox, up, HandleEvent(m) PROVE ListenInv'
  <2>1. /\ Take(m) /\ m.m = "event" /\ subs' = subs /\ up' = up
        /\ stream' = stream /\ cmds' = cmds /\ Wait(stream) /\ err' = err
    BY <1>6 DEF HandleEvent, chatVars
  <2> QED BY <2>1, Handled DEF Carries
<1>7. ASSUME NEW m \in DOMAIN inbox, up, HandleCreated(m) PROVE ListenInv'
  <2>1. /\ Take(m) /\ m.m = "event" /\ subs' = subs /\ up' = up
        /\ stream' = stream /\ Wait(stream) /\ err' = err
    BY <1>7 DEF HandleCreated, chatVars
  <2>2. PICK U, V, T : Run({FetchImage(u, m.ev.ch) : u \in U} \cup {ResolvePfp(h) : h \in V} \cup T)
                       /\ T \in {{}, {Touch(m.ev.ch, m.ev.id)}}
    BY <1>7 DEF HandleCreated
  <2>3. \A z \in {FetchImage(u, m.ev.ch) : u \in U} \cup {ResolvePfp(h) : h \in V} \cup T : ~Loader(z)
    BY <2>2 DEF FetchImage, ResolvePfp, Touch, Loader
  <2>4. \E S : (\A z \in S : ~Loader(z)) /\ Run(S) BY <2>2, <2>3
  <2> QED BY <2>1, <2>4, Handled DEF Carries
<1>8. ASSUME NEW m \in DOMAIN inbox, Dropped(m) PROVE ListenInv'
  <2>1. ~up /\ Take(m) /\ subs' = subs /\ SameScreen /\ cmds' = cmds
    BY <1>8 DEF Dropped, chatVars, screenRest, SameScreen
  <2>2. IsABag(cmds) /\ IsABag(inbox) BY DEF ListenInv, ScreenTyped
  <2>3. inbox' = TakeOut(inbox, m) BY <2>1, Zenon DEF Take, TakeOut
  <2>4. IsABag(inbox') /\ DOMAIN inbox' \subseteq DOMAIN inbox BY <2>2, <2>3, TakeOutBag
  <2>5. \A n \in DOMAIN inbox : n # m => inbox'[n] = inbox[n] BY <2>2, <2>3, TakeOutKeeps
  <2>6. inbox[m] = 1 => m \notin DOMAIN inbox' BY <2>2, <2>3, TakeOutGone
  <2>7. Carries(m) => inbox[m] = 1 BY DEF ListenInv, Held, MsgOk
  <2>8. \A x \in DOMAIN cmds' :
           \/ ~Loader(x)
           \/ Local(x)
           \/ Refan(x) /\ Early(x)
           \/ /\ x \in DOMAIN cmds /\ Refan(x) /\ x.sub # 0
              /\ cmds'[x] = cmds[x] /\ subs'[x.sub].open /\ x.sub # stream'
    BY <2>1, HeldStays DEF ListenInv, SameScreen
  <2>9. \A n \in DOMAIN inbox' :
           Carries(n) => /\ n \in DOMAIN inbox /\ inbox'[n] = inbox[n]
                         /\ subs'[n.cmd.sub].open /\ n.cmd.sub # stream'
    BY <2>1, <2>4, <2>5, <2>6, <2>7, HeldStays DEF ListenInv, SameScreen
  <2>10. SubsKept BY <1>1, <2>1, SubsStay
  <2>11. /\ SubsTyped' /\ Len(subs) <= Len(subs') /\ stream' \in 0 .. Len(subs')
         /\ waiters' \in [1 .. MaxSubs -> Nat]
    BY <2>1, <2>10, ChatAssumption DEF SubsKept, SameScreen, ListenInv, ScreenTyped, SubsTyped
  <2>12. ScreenTyped' /\ Held' BY <2>1, <2>2, <2>4, <2>8, <2>9, <2>11, HeldOn DEF ListenInv
  <2> QED BY <2>1, <2>12 DEF ListenInv, Reads, Tuned, SameScreen
<1> QED BY <1>2, <1>3, <1>4, <1>5, <1>6, <1>7, <1>8 DEF Update

-----------------------------------------------------------------------------
(* Keys.                                                                   *)
\* A key that is not a way out leaves what is read alone, and may start a command.
LEMMA KeysKeep ==
  ASSUME ListenInv, \/ TypeJoin \/ LeaveCurrent \/ SwitchChannel \/ Ask \/ \E c \in Callers : DMReady(c)
  PROVE  ListenInv'
<1>1. ScreenTyped /\ Held BY DEF ListenInv
<1>2. subs' = subs /\ inbox' = inbox /\ SameScreen
  BY DEF TypeJoin, LeaveCurrent, SwitchChannel, Ask, DMReady, keyRest, SameScreen
<1>3. SubsKept BY <1>1, <1>2, SubsStay DEF ScreenTyped
<1>4. SUFFICES \E S : /\ Run(S)
                      /\ \A x \in S : ~Loader(x) \/ Local(x) \/ (Refan(x) /\ Early(x))
  <2>1. PICK S : /\ Run(S)
                 /\ \A x \in S : ~Loader(x) \/ Local(x) \/ (Refan(x) /\ Early(x))
    BY <1>4
  <2>2. cmds' = cmds (+) SetToBag(S) BY <2>1 DEF Run
  <2> QED BY <1>2, <1>3, <2>1, <2>2, NewCmds
<1>5. ASSUME NEW step \in {"cancel", "leave"}, NEW ch, NEW from,
             Run({Command("join", step, ch, from, stream)})
      PROVE  \E S : /\ Run(S)
                    /\ \A x \in S : ~Loader(x) \/ Local(x) \/ (Refan(x) /\ Early(x))
  <2> DEFINE y == Command("join", step, ch, from, stream)
  <2>1. Refan(y) /\ Early(y) BY <1>1, JoinIsEarly
  <2>2. Run({y}) BY <1>5
  <2> HIDE DEF y
  <2> QED BY <2>1, <2>2
<1>6. CASE TypeJoin \/ \E c \in Callers : DMReady(c)
  <2>1. PICK ch : Run({Command("join", "cancel", ch, {}, stream)})
    BY <1>6 DEF TypeJoin, DMReady, JoinChannel
  <2> QED BY <1>5, <2>1
<1>7. CASE LeaveCurrent
  <2>1. Run({Command("join", "leave", lobby, active, stream)}) BY <1>7 DEF LeaveCurrent
  <2> QED BY <1>5, <2>1
<1>8. CASE SwitchChannel
  <2>1. PICK ch : Run({[Command("switch", "history", ch, {}, 0) EXCEPT !.loaded = ch \in DOMAIN logs]})
    BY <1>8 DEF SwitchChannel
  <2> DEFINE x == Command("switch", "history", ch, {}, 0)
             y == [x EXCEPT !.loaded = ch \in DOMAIN logs]
  <2>2. IsNew(x, "switch", "history", 0) BY CommandIs
  <2>3. Run({y}) BY <2>1
  <2> HIDE DEF x
  <2>4. Local(y) BY <2>2 DEF IsNew, Local, IsCmd, CmdFields
  <2> HIDE DEF y
  <2> QED BY <2>3, <2>4
<1>9. CASE Ask
  <2>1. PICK op, body : Run({Report(op, active, body)}) BY <1>9 DEF Ask
  <2>2. ~Loader(Report(op, active, body)) BY DEF Report, Loader
  <2> QED BY <2>1, <2>2
<1> QED BY <1>6, <1>7, <1>8, <1>9

LEMMA StillKeeps ==
  ASSUME ListenInv, Submit \/ OthersCall \/ Notice \/ Scroll \/ Thread \/ Resize PROVE ListenInv'
<1>1. SubsTyped BY DEF ListenInv, ScreenTyped
<1>2. CASE Submit \/ OthersCall
  <2>1. subs' = subs BY <1>2 DEF Submit, OthersCall, ChatCall
  <2>2. inbox' = inbox /\ cmds' = cmds /\ SameScreen
    BY <1>2 DEF Submit, OthersCall, screenVars, SameScreen
  <2>3. SubsKept BY <1>1, <2>1, SubsStay
  <2> QED BY <2>2, <2>3, Calm
<1>3. CASE Notice \/ Scroll \/ Thread \/ Resize
  <2>1. subs' = subs /\ inbox' = inbox /\ cmds' = cmds /\ SameScreen
    BY <1>3 DEF Notice, Scroll, Thread, Resize, keyRest, SameScreen
  <2>2. SubsKept BY <1>1, <2>1, SubsStay
  <2> QED BY <2>1, <2>2, Calm
<1> QED BY <1>2, <1>3

\* The ways out: esc gives the stream up, finger gives nothing up.
LEMMA WaysOutKeep == ASSUME ListenInv, Esc \/ Finger PROVE ListenInv'
<1>1. ScreenTyped /\ Held /\ SubsTyped BY DEF ListenInv, ScreenTyped
<1>2. /\ inbox' = inbox /\ cmds' = cmds /\ waiters' = waiters /\ stream' = stream /\ err' = err
  BY DEF Esc, Finger, keyRest
<1>3. CASE subs' = subs /\ up' = up
  <2>1. SubsKept BY <1>1, <1>3, SubsStay
  <2> QED BY <1>2, <1>3, <2>1, Calm DEF SameScreen
<1>4. CASE ~up' /\ (subs' = subs \/ (stream # 0 /\ Cancel(stream)))
  <2>1. /\ SubsTyped' /\ Len(subs') = Len(subs)
        /\ \A s \in 1 .. Len(subs) : s # stream => subs'[s].open = subs[s].open
    <3>1. CASE subs' = subs
      <4>1. SubsKept BY <1>1, <3>1, SubsStay
      <4> QED BY <4>1 DEF SubsKept
    <3>2. CASE stream # 0 /\ Cancel(stream)
      <4>1. stream \in 1 .. Len(subs) BY <1>1, <3>2, ChatAssumption DEF ScreenTyped, SubsTyped
      <4> QED BY <1>1, <3>2, <4>1, CancelShuts
    <3> QED BY <1>4, <3>1, <3>2
  <2>2. waiters' \in [1 .. MaxSubs -> Nat] BY <1>1, <1>2 DEF ScreenTyped
  <2>3. ScreenTyped' /\ Held' BY <1>2, <2>1, <2>2, HeldAside
  <2> QED BY <1>4, <2>3 DEF ListenInv, Reads, Tuned
<1>5. (subs' = subs /\ up' = up) \/ (~up' /\ (subs' = subs \/ (stream # 0 /\ Cancel(stream))))
  BY DEF Esc, Finger
<1> QED BY <1>3, <1>4, <1>5

\* A fresh screen is loading, and reads nothing yet.
LEMMA OpenKeeps == ASSUME ListenInv, Open PROVE ListenInv'
<1>1. ScreenTyped /\ Held /\ SubsTyped /\ IsABag(cmds) /\ IsABag(inbox) /\ Len(subs) \in Nat
  BY ChatAssumption DEF ListenInv, ScreenTyped, SubsTyped
<1>2. subs' = subs /\ inbox' = inbox /\ waiters' = waiters /\ stream' = 0 BY DEF Open
<1> DEFINE y == Command("boot", "resolve", lobby, {}, 0)
<1>3. IsNew(y, "boot", "resolve", 0) BY CommandIs
<1>4. Run({y}) BY DEF Open
<1> HIDE DEF y
<1>5. (\A z \in DOMAIN cmds : Refan(z) => CmdOk(z)) /\ (\A m \in DOMAIN inbox : Carries(m) => MsgOk(m))
  BY <1>1 DEF Held
<1>6. Refan(y) /\ Early(y) BY <1>1, <1>3, <1>5 DEF IsNew, Refan, Early, CmdOk, MsgOk
<1>7. cmds' = PutIn(cmds, {y}) BY <1>4, Zenon DEF Run, PutIn
<1>8. IsABag(cmds') /\ DOMAIN cmds' = DOMAIN cmds \cup {y} BY <1>1, <1>7, PutInBag
<1>9. \A z \in DOMAIN cmds : z # y => cmds'[z] = cmds[z] BY <1>1, <1>7, PutInKeeps
<1>10. SubsKept BY <1>1, <1>2, SubsStay
<1>11. \A z \in DOMAIN cmds' :
           \/ ~Loader(z)
           \/ Local(z)
           \/ Refan(z) /\ Early(z)
           \/ /\ z \in DOMAIN cmds /\ Refan(z) /\ z.sub # 0
              /\ cmds'[z] = cmds[z] /\ subs'[z.sub].open /\ z.sub # stream'
  BY <1>1, <1>2, <1>6, <1>8, <1>9, HeldStays
<1>12. \A m \in DOMAIN inbox' :
           Carries(m) => /\ m \in DOMAIN inbox /\ inbox'[m] = inbox[m]
                         /\ subs'[m.cmd.sub].open /\ m.cmd.sub # stream'
  BY <1>1, <1>2, HeldStays
<1>13. /\ SubsTyped' /\ Len(subs) <= Len(subs') /\ stream' \in 0 .. Len(subs')
       /\ waiters' \in [1 .. MaxSubs -> Nat]
  BY <1>1, <1>2, <1>10 DEF SubsKept, ScreenTyped
<1>14. ScreenTyped' /\ Held' BY <1>1, <1>2, <1>8, <1>11, <1>12, <1>13, HeldOn
<1>15. Reads' BY <1>2 DEF Reads
<1>16. Tuned'
  <2>1. Loading' BY <1>6, <1>8 DEF Loading, Refan
  <2> QED BY <2>1 DEF Tuned
<1> QED BY <1>14, <1>15, <1>16 DEF ListenInv

-----------------------------------------------------------------------------
(* The theorem.                                                            *)
LEMMA ListenStarts == ASSUME ChatScreenInit PROVE ListenInv
<1> DEFINE y == Command("boot", "resolve", lobby, {}, 0)
<1>1. IsNew(y, "boot", "resolve", 0) BY CommandIs
<1>2. cmds = SetToBag({y}) /\ inbox = EmptyBag /\ subs = <<>> /\ stream = 0
      /\ waiters = [s \in 1 .. MaxSubs |-> 0]
  BY DEF ChatScreenInit, ChatInit
<1> HIDE DEF y
<1>3. IsABag(cmds) /\ DOMAIN cmds = {y} BY <1>2 DEF SetToBag, IsABag
<1>4. IsABag(inbox) /\ DOMAIN inbox = {} BY <1>2 DEF EmptyBag, SetToBag, IsABag
<1>5. SubsTyped BY <1>2, ChatAssumption DEF SubsTyped
<1>6. ScreenTyped
  <2>1. \A x \in DOMAIN cmds : Loader(x) => IsCmd(x) /\ (x.k = "switch" => x.sub = 0)
    BY <1>1, <1>3 DEF IsNew
  <2>2. stream \in 0 .. Len(subs) /\ waiters \in [1 .. MaxSubs -> Nat] BY <1>2
  <2> QED BY <1>3, <1>4, <1>5, <2>1, <2>2 DEF ScreenTyped
<1>7. Refan(y) /\ CmdOk(y) BY <1>1, <1>2 DEF Refan, IsNew, CmdOk
<1>8. Held BY <1>1, <1>3, <1>4, <1>7 DEF Held, Apart, IsNew
<1>9. Reads BY <1>2 DEF Reads
<1>10. Tuned
  <2>1. Loading BY <1>3, <1>7 DEF Loading, Refan
  <2> QED BY <2>1 DEF Tuned
<1> QED BY <1>6, <1>8, <1>9, <1>10 DEF ListenInv

LEMMA ListenStep == ASSUME ListenInv, [ChatScreenNext]_chatScreenVars PROVE ListenInv'
<1>1. CASE UNCHANGED chatScreenVars
  <2>1. subs' = subs /\ inbox' = inbox /\ cmds' = cmds /\ SameScreen
    BY <1>1 DEF chatScreenVars, chatVars, screenVars, SameScreen
  <2>2. SubsKept BY <2>1, SubsStay DEF ListenInv, ScreenTyped
  <2> QED BY <2>1, <2>2, Calm
<1>2. ASSUME NEW c \in Callers, ServiceStep(c) /\ UNCHANGED screenVars PROVE ListenInv'
  BY <1>2, ServiceKeeps
<1>3. ASSUME NEW x \in DOMAIN cmds,
             \/ LoadStep(x) \/ TouchRead(x) \/ FindLatest(x)
             \/ ImageFetched(x) \/ PfpResolved(x) \/ Reported(x)
      PROVE  ListenInv'
  BY <1>3, LoadingKeeps, OtherCommandsKeep
<1>4. ASSUME NEW s \in DOMAIN subs, EventArrives(s) \/ StreamCloses(s) PROVE ListenInv'
  BY <1>4, EventArrivesKeeps, StreamClosesKeeps
<1>5. CASE Update BY <1>5, UpdateKeeps
<1>6. CASE \/ TypeJoin \/ LeaveCurrent \/ SwitchChannel \/ Ask \/ \E c \in Callers : DMReady(c)
  BY <1>6, KeysKeep
<1>7. CASE Submit \/ OthersCall \/ Notice \/ Scroll \/ Thread \/ Resize BY <1>7, StillKeeps
<1>8. CASE Esc \/ Finger BY <1>8, WaysOutKeep
<1>9. CASE Open BY <1>9, OpenKeeps
<1> QED BY <1>1, <1>2, <1>3, <1>4, <1>5, <1>6, <1>7, <1>8, <1>9 DEF ChatScreenNext

\* A chat screen that shows a channel, reports no error and waits for no load or
\* failure has a live stream under it, and something that will read its next event.
THEOREM ScreenListens == ChatScreenSpec => []AlwaysListening
<1>1. ListenInv => AlwaysListening BY DEF ListenInv, Reads, Tuned, AlwaysListening
<1> QED BY <1>1, ListenStarts, ListenStep, PTL DEF ChatScreenSpec
-----------------------------------------------------------------------------
(* The saved places.  ORDER BY sort_order: where the rows of a list stand.                    *)

\* Rows that no two share a position.
Lined(R) ==
  /\ IsFiniteSet(R)
  /\ \A r \in R : r.order \in Int /\ r.id \in Int
  /\ \A r, s \in R : r # s => r.order # s.order
Before(R, r) == {q \in R : q.order < r.order}

LEMMA StandingIs ==
  ASSUME NEW R, Lined(R), NEW r \in R
  PROVE  Standing(R, r) = 1 + Cardinality(Before(R, r))
<1>1. \A q \in R : Precedes(q, r) <=> q.order < r.order
  BY DEF Precedes, Lined
<1>2. {q \in R : Precedes(q, r)} = Before(R, r)
  BY <1>1 DEF Before
<1>. QED
  BY <1>2 DEF Standing

LEMMA StandingGrows ==
  ASSUME NEW R, Lined(R), NEW r \in R, NEW s \in R, r.order < s.order
  PROVE  Standing(R, r) < Standing(R, s)
<1>1. IsFiniteSet(Before(R, r)) /\ IsFiniteSet(Before(R, s))
  BY FS_Subset DEF Before, Lined
<1>2. r \notin Before(R, r) /\ Before(R, r) \cup {r} \subseteq Before(R, s)
  BY DEF Before, Lined
<1>3. Cardinality(Before(R, r) \cup {r}) = Cardinality(Before(R, r)) + 1
  BY <1>1, <1>2, FS_AddElement
<1>4. Cardinality(Before(R, r) \cup {r}) <= Cardinality(Before(R, s))
  BY <1>1, <1>2, FS_Subset
<1>5. Cardinality(Before(R, r)) \in Nat /\ Cardinality(Before(R, s)) \in Nat
  BY <1>1, FS_CardinalityType
<1>. QED
  BY <1>3, <1>4, <1>5, StandingIs

LEMMA StandingRange ==
  ASSUME NEW R, Lined(R), NEW r \in R
  PROVE  Standing(R, r) \in 1 .. Cardinality(R)
<1>1. IsFiniteSet(R) /\ IsFiniteSet(Before(R, r))
  BY FS_Subset DEF Before, Lined
<1>2. Before(R, r) \subseteq R \ {r}
  BY DEF Before, Lined
<1>3. IsFiniteSet(R \ {r}) /\ Cardinality(R \ {r}) = Cardinality(R) - 1
  BY <1>1, FS_RemoveElement
<1>4. Cardinality(Before(R, r)) <= Cardinality(R \ {r})
  BY <1>2, <1>3, FS_Subset
<1>5. Cardinality(Before(R, r)) \in Nat /\ Cardinality(R) \in Nat
  BY <1>1, FS_CardinalityType
<1>. QED
  BY <1>3, <1>4, <1>5, StandingIs

\* Every position is somebody's: the rank is an injection into as many positions.
LEMMA EveryPosition ==
  ASSUME NEW R, Lined(R), NEW i \in 1 .. Cardinality(R)
  PROVE  \E r \in R : Standing(R, r) = i
<1>. DEFINE n == Cardinality(R)
            f == [r \in R |-> Standing(R, r)]
<1>1. n \in Nat
  BY FS_CardinalityType DEF Lined
<1>2. \A r, s \in R : f[r] = f[s] => r = s
  <2>1. SUFFICES ASSUME NEW r \in R, NEW s \in R, f[r] = f[s], r # s PROVE FALSE
    OBVIOUS
  <2>2. r.order < s.order \/ s.order < r.order
    BY <2>1 DEF Lined
  <2>3. Standing(R, r) < Standing(R, s) \/ Standing(R, s) < Standing(R, r)
    BY <2>2, StandingGrows
  <2>4. Standing(R, r) \in Int /\ Standing(R, s) \in Int
    BY StandingRange, <1>1
  <2>. QED
    BY <2>1, <2>3, <2>4
<1>3. f \in [R -> 1 .. n]
  BY StandingRange
<1>4. f \in Injection(R, 1 .. n)
  BY <1>2, <1>3 DEF Injection, IsInjective
<1>5. IsFiniteSet(1 .. n) /\ Cardinality(1 .. n) = n
  BY <1>1, FS_Interval
<1>6. f \in Surjection(R, 1 .. n)
  BY <1>4, <1>5, FS_Injection
<1>7. \E r \in R : f[r] = i
  BY <1>6 DEF Surjection
<1>. QED
  BY <1>7

LEMMA InOrderIs ==
  ASSUME NEW R, Lined(R)
  PROVE  /\ DOMAIN InOrder(R) = 1 .. Cardinality(R)
         /\ \A i \in 1 .. Cardinality(R) : InOrder(R)[i] \in R /\ Standing(R, InOrder(R)[i]) = i
<1>1. ASSUME NEW i \in 1 .. Cardinality(R)
      PROVE  InOrder(R)[i] \in R /\ Standing(R, InOrder(R)[i]) = i
  <2>1. InOrder(R)[i] = CHOOSE r \in R : Standing(R, r) = i
    BY DEF InOrder
  <2>. QED
    BY <2>1, EveryPosition
<1>. QED
  BY <1>1 DEF InOrder

LEMMA InOrderLen ==
  ASSUME NEW R, Lined(R)
  PROVE  Len(InOrder(R)) = Cardinality(R) /\ Cardinality(R) \in Nat
<1>1. Cardinality(R) \in Nat
  BY FS_CardinalityType DEF Lined
<1>2. InOrder(R) \in [1 .. Cardinality(R) -> R]
  BY InOrderIs DEF InOrder
<1>3. InOrder(R) \in Seq(R)
  BY <1>1, <1>2 DEF Seq
<1>4. DOMAIN InOrder(R) = 1 .. Len(InOrder(R)) /\ Len(InOrder(R)) \in Nat
  BY <1>3, LenProperties
<1>. QED
  BY <1>1, <1>2, <1>4

LEMMA ListedRow ==
  ASSUME NEW R, Lined(R), NEW r \in R
  PROVE  \E i \in 1 .. Cardinality(R) : InOrder(R)[i] = r
<1>. DEFINE i == Standing(R, r)
            q == InOrder(R)[i]
<1>1. i \in 1 .. Cardinality(R) /\ q \in R /\ Standing(R, q) = i
  BY StandingRange, InOrderIs
<1>2. q = r
  <2>1. SUFFICES ASSUME q # r PROVE FALSE
    OBVIOUS
  <2>2. q.order < r.order \/ r.order < q.order
    BY <1>1, <2>1 DEF Lined
  <2>3. Standing(R, q) < Standing(R, r) \/ Standing(R, r) < Standing(R, q)
    BY <1>1, <2>2, StandingGrows
  <2>4. Standing(R, r) \in Int
    BY StandingRange
  <2>. QED
    BY <1>1, <2>3, <2>4
<1>. QED
  BY <1>1, <1>2

LEMMA InOrderSorted ==
  ASSUME NEW R, Lined(R), NEW i \in 1 .. Cardinality(R), NEW j \in 1 .. Cardinality(R), i < j
  PROVE  InOrder(R)[i].order < InOrder(R)[j].order
<1>. DEFINE q == InOrder(R)[i]
            r == InOrder(R)[j]
<1>1. q \in R /\ r \in R /\ Standing(R, q) = i /\ Standing(R, r) = j
  BY InOrderIs
<1>. HIDE DEF q, r
<1>2. Cardinality(R) \in Nat
  BY FS_CardinalityType DEF Lined
<1>3. q # r /\ q.order \in Int /\ r.order \in Int
  BY <1>1, <1>2 DEF Lined
<1>4. ~(r.order < q.order)
  BY <1>1, <1>2, StandingGrows
<1>5. q.order # r.order
  BY <1>1, <1>3 DEF Lined
<1>6. q.order < r.order
  BY <1>3, <1>4, <1>5
<1>. QED
  BY <1>6 DEF q, r

\* The first row is before the others, and the only such.
LEMMA FirstIs ==
  ASSUME NEW R, Lined(R), R # {}
  PROVE  FirstOf(R) = InOrder(R)[1] /\ FirstOf(R) \in R /\ 1 \in 1 .. Cardinality(R)
<1>1. Cardinality(R) \in Nat \ {0}
  BY FS_CardinalityType, FS_EmptySet DEF Lined
<1>2. 1 \in 1 .. Cardinality(R)
  BY <1>1
<1>3. FirstOf(R) = InOrder(R)[1]
  BY DEF FirstOf
<1>. QED
  BY <1>2, <1>3, InOrderIs

LEMMA FirstBefore ==
  ASSUME NEW R, Lined(R), NEW r \in R, r # FirstOf(R)
  PROVE  FirstOf(R).order < r.order
<1>1. FirstOf(R) = InOrder(R)[1] /\ 1 \in 1 .. Cardinality(R)
  BY FirstIs
<1>2. PICK i \in 1 .. Cardinality(R) : InOrder(R)[i] = r
  BY ListedRow
<1>3. 1 < i
  BY <1>1, <1>2
<1>. QED
  BY <1>1, <1>2, <1>3, InOrderSorted

LEMMA FirstOnly ==
  ASSUME NEW R, Lined(R), NEW r \in R, \A s \in R : s # r => r.order < s.order
  PROVE  FirstOf(R) = r
<1>1. SUFFICES ASSUME FirstOf(R) # r PROVE FALSE
  OBVIOUS
<1>2. FirstOf(R) \in R
  BY FirstIs
<1>3. r.order < FirstOf(R).order /\ FirstOf(R).order < r.order
  BY <1>1, <1>2, FirstBefore
<1>4. r.order \in Int /\ FirstOf(R).order \in Int
  BY <1>2 DEF Lined
<1>. QED
  BY <1>3, <1>4

LEMMA NobodyFirst == FirstOf({}) = NoRow
BY DEF FirstOf

\* The last position: NextSortOrder is beyond it.
LEMMA LastIs ==
  ASSUME NEW R, Lined(R), R # {}
  PROVE  \E r \in R : \A s \in R : s.order <= r.order
<1>. DEFINE n == Cardinality(R)
            r == InOrder(R)[n]
<1>1. n \in 1 .. Cardinality(R)
  BY FS_CardinalityType, FS_EmptySet DEF Lined
<1>2. r \in R
  BY <1>1, InOrderIs
<1>3. ASSUME NEW s \in R
      PROVE  s.order <= r.order
  <2>1. PICK i \in 1 .. Cardinality(R) : InOrder(R)[i] = s
    BY ListedRow
  <2>2. i = n \/ i < n
    BY <1>1
  <2>3. r.order \in Int /\ s.order \in Int
    BY <1>2 DEF Lined
  <2>. QED
    BY <1>1, <2>1, <2>2, <2>3, InOrderSorted
<1>. QED
  BY <1>2, <1>3

LEMMA NextBeyond ==
  ASSUME NEW R, Lined(R), R # {}
  PROVE  /\ 1 + Max({r.order : r \in R}) \in Int
         /\ \A r \in R : r.order < 1 + Max({q.order : q \in R})
<1>. DEFINE S == {r.order : r \in R}
<1>1. S \subseteq Int
  BY DEF Lined
<1>2. \E x \in S : \A y \in S : x >= y
  <2>1. PICK r \in R : \A s \in R : s.order <= r.order
    BY LastIs
  <2>2. r.order \in S /\ \A y \in S : r.order >= y
    BY <2>1, <1>1
  <2>. QED
    BY <2>2
<1>3. Max(S) \in S /\ \A y \in S : Max(S) >= y
  BY <1>2 DEF Max
<1>4. \A r \in R : r.order \in S
  OBVIOUS
<1>. HIDE DEF S
<1>5. Max(S) \in Int /\ \A r \in R : r.order \in Int /\ r.order <= Max(S)
  BY <1>1, <1>3, <1>4
<1>6. 1 + Max(S) \in Int /\ \A r \in R : r.order < 1 + Max(S)
  BY <1>5
<1>. QED
  BY <1>6 DEF S

-----------------------------------------------------------------------------
(* The inductive invariant.                                                *)
PlaceFields == {"id", "label", "place", "order"}
CallFields == {"nr", "by", "op", "step", "seen", "next", "a", "b", "id", "label", "place", "query"}
PageFields == {"mode", "form", "list", "cursor", "renaming", "target", "found", "searching", "working", "typed",
               "alias", "field", "snapshot", "query", "picks", "primary", "inbox"}

\* The rows of the table: ids and labels are unique, whoever writes.
Table(R, next) ==
  /\ IsFiniteSet(R) /\ next \in Nat \ {0}
  /\ \A r \in R : r = [f \in PlaceFields |-> r[f]] /\ r.id \in 1 .. next - 1
  /\ \A r, s \in R : r.id = s.id => r = s
  /\ \A r, s \in R : r.label = s.label => r = s

Sized(R) == (\A r \in R : r.order \in Int) /\ Cardinality(R) <= MaxSaved
NoTies(R) == \A r, s \in R : r # s => r.order # s.order
Mirrored(R, mir) == mir = FirstOf(R).label

\* What the page has of the table.
InList(p) == p.mode \in {"places", "confirmDelete"}
Knows(p, R) == p.primary = FirstOf(R) /\ (InList(p) => p.list = InOrder(R))

\* Between the two statements of a swap the first row has the second's position.
HalfSwapped(a, b, R) ==
  /\ b \in R /\ a.id # b.id /\ a.order \in Int
  /\ \A r \in R : IF r.id = a.id THEN r.order = b.order ELSE r.order # a.order
  /\ \A r, s \in R : r # s /\ r.id # a.id /\ s.id # a.id => r.order # s.order

\* The one call under way, by where it stands.
CallOk(c, p, R, mir) ==
  /\ c = [f \in CallFields |-> c[f]]
  /\ Sized(R) /\ (c.step # "swapped" => NoTies(R))
  /\ c.op = "reload" => c.step = "list" /\ p.primary = FirstOf(R)
  /\ c.op \in {"seed", "set", "clear", "noop", "locate", "self"} => ~InList(p)
  /\ c.step \in {"list", "next", "insert", "promote", "rename", "geocode", "self"} => (c.op # "reload" => Knows(p, R))
  /\ c.step \in {"list", "next", "insert", "promote", "rename", "geocode", "update", "self"} => Mirrored(R, mir)
  /\ c.step \in {"next", "insert"} => c.seen = InOrder(R) /\ Cardinality(R) < MaxSaved
  /\ c.step = "insert" => c.next \in Int /\ \A r \in R : r.order < c.next
  /\ c.step = "promote" => c.seen = InOrder(R)
  /\ c.step = "swap" => c.a \in R /\ c.b \in R /\ c.a # c.b
  /\ c.step = "swapped" => HalfSwapped(c.a, c.b, R)
  /\ c.step = "mirror" => c.label = FirstOf(R).label
  /\ c.step = "geocode" => c.op \in {"search", "locate"}
  /\ c.step = "self" => c.op = "self"

\* The one answer on its way to the page.
AnswerOk(m, p, R, mir) ==
  /\ Sized(R) /\ NoTies(R) /\ Mirrored(R, mir)
  /\ m.kind \notin {"list", "mutated", "search"} => ~InList(p)
  /\ m.kind \in {"search", "locate", "self"} => Knows(p, R)
  /\ m.kind \in {"mutated", "saved"} /\ m.err # "" => Knows(p, R)
  /\ m.kind = "list" => p.primary = FirstOf(R) /\ m.list = InOrder(R)

\* The user waits for each answer: nothing is under way, a call, or an answer.
Idles(C, p, R, mir) == C = {} /\ p.inbox = <<>> /\ Sized(R) /\ NoTies(R) /\ Mirrored(R, mir) /\ Knows(p, R)
Asks(t, C, p, R, mir) == \E c \in C : C = {c} /\ c.by = t /\ p.inbox = <<>> /\ CallOk(c, p, R, mir)
Hears(C, p, R, mir) == C = {} /\ Len(p.inbox) = 1 /\ p.inbox = <<p.inbox[1]>> /\ AnswerOk(p.inbox[1], p, R, mir)
OneThing(t, C, p, R, mir) ==
  /\ p = [f \in PageFields |-> p[f]]
  /\ p.mode \in {"tab", "places", "picker", "confirmClear", "confirmDelete"}
  /\ Idles(C, p, R, mir) \/ Asks(t, C, p, R, mir) \/ Hears(C, p, R, mir)
Waits(t) == /\ Seats = {t} /\ DOMAIN keys = {t} /\ keys[t] \in Seq(Range(keys[t]))
            /\ OneThing(t, calls, pages[t], rows, mirror)
PlacesInv ==
  /\ Table(rows, nextId)
  /\ IsFiniteSet(Seats)
  /\ unwaited = 0 /\ Cardinality(Seats) = 1 => \E t \in Seats : Waits(t)

-----------------------------------------------------------------------------
(* The table of the rows: ids and labels.                                  *)

LEMMA TableLined ==
  ASSUME NEW R, NEW n, Table(R, n), Sized(R), NoTies(R)
  PROVE  Lined(R)
<1>1. \A r \in R : r.id \in Int
  BY DEF Table
<1>. QED
  BY <1>1 DEF Table, Sized, NoTies, Lined

LEMMA TablePart ==
  ASSUME NEW R, NEW n, Table(R, n), NEW S, S \subseteq R
  PROVE  Table(S, n) /\ Cardinality(S) <= Cardinality(R)
<1>1. IsFiniteSet(S) /\ Cardinality(S) <= Cardinality(R)
  BY FS_Subset DEF Table
<1>. QED
  BY <1>1 DEF Table

\* The rows of S are rows of R, written over.
Rewrites(S, R) ==
  /\ \A s \in S : s = [f \in PlaceFields |-> s[f]] /\ \E r \in R : r.id = s.id
  /\ \A r, s \in S : r.id = s.id => r = s
  /\ \A r, s \in S : r.label = s.label => r = s
LEMMA TableRewritten ==
  ASSUME NEW R, NEW n, Table(R, n), NEW S, Rewrites(S, R)
  PROVE  Table(S, n) /\ Cardinality(S) <= Cardinality(R)
<1>. DEFINE f == [s \in S |-> CHOOSE r \in R : r.id = s.id]
<1>1. \A s \in S : f[s] \in R /\ f[s].id = s.id
  <2>1. TAKE s \in S
  <2>2. \E r \in R : r.id = s.id
    BY DEF Rewrites
  <2>. QED
    BY <2>2
<1>2. f \in [S -> R]
  BY <1>1
<1>3. \A a, b \in S : f[a] = f[b] => a = b
  <2>1. SUFFICES ASSUME NEW a \in S, NEW b \in S, f[a] = f[b] PROVE a = b
    OBVIOUS
  <2>2. a.id = b.id
    BY <1>1, <2>1
  <2>. QED
    BY <2>2 DEF Rewrites
<1>. HIDE DEF f
<1>4. f \in Injection(S, R)
  BY <1>2, <1>3 DEF Injection, IsInjective
<1>5. IsFiniteSet(S) /\ Cardinality(S) <= Cardinality(R)
  BY <1>4, FS_Injection DEF Table
<1>6. \A s \in S : s.id \in 1 .. n - 1
  <2>1. TAKE s \in S
  <2>2. PICK r \in R : r.id = s.id
    BY DEF Rewrites
  <2>. QED
    BY <2>2 DEF Table
<1>. QED
  BY <1>5, <1>6 DEF Table, Rewrites

\* SetSortOrder writes the position of the row of an id.
Moved(R, id, order) == {IF r.id = id THEN [r EXCEPT !.order = order] ELSE r : r \in R}
PutAt(r, id, order) == IF r.id = id THEN [r EXCEPT !.order = order] ELSE r
LEMMA PutRow ==
  ASSUME NEW r, r = [f \in PlaceFields |-> r[f]], NEW id, NEW order
  PROVE  /\ PutAt(r, id, order) = [f \in PlaceFields |-> PutAt(r, id, order)[f]]
         /\ PutAt(r, id, order).id = r.id /\ PutAt(r, id, order).label = r.label
         /\ PutAt(r, id, order).place = r.place
         /\ PutAt(r, id, order).order = IF r.id = id THEN order ELSE r.order
<1>. DEFINE e == [r EXCEPT !.order = order]
<1>1. /\ e = [f \in PlaceFields |-> e[f]]
      /\ e.id = r.id /\ e.label = r.label /\ e.place = r.place /\ e.order = order
  BY DEF PlaceFields
<1>. HIDE DEF e
<1>2. PutAt(r, id, order) = IF r.id = id THEN e ELSE r
  BY DEF PutAt, e
<1>. QED
  BY <1>1, <1>2

LEMMA MovedIs ==
  ASSUME NEW R, NEW n, Table(R, n), NEW id, NEW order
  PROVE  /\ Moved(R, id, order) = {PutAt(r, id, order) : r \in R}
         /\ Rewrites(Moved(R, id, order), R)
<1>1. Moved(R, id, order) = {PutAt(r, id, order) : r \in R}
  BY DEF Moved, PutAt
<1>2. \A r \in R : /\ PutAt(r, id, order) = [f \in PlaceFields |-> PutAt(r, id, order)[f]]
                   /\ PutAt(r, id, order).id = r.id /\ PutAt(r, id, order).label = r.label
  BY PutRow DEF Table
<1>3. \A s \in Moved(R, id, order) :
         s = [f \in PlaceFields |-> s[f]] /\ \E r \in R : r.id = s.id
  BY <1>1, <1>2
<1>4. \A r, s \in Moved(R, id, order) : r.id = s.id \/ r.label = s.label => r = s
  <2>1. SUFFICES ASSUME NEW a \in R, NEW b \in R,
                        \/ PutAt(a, id, order).id = PutAt(b, id, order).id
                        \/ PutAt(a, id, order).label = PutAt(b, id, order).label
                 PROVE  a = b
    BY <1>1
  <2>2. a.id = b.id \/ a.label = b.label
    BY <1>2, <2>1
  <2>. QED
    BY <2>2 DEF Table
<1>. QED
  BY <1>1, <1>3, <1>4 DEF Rewrites

LEMMA MovedTable ==
  ASSUME NEW R, NEW n, Table(R, n), NEW id, NEW order
  PROVE  Table(Moved(R, id, order), n) /\ Cardinality(Moved(R, id, order)) <= Cardinality(R)
BY MovedIs, TableRewritten

\* Insert writes a row of a new id.
Grown(R, next, label, place, order) == R \cup {[id |-> next, label |-> label, place |-> place, order |-> order]}
LEMMA GrownTable ==
  ASSUME NEW R, NEW n, Table(R, n), NEW label, NEW place, NEW order, \A r \in R : r.label # label
  PROVE  /\ Table(Grown(R, n, label, place, order), n + 1)
         /\ Cardinality(Grown(R, n, label, place, order)) = Cardinality(R) + 1
<1>. DEFINE new == [id |-> n, label |-> label, place |-> place, order |-> order]
<1>1. new = [f \in PlaceFields |-> new[f]] /\ new.id = n /\ new.label = label
  BY DEF PlaceFields
<1>. HIDE DEF new
<1>2. n \in Nat \ {0} /\ \A r \in R : r.id \in 1 .. n - 1 /\ r.id # n
  BY DEF Table
<1>3. new \notin R
  BY <1>1, <1>2
<1>4. IsFiniteSet(R \cup {new}) /\ Cardinality(R \cup {new}) = Cardinality(R) + 1
  BY <1>3, FS_AddElement DEF Table
<1>5. \A r \in R \cup {new} : r = [f \in PlaceFields |-> r[f]] /\ r.id \in 1 .. (n + 1) - 1
  BY <1>1, <1>2 DEF Table
<1>6. \A r, s \in R \cup {new} : r.id = s.id \/ r.label = s.label => r = s
  BY <1>1, <1>2 DEF Table
<1>7. Table(R \cup {new}, n + 1)
  BY <1>2, <1>4, <1>5, <1>6 DEF Table
<1>. QED
  BY <1>4, <1>7 DEF Grown, new

\* Rename.
Relabelled(R, id, label) == {IF r.id = id THEN [r EXCEPT !.label = label] ELSE r : r \in R}
Labelled(r, id, label) == IF r.id = id THEN [r EXCEPT !.label = label] ELSE r
LEMMA LabelledRow ==
  ASSUME NEW r, r = [f \in PlaceFields |-> r[f]], NEW id, NEW label
  PROVE  /\ Labelled(r, id, label) = [f \in PlaceFields |-> Labelled(r, id, label)[f]]
         /\ Labelled(r, id, label).id = r.id /\ Labelled(r, id, label).order = r.order
         /\ Labelled(r, id, label).place = r.place
         /\ Labelled(r, id, label).label = IF r.id = id THEN label ELSE r.label
<1>. DEFINE e == [r EXCEPT !.label = label]
<1>1. /\ e = [f \in PlaceFields |-> e[f]]
      /\ e.id = r.id /\ e.label = label /\ e.place = r.place /\ e.order = r.order
  BY DEF PlaceFields
<1>. HIDE DEF e
<1>2. Labelled(r, id, label) = IF r.id = id THEN e ELSE r
  BY DEF Labelled, e
<1>. QED
  BY <1>1, <1>2

LEMMA RelabelledIs ==
  ASSUME NEW R, NEW n, Table(R, n), NEW id, NEW label,
         (\A r \in R : r.label = label => r.id = id) \/ (\A r \in R : r.id # id)
  PROVE  /\ Relabelled(R, id, label) = {Labelled(r, id, label) : r \in R}
         /\ Rewrites(Relabelled(R, id, label), R)
<1>1. Relabelled(R, id, label) = {Labelled(r, id, label) : r \in R}
  BY DEF Relabelled, Labelled
<1>2. \A r \in R : /\ Labelled(r, id, label) = [f \in PlaceFields |-> Labelled(r, id, label)[f]]
                   /\ Labelled(r, id, label).id = r.id
                   /\ Labelled(r, id, label).label = IF r.id = id THEN label ELSE r.label
  BY LabelledRow DEF Table
<1>3. \A s \in Relabelled(R, id, label) :
         s = [f \in PlaceFields |-> s[f]] /\ \E r \in R : r.id = s.id
  BY <1>1, <1>2
<1>4. ASSUME NEW a \in R, NEW b \in R,
             \/ Labelled(a, id, label).id = Labelled(b, id, label).id
             \/ Labelled(a, id, label).label = Labelled(b, id, label).label
      PROVE  a = b
  <2>1. a.id = b.id \/ a.label = b.label
    <3>1. CASE \A r \in R : r.id # id
      BY <1>2, <1>4, <3>1
    <3>2. CASE \A r \in R : r.label = label => r.id = id
      BY <1>2, <1>4, <3>2
    <3>. QED
      BY <3>1, <3>2
  <2>. QED
    BY <2>1 DEF Table
<1>5. \A r, s \in Relabelled(R, id, label) : r.id = s.id \/ r.label = s.label => r = s
  BY <1>1, <1>4
<1>. QED
  BY <1>1, <1>3, <1>5 DEF Rewrites

\* The statements that write the table.
LEMMA WriteInsert ==
  ASSUME Table(rows, nextId), NEW label, NEW place, NEW order, ~Taken(label, 0), Insert(label, place, order)
  PROVE  /\ Table(rows', nextId') /\ Cardinality(rows') = Cardinality(rows) + 1
         /\ rows' = Grown(rows, nextId, label, place, order)
<1>1. \A r \in rows : r.id # 0
  BY DEF Table
<1>2. \A r \in rows : r.label # label
  BY <1>1 DEF Taken
<1>3. rows' = Grown(rows, nextId, label, place, order) /\ nextId' = nextId + 1
  BY DEF Insert, Grown
<1>. QED
  BY <1>2, <1>3, GrownTable

LEMMA WriteOrder ==
  ASSUME Table(rows, nextId), NEW id, NEW order, SetSortOrder(id, order), nextId' = nextId
  PROVE  /\ Table(rows', nextId') /\ Cardinality(rows') <= Cardinality(rows)
         /\ rows' = {PutAt(r, id, order) : r \in rows}
<1>1. rows' = Moved(rows, id, order)
  BY DEF SetSortOrder, Moved
<1>. QED
  BY <1>1, MovedIs, MovedTable

LEMMA WriteLabel ==
  ASSUME Table(rows, nextId), NEW c \in calls, Rename(c)
  PROVE  /\ Table(rows', nextId') /\ Cardinality(rows') <= Cardinality(rows)
         /\ rows' = rows \/ rows' = {Labelled(r, c.id, c.label) : r \in rows}
<1>1. CASE Taken(c.label, c.id) /\ \E r \in rows : r.id = c.id
  <2>1. rows' = rows /\ nextId' = nextId
    BY <1>1 DEF Rename
  <2>2. Cardinality(rows) \in Nat
    BY FS_CardinalityType DEF Table
  <2>. QED
    BY <2>1, <2>2
<1>2. CASE ~(Taken(c.label, c.id) /\ \E r \in rows : r.id = c.id)
  <2>1. rows' = Relabelled(rows, c.id, c.label) /\ nextId' = nextId
    BY <1>2 DEF Rename, Relabelled
  <2>2. (\A r \in rows : r.label = c.label => r.id = c.id) \/ (\A r \in rows : r.id # c.id)
    BY <1>2 DEF Taken
  <2>3. Rewrites(Relabelled(rows, c.id, c.label), rows)
    BY <2>2, RelabelledIs
  <2>4. Relabelled(rows, c.id, c.label) = {Labelled(r, c.id, c.label) : r \in rows}
    BY <2>2, RelabelledIs
  <2>. QED
    BY <2>1, <2>3, <2>4, TableRewritten
<1>. QED
  BY <1>1, <1>2

LEMMA TableKept ==
  ASSUME Table(rows, nextId), [PlacesNext]_placeVars
  PROVE  Table(rows', nextId')
<1>1. CASE UNCHANGED placeVars
  BY <1>1 DEF placeVars
<1>2. CASE \E t \in Seats : Press(t) \/ Deliver(t)
  BY <1>2 DEF Press, Deliver
<1>3. ASSUME NEW c \in calls, Service(c)
      PROVE  Table(rows', nextId')
  <2>1. CASE ListPlaces(c)
    BY <2>1 DEF ListPlaces
  <2>2. CASE NextSortOrder(c)
    BY <2>2 DEF NextSortOrder
  <2>3. CASE Add(c)
    <3>1. CASE Taken(c.label, 0)
      BY <2>3, <3>1 DEF Add
    <3>2. CASE ~Taken(c.label, 0)
      <4>1. Insert(c.label, c.place, c.next)
        BY <2>3, <3>2 DEF Add
      <4>. QED
        BY <3>2, <4>1, WriteInsert
    <3>. QED
      BY <3>1, <3>2
  <2>4. CASE SetPrimaryFromGeocode(c)
    <3>. DEFINE matches == {i \in DOMAIN c.seen : c.seen[i].place = c.place}
                match == IF matches = {} THEN 0 ELSE Min(matches)
                head == IF c.seen = <<>> THEN 0 ELSE c.seen[1].order - 1
    <3>1. \/ UNCHANGED <<rows, nextId>>
          \/ SetSortOrder(c.seen[match].id, head) /\ UNCHANGED nextId
          \/ ~Taken(c.label, 0) /\ Insert(c.label, c.place, head)
      BY <2>4, Zenon DEF SetPrimaryFromGeocode
    <3>. HIDE DEF matches, match, head
    <3>2. CASE UNCHANGED <<rows, nextId>>
      BY <3>2
    <3>3. CASE SetSortOrder(c.seen[match].id, head) /\ UNCHANGED nextId
      BY <3>3, WriteOrder
    <3>4. CASE ~Taken(c.label, 0) /\ Insert(c.label, c.place, head)
      BY <3>4, WriteInsert
    <3>. QED
      BY <3>1, <3>2, <3>3, <3>4
  <2>5. CASE ClearPrimary(c)
    BY <2>5 DEF ClearPrimary
  <2>6. CASE Delete(c)
    <3>1. rows' \subseteq rows /\ nextId' = nextId
      BY <2>6 DEF Delete
    <3>. QED
      BY <3>1, TablePart
  <2>7. CASE Rename(c)
    BY <2>7, WriteLabel
  <2>8. CASE SwapFirst(c)
    BY <2>8, WriteOrder DEF SwapFirst
  <2>9. CASE SwapSecond(c)
    BY <2>9, WriteOrder DEF SwapSecond
  <2>10. CASE RefreshMirror(c) \/ SetUserLocationLabel(c) \/ UpdateOthers(c) \/ Search(c) \/ LoadOwnRow(c)
    BY <2>10 DEF RefreshMirror, SetUserLocationLabel, UpdateOthers, Search, LoadOwnRow
  <2>. QED
    BY <1>3, <2>1, <2>2, <2>3, <2>4, <2>5, <2>6, <2>7, <2>8, <2>9, <2>10 DEF Service
<1>. QED
  BY <1>1, <1>2, <1>3 DEF PlacesNext

-----------------------------------------------------------------------------
(* What the statements do to the positions.                                *)

LEMMA PlacedLast ==
  ASSUME NEW R, NEW n, Table(R, n), Sized(R), NoTies(R), Cardinality(R) < MaxSaved,
         NEW label, NEW place, NEW order \in Int, \A r \in R : r.order < order,
         \A r \in R : r.label # label
  PROVE  LET S == Grown(R, n, label, place, order)
         IN  Sized(S) /\ NoTies(S) /\ FirstOf(S).label = IF R = {} THEN label ELSE FirstOf(R).label
<1>. DEFINE new == [id |-> n, label |-> label, place |-> place, order |-> order]
            S == Grown(R, n, label, place, order)
<1>1. Table(S, n + 1) /\ Cardinality(S) = Cardinality(R) + 1
  BY GrownTable
<1>2. S = R \cup {new} /\ new.order = order /\ new.label = label
  BY DEF Grown
<1>. HIDE DEF new, S
<1>3. Cardinality(R) \in Nat /\ MaxSaved \in Nat
  BY FS_CardinalityType, PlaceAssumption DEF Table
<1>4. \A r \in R : r.order \in Int
  BY DEF Sized
<1>5. Sized(S)
  BY <1>1, <1>2, <1>3, <1>4 DEF Sized
<1>6. NoTies(S)
  BY <1>2, <1>4 DEF NoTies
<1>7. Lined(S) /\ Lined(R)
  BY <1>1, <1>5, <1>6, TableLined
<1>8. CASE R = {}
  <2>1. new \in S /\ \A s \in S : s # new => new.order < s.order
    BY <1>2, <1>8
  <2>2. FirstOf(S) = new
    BY <1>7, <2>1, FirstOnly
  <2>. QED
    BY <1>2, <1>5, <1>6, <1>8, <2>2 DEF S
<1>9. CASE R # {}
  <2>. DEFINE first == FirstOf(R)
  <2>1. first \in R
    BY <1>7, <1>9, FirstIs
  <2>2. \A s \in R : s # first => first.order < s.order
    BY <1>7, FirstBefore
  <2>. HIDE DEF first
  <2>3. first \in S /\ \A s \in S : s # first => first.order < s.order
    BY <1>2, <2>1, <2>2
  <2>4. FirstOf(S) = first
    BY <1>7, <2>3, FirstOnly
  <2>. QED
    BY <1>5, <1>6, <1>9, <2>4 DEF S, first
<1>. QED
  BY <1>8, <1>9

LEMMA PlacedFirst ==
  ASSUME NEW R, NEW n, Table(R, n), Sized(R), NoTies(R), Cardinality(R) < MaxSaved,
         NEW label, NEW place, NEW order \in Int, \A r \in R : order < r.order,
         \A r \in R : r.label # label
  PROVE  LET S == Grown(R, n, label, place, order)
         IN  Sized(S) /\ NoTies(S) /\ FirstOf(S).label = label
<1>. DEFINE new == [id |-> n, label |-> label, place |-> place, order |-> order]
            S == Grown(R, n, label, place, order)
<1>1. Table(S, n + 1) /\ Cardinality(S) = Cardinality(R) + 1
  BY GrownTable
<1>2. S = R \cup {new} /\ new.order = order /\ new.label = label
  BY DEF Grown
<1>. HIDE DEF new, S
<1>3. Cardinality(R) \in Nat /\ MaxSaved \in Nat
  BY FS_CardinalityType, PlaceAssumption DEF Table
<1>4. \A r \in R : r.order \in Int
  BY DEF Sized
<1>5. Sized(S)
  BY <1>1, <1>2, <1>3, <1>4 DEF Sized
<1>6. NoTies(S)
  BY <1>2, <1>4 DEF NoTies
<1>7. Lined(S)
  BY <1>1, <1>5, <1>6, TableLined
<1>8. new \in S /\ \A s \in S : s # new => new.order < s.order
  BY <1>2
<1>9. FirstOf(S) = new
  BY <1>7, <1>8, FirstOnly
<1>. QED
  BY <1>2, <1>5, <1>6, <1>9 DEF S

\* A row that goes before all the others is the first.
LEMMA BroughtFirst ==
  ASSUME NEW R, NEW n, Table(R, n), Sized(R), NoTies(R), NEW m \in R,
         NEW order \in Int, \A r \in R : order < r.order
  PROVE  LET S == {PutAt(r, m.id, order) : r \in R}
         IN  Sized(S) /\ NoTies(S) /\ FirstOf(S).label = m.label
<1>. DEFINE S == {PutAt(r, m.id, order) : r \in R}
            new == PutAt(m, m.id, order)
<1>1. S = Moved(R, m.id, order)
  BY MovedIs
<1>2. Table(S, n) /\ Cardinality(S) <= Cardinality(R)
  BY <1>1, MovedTable
<1>3. \A r \in R : /\ PutAt(r, m.id, order).id = r.id
                   /\ PutAt(r, m.id, order).order = IF r.id = m.id THEN order ELSE r.order
                   /\ PutAt(r, m.id, order).label = r.label
  BY PutRow DEF Table
<1>4. new.order = order /\ new.label = m.label /\ new.id = m.id
  BY <1>3
<1>5. new \in S
  OBVIOUS
<1>6. \A s \in S : \E r \in R : s = PutAt(r, m.id, order)
  OBVIOUS
<1>7. \A r, s \in R : r.id = s.id => r = s
  BY DEF Table
<1>8. \A r \in R : r.order \in Int
  BY DEF Sized
<1>. HIDE DEF S, new
<1>9. Cardinality(R) \in Nat /\ Cardinality(S) \in Nat /\ MaxSaved \in Nat
  BY <1>2, FS_CardinalityType, PlaceAssumption DEF Table
<1>10. Sized(S)
  BY <1>2, <1>3, <1>6, <1>8, <1>9 DEF Sized
<1>11. \A s \in S : s # new => \E r \in R : r.id # m.id /\ s = PutAt(r, m.id, order) /\ s.order = r.order
  <2>1. TAKE s \in S
  <2>2. HAVE s # new
  <2>3. PICK r \in R : s = PutAt(r, m.id, order)
    BY <1>6
  <2>4. r.id # m.id
    BY <1>7, <2>2, <2>3 DEF new
  <2>. QED
    BY <1>3, <2>3, <2>4
<1>12. \A s \in S : s # new => new.order < s.order
  BY <1>4, <1>11
<1>13. ASSUME NEW r \in S, NEW s \in S, r # s
       PROVE  r.order # s.order
  <2>1. CASE r = new \/ s = new
    BY <1>4, <1>8, <1>11, <1>13, <2>1
  <2>2. CASE r # new /\ s # new
    <3>1. PICK q \in R : q.id # m.id /\ r = PutAt(q, m.id, order) /\ r.order = q.order
      BY <1>11, <2>2
    <3>2. PICK p \in R : p.id # m.id /\ s = PutAt(p, m.id, order) /\ s.order = p.order
      BY <1>11, <2>2
    <3>3. q # p
      BY <1>13, <3>1, <3>2
    <3>. QED
      BY <3>1, <3>2, <3>3 DEF NoTies
  <2>. QED
    BY <2>1, <2>2
<1>14. NoTies(S)
  BY <1>13 DEF NoTies
<1>15. Lined(S)
  BY <1>2, <1>10, <1>14, TableLined
<1>16. FirstOf(S) = new
  BY <1>5, <1>12, <1>15, FirstOnly
<1>. QED
  BY <1>4, <1>10, <1>14, <1>16 DEF S

LEMMA FewerPlaces ==
  ASSUME NEW R, NEW n, Table(R, n), Sized(R), NoTies(R), NEW S, S \subseteq R
  PROVE  Sized(S) /\ NoTies(S)
<1>1. Table(S, n) /\ Cardinality(S) <= Cardinality(R)
  BY TablePart
<1>2. Cardinality(R) \in Nat /\ Cardinality(S) \in Nat /\ MaxSaved \in Nat
  BY <1>1, FS_CardinalityType, PlaceAssumption DEF Table
<1>. QED
  BY <1>1, <1>2 DEF Sized, NoTies

LEMMA SamePlaces ==
  ASSUME NEW R, NEW n, Table(R, n), Sized(R), NoTies(R), NEW id, NEW label,
         NEW S, S = {Labelled(r, id, label) : r \in R}, Cardinality(S) <= Cardinality(R), Table(S, n)
  PROVE  Sized(S) /\ NoTies(S)
<1>1. \A r \in R : Labelled(r, id, label).order = r.order
  BY LabelledRow DEF Table
<1>2. Cardinality(R) \in Nat /\ Cardinality(S) \in Nat /\ MaxSaved \in Nat
  BY FS_CardinalityType, PlaceAssumption DEF Table
<1>3. \A s \in S : \E r \in R : s = Labelled(r, id, label) /\ s.order = r.order
  BY <1>1
<1>4. ASSUME NEW s \in S, NEW q \in S, s # q
      PROVE  s.order # q.order
  <2>1. PICK a \in R : s = Labelled(a, id, label) /\ s.order = a.order
    BY <1>3
  <2>2. PICK b \in R : q = Labelled(b, id, label) /\ q.order = b.order
    BY <1>3
  <2>3. a # b
    BY <1>4, <2>1, <2>2
  <2>. QED
    BY <2>1, <2>2, <2>3 DEF NoTies
<1>. QED
  BY <1>2, <1>3, <1>4 DEF Sized, NoTies

\* A swap is two statements.
LEMMA SwapsFirst ==
  ASSUME NEW R, NEW n, Table(R, n), Sized(R), NoTies(R), NEW a \in R, NEW b \in R, a # b
  PROVE  LET S == {PutAt(r, a.id, b.order) : r \in R}
         IN  Sized(S) /\ HalfSwapped(a, b, S)
<1>. DEFINE S == {PutAt(r, a.id, b.order) : r \in R}
<1>1. S = Moved(R, a.id, b.order)
  BY MovedIs
<1>2. Table(S, n) /\ Cardinality(S) <= Cardinality(R)
  BY <1>1, MovedTable
<1>3. \A r \in R : /\ PutAt(r, a.id, b.order).id = r.id
                   /\ PutAt(r, a.id, b.order).order = IF r.id = a.id THEN b.order ELSE r.order
  BY PutRow DEF Table
<1>4. \A r, s \in R : r.id = s.id => r = s
  BY DEF Table
<1>5. \A r \in R : r.order \in Int
  BY DEF Sized
<1>6. \A r, s \in R : r # s => r.order # s.order
  BY DEF NoTies
<1>7. PutAt(b, a.id, b.order) = b /\ PutAt(b, a.id, b.order) \in S
  BY <1>4 DEF PutAt
<1>8. \A s \in S : \E r \in R : s = PutAt(r, a.id, b.order)
  OBVIOUS
<1>. HIDE DEF S
<1>9. \A s \in S : \E r \in R : /\ s = PutAt(r, a.id, b.order) /\ s.id = r.id
                                /\ s.order = IF r.id = a.id THEN b.order ELSE r.order
  BY <1>3, <1>8
<1>10. Cardinality(R) \in Nat /\ Cardinality(S) \in Nat /\ MaxSaved \in Nat
  BY <1>2, FS_CardinalityType, PlaceAssumption DEF Table
<1>11. Sized(S)
  BY <1>2, <1>5, <1>9, <1>10 DEF Sized
<1>12. ASSUME NEW s \in S
       PROVE  IF s.id = a.id THEN s.order = b.order ELSE s.order # a.order
  <2>1. PICK r \in R : /\ s = PutAt(r, a.id, b.order) /\ s.id = r.id
                       /\ s.order = IF r.id = a.id THEN b.order ELSE r.order
    BY <1>9
  <2>. QED
    BY <1>6, <2>1
<1>13. ASSUME NEW s \in S, NEW q \in S, s # q, s.id # a.id, q.id # a.id
       PROVE  s.order # q.order
  <2>1. PICK c \in R : /\ s = PutAt(c, a.id, b.order) /\ s.id = c.id
                       /\ s.order = IF c.id = a.id THEN b.order ELSE c.order
    BY <1>9
  <2>2. PICK d \in R : /\ q = PutAt(d, a.id, b.order) /\ q.id = d.id
                       /\ q.order = IF d.id = a.id THEN b.order ELSE d.order
    BY <1>9
  <2>3. c # d
    BY <1>13, <2>1, <2>2
  <2>. QED
    BY <1>6, <1>13, <2>1, <2>2, <2>3
<1>14. b \in S /\ a.id # b.id /\ a.order \in Int
  BY <1>4, <1>5, <1>7
<1>15. HalfSwapped(a, b, S)
  BY <1>12, <1>13, <1>14 DEF HalfSwapped
<1>. QED
  BY <1>11, <1>15 DEF S

LEMMA SwapsSecond ==
  ASSUME NEW R, NEW n, Table(R, n), Sized(R), NEW a, NEW b, HalfSwapped(a, b, R)
  PROVE  LET S == {PutAt(r, b.id, a.order) : r \in R}
         IN  Sized(S) /\ NoTies(S)
<1>. DEFINE S == {PutAt(r, b.id, a.order) : r \in R}
<1>1. S = Moved(R, b.id, a.order)
  BY MovedIs
<1>2. Table(S, n) /\ Cardinality(S) <= Cardinality(R)
  BY <1>1, MovedTable
<1>3. \A r \in R : /\ PutAt(r, b.id, a.order).id = r.id
                   /\ PutAt(r, b.id, a.order).order = IF r.id = b.id THEN a.order ELSE r.order
  BY PutRow DEF Table
<1>4. \A r, s \in R : r.id = s.id => r = s
  BY DEF Table
<1>5. \A r \in R : r.order \in Int
  BY DEF Sized
<1>6. b \in R /\ a.id # b.id /\ a.order \in Int
  BY DEF HalfSwapped
<1>7. \A r \in R : IF r.id = a.id THEN r.order = b.order ELSE r.order # a.order
  BY DEF HalfSwapped
<1>8. \A r, s \in R : r # s /\ r.id # a.id /\ s.id # a.id => r.order # s.order
  BY DEF HalfSwapped
<1>9. \A s \in S : \E r \in R : s = PutAt(r, b.id, a.order)
  OBVIOUS
<1>. HIDE DEF S
<1>10. \A s \in S : \E r \in R : /\ s = PutAt(r, b.id, a.order) /\ s.id = r.id
                                 /\ s.order = IF r.id = b.id THEN a.order ELSE r.order
  BY <1>3, <1>9
<1>11. Cardinality(R) \in Nat /\ Cardinality(S) \in Nat /\ MaxSaved \in Nat
  BY <1>2, FS_CardinalityType, PlaceAssumption DEF Table
<1>12. Sized(S)
  BY <1>2, <1>5, <1>6, <1>10, <1>11 DEF Sized
<1>13. b.order # a.order
  BY <1>6, <1>7
\* The positions of two rows that stay or that have changed.
<1>14. ASSUME NEW c \in R, NEW d \in R, c # d
       PROVE  (IF c.id = b.id THEN a.order ELSE c.order) # (IF d.id = b.id THEN a.order ELSE d.order)
  <2>1. c.id # d.id
    BY <1>4, <1>14
  <2>2. CASE c.id = b.id
    BY <1>7, <1>13, <2>1, <2>2
  <2>3. CASE d.id = b.id
    BY <1>7, <1>13, <2>1, <2>3
  <2>4. CASE c.id # b.id /\ d.id # b.id /\ c.id = a.id
    BY <1>6, <1>7, <1>8, <2>1, <2>4
  <2>5. CASE c.id # b.id /\ d.id # b.id /\ d.id = a.id
    BY <1>6, <1>7, <1>8, <2>1, <2>5
  <2>6. CASE c.id # b.id /\ d.id # b.id /\ c.id # a.id /\ d.id # a.id
    BY <1>8, <1>14, <2>6
  <2>. QED
    BY <2>2, <2>3, <2>4, <2>5, <2>6
<1>15. ASSUME NEW s \in S, NEW q \in S, s # q
       PROVE  s.order # q.order
  <2>1. PICK c \in R : /\ s = PutAt(c, b.id, a.order) /\ s.id = c.id
                       /\ s.order = IF c.id = b.id THEN a.order ELSE c.order
    BY <1>10
  <2>2. PICK d \in R : /\ q = PutAt(d, b.id, a.order) /\ q.id = d.id
                       /\ q.order = IF d.id = b.id THEN a.order ELSE d.order
    BY <1>10
  <2>3. c # d
    BY <1>15, <2>1, <2>2
  <2>. QED
    BY <1>14, <2>1, <2>2, <2>3
<1>16. NoTies(S)
  BY <1>15 DEF NoTies
<1>. QED
  BY <1>12, <1>16 DEF S

-----------------------------------------------------------------------------
(* The call under way goes on, or it is answered.                          *)
Modes == {"tab", "places", "picker", "confirmClear", "confirmDelete"}
OnePage(p) == p = [f \in PageFields |-> p[f]] /\ p.mode \in Modes
Asking(t, c) ==
  /\ Seats = {t} /\ DOMAIN keys = {t} /\ keys[t] \in Seq(Range(keys[t]))
  /\ OnePage(pages[t]) /\ pages[t].inbox = <<>> /\ calls = {c} /\ c.by = t

LEMMA GoesOn ==
  ASSUME NEW t, NEW c, Asking(t, c), NEW d, PlaceGoes(c, d), keys' = keys, d.by = t,
         CallOk(d, pages[t], rows', mirror')
  PROVE  Waits(t)'
<1>1. pages' = pages /\ calls' = {d}
  BY DEF PlaceGoes, Asking
<1>2. Asks(t, calls', pages'[t], rows', mirror')
  BY <1>1 DEF Asks, Asking
<1>3. OneThing(t, calls', pages'[t], rows', mirror')
  BY <1>1, <1>2 DEF OneThing, Asking, OnePage, Modes
<1>. QED
  BY <1>1, <1>3 DEF Waits, Asking, Seats

LEMMA IsAnswered ==
  ASSUME NEW t, NEW c, Asking(t, c), NEW m, Answers(c, m), keys' = keys,
         AnswerOk(m, pages[t], rows', mirror')
  PROVE  Waits(t)'
<1>. DEFINE p == pages[t]
            q == [p EXCEPT !.inbox = Append(@, m)]
<1>1. calls' = {} /\ pages' = [pages EXCEPT ![t] = q]
  BY DEF Answers, Asking
<1>2. t \in DOMAIN pages /\ DOMAIN pages' = DOMAIN pages /\ pages'[t] = q
  BY <1>1 DEF Asking, Seats
<1>3. q.inbox = <<m>>
  <2>1. q.inbox = Append(p.inbox, m)
    BY DEF Asking, OnePage, PageFields
  <2>2. p.inbox = <<>> /\ Append(<<>>, m) = <<m>>
    BY DEF Asking
  <2>. QED
    BY <2>1, <2>2, Zenon
<1>4. q = [f \in PageFields |-> q[f]] /\ q.mode = p.mode /\ q.list = p.list /\ q.primary = p.primary
  BY DEF Asking, OnePage, PageFields
<1>5. p.mode \in Modes
  BY DEF Asking, OnePage
<1>. HIDE DEF p, q
<1>6. AnswerOk(m, q, rows', mirror')
  BY <1>4 DEF AnswerOk, InList, Knows, p
<1>7. Hears(calls', q, rows', mirror')
  BY <1>1, <1>3, <1>6 DEF Hears
<1>8. OneThing(t, calls', q, rows', mirror')
  BY <1>4, <1>5, <1>7 DEF OneThing, Modes
<1>. QED
  BY <1>2, <1>8 DEF Waits, Asking, Seats

\* What a call leaves as it was.
LEMMA CallWritten ==
  ASSUME NEW c, c = [f \in CallFields |-> c[f]], NEW s
  PROVE  LET d == [c EXCEPT !.step = s]
         IN  /\ d = [f \in CallFields |-> d[f]] /\ d.step = s
             /\ d.by = c.by /\ d.op = c.op /\ d.seen = c.seen /\ d.next = c.next /\ d.a = c.a /\ d.b = c.b
             /\ d.id = c.id /\ d.label = c.label
BY DEF CallFields

LEMMA ListStep ==
  ASSUME NEW t, NEW c, Asking(t, c), Table(rows, nextId), CallOk(c, pages[t], rows, mirror), ListPlaces(c)
  PROVE  Waits(t)'
<1>. DEFINE p == pages[t]
<1>1. c.step = "list" /\ rows' = rows /\ mirror' = mirror /\ keys' = keys
  BY DEF ListPlaces
<1>2. /\ c = [f \in CallFields |-> c[f]] /\ c.by = t
      /\ Sized(rows) /\ NoTies(rows) /\ Mirrored(rows, mirror)
  BY <1>1 DEF CallOk, Asking
<1>3. Len(Listed) = Cardinality(rows) /\ Cardinality(rows) \in Nat
  BY <1>2, TableLined, InOrderLen DEF Listed
<1>4. CASE c.op = "reload"
  <2>. DEFINE m == [Msg("list", "") EXCEPT !.list = Listed]
  <2>1. Answers(c, m)
    BY <1>1, <1>4 DEF ListPlaces
  <2>2. m.kind = "list" /\ m.list = InOrder(rows)
    BY DEF Msg, Listed
  <2>. HIDE DEF m
  <2>3. p.primary = FirstOf(rows)
    BY <1>4 DEF CallOk
  <2>4. AnswerOk(m, p, rows, mirror)
    BY <1>2, <2>2, <2>3 DEF AnswerOk
  <2>. QED
    BY <1>1, <2>1, <2>4, IsAnswered
<1>5. CASE c.op # "reload"
  <2>1. Knows(p, rows)
    BY <1>1, <1>5 DEF CallOk
  <2>7. MaxSaved \in Nat
    BY PlaceAssumption
  <2>2. CASE c.op = "seed" /\ rows # {}
    <3>. DEFINE m == Msg("seeded", "")
    <3>1. Answers(c, m)
      BY <1>1, <2>2 DEF ListPlaces
    <3>2. m.kind = "seeded"
      BY DEF Msg
    <3>. HIDE DEF m
    <3>3. ~InList(p)
      BY <2>2 DEF CallOk
    <3>4. AnswerOk(m, p, rows, mirror)
      BY <1>2, <3>2, <3>3 DEF AnswerOk
    <3>. QED
      BY <1>1, <3>1, <3>4, IsAnswered
  <2>3. CASE c.op = "seed" /\ rows = {}
    <3>. DEFINE d == [c EXCEPT !.op = "seedadd"]
    <3>1. PlaceGoes(c, d)
      BY <1>1, <2>3 DEF ListPlaces
    <3>2. d = [f \in CallFields |-> d[f]] /\ d.by = t /\ d.op = "seedadd" /\ d.step = "list"
      BY <1>1, <1>2 DEF CallFields
    <3>. HIDE DEF d
    <3>3. CallOk(d, p, rows, mirror)
      BY <1>2, <2>1, <3>2 DEF CallOk
    <3>. QED
      BY <1>1, <3>1, <3>2, <3>3, GoesOn
  <2>4. CASE c.op \in {"add", "seedadd"} /\ Len(Listed) >= MaxSaved
    <3>0. c.op # "reload" /\ c.op # "seed" /\ ~(Len(Listed) < MaxSaved)
      BY <1>3, <2>4, <2>7
    <3>1. Fails(c, "limit")
      BY <1>1, <2>4, <3>0, Zenon DEF ListPlaces
    <3>. DEFINE m == Msg(Kind(c), "limit")
    <3>2. Answers(c, m) /\ m.kind = "mutated"
      BY <2>4, <3>1 DEF Fails, Msg, Kind
    <3>. HIDE DEF m
    <3>3. AnswerOk(m, p, rows, mirror)
      BY <1>2, <2>1, <3>2 DEF AnswerOk
    <3>. QED
      BY <1>1, <3>2, <3>3, IsAnswered
  <2>5. CASE c.op \in {"add", "seedadd"} /\ Len(Listed) < MaxSaved
    <3>. DEFINE d == [c EXCEPT !.step = "next", !.seen = Listed]
    <3>0. c.op # "reload" /\ c.op # "seed" /\ ~(Len(Listed) >= MaxSaved)
      BY <1>3, <2>5, <2>7
    <3>1. PlaceGoes(c, d)
      BY <1>1, <2>5, <3>0, Zenon DEF ListPlaces
    <3>2. d = [f \in CallFields |-> d[f]] /\ d.by = t /\ d.op = c.op /\ d.step = "next" /\ d.seen = InOrder(rows)
      BY <1>2 DEF CallFields, Listed
    <3>. HIDE DEF d
    <3>3. CallOk(d, p, rows, mirror)
      BY <1>2, <1>3, <2>1, <2>5, <3>2 DEF CallOk
    <3>. QED
      BY <1>1, <3>1, <3>2, <3>3, GoesOn
  <2>6. CASE c.op \notin {"seed", "add", "seedadd"}
    <3>. DEFINE d == [c EXCEPT !.step = "promote", !.seen = Listed]
    <3>1. PlaceGoes(c, d)
      BY <1>1, <1>5, <2>6 DEF ListPlaces
    <3>2. d = [f \in CallFields |-> d[f]] /\ d.by = t /\ d.op = c.op /\ d.step = "promote" /\ d.seen = InOrder(rows)
      BY <1>2 DEF CallFields, Listed
    <3>. HIDE DEF d
    <3>3. c.op \in {"set", "clear", "noop", "locate"} => ~InList(p)
      BY DEF CallOk
    <3>4. CallOk(d, p, rows, mirror)
      BY <1>2, <1>5, <2>1, <2>6, <3>2, <3>3 DEF CallOk
    <3>. QED
      BY <1>1, <3>1, <3>2, <3>4, GoesOn
  <2>. QED
    BY <1>3, <2>2, <2>3, <2>4, <2>5, <2>6, <2>7
<1>. QED
  BY <1>4, <1>5

\* What a call that has listed the places knows of them.
LEMMA SeenEmpty ==
  ASSUME NEW R, NEW n, Table(R, n), Sized(R), NoTies(R)
  PROVE  InOrder(R) = <<>> <=> R = {}
<1>1. Len(InOrder(R)) = Cardinality(R)
  BY TableLined, InOrderLen
<1>2. Cardinality(R) = 0 <=> R = {}
  BY FS_EmptySet DEF Table
<1>3. ASSUME R = {} PROVE InOrder(R) = <<>>
  <2>1. InOrder(R) = [i \in {} |-> CHOOSE r \in R : Standing(R, r) = i]
    BY <1>2, <1>3 DEF InOrder
  <2>. QED
    BY <2>1
<1>4. ASSUME InOrder(R) = <<>> PROVE R = {}
  BY <1>1, <1>2, <1>4
<1>. QED
  BY <1>3, <1>4

LEMMA EndsWith ==
  ASSUME NEW t, NEW c, Asking(t, c), NEW why, Fails(c, why), keys' = keys,
         c.op \in {"set", "clear", "noop"} => ~InList(pages[t]),
         Sized(rows'), NoTies(rows'), Mirrored(rows', mirror'),
         why # "" => Knows(pages[t], rows')
  PROVE  Waits(t)'
<1>. DEFINE m == Msg(Kind(c), why)
<1>1. Answers(c, m)
  BY DEF Fails
<1>2. m.err = why /\ m.kind \in {"saved", "mutated"} /\ (m.kind = "saved" => c.op \in {"set", "clear", "noop"})
  BY DEF Msg, Kind
<1>. HIDE DEF m
<1>3. AnswerOk(m, pages[t], rows', mirror')
  BY <1>2 DEF AnswerOk
<1>. QED
  BY <1>1, <1>3, IsAnswered

LEMMA NextStep ==
  ASSUME NEW t, NEW c, Asking(t, c), Table(rows, nextId), CallOk(c, pages[t], rows, mirror), NextSortOrder(c)
  PROVE  Waits(t)'
<1>. DEFINE p == pages[t]
            next == IF rows = {} THEN 0 ELSE 1 + Max({r.order : r \in rows})
            d == [c EXCEPT !.step = "insert", !.next = next]
<1>1. c.step = "next" /\ rows' = rows /\ mirror' = mirror /\ keys' = keys /\ PlaceGoes(c, d)
  BY DEF NextSortOrder
<1>2. next \in Int /\ \A r \in rows : r.order < next
  <2>1. CASE rows = {}
    BY <2>1
  <2>2. CASE rows # {}
    <3>1. Lined(rows)
      BY <1>1, TableLined DEF CallOk
    <3>. QED
      BY <2>2, <3>1, NextBeyond
  <2>. QED
    BY <2>1, <2>2
<1>. HIDE DEF next
<1>3. /\ d = [f \in CallFields |-> d[f]] /\ d.step = "insert" /\ d.next = next /\ d.by = c.by
      /\ d.op = c.op /\ d.seen = c.seen
  BY DEF CallOk, CallFields
<1>. HIDE DEF d
<1>4. CallOk(d, p, rows, mirror)
  BY <1>1, <1>2, <1>3 DEF CallOk
<1>. QED
  BY <1>1, <1>3, <1>4, GoesOn DEF Asking

LEMMA AddStep ==
  ASSUME NEW t, NEW c, Asking(t, c), Table(rows, nextId), CallOk(c, pages[t], rows, mirror), Add(c)
  PROVE  Waits(t)'
<1>. DEFINE p == pages[t]
            d == [c EXCEPT !.step = "mirror"]
<1>1. c.step = "insert" /\ mirror' = mirror /\ keys' = keys
  BY DEF Add
<1>2. /\ Sized(rows) /\ NoTies(rows) /\ Mirrored(rows, mirror) /\ Knows(p, rows)
      /\ c.seen = InOrder(rows) /\ Cardinality(rows) < MaxSaved
      /\ c.next \in Int /\ \A r \in rows : r.order < c.next
  BY <1>1 DEF CallOk
<1>3. c.op \in {"set", "clear", "noop", "seed", "locate"} => ~InList(p)
  BY DEF CallOk
<1>4. CASE Taken(c.label, 0)
  <2>1. Fails(c, "duplicate") /\ rows' = rows
    BY <1>1, <1>4 DEF Add
  <2>. QED
    BY <1>1, <1>2, <1>3, <2>1, EndsWith
<1>5. CASE ~Taken(c.label, 0)
  <2>1. Insert(c.label, c.place, c.next)
    BY <1>1, <1>5 DEF Add
  <2>2. rows' = Grown(rows, nextId, c.label, c.place, c.next)
    BY <1>5, <2>1, WriteInsert
  <2>3. \A r \in rows : r.label # c.label
    BY <1>5 DEF Taken, Table
  <2>4. /\ Sized(rows') /\ NoTies(rows')
        /\ FirstOf(rows').label = IF rows = {} THEN c.label ELSE FirstOf(rows).label
    BY <1>2, <2>2, <2>3, PlacedLast
  <2>5. rows = {} <=> c.seen = <<>>
    BY <1>2, SeenEmpty
  <2>6. CASE c.seen = <<>>
    <3>1. PlaceGoes(c, d)
      BY <1>1, <1>5, <2>6 DEF Add
    <3>2. d = [f \in CallFields |-> d[f]] /\ d.step = "mirror" /\ d.by = c.by /\ d.op = c.op /\ d.label = c.label
      BY DEF CallOk, CallFields
    <3>. HIDE DEF d
    <3>3. c.op # "reload"
      BY <1>1 DEF CallOk
    <3>4. CallOk(d, p, rows', mirror')
      BY <1>3, <2>4, <2>5, <2>6, <3>2, <3>3 DEF CallOk
    <3>. QED
      BY <1>1, <3>1, <3>2, <3>4, GoesOn DEF Asking
  <2>7. CASE c.seen # <<>>
    <3>1. Fails(c, "")
      BY <1>1, <1>5, <2>7 DEF Add
    <3>2. Mirrored(rows', mirror')
      BY <1>1, <1>2, <2>4, <2>5, <2>7 DEF Mirrored
    <3>. QED
      BY <1>1, <1>3, <2>4, <3>1, <3>2, EndsWith
  <2>. QED
    BY <2>6, <2>7
<1>. QED
  BY <1>4, <1>5

\* The position of a new primary.
AheadOf(R) == IF InOrder(R) = <<>> THEN 0 ELSE InOrder(R)[1].order - 1
LEMMA HeadIsFirst ==
  ASSUME NEW R, NEW n, Table(R, n), Sized(R), NoTies(R)
  PROVE  AheadOf(R) \in Int /\ \A r \in R : AheadOf(R) < r.order
<1>1. Lined(R)
  BY TableLined
<1>2. CASE R = {}
  BY <1>2, SeenEmpty DEF AheadOf
<1>3. CASE R # {}
  <2>1. AheadOf(R) = FirstOf(R).order - 1 /\ FirstOf(R) \in R
    BY <1>1, <1>3, SeenEmpty, FirstIs DEF AheadOf
  <2>2. FirstOf(R).order \in Int
    BY <2>1 DEF Sized
  <2>3. \A r \in R : r.order \in Int /\ FirstOf(R).order <= r.order
    <3>1. TAKE r \in R
    <3>2. r.order \in Int
      BY DEF Sized
    <3>3. r # FirstOf(R) => FirstOf(R).order < r.order
      BY <1>1, FirstBefore
    <3>. QED
      BY <2>2, <3>2, <3>3
  <2>. QED
    BY <2>1, <2>2, <2>3
<1>. QED
  BY <1>2, <1>3

LEMMA LeastIndex ==
  ASSUME NEW n \in Nat, NEW S \in SUBSET (1 .. n), S # {}
  PROVE  Min(S) \in S
<1>1. S \in SUBSET Nat
  OBVIOUS
<1>2. \E x \in S : \A y \in S : x <= y
  BY <1>1, LeastNatural
<1>. QED
  BY <1>2 DEF Min

LEMMA PromoteStep ==
  ASSUME NEW t, NEW c, Asking(t, c), Table(rows, nextId), CallOk(c, pages[t], rows, mirror),
         SetPrimaryFromGeocode(c)
  PROVE  Waits(t)'
<1>. DEFINE p == pages[t]
            matches == {i \in DOMAIN c.seen : c.seen[i].place = c.place}
            match == IF matches = {} THEN 0 ELSE Min(matches)
            head == IF c.seen = <<>> THEN 0 ELSE c.seen[1].order - 1
            d == [c EXCEPT !.step = "mirror", !.label = c.seen[match].label]
            e == [c EXCEPT !.step = "mirror"]
<1>1. c.step = "promote" /\ mirror' = mirror /\ keys' = keys
  BY DEF SetPrimaryFromGeocode
<1>2. /\ Sized(rows) /\ NoTies(rows) /\ Mirrored(rows, mirror) /\ Knows(p, rows)
      /\ c.seen = InOrder(rows) /\ c.op # "reload"
  BY <1>1 DEF CallOk
<1>3. c.op \in {"set", "clear", "noop", "seed", "locate"} => ~InList(p)
  BY DEF CallOk
<1>4. /\ DOMAIN c.seen = 1 .. Cardinality(rows) /\ Cardinality(rows) \in Nat /\ Len(c.seen) = Cardinality(rows)
      /\ \A i \in DOMAIN c.seen : c.seen[i] \in rows
  BY <1>2, TableLined, InOrderLen, InOrderIs
<1>5. head \in Int /\ \A r \in rows : head < r.order
  BY <1>2, HeadIsFirst DEF AheadOf
<1>6. match = 0 \/ match \in DOMAIN c.seen
  <2>1. matches # {} => Min(matches) \in matches
    BY <1>4, LeastIndex
  <2>. QED
    BY <2>1
<1>7. \/ match # 0 /\ match = 1 /\ UNCHANGED rows /\ PlaceGoes(c, d) /\ UNCHANGED nextId
      \/ match # 0 /\ match # 1 /\ SetSortOrder(c.seen[match].id, head) /\ PlaceGoes(c, d) /\ UNCHANGED nextId
      \/ Fails(c, "limit") /\ UNCHANGED <<rows, nextId>>
      \/ Fails(c, "duplicate") /\ UNCHANGED <<rows, nextId>>
      \/ Len(c.seen) < MaxSaved /\ ~Taken(c.label, 0) /\ Insert(c.label, c.place, head) /\ PlaceGoes(c, e)
  <2>1. MaxSaved \in Nat
    BY PlaceAssumption
  <2>2. Len(c.seen) >= MaxSaved \/ Len(c.seen) < MaxSaved
    BY <1>4, <2>1
  <2>3. \/ match # 0 /\ match = 1 /\ UNCHANGED rows /\ PlaceGoes(c, d) /\ UNCHANGED nextId
        \/ match # 0 /\ match # 1 /\ SetSortOrder(c.seen[match].id, head) /\ PlaceGoes(c, d) /\ UNCHANGED nextId
        \/ Len(c.seen) >= MaxSaved /\ Fails(c, "limit") /\ UNCHANGED <<rows, nextId>>
        \/ Fails(c, "duplicate") /\ UNCHANGED <<rows, nextId>>
        \/ ~(Len(c.seen) >= MaxSaved) /\ ~Taken(c.label, 0) /\ Insert(c.label, c.place, head) /\ PlaceGoes(c, e)
    BY Zenon DEF SetPrimaryFromGeocode
  <2>. QED
    BY <2>2, <2>3
<1>8. /\ d = [f \in CallFields |-> d[f]] /\ d.step = "mirror" /\ d.by = c.by /\ d.op = c.op
      /\ d.label = c.seen[match].label
  BY DEF CallOk, CallFields
<1>9. e = [f \in CallFields |-> e[f]] /\ e.step = "mirror" /\ e.by = c.by /\ e.op = c.op /\ e.label = c.label
  BY DEF CallOk, CallFields
<1>. HIDE DEF matches, match, head, d, e
<1>10. CASE match # 0 /\ match = 1 /\ UNCHANGED rows /\ PlaceGoes(c, d) /\ UNCHANGED nextId
  <2>1. rows # {} /\ c.seen[1] = FirstOf(rows)
    <3>1. c.seen[1] \in rows
      BY <1>4, <1>6, <1>10
    <3>2. rows # {}
      BY <3>1
    <3>. QED
      BY <1>2, <3>2, TableLined, FirstIs
  <2>2. CallOk(d, p, rows', mirror')
    BY <1>1, <1>2, <1>3, <1>8, <1>10, <2>1 DEF CallOk
  <2>. QED
    BY <1>1, <1>8, <1>10, <2>2, GoesOn DEF Asking
<1>11. CASE match # 0 /\ match # 1 /\ SetSortOrder(c.seen[match].id, head) /\ PlaceGoes(c, d) /\ UNCHANGED nextId
  <2>. DEFINE m == c.seen[match]
  <2>1. m \in rows
    BY <1>4, <1>6, <1>11
  <2>2. rows' = {PutAt(r, m.id, head) : r \in rows}
    BY <1>11, WriteOrder
  <2>. HIDE DEF m
  <2>3. Sized(rows') /\ NoTies(rows') /\ FirstOf(rows').label = m.label
    BY <1>2, <1>5, <2>1, <2>2, BroughtFirst
  <2>4. CallOk(d, p, rows', mirror')
    BY <1>1, <1>2, <1>3, <1>8, <2>3 DEF CallOk, m
  <2>. QED
    BY <1>1, <1>8, <1>11, <2>4, GoesOn DEF Asking
<1>12. ASSUME NEW why, Fails(c, why), UNCHANGED <<rows, nextId>>
       PROVE  Waits(t)'
  BY <1>1, <1>2, <1>3, <1>12, EndsWith
<1>13. CASE /\ Len(c.seen) < MaxSaved /\ ~Taken(c.label, 0) /\ Insert(c.label, c.place, head)
            /\ PlaceGoes(c, e)
  <2>1. rows' = Grown(rows, nextId, c.label, c.place, head)
    BY <1>13, WriteInsert
  <2>2. \A r \in rows : r.label # c.label
    BY <1>13 DEF Taken, Table
  <2>3. Sized(rows') /\ NoTies(rows') /\ FirstOf(rows').label = c.label
    BY <1>2, <1>4, <1>5, <1>13, <2>1, <2>2, PlacedFirst
  <2>4. CallOk(e, p, rows', mirror')
    BY <1>1, <1>2, <1>3, <1>9, <2>3 DEF CallOk
  <2>. QED
    BY <1>1, <1>9, <1>13, <2>4, GoesOn DEF Asking
<1>. QED
  BY <1>7, <1>10, <1>11, <1>12, <1>13

\* The rest of the statements: each leaves the rows in a line.
LEMMA ClearStep ==
  ASSUME NEW t, NEW c, Asking(t, c), CallOk(c, pages[t], rows, mirror), ClearPrimary(c)
  PROVE  Waits(t)'
<1>. DEFINE p == pages[t]
            d == [c EXCEPT !.step = "read"]
            e == [c EXCEPT !.step = "delete", !.id = Primary.id]
<1>1. c.step = "primary" /\ rows' = rows /\ mirror' = mirror /\ keys' = keys
      /\ (PlaceGoes(c, d) \/ PlaceGoes(c, e))
  BY DEF ClearPrimary
<1>2. /\ Sized(rows) /\ NoTies(rows) /\ c.op # "reload"
      /\ (c.op \in {"seed", "set", "clear", "noop", "locate", "self"} => ~InList(p))
  BY <1>1 DEF CallOk
<1>3. /\ d = [f \in CallFields |-> d[f]] /\ d.step = "read" /\ d.by = c.by /\ d.op = c.op
      /\ e = [f \in CallFields |-> e[f]] /\ e.step = "delete" /\ e.by = c.by /\ e.op = c.op
  BY DEF CallOk, CallFields
<1>. HIDE DEF d, e
<1>4. CallOk(d, p, rows, mirror) /\ CallOk(e, p, rows, mirror)
  BY <1>2, <1>3 DEF CallOk
<1>. QED
  BY <1>1, <1>3, <1>4, GoesOn DEF Asking

\* The call goes to the read of the mirror.
LEMMA GoesToRead ==
  ASSUME NEW t, NEW c, Asking(t, c), c = [f \in CallFields |-> c[f]], c.op # "reload",
         c.op \in {"seed", "set", "clear", "noop", "locate", "self"} => ~InList(pages[t]),
         Sized(rows'), NoTies(rows'), PlaceGoes(c, [c EXCEPT !.step = "read"]), keys' = keys
  PROVE  Waits(t)'
<1>. DEFINE d == [c EXCEPT !.step = "read"]
<1>1. d = [f \in CallFields |-> d[f]] /\ d.step = "read" /\ d.by = c.by /\ d.op = c.op
  BY DEF CallFields
<1>2. PlaceGoes(c, d)
  OBVIOUS
<1>. HIDE DEF d
<1>3. CallOk(d, pages[t], rows', mirror')
  BY <1>1 DEF CallOk
<1>. QED
  BY <1>1, <1>2, <1>3, GoesOn DEF Asking

LEMMA DeleteStep ==
  ASSUME NEW t, NEW c, Asking(t, c), Table(rows, nextId), CallOk(c, pages[t], rows, mirror), Delete(c)
  PROVE  Waits(t)'
<1>1. c.step = "delete" /\ rows' \subseteq rows /\ keys' = keys /\ PlaceGoes(c, [c EXCEPT !.step = "read"])
  BY DEF Delete
<1>2. /\ Sized(rows) /\ NoTies(rows) /\ c.op # "reload" /\ c = [f \in CallFields |-> c[f]]
      /\ (c.op \in {"seed", "set", "clear", "noop", "locate", "self"} => ~InList(pages[t]))
  BY <1>1 DEF CallOk
<1>3. Sized(rows') /\ NoTies(rows')
  BY <1>1, <1>2, FewerPlaces
<1>. QED
  BY <1>1, <1>2, <1>3, GoesToRead

LEMMA RenameStep ==
  ASSUME NEW t, NEW c, Asking(t, c), Table(rows, nextId), CallOk(c, pages[t], rows, mirror), Rename(c)
  PROVE  Waits(t)'
<1>1. c.step = "rename" /\ mirror' = mirror /\ keys' = keys
  BY DEF Rename
<1>2. /\ Sized(rows) /\ NoTies(rows) /\ Mirrored(rows, mirror) /\ Knows(pages[t], rows)
      /\ c.op # "reload" /\ c = [f \in CallFields |-> c[f]]
      /\ (c.op \in {"seed", "set", "clear", "noop", "locate", "self"} => ~InList(pages[t]))
  BY <1>1 DEF CallOk
<1>3. \/ Fails(c, "duplicate") /\ rows' = rows
      \/ PlaceGoes(c, [c EXCEPT !.step = "read"])
  BY DEF Rename
<1>4. CASE Fails(c, "duplicate") /\ rows' = rows
  BY <1>1, <1>2, <1>4, EndsWith
<1>5. CASE PlaceGoes(c, [c EXCEPT !.step = "read"])
  <2>1. /\ Table(rows', nextId') /\ Cardinality(rows') <= Cardinality(rows)
        /\ rows' = rows \/ rows' = {Labelled(r, c.id, c.label) : r \in rows}
    BY WriteLabel DEF Asking
  <2>2. nextId' = nextId
    BY DEF Rename
  <2>3. Sized(rows') /\ NoTies(rows')
    BY <1>2, <2>1, <2>2, SamePlaces
  <2>. QED
    BY <1>1, <1>2, <1>5, <2>3, GoesToRead
<1>. QED
  BY <1>3, <1>4, <1>5

LEMMA SwapFirstStep ==
  ASSUME NEW t, NEW c, Asking(t, c), Table(rows, nextId), CallOk(c, pages[t], rows, mirror), SwapFirst(c)
  PROVE  Waits(t)'
<1>. DEFINE d == [c EXCEPT !.step = "swapped"]
<1>1. /\ c.step = "swap" /\ SetSortOrder(c.a.id, c.b.order) /\ PlaceGoes(c, d)
      /\ nextId' = nextId /\ mirror' = mirror /\ keys' = keys
  BY DEF SwapFirst
<1>2. /\ Sized(rows) /\ NoTies(rows) /\ c.a \in rows /\ c.b \in rows /\ c.a # c.b /\ c.op # "reload"
      /\ (c.op \in {"seed", "set", "clear", "noop", "locate", "self"} => ~InList(pages[t]))
  BY <1>1 DEF CallOk
<1>3. rows' = {PutAt(r, c.a.id, c.b.order) : r \in rows}
  BY <1>1, WriteOrder
<1>4. Sized(rows') /\ HalfSwapped(c.a, c.b, rows')
  BY <1>2, <1>3, SwapsFirst
<1>5. d = [f \in CallFields |-> d[f]] /\ d.step = "swapped" /\ d.by = c.by /\ d.op = c.op /\ d.a = c.a /\ d.b = c.b
  BY DEF CallOk, CallFields
<1>. HIDE DEF d
<1>6. CallOk(d, pages[t], rows', mirror')
  BY <1>2, <1>4, <1>5 DEF CallOk
<1>. QED
  BY <1>1, <1>5, <1>6, GoesOn DEF Asking

LEMMA SwapSecondStep ==
  ASSUME NEW t, NEW c, Asking(t, c), Table(rows, nextId), CallOk(c, pages[t], rows, mirror), SwapSecond(c)
  PROVE  Waits(t)'
<1>1. /\ c.step = "swapped" /\ SetSortOrder(c.b.id, c.a.order) /\ PlaceGoes(c, [c EXCEPT !.step = "read"])
      /\ nextId' = nextId /\ keys' = keys
  BY DEF SwapSecond
<1>2. /\ Sized(rows) /\ HalfSwapped(c.a, c.b, rows) /\ c.op # "reload" /\ c = [f \in CallFields |-> c[f]]
      /\ (c.op \in {"seed", "set", "clear", "noop", "locate", "self"} => ~InList(pages[t]))
  BY <1>1 DEF CallOk
<1>3. rows' = {PutAt(r, c.b.id, c.a.order) : r \in rows}
  BY <1>1, WriteOrder
<1>4. Sized(rows') /\ NoTies(rows')
  <2>. DEFINE a == c.a
              b == c.b
  <2>1. HalfSwapped(a, b, rows) /\ rows' = {PutAt(r, b.id, a.order) : r \in rows}
    BY <1>2, <1>3
  <2>. HIDE DEF a, b
  <2>. QED
    BY <1>2, <2>1, SwapsSecond
<1>. QED
  BY <1>1, <1>2, <1>4, GoesToRead

LEMMA MirrorSteps ==
  ASSUME NEW t, NEW c, Asking(t, c), CallOk(c, pages[t], rows, mirror),
         RefreshMirror(c) \/ SetUserLocationLabel(c) \/ UpdateOthers(c)
  PROVE  Waits(t)'
<1>1. /\ rows' = rows /\ keys' = keys /\ c.op # "reload" /\ Sized(rows) /\ NoTies(rows)
      /\ (c.op \in {"seed", "set", "clear", "noop", "locate", "self"} => ~InList(pages[t]))
      /\ c = [f \in CallFields |-> c[f]]
  BY DEF RefreshMirror, SetUserLocationLabel, UpdateOthers, CallOk
<1>2. CASE RefreshMirror(c)
  <2>. DEFINE d == [c EXCEPT !.step = "mirror", !.label = Primary.label]
  <2>1. PlaceGoes(c, d)
    BY <1>2 DEF RefreshMirror
  <2>2. /\ d = [f \in CallFields |-> d[f]] /\ d.step = "mirror" /\ d.by = c.by /\ d.op = c.op
        /\ d.label = FirstOf(rows).label
    BY <1>1 DEF CallFields, Primary
  <2>. HIDE DEF d
  <2>3. CallOk(d, pages[t], rows', mirror')
    BY <1>1, <2>2 DEF CallOk
  <2>. QED
    BY <1>1, <2>1, <2>2, <2>3, GoesOn DEF Asking
<1>3. CASE SetUserLocationLabel(c)
  <2>. DEFINE d == [c EXCEPT !.step = "update"]
  <2>1. mirror' = c.label /\ c.label = FirstOf(rows).label
    BY <1>3 DEF SetUserLocationLabel, CallOk
  <2>2. Mirrored(rows', mirror')
    BY <1>1, <2>1 DEF Mirrored
  <2>3. PlaceGoes(c, d) \/ Fails(c, "")
    BY <1>3 DEF SetUserLocationLabel
  <2>4. d = [f \in CallFields |-> d[f]] /\ d.step = "update" /\ d.by = c.by /\ d.op = c.op
    BY <1>1 DEF CallFields
  <2>. HIDE DEF d
  <2>5. CallOk(d, pages[t], rows', mirror')
    BY <1>1, <2>2, <2>4 DEF CallOk
  <2>6. CASE PlaceGoes(c, d)
    BY <1>1, <2>4, <2>5, <2>6, GoesOn DEF Asking
  <2>7. CASE Fails(c, "")
    BY <1>1, <2>2, <2>7, EndsWith
  <2>. QED
    BY <2>3, <2>6, <2>7
<1>4. CASE UpdateOthers(c)
  <2>1. Fails(c, "") /\ mirror' = mirror /\ Mirrored(rows, mirror)
    BY <1>4 DEF UpdateOthers, CallOk
  <2>. QED
    BY <1>1, <2>1, EndsWith
<1>. QED
  BY <1>2, <1>3, <1>4

LEMMA SearchStep ==
  ASSUME NEW t, NEW c, Asking(t, c), CallOk(c, pages[t], rows, mirror), Search(c)
  PROVE  Waits(t)'
<1>. DEFINE m == [Msg(c.op, "") EXCEPT !.results = Geocode[c.query]]
<1>1. c.step = "geocode" /\ Answers(c, m) /\ rows' = rows /\ mirror' = mirror /\ keys' = keys
  BY DEF Search
<1>2. m.kind = c.op
  BY DEF Msg
<1>. HIDE DEF m
<1>3. /\ c.op \in {"search", "locate"} /\ Sized(rows) /\ NoTies(rows) /\ Mirrored(rows, mirror)
      /\ Knows(pages[t], rows) /\ (c.op = "locate" => ~InList(pages[t]))
  BY <1>1 DEF CallOk
<1>4. AnswerOk(m, pages[t], rows, mirror)
  BY <1>2, <1>3 DEF AnswerOk
<1>. QED
  BY <1>1, <1>4, IsAnswered

LEMMA OwnRowStep ==
  ASSUME NEW t, NEW c, Asking(t, c), CallOk(c, pages[t], rows, mirror), LoadOwnRow(c)
  PROVE  Waits(t)'
<1>. DEFINE m == [Msg("self", "") EXCEPT !.text = mirror]
<1>1. c.step = "self" /\ Answers(c, m) /\ rows' = rows /\ mirror' = mirror /\ keys' = keys
  BY DEF LoadOwnRow
<1>2. m.kind = "self"
  BY DEF Msg
<1>. HIDE DEF m
<1>3. /\ c.op = "self" /\ Sized(rows) /\ NoTies(rows) /\ Mirrored(rows, mirror)
      /\ Knows(pages[t], rows) /\ ~InList(pages[t])
  BY <1>1 DEF CallOk
<1>4. AnswerOk(m, pages[t], rows, mirror)
  BY <1>2, <1>3 DEF AnswerOk
<1>. QED
  BY <1>1, <1>4, IsAnswered

LEMMA EveryServiceStep ==
  ASSUME NEW t, NEW c, Asking(t, c), Table(rows, nextId), CallOk(c, pages[t], rows, mirror), Service(c)
  PROVE  Waits(t)'
BY ListStep, NextStep, AddStep, PromoteStep, ClearStep, DeleteStep, RenameStep, SwapFirstStep, SwapSecondStep,
   MirrorSteps, SearchStep, OwnRowStep DEF Service

-----------------------------------------------------------------------------
(* What a handler of the page leaves, with nothing else under way.         *)
TableInOrder == Table(rows, nextId) /\ Sized(rows) /\ NoTies(rows) /\ Mirrored(rows, mirror)
Fresh(p) == OnePage(p) /\ p.inbox = <<>> /\ Knows(p, rows)
EffectOk(t, e) == OneThing(t, e.call, e.page, rows, mirror)

\* The page is another one, but for what it has of the table and for what is open.
Like(q, p) ==
  /\ q = [f \in PageFields |-> q[f]]
  /\ q.mode = p.mode /\ q.list = p.list /\ q.primary = p.primary /\ q.inbox = p.inbox
LEMMA LikeFresh ==
  ASSUME NEW p, NEW q, Fresh(p), Like(q, p)
  PROVE  Fresh(q)
BY DEF Fresh, Like, OnePage, Knows, InList

LEMMA QuietOk ==
  ASSUME NEW t, NEW q, TableInOrder, Fresh(q)
  PROVE  EffectOk(t, Quiet(q))
<1>1. Quiet(q).page = q /\ Quiet(q).call = {}
  BY DEF Quiet
<1>2. Idles({}, q, rows, mirror)
  BY DEF Idles, TableInOrder, Fresh
<1>. QED
  BY <1>1, <1>2 DEF EffectOk, OneThing, Fresh, OnePage, Modes

LEMMA StartsOk ==
  ASSUME NEW t, NEW q, OnePage(q), q.inbox = <<>>, NEW c, c.by = t, CallOk(c, q, rows, mirror)
  PROVE  EffectOk(t, Starts(q, c))
<1>1. Starts(q, c).page = q /\ Starts(q, c).call = {c}
  BY DEF Starts
<1>2. Asks(t, {c}, q, rows, mirror)
  BY DEF Asks
<1>. QED
  BY <1>1, <1>2 DEF EffectOk, OneThing, OnePage, Modes

LEMMA NewCallIs ==
  ASSUME NEW t, NEW op, NEW step
  PROVE  LET c == NewCall(t, op, step)
         IN  c = [f \in CallFields |-> c[f]] /\ c.by = t /\ c.op = op /\ c.step = step
<1>. DEFINE n == CHOOSE n \in 0..Cardinality(calls) : \A c \in calls : c.nr # n
<1>. DEFINE c == NewCall(t, op, step)
            none == <<>>
<1>1. c = [nr |-> n, by |-> t, op |-> op, step |-> step, seen |-> none, next |-> 0, a |-> NoRow, b |-> NoRow,
           id |-> 0, label |-> "", place |-> NoPlace, query |-> ""]
  BY DEF NewCall
<1>. HIDE DEF n, c, none
<1>2. c.by = t /\ c.op = op /\ c.step = step
  BY <1>1
<1>3. c = [f \in CallFields |-> c[f]]
  BY <1>1 DEF CallFields
<1>. QED
  BY <1>2, <1>3 DEF c

LEMMA ReloadOk ==
  ASSUME NEW t, NEW q, TableInOrder, OnePage(q), q.inbox = <<>>, q.primary = FirstOf(rows)
  PROVE  EffectOk(t, Starts(q, Reload(t)))
<1>. DEFINE c == NewCall(t, "reload", "list")
<1>1. c = [f \in CallFields |-> c[f]] /\ c.by = t /\ c.op = "reload" /\ c.step = "list"
  BY NewCallIs
<1>. HIDE DEF c
<1>2. CallOk(c, q, rows, mirror)
  BY <1>1 DEF CallOk, TableInOrder
<1>. QED
  BY <1>1, <1>2, StartsOk DEF Reload, c

\* dispatchProfileSave and a commit of the form.
LEMMA SaveOk ==
  ASSUME NEW t, NEW p, TableInOrder, Fresh(p), ~InList(p), NEW act \in {"set", "clear", "noop"}, NEW label, NEW place
  PROVE  EffectOk(t, Save(t, p, act, label, place))
<1>. DEFINE q == [p EXCEPT !.working = TRUE]
            step == CASE act = "set" -> "list" [] act = "clear" -> "primary" [] OTHER -> "update"
            b == NewCall(t, act, step)
            c == [b EXCEPT !.label = label, !.place = place]
<1>1. Like(q, p)
  BY DEF Like, Fresh, OnePage, PageFields
<1>2. Save(t, p, act, label, place) = Starts(q, c)
  BY DEF Save
<1>3. step \in {"list", "primary", "update"}
  BY Zenon
<1>. HIDE DEF q, step
<1>4. b = [f \in CallFields |-> b[f]] /\ b.by = t /\ b.op = act /\ b.step = step
  BY NewCallIs
<1>. HIDE DEF b
<1>5. c = [f \in CallFields |-> c[f]] /\ c.by = t /\ c.op = act /\ c.step = step
  BY <1>4 DEF CallFields
<1>. HIDE DEF c
<1>6. Fresh(q) /\ ~InList(q)
  BY <1>1, LikeFresh DEF Like, InList
<1>7. CallOk(c, q, rows, mirror)
  BY <1>3, <1>5, <1>6 DEF CallOk, TableInOrder, Fresh
<1>. QED
  BY <1>2, <1>5, <1>6, <1>7, StartsOk DEF Fresh

LEMMA CommitOk ==
  ASSUME NEW t, NEW p, TableInOrder, Fresh(p), NEW result
  PROVE  EffectOk(t, CommitGeocoded(t, p, result))
<1>. DEFINE q == [p EXCEPT !.working = TRUE]
            b == NewCall(t, "add", "list")
            c == [b EXCEPT !.label = IF p.alias = "" THEN result.name ELSE p.alias, !.place = result.place]
<1>1. Like(q, p)
  BY DEF Like, Fresh, OnePage, PageFields
<1>2. CommitGeocoded(t, p, result) = Starts(q, c)
  BY DEF CommitGeocoded
<1>. HIDE DEF q
<1>4. b = [f \in CallFields |-> b[f]] /\ b.by = t /\ b.op = "add" /\ b.step = "list"
  BY NewCallIs
<1>. HIDE DEF b
<1>5. c = [f \in CallFields |-> c[f]] /\ c.by = t /\ c.op = "add" /\ c.step = "list"
  BY <1>4 DEF CallFields
<1>. HIDE DEF c
<1>6. Fresh(q)
  BY <1>1, LikeFresh
<1>7. CallOk(c, q, rows, mirror)
  BY <1>5, <1>6 DEF CallOk, TableInOrder, Fresh
<1>. QED
  BY <1>2, <1>5, <1>6, <1>7, StartsOk DEF Fresh

\* A search of the form, and one of the profile.
LEMMA SearchOk ==
  ASSUME NEW t, NEW p, TableInOrder, Fresh(p), NEW op, op = "search" \/ (op = "locate" /\ ~InList(p)), NEW query
  PROVE  EffectOk(t, Starts(p, [NewCall(t, op, "geocode") EXCEPT !.query = query]))
<1>. DEFINE b == NewCall(t, op, "geocode")
            c == [b EXCEPT !.query = query]
<1>1. b = [f \in CallFields |-> b[f]] /\ b.by = t /\ b.op = op /\ b.step = "geocode"
  BY NewCallIs
<1>. HIDE DEF b
<1>2. c = [f \in CallFields |-> c[f]] /\ c.by = t /\ c.op = op /\ c.step = "geocode"
  BY <1>1 DEF CallFields
<1>. HIDE DEF c
<1>3. CallOk(c, p, rows, mirror)
  BY <1>2 DEF CallOk, TableInOrder, Fresh
<1>. QED
  BY <1>2, <1>3, StartsOk DEF Fresh, b, c

\* A deletion and a change of a label.
LEMMA WriteOk ==
  ASSUME NEW t, NEW p, TableInOrder, Fresh(p), NEW op \in {"delete", "rename"}, NEW id, NEW label
  PROVE  /\ EffectOk(t, Starts(p, [NewCall(t, op, op) EXCEPT !.id = id]))
         /\ EffectOk(t, Starts(p, [NewCall(t, op, op) EXCEPT !.id = id, !.label = label]))
<1>. DEFINE b == NewCall(t, op, op)
            c == [b EXCEPT !.id = id]
            d == [b EXCEPT !.id = id, !.label = label]
<1>1. b = [f \in CallFields |-> b[f]] /\ b.by = t /\ b.op = op /\ b.step = op
  BY NewCallIs
<1>. HIDE DEF b
<1>2. /\ c = [f \in CallFields |-> c[f]] /\ c.by = t /\ c.op = op /\ c.step = op
      /\ d = [f \in CallFields |-> d[f]] /\ d.by = t /\ d.op = op /\ d.step = op
  BY <1>1 DEF CallFields
<1>. HIDE DEF c, d
<1>3. CallOk(c, p, rows, mirror) /\ CallOk(d, p, rows, mirror)
  BY <1>2 DEF CallOk, TableInOrder, Fresh
<1>4. EffectOk(t, Starts(p, c)) /\ EffectOk(t, Starts(p, d))
  BY <1>2, <1>3, StartsOk DEF Fresh
<1>. QED
  BY <1>4 DEF b, c, d

LEMMA SwapOk ==
  ASSUME NEW t, NEW p, TableInOrder, Fresh(p), InList(p), NEW to, p.cursor \in Int => to # p.cursor
  PROVE  EffectOk(t, Swap(t, p, to))
<1>1. CASE p.cursor \notin DOMAIN p.list \/ to \notin DOMAIN p.list
  <2>1. Swap(t, p, to) = Quiet(p)
    BY <1>1 DEF Swap
  <2>. QED
    BY <2>1, QuietOk
<1>2. CASE p.cursor \in DOMAIN p.list /\ to \in DOMAIN p.list
  <2>. DEFINE q == [p EXCEPT !.working = TRUE, !.cursor = to]
              x == p.list[p.cursor]
              y == p.list[to]
              b == NewCall(t, "swap", "swap")
              c == [b EXCEPT !.a = x, !.b = y]
  <2>1. Swap(t, p, to) = Starts(q, c)
    BY <1>2 DEF Swap
  <2>2. Like(q, p)
    BY DEF Like, Fresh, OnePage, PageFields
  <2>3. p.list = InOrder(rows) /\ Lined(rows)
    BY TableLined DEF Fresh, Knows, TableInOrder
  <2>4. x \in rows /\ y \in rows /\ Standing(rows, x) = p.cursor /\ Standing(rows, y) = to
    BY <1>2, <2>3, InOrderIs
  <2>5. x # y
    <3>1. p.cursor \in Int
      BY <1>2, <2>3, InOrderIs, InOrderLen
    <3>. QED
      BY <2>4, <3>1
  <2>. HIDE DEF q, x, y
  <2>6. b = [f \in CallFields |-> b[f]] /\ b.by = t /\ b.op = "swap" /\ b.step = "swap"
    BY NewCallIs
  <2>. HIDE DEF b
  <2>7. c = [f \in CallFields |-> c[f]] /\ c.by = t /\ c.op = "swap" /\ c.step = "swap" /\ c.a = x /\ c.b = y
    BY <2>6 DEF CallFields
  <2>. HIDE DEF c
  <2>8. Fresh(q)
    BY <2>2, LikeFresh
  <2>9. CallOk(c, q, rows, mirror)
    BY <2>4, <2>5, <2>7, <2>8 DEF CallOk, TableInOrder, Fresh
  <2>. QED
    BY <2>1, <2>7, <2>8, <2>9, StartsOk DEF Fresh
<1>. QED
  BY <1>1, <1>2

\* An answer is handled.
LEMMA HearsPlaces ==
  ASSUME NEW t, NEW p, TableInOrder, OnePage(p), p.inbox = <<>>, NEW m, AnswerOk(m, p, rows, mirror),
         m.kind \in {"list", "mutated"}
  PROVE  EffectOk(t, UpdatePlaces(t, p, m))
<1>1. CASE m.kind = "list"
  <2>. DEFINE q == [p EXCEPT !.list = m.list, !.cursor = Within(@, Len(m.list))]
  <2>1. UpdatePlaces(t, p, m) = Quiet(q)
    BY <1>1 DEF UpdatePlaces, LocationsLoaded
  <2>2. /\ q = [f \in PageFields |-> q[f]] /\ q.mode = p.mode /\ q.primary = p.primary
        /\ q.inbox = p.inbox /\ q.list = m.list
    BY DEF OnePage, PageFields
  <2>. HIDE DEF q
  <2>3. p.primary = FirstOf(rows) /\ m.list = InOrder(rows)
    BY <1>1 DEF AnswerOk
  <2>4. Fresh(q)
    BY <2>2, <2>3 DEF Fresh, Knows, OnePage
  <2>. QED
    BY <2>1, <2>4, QuietOk
<1>2. CASE m.kind = "mutated" /\ m.err # ""
  <2>. DEFINE q == [p EXCEPT !.working = FALSE]
  <2>1. UpdatePlaces(t, p, m) = Quiet(q)
    BY <1>2 DEF UpdatePlaces, Mutated
  <2>2. Like(q, p)
    BY DEF Like, OnePage, PageFields
  <2>. HIDE DEF q
  <2>3. Fresh(p)
    BY <1>2 DEF AnswerOk, Fresh
  <2>. QED
    BY <2>1, <2>2, <2>3, LikeFresh, QuietOk
<1>3. CASE m.kind = "mutated" /\ m.err = ""
  <2>. DEFINE q == [p EXCEPT !.working = FALSE, !.form = "", !.renaming = 0, !.primary = Primary]
  <2>1. UpdatePlaces(t, p, m) = Starts(q, Reload(t))
    BY <1>3 DEF UpdatePlaces, Mutated
  <2>2. q = [f \in PageFields |-> q[f]] /\ q.mode = p.mode /\ q.primary = FirstOf(rows) /\ q.inbox = p.inbox
    BY DEF OnePage, PageFields, Primary
  <2>. HIDE DEF q
  <2>. QED
    BY <2>1, <2>2, ReloadOk DEF OnePage
<1>. QED
  BY <1>1, <1>2, <1>3

LEMMA HearsFound ==
  ASSUME NEW t, NEW p, TableInOrder, OnePage(p), p.inbox = <<>>, NEW m, AnswerOk(m, p, rows, mirror),
         m.kind \in {"search", "locate"}
  PROVE  EffectOk(t, UpdatePlaces(t, p, m))
<1>1. Fresh(p) /\ (m.kind = "locate" => ~InList(p))
  BY DEF AnswerOk, Fresh
<1>2. CASE m.kind = "search"
  <2>. DEFINE q == [p EXCEPT !.searching = FALSE, !.found = <<>>]
              r == [p EXCEPT !.searching = FALSE, !.found = m.results]
  <2>1. \/ UpdatePlaces(t, p, m) = Quiet(q)
        \/ UpdatePlaces(t, p, m) = CommitGeocoded(t, q, m.results[1])
        \/ UpdatePlaces(t, p, m) = Quiet(r)
    BY <1>2 DEF UpdatePlaces, Searched
  <2>2. Like(q, p) /\ Like(r, p)
    BY DEF Like, OnePage, PageFields
  <2>. HIDE DEF q, r
  <2>3. Fresh(q) /\ Fresh(r)
    BY <1>1, <2>2, LikeFresh
  <2>. QED
    BY <2>1, <2>3, QuietOk, CommitOk
<1>3. CASE m.kind = "locate"
  <2>. DEFINE q == [p EXCEPT !.working = FALSE, !.query = ""]
              s == [p EXCEPT !.picks = <<>>]
              r == [p EXCEPT !.working = FALSE, !.picks = m.results, !.mode = "picker"]
  <2>1. \/ UpdatePlaces(t, p, m) = Quiet(q)
        \/ UpdatePlaces(t, p, m) = Save(t, s, "set", p.query, m.results[1].place)
        \/ UpdatePlaces(t, p, m) = Quiet(r)
    BY <1>3 DEF UpdatePlaces, Geocoded
  <2>2. Like(q, p) /\ Like(s, p)
    BY DEF Like, OnePage, PageFields
  <2>3. r = [f \in PageFields |-> r[f]] /\ r.mode = "picker" /\ r.primary = p.primary /\ r.inbox = p.inbox
    BY DEF OnePage, PageFields
  <2>. HIDE DEF q, r, s
  <2>4. Fresh(q) /\ Fresh(s) /\ ~InList(s)
    BY <1>1, <1>3, <2>2, LikeFresh DEF Like, InList
  <2>5. Fresh(r)
    BY <1>1, <2>3 DEF Fresh, Knows, InList, OnePage, Modes
  <2>. QED
    BY <2>1, <2>4, <2>5, QuietOk, SaveOk
<1>. QED
  BY <1>2, <1>3

LEMMA HearsSaved ==
  ASSUME NEW t, NEW p, TableInOrder, OnePage(p), p.inbox = <<>>, NEW m, AnswerOk(m, p, rows, mirror),
         m.kind \notin {"list", "mutated", "search", "locate"}
  PROVE  EffectOk(t, UpdatePlaces(t, p, m))
<1>1. ~InList(p)
  BY DEF AnswerOk
<1>2. CASE m.kind = "saved" /\ m.err # ""
  <2>. DEFINE q == [p EXCEPT !.working = FALSE]
  <2>1. UpdatePlaces(t, p, m) = Quiet(q)
    BY <1>2 DEF UpdatePlaces, Saved
  <2>2. Like(q, p)
    BY DEF Like, OnePage, PageFields
  <2>. HIDE DEF q
  <2>3. Fresh(p)
    BY <1>2 DEF AnswerOk, Fresh
  <2>. QED
    BY <2>1, <2>2, <2>3, LikeFresh, QuietOk
<1>3. CASE m.kind = "saved" /\ m.err = ""
  <2>. DEFINE q == [p EXCEPT !.working = FALSE, !.primary = Primary]
              c == NewCall(t, "self", "self")
  <2>1. UpdatePlaces(t, p, m) = Starts(q, c)
    BY <1>3 DEF UpdatePlaces, Saved
  <2>2. q = [f \in PageFields |-> q[f]] /\ q.mode = p.mode /\ q.primary = FirstOf(rows) /\ q.inbox = p.inbox
    BY DEF OnePage, PageFields, Primary
  <2>3. c = [f \in CallFields |-> c[f]] /\ c.by = t /\ c.op = "self" /\ c.step = "self"
    BY NewCallIs
  <2>. HIDE DEF q, c
  <2>4. OnePage(q) /\ ~InList(q) /\ Knows(q, rows)
    BY <1>1, <2>2 DEF Knows, InList, OnePage
  <2>5. CallOk(c, q, rows, mirror)
    BY <2>3, <2>4 DEF CallOk, TableInOrder
  <2>. QED
    BY <2>1, <2>2, <2>3, <2>4, <2>5, StartsOk
<1>4. CASE m.kind = "self"
  <2>. DEFINE text == IF p.primary # NoRow THEN p.primary.label ELSE m.text
              q == [p EXCEPT !.field = text, !.snapshot = text]
  <2>1. UpdatePlaces(t, p, m) = Quiet(q)
    BY <1>4 DEF UpdatePlaces, ProfileLoaded
  <2>. HIDE DEF text
  <2>2. Like(q, p)
    BY DEF Like, OnePage, PageFields
  <2>. HIDE DEF q
  <2>3. Fresh(p)
    BY <1>4 DEF AnswerOk, Fresh
  <2>. QED
    BY <2>1, <2>2, <2>3, LikeFresh, QuietOk
<1>5. CASE m.kind \notin {"saved", "self"}
  <2>. DEFINE q == [p EXCEPT !.primary = Primary]
  <2>1. UpdatePlaces(t, p, m) = Quiet(q)
    BY <1>5 DEF UpdatePlaces
  <2>2. q = [f \in PageFields |-> q[f]] /\ q.mode = p.mode /\ q.primary = FirstOf(rows) /\ q.inbox = p.inbox
    BY DEF OnePage, PageFields, Primary
  <2>. HIDE DEF q
  <2>3. Fresh(q)
    BY <1>1, <2>2 DEF Fresh, Knows, InList, OnePage
  <2>. QED
    BY <2>1, <2>3, QuietOk
<1>. QED
  BY <1>2, <1>3, <1>4, <1>5

\* A key of the tab, of the list, of its forms, of the picker and of a question.
LEMMA SubmitOk ==
  ASSUME NEW t, NEW p, TableInOrder, Fresh(p), ~InList(p)
  PROVE  EffectOk(t, SubmitPlace(t, p))
<1>. DEFINE q == [p EXCEPT !.mode = "confirmClear"]
            r == [p EXCEPT !.working = TRUE, !.query = p.field]
<1>1. \/ SubmitPlace(t, p) = Quiet(p)
      \/ SubmitPlace(t, p) = Save(t, p, "noop", "", NoPlace)
      \/ SubmitPlace(t, p) = Quiet(q)
      \/ SubmitPlace(t, p) = Starts(r, [NewCall(t, "locate", "geocode") EXCEPT !.query = p.field])
  BY DEF SubmitPlace
<1>2. Like(r, p)
  BY DEF Like, Fresh, OnePage, PageFields
<1>3. q = [f \in PageFields |-> q[f]] /\ q.mode = "confirmClear" /\ q.primary = p.primary /\ q.inbox = p.inbox
  BY DEF Fresh, OnePage, PageFields
<1>. HIDE DEF q, r
<1>4. Fresh(r) /\ ~InList(r)
  BY <1>2, LikeFresh DEF Like, InList
<1>5. Fresh(q)
  BY <1>3 DEF Fresh, Knows, InList, OnePage, Modes
<1>6. EffectOk(t, Save(t, p, "noop", "", NoPlace))
  BY SaveOk
<1>7. EffectOk(t, Starts(r, [NewCall(t, "locate", "geocode") EXCEPT !.query = p.field]))
  BY <1>4, SearchOk
<1>. QED
  BY <1>1, <1>5, <1>6, <1>7, QuietOk

LEMMA TabKeyOk ==
  ASSUME NEW t, NEW p, NEW k, TableInOrder, Fresh(p), p.mode = "tab"
  PROVE  EffectOk(t, TabKey(t, p, k))
<1>. DEFINE q == [p EXCEPT !.field = k.text]
            r == [p EXCEPT !.mode = "places", !.cursor = 1, !.form = "", !.found = <<>>, !.typed = "", !.alias = ""]
<1>1. \/ TabKey(t, p, k) = SubmitPlace(t, p)
      \/ TabKey(t, p, k) = Quiet(q)
      \/ TabKey(t, p, k) = Starts(r, Reload(t))
      \/ TabKey(t, p, k) = Quiet(p)
  BY DEF TabKey
<1>2. Like(q, p)
  BY DEF Like, Fresh, OnePage, PageFields
<1>3. r = [f \in PageFields |-> r[f]] /\ r.mode = "places" /\ r.primary = FirstOf(rows) /\ r.inbox = <<>>
  BY DEF Fresh, Knows, OnePage, PageFields
<1>. HIDE DEF q, r
<1>4. Fresh(q)
  BY <1>2, LikeFresh
<1>5. EffectOk(t, Starts(r, Reload(t)))
  BY <1>3, ReloadOk DEF OnePage, Modes
<1>6. EffectOk(t, SubmitPlace(t, p))
  BY SubmitOk DEF InList
<1>. QED
  BY <1>1, <1>4, <1>5, <1>6, QuietOk

LEMMA ListKeyOk ==
  ASSUME NEW t, NEW p, NEW k, TableInOrder, Fresh(p), p.mode = "places"
  PROVE  EffectOk(t, ListKey(t, p, k))
<1>. DEFINE q == [p EXCEPT !.mode = "tab"]
            d == [p EXCEPT !.cursor = IF @ < Len(p.list) THEN @ + 1 ELSE @]
            a == [p EXCEPT !.form = "add", !.typed = "", !.alias = "", !.found = <<>>]
            r == [p EXCEPT !.form = "rename", !.renaming = p.list[p.cursor].id,
                           !.alias = p.list[p.cursor].label, !.found = <<>>]
            x == [p EXCEPT !.mode = "confirmDelete", !.target = p.list[p.cursor].id]
<1>1. \/ ListKey(t, p, k) = Quiet(q)
      \/ ListKey(t, p, k) = Quiet(d)
      \/ ListKey(t, p, k) = Swap(t, p, p.cursor - 1)
      \/ ListKey(t, p, k) = Swap(t, p, p.cursor + 1)
      \/ ListKey(t, p, k) = Quiet(a)
      \/ ListKey(t, p, k) = Quiet(r)
      \/ ListKey(t, p, k) = Quiet(x)
      \/ ListKey(t, p, k) = Quiet(p)
  BY DEF ListKey
<1>2. Like(d, p) /\ Like(a, p) /\ Like(r, p)
  BY DEF Like, Fresh, OnePage, PageFields
<1>3. /\ q = [f \in PageFields |-> q[f]] /\ q.mode = "tab" /\ q.primary = p.primary /\ q.inbox = p.inbox
      /\ x = [f \in PageFields |-> x[f]] /\ x.mode = "confirmDelete" /\ x.primary = p.primary
      /\ x.inbox = p.inbox /\ x.list = p.list
  BY DEF Fresh, OnePage, PageFields
<1>. HIDE DEF q, d, a, r, x
<1>4. Fresh(d) /\ Fresh(a) /\ Fresh(r)
  BY <1>2, LikeFresh
<1>5. Fresh(q) /\ Fresh(x)
  BY <1>3 DEF Fresh, Knows, InList, OnePage, Modes
<1>6. EffectOk(t, Swap(t, p, p.cursor - 1)) /\ EffectOk(t, Swap(t, p, p.cursor + 1))
  <2>1. InList(p)
    BY DEF InList
  <2>. DEFINE u == p.cursor - 1
              v == p.cursor + 1
  <2>2. p.cursor \in Int => u # p.cursor /\ v # p.cursor
    OBVIOUS
  <2>. HIDE DEF u, v
  <2>3. EffectOk(t, Swap(t, p, u)) /\ EffectOk(t, Swap(t, p, v))
    BY <2>1, <2>2, SwapOk
  <2>. QED
    BY <2>3 DEF u, v
<1>. QED
  BY <1>1, <1>4, <1>5, <1>6, QuietOk

LEMMA AddFormKeyOk ==
  ASSUME NEW t, NEW p, NEW k, TableInOrder, Fresh(p)
  PROVE  EffectOk(t, AddFormKey(t, p, k))
<1>. DEFINE c == [p EXCEPT !.found = <<>>, !.searching = FALSE]
            e == [p EXCEPT !.form = ""]
            s == [p EXCEPT !.searching = TRUE]
            y == [p EXCEPT !.typed = k.text, !.alias = k.alias]
<1>1. \/ AddFormKey(t, p, k) = CommitGeocoded(t, p, p.found[k.nr])
      \/ AddFormKey(t, p, k) = CommitGeocoded(t, p, p.found[1])
      \/ AddFormKey(t, p, k) = Quiet(c)
      \/ AddFormKey(t, p, k) = Quiet(e)
      \/ AddFormKey(t, p, k) = Starts(s, [NewCall(t, "search", "geocode") EXCEPT !.query = p.typed])
      \/ AddFormKey(t, p, k) = Quiet(y)
      \/ AddFormKey(t, p, k) = Quiet(p)
  BY DEF AddFormKey
<1>2. Like(c, p) /\ Like(e, p) /\ Like(s, p) /\ Like(y, p)
  BY DEF Like, Fresh, OnePage, PageFields
<1>. HIDE DEF c, e, s, y
<1>3. Fresh(c) /\ Fresh(e) /\ Fresh(s) /\ Fresh(y)
  BY <1>2, LikeFresh
<1>4. EffectOk(t, Starts(s, [NewCall(t, "search", "geocode") EXCEPT !.query = p.typed]))
  BY <1>3, SearchOk
<1>5. EffectOk(t, CommitGeocoded(t, p, p.found[k.nr])) /\ EffectOk(t, CommitGeocoded(t, p, p.found[1]))
  BY CommitOk
<1>. QED
  BY <1>1, <1>3, <1>4, <1>5, QuietOk

LEMMA RenameFormKeyOk ==
  ASSUME NEW t, NEW p, NEW k, TableInOrder, Fresh(p)
  PROVE  EffectOk(t, RenameFormKey(t, p, k))
<1>. DEFINE e == [p EXCEPT !.form = "", !.renaming = 0]
            w == [p EXCEPT !.working = TRUE]
            y == [p EXCEPT !.alias = k.alias]
<1>1. \/ RenameFormKey(t, p, k) = Quiet(e)
      \/ RenameFormKey(t, p, k) =
           Starts(w, [NewCall(t, "rename", "rename") EXCEPT !.id = p.renaming, !.label = p.alias])
      \/ RenameFormKey(t, p, k) = Quiet(y)
      \/ RenameFormKey(t, p, k) = Quiet(p)
  BY DEF RenameFormKey
<1>2. Like(e, p) /\ Like(w, p) /\ Like(y, p)
  BY DEF Like, Fresh, OnePage, PageFields
<1>. HIDE DEF e, w, y
<1>3. Fresh(e) /\ Fresh(w) /\ Fresh(y)
  BY <1>2, LikeFresh
<1>4. EffectOk(t, Starts(w, [NewCall(t, "rename", "rename") EXCEPT !.id = p.renaming, !.label = p.alias]))
  BY <1>3, WriteOk
<1>. QED
  BY <1>1, <1>3, <1>4, QuietOk

LEMMA PickerKeyOk ==
  ASSUME NEW t, NEW p, NEW k, TableInOrder, Fresh(p), p.mode = "picker"
  PROVE  EffectOk(t, PickerKey(t, p, k))
<1>. DEFINE n == IF k.do = "enter" THEN 1 ELSE IF k.do = "pick" THEN k.nr ELSE 0
            s == [p EXCEPT !.picks = <<>>, !.mode = "tab"]
            e == [p EXCEPT !.picks = <<>>, !.query = "", !.mode = "tab"]
<1>1. \/ PickerKey(t, p, k) = Save(t, s, "set", p.query, p.picks[n].place)
      \/ PickerKey(t, p, k) = Quiet(e)
      \/ PickerKey(t, p, k) = Quiet(p)
  BY DEF PickerKey
<1>2. /\ s = [f \in PageFields |-> s[f]] /\ s.mode = "tab" /\ s.primary = p.primary /\ s.inbox = p.inbox
      /\ e = [f \in PageFields |-> e[f]] /\ e.mode = "tab" /\ e.primary = p.primary /\ e.inbox = p.inbox
  BY DEF Fresh, OnePage, PageFields
<1>. HIDE DEF n, s, e
<1>3. Fresh(s) /\ Fresh(e) /\ ~InList(s)
  BY <1>2 DEF Fresh, Knows, InList, OnePage, Modes
<1>4. EffectOk(t, Save(t, s, "set", p.query, p.picks[n].place))
  BY <1>3, SaveOk
<1>. QED
  BY <1>1, <1>3, <1>4, QuietOk

LEMMA QuestionOk ==
  ASSUME NEW t, NEW p, NEW k, TableInOrder, Fresh(p), p.mode \in {"confirmClear", "confirmDelete"}
  PROVE  EffectOk(t, AnswerPlaceQuestion(t, p, k))
<1>. DEFINE back == [p EXCEPT !.mode = IF p.mode = "confirmClear" THEN "tab" ELSE "places"]
            w == [back EXCEPT !.working = TRUE]
<1>1. \/ AnswerPlaceQuestion(t, p, k) = Quiet(back)
      \/ p.mode = "confirmClear" /\ AnswerPlaceQuestion(t, p, k) = Save(t, back, "clear", "", NoPlace)
      \/ AnswerPlaceQuestion(t, p, k) = Starts(w, [NewCall(t, "delete", "delete") EXCEPT !.id = p.target])
      \/ AnswerPlaceQuestion(t, p, k) = Quiet(p)
  BY DEF AnswerPlaceQuestion
<1>2. /\ back = [f \in PageFields |-> back[f]] /\ back.primary = p.primary /\ back.inbox = p.inbox
      /\ back.list = p.list /\ back.mode = IF p.mode = "confirmClear" THEN "tab" ELSE "places"
  BY DEF Fresh, OnePage, PageFields
<1>. HIDE DEF back
<1>3. Like(w, back)
  BY <1>2 DEF Like, PageFields
<1>. HIDE DEF w
<1>4. Fresh(back) /\ (p.mode = "confirmClear" => ~InList(back))
  BY <1>2 DEF Fresh, Knows, InList, OnePage, Modes
<1>5. Fresh(w)
  BY <1>3, <1>4, LikeFresh
<1>6. EffectOk(t, Starts(w, [NewCall(t, "delete", "delete") EXCEPT !.id = p.target]))
  BY <1>5, WriteOk
<1>7. p.mode = "confirmClear" => EffectOk(t, Save(t, back, "clear", "", NoPlace))
  BY <1>4, SaveOk
<1>. QED
  BY <1>1, <1>4, <1>6, <1>7, QuietOk

LEMMA KeyOk ==
  ASSUME NEW t, NEW p, NEW k, TableInOrder, Fresh(p)
  PROVE  EffectOk(t, HandleKey(t, p, k))
<1>1. p.mode \in Modes
  BY DEF Fresh, OnePage
<1>2. CASE p.mode = "tab"
  BY <1>2, TabKeyOk DEF HandleKey
<1>3. CASE p.mode = "picker"
  BY <1>3, PickerKeyOk DEF HandleKey
<1>4. CASE p.mode \in {"confirmClear", "confirmDelete"}
  BY <1>4, QuestionOk DEF HandleKey
<1>5. CASE p.mode = "places"
  BY <1>5, AddFormKeyOk, RenameFormKeyOk, ListKeyOk DEF HandleKey
<1>. QED
  BY <1>1, <1>2, <1>3, <1>4, <1>5 DEF Modes

-----------------------------------------------------------------------------
(* The steps of the terminal, and the theorem.                             *)
LEMMA Takes ==
  ASSUME NEW t, Seats = {t}, DOMAIN keys' = {t},
         keys'[t] \in Seq(Range(keys'[t])), calls = {}, NEW e, Does(t, e), EffectOk(t, e),
         rows' = rows, mirror' = mirror
  PROVE  Waits(t)'
<1>1. calls' = e.call /\ pages' = [pages EXCEPT ![t] = e.page]
  BY DEF Does
<1>2. DOMAIN pages' = {t} /\ pages'[t] = e.page
  BY <1>1 DEF Seats
<1>3. OneThing(t, calls', pages'[t], rows', mirror')
  BY <1>1, <1>2 DEF EffectOk
<1>. QED
  BY <1>2, <1>3 DEF Waits, Seats

LEMMA OnlyAnswer == ASSUME NEW m PROVE RemoveAt(<<m>>, 1) = <<>>
BY DEF RemoveAt

LEMMA DeliverStep ==
  ASSUME NEW t, Waits(t), Table(rows, nextId), Deliver(t)
  PROVE  Waits(t)'
<1>. DEFINE p == pages[t]
<1>1. /\ Seats = {t} /\ DOMAIN keys = {t} /\ keys[t] \in Seq(Range(keys[t])) /\ OnePage(p)
      /\ keys' = keys /\ rows' = rows /\ mirror' = mirror
  BY DEF Waits, OneThing, OnePage, Modes, Deliver
<1>2. PICK i \in DOMAIN p.inbox : Does(t, UpdatePlaces(t, [p EXCEPT !.inbox = RemoveAt(@, i)], p.inbox[i]))
  BY DEF Deliver
<1>3. p.inbox # <<>>
  BY <1>2
<1>4. Hears(calls, p, rows, mirror)
  BY <1>3 DEF Waits, OneThing, Idles, Asks
<1>. DEFINE m == p.inbox[1]
            q == [p EXCEPT !.inbox = RemoveAt(@, i)]
<1>5. calls = {} /\ p.inbox = <<m>> /\ AnswerOk(m, p, rows, mirror)
  BY <1>4 DEF Hears
<1>. HIDE DEF m
<1>6. i = 1 /\ p.inbox[i] = m
  BY <1>2, <1>5
<1>7. RemoveAt(p.inbox, i) = <<>>
  BY <1>5, <1>6, OnlyAnswer
<1>8. /\ q = [f \in PageFields |-> q[f]] /\ q.mode = p.mode /\ q.list = p.list /\ q.primary = p.primary
      /\ q.inbox = <<>>
  BY <1>1, <1>7 DEF OnePage, PageFields
<1>9. Does(t, UpdatePlaces(t, q, m))
  BY <1>2, <1>6
<1>. HIDE DEF p, q
<1>10. OnePage(q) /\ AnswerOk(m, q, rows, mirror)
  BY <1>1, <1>5, <1>8 DEF OnePage, AnswerOk, InList, Knows
<1>11. TableInOrder
  BY <1>5 DEF TableInOrder, AnswerOk
<1>12. EffectOk(t, UpdatePlaces(t, q, m))
  BY <1>8, <1>10, <1>11, HearsPlaces, HearsFound, HearsSaved
<1>13. DOMAIN keys' = {t} /\ keys'[t] \in Seq(Range(keys'[t]))
  BY <1>1
<1>. QED
  BY <1>1, <1>5, <1>9, <1>12, <1>13, Takes

LEMMA PressStep ==
  ASSUME NEW t, Waits(t), Table(rows, nextId), unwaited = 0, Press(t)
  PROVE  Waits(t)'
<1>. DEFINE p == pages[t]
            e == HandleKey(t, p, Head(keys[t]))
<1>1. /\ Seats = {t} /\ DOMAIN keys = {t} /\ keys[t] \in Seq(Range(keys[t])) /\ OnePage(p)
      /\ rows' = rows /\ mirror' = mirror /\ keys[t] # <<>>
      /\ keys' = [keys EXCEPT ![t] = Tail(keys[t])] /\ Does(t, e)
  BY DEF Waits, OneThing, OnePage, Modes, Press
<1>2. Len(keys[t]) > 0
  BY <1>1
<1>3. Idle(t)
  BY <1>2 DEF Press
<1>4. Idles(calls, p, rows, mirror)
  <2>1. ~Asks(t, calls, p, rows, mirror)
    BY <1>3 DEF Idle, Asks
  <2>2. ~Hears(calls, p, rows, mirror)
    BY <1>3 DEF Idle, Hears
  <2>. QED
    BY <2>1, <2>2 DEF Waits, OneThing
<1>5. calls = {} /\ TableInOrder /\ Fresh(p)
  BY <1>1, <1>4 DEF Idles, TableInOrder, Fresh
<1>. HIDE DEF p
<1>6. EffectOk(t, e)
  BY <1>5, KeyOk
<1>. HIDE DEF e
<1>7. keys'[t] = Tail(keys[t])
  BY <1>1
<1>8. DOMAIN keys' = {t}
  BY <1>1
<1>9. keys'[t] \in Seq(Range(keys'[t]))
  <2>. DEFINE K == Range(keys[t])
              s == Tail(keys[t])
  <2>1. s \in Seq(K)
    <3>. DEFINE k == keys[t]
    <3>1. k \in Seq(K) /\ k # <<>>
      BY <1>1, Zenon
    <3>. HIDE DEF k, K
    <3>2. Tail(k) \in Seq(K)
      BY <3>1, HeadTailProperties
    <3>. QED
      BY <3>2 DEF k
  <2>. HIDE DEF K, s
  <2>2. s \in Seq(Range(s))
    <3>1. DOMAIN s = 1 .. Len(s) /\ Len(s) \in Nat /\ s \in [1 .. Len(s) -> K]
      BY <2>1, LenProperties
    <3>2. \A i \in 1 .. Len(s) : s[i] \in Range(s)
      BY <3>1 DEF Range
    <3>3. s \in [1 .. Len(s) -> Range(s)]
      BY <3>1, <3>2
    <3>. QED
      BY <3>1, <3>3 DEF Seq
  <2>. QED
    BY <1>7, <2>2 DEF s
<1>. QED
  BY <1>1, <1>5, <1>6, <1>8, <1>9, Takes

LEMMA EmptyTable == Table({}, 1) /\ Sized({}) /\ NoTies({})
<1>1. IsFiniteSet({}) /\ Cardinality({}) = 0 /\ MaxSaved \in Nat
  BY FS_EmptySet, PlaceAssumption
<1>. QED
  BY <1>1 DEF Table, Sized, NoTies

LEMMA SeedIs ==
  ASSUME NEW t, NEW l
  PROVE  LET c == SeedCall(t, l)
         IN  c.by = t /\ c.op = "seed" /\ c.step = "list" /\ c = [f \in CallFields |-> c[f]]
<1>. DEFINE c == SeedCall(t, l)
            none == <<>>
            label == l.name
            place == l.place
<1>1. c = [nr |-> t, by |-> t, op |-> "seed", step |-> "list", seen |-> none, next |-> 0, a |-> NoRow,
           b |-> NoRow, id |-> 0, label |-> label, place |-> place, query |-> ""]
  BY DEF SeedCall
<1>. HIDE DEF c, none, label, place
<1>2. c.by = t /\ c.op = "seed" /\ c.step = "list"
  BY <1>1
<1>3. c = [f \in CallFields |-> c[f]]
  BY <1>1 DEF CallFields
<1>. QED
  BY <1>2, <1>3 DEF c

LEMMA NewPageIs == OnePage(NewPage) /\ NewPage.inbox = <<>> /\ NewPage.mode = "tab" /\ NewPage.primary = NoRow
<1>. DEFINE p == NewPage
            none == <<>>
<1>1. p = [mode |-> "tab", form |-> "", list |-> none, cursor |-> 1, renaming |-> 0, target |-> 0, found |-> none,
           searching |-> FALSE, working |-> FALSE, typed |-> "", alias |-> "", field |-> "", snapshot |-> "",
           query |-> "", picks |-> none, primary |-> NoRow, inbox |-> none]
  BY DEF NewPage
<1>. HIDE DEF p, none
<1>2. p.inbox = none /\ p.mode = "tab" /\ p.primary = NoRow
  BY <1>1
<1>3. p = [f \in PageFields |-> p[f]]
  BY <1>1 DEF PageFields
<1>. QED
  BY <1>2, <1>3 DEF p, none, OnePage, Modes

LEMMA PlacesStart ==
  ASSUME PlacesInit
  PROVE  PlacesInv
<1>1. PICK s \in PlaceScripts : OpensWith(s)
  BY DEF PlacesInit
<1>2. rows = {} /\ nextId = 1 /\ mirror = ""
  BY DEF PlacesInit
<1>4. Table(rows, nextId)
  BY <1>2, EmptyTable
<1>5. Seats = DOMAIN keys /\ IsFiniteSet(Seats)
  BY <1>1, PlaceAssumption DEF Seats, OpensWith
<1>6. ASSUME Cardinality(Seats) = 1
      PROVE  \E t \in Seats : Waits(t)
  <2>1. PICK t : Seats = {t}
    BY <1>5, <1>6, FS_Singleton
  <2>2. DOMAIN keys = {t} /\ keys[t] \in Seq(Range(keys[t]))
    BY <1>1, <1>5, <2>1, PlaceAssumption DEF OpensWith
  <2>3. pages[t] = NewPage
    BY <1>1, <2>2 DEF OpensWith
  <2>. DEFINE p == pages[t]
  <2>4. OnePage(p) /\ p.inbox = <<>> /\ p.mode = "tab" /\ p.primary = NoRow
    BY <2>3, NewPageIs
  <2>. HIDE DEF p
  <2>6. Sized(rows) /\ NoTies(rows) /\ Mirrored(rows, mirror) /\ Knows(p, rows) /\ ~InList(p)
    <3>1. rows = {} /\ FirstOf(rows) = NoRow /\ NoRow.label = ""
      BY <1>2, NobodyFirst DEF NoRow
    <3>2. Mirrored(rows, mirror)
      BY <1>2, <3>1 DEF Mirrored
    <3>3. ~InList(p) /\ Knows(p, rows)
      BY <2>4, <3>1 DEF Knows, InList
    <3>4. Sized(rows) /\ NoTies(rows)
      BY <1>2, EmptyTable
    <3>. QED
      BY <3>2, <3>3, <3>4
  <2>7. CASE Legacy = {}
    <3>1. calls = {}
      BY <1>1, <2>7 DEF OpensWith
    <3>2. Idles(calls, p, rows, mirror)
      BY <2>4, <2>6, <3>1 DEF Idles
    <3>. QED
      BY <2>1, <2>2, <2>4, <3>2 DEF Waits, OneThing, OnePage, Modes, p
  <2>8. CASE Legacy # {}
    <3>1. PICK l \in Legacy : TRUE
      BY <2>8
    <3>2. Legacy = {l}
      BY <3>1, PlaceAssumption
    <3>. DEFINE c == SeedCall(t, l)
    <3>3. calls = {c}
      BY <1>1, <1>5, <2>2, <3>2 DEF OpensWith
    <3>5. c.by = t /\ c.op = "seed" /\ c.step = "list" /\ c = [f \in CallFields |-> c[f]]
      BY SeedIs
    <3>. HIDE DEF c
    <3>6. CallOk(c, p, rows, mirror)
      BY <2>6, <3>5 DEF CallOk
    <3>7. Asks(t, calls, p, rows, mirror)
      BY <2>4, <3>3, <3>5, <3>6 DEF Asks
    <3>. QED
      BY <2>1, <2>2, <2>4, <3>7 DEF Waits, OneThing, OnePage, Modes, p
  <2>. QED
    BY <2>7, <2>8
<1>. QED
  BY <1>4, <1>5, <1>6 DEF PlacesInv

LEMMA PlacesStep ==
  ASSUME PlacesInv, [PlacesNext]_placeVars
  PROVE  PlacesInv'
<1>1. Table(rows, nextId) /\ Table(rows', nextId') /\ IsFiniteSet(Seats)
  BY TableKept DEF PlacesInv
<1>2. Seats' = Seats /\ unwaited' = unwaited
  <2>1. CASE UNCHANGED placeVars
    BY <2>1 DEF placeVars, Seats
  <2>2. CASE \E t \in Seats : Press(t) \/ Deliver(t)
    BY <2>2 DEF Press, Deliver, Does, Seats
  <2>3. ASSUME NEW c \in calls, Service(c)
        PROVE  Seats' = Seats /\ unwaited' = unwaited
    <3>1. ASSUME NEW d, PlaceGoes(c, d) PROVE Seats' = Seats
      BY <3>1 DEF PlaceGoes, Seats
    <3>2. ASSUME NEW m, Answers(c, m) PROVE Seats' = Seats
      BY <3>2 DEF Answers, Seats
    <3>3. ASSUME NEW why, Fails(c, why) PROVE Seats' = Seats
      BY <3>2, <3>3 DEF Fails
    <3>4. unwaited' = unwaited
      BY <2>3 DEF Service, ListPlaces, NextSortOrder, Add, SetPrimaryFromGeocode, ClearPrimary, Delete, Rename,
                  SwapFirst, SwapSecond, RefreshMirror, SetUserLocationLabel, UpdateOthers, Search, LoadOwnRow
    <3>5. (\E d : PlaceGoes(c, d)) \/ (\E m : Answers(c, m)) \/ (\E why : Fails(c, why))
      BY <2>3, Zenon DEF Service, ListPlaces, NextSortOrder, Add, SetPrimaryFromGeocode, ClearPrimary, Delete,
                  Rename, SwapFirst, SwapSecond, RefreshMirror, SetUserLocationLabel, UpdateOthers, Search, LoadOwnRow
    <3>. QED
      BY <3>1, <3>2, <3>3, <3>4, <3>5
  <2>. QED
    BY <2>1, <2>2, <2>3 DEF PlacesNext
<1>3. ASSUME unwaited = 0, Cardinality(Seats) = 1
      PROVE  \E t \in Seats : Waits(t)'
  <2>1. PICK t \in Seats : Waits(t)
    BY <1>3 DEF PlacesInv
  <2>2. Seats = {t}
    BY <2>1 DEF Waits
  <2>3. CASE UNCHANGED placeVars
    BY <2>1, <2>3 DEF placeVars, Waits, Seats
  <2>4. CASE Press(t)
    BY <1>1, <1>3, <2>1, <2>4, PressStep
  <2>5. CASE Deliver(t)
    BY <1>1, <2>1, <2>5, DeliverStep
  <2>6. ASSUME NEW c \in calls, Service(c)
        PROVE  Waits(t)'
    <3>1. Asks(t, calls, pages[t], rows, mirror)
      BY <2>1, <2>6 DEF Waits, OneThing, Idles, Hears
    <3>2. Asking(t, c) /\ CallOk(c, pages[t], rows, mirror)
      BY <2>1, <2>6, <3>1 DEF Waits, OneThing, Asks, Asking, OnePage, Modes
    <3>. QED
      BY <1>1, <2>6, <3>2, EveryServiceStep
  <2>. QED
    BY <2>1, <2>2, <2>3, <2>4, <2>5, <2>6 DEF PlacesNext
<1>. QED
  BY <1>1, <1>2, <1>3 DEF PlacesInv

LEMMA PlacesFollows ==
  ASSUME PlacesInv
  PROVE  PlacesSound
<1>1. PlacesSettle
  <2>1. SUFFICES ASSUME unwaited = 0, Cardinality(Seats) = 1, \A t \in Seats : Idle(t)
                 PROVE  /\ mirror = Primary.label
                        /\ \A r, s \in rows : r # s => r.order # s.order
                        /\ \A t \in Seats : /\ pages[t].primary = Primary
                                            /\ pages[t].mode = "places" => pages[t].list = Listed
    BY DEF PlacesSettle
  <2>2. PICK t \in Seats : Waits(t)
    BY <2>1 DEF PlacesInv
  <2>3. Seats = {t} /\ OneThing(t, calls, pages[t], rows, mirror)
    BY <2>2 DEF Waits
  <2>4. Idle(t)
    BY <2>1, <2>2
  <2>5. Idles(calls, pages[t], rows, mirror)
    <3>1. ~Asks(t, calls, pages[t], rows, mirror)
      BY <2>4 DEF Idle, Asks
    <3>2. ~Hears(calls, pages[t], rows, mirror)
      BY <2>4 DEF Idle, Hears
    <3>. QED
      BY <2>3, <3>1, <3>2 DEF OneThing
  <2>6. mirror = Primary.label /\ pages[t].primary = Primary
    BY <2>5 DEF Idles, Mirrored, Knows, Primary
  <2>7. \A r, s \in rows : r # s => r.order # s.order
    BY <2>5 DEF Idles, NoTies
  <2>8. pages[t].mode = "places" => pages[t].list = Listed
    BY <2>5 DEF Idles, Knows, InList, Listed
  <2>. QED
    BY <2>3, <2>6, <2>7, <2>8
<1>2. PlacesBounded
  <2>1. ASSUME unwaited = 0, Cardinality(Seats) = 1
        PROVE  Cardinality(rows) <= MaxSaved
    <3>1. PICK t \in Seats : OneThing(t, calls, pages[t], rows, mirror)
      BY <2>1 DEF PlacesInv, Waits
    <3>2. Sized(rows)
      BY <3>1 DEF OneThing, Idles, Asks, Hears, CallOk, AnswerOk
    <3>. QED
      BY <3>2 DEF Sized
  <2>2. \A r, s \in rows : r.label = s.label => r = s
    BY DEF PlacesInv, Table
  <2>. QED
    BY <2>1, <2>2 DEF PlacesBounded
<1>. QED
  BY <1>1, <1>2 DEF PlacesSound

\* When every call is over, a user at one terminal who waits for each answer sees the
\* truth: users.location and the cached primary are the first row's, the open list is the
\* table's in its order, no two rows share a position and the list is within its limit;
\* and no two rows share a label, at however many terminals the list is written.
THEOREM PlacesHold == PlacesSpec => []PlacesSound
<1>1. PlacesInit => PlacesInv
  BY PlacesStart
<1>2. PlacesInv /\ [PlacesNext]_placeVars => PlacesInv'
  BY PlacesStep
<1>3. PlacesInv => PlacesSound
  BY PlacesFollows
<1>. QED
  BY <1>1, <1>2, <1>3, PTL DEF PlacesSpec

-----------------------------------------------------------------------------
(* Rows in order: each has a rank, the number of those before it.          *)
InLine(S, R) ==
  /\ IsFiniteSet(S)
  /\ \A x \in S : <<x, x>> \notin R
  /\ \A x, y, z \in S : <<x, y>> \in R /\ <<y, z>> \in R => <<x, z>> \in R
  /\ \A x, y \in S : x # y => <<x, y>> \in R \/ <<y, x>> \in R
Preceding(S, R, x) == {y \in S : <<y, x>> \in R}
Rank(S, R, x) == Cardinality(Preceding(S, R, x))
Placed(S, R, i) == CHOOSE x \in S : Rank(S, R, x) = i - 1

LEMMA RankGrows ==
  ASSUME NEW S, NEW R, InLine(S, R), NEW x \in S, NEW y \in S, <<x, y>> \in R
  PROVE  Rank(S, R, x) < Rank(S, R, y)
<1>1. IsFiniteSet(Preceding(S, R, x)) /\ IsFiniteSet(Preceding(S, R, y))
  BY FS_Subset DEF Preceding, InLine
<1>2. x \notin Preceding(S, R, x) /\ Preceding(S, R, x) \cup {x} \subseteq Preceding(S, R, y)
  BY DEF Preceding, InLine
<1>3. Cardinality(Preceding(S, R, x) \cup {x}) = Cardinality(Preceding(S, R, x)) + 1
  BY <1>1, <1>2, FS_AddElement
<1>4. Cardinality(Preceding(S, R, x) \cup {x}) <= Cardinality(Preceding(S, R, y))
  BY <1>1, <1>2, FS_Subset
<1>5. Cardinality(Preceding(S, R, x)) \in Nat /\ Cardinality(Preceding(S, R, y)) \in Nat
  BY <1>1, FS_CardinalityType
<1> QED BY <1>3, <1>4, <1>5 DEF Rank

LEMMA RankRange ==
  ASSUME NEW S, NEW R, InLine(S, R), NEW x \in S
  PROVE  Rank(S, R, x) + 1 \in 1 .. Cardinality(S) /\ Rank(S, R, x) \in Nat
<1>1. IsFiniteSet(S) /\ IsFiniteSet(Preceding(S, R, x))
  BY FS_Subset DEF Preceding, InLine
<1>2. Preceding(S, R, x) \subseteq S \ {x}
  BY DEF Preceding, InLine
<1>3. IsFiniteSet(S \ {x}) /\ Cardinality(S \ {x}) = Cardinality(S) - 1
  BY <1>1, FS_RemoveElement
<1>4. Cardinality(Preceding(S, R, x)) <= Cardinality(S \ {x})
  BY <1>2, <1>3, FS_Subset
<1>5. Cardinality(Preceding(S, R, x)) \in Nat /\ Cardinality(S) \in Nat
  BY <1>1, FS_CardinalityType
<1> QED BY <1>3, <1>4, <1>5 DEF Rank

LEMMA RankOnly ==
  ASSUME NEW S, NEW R, InLine(S, R), NEW x \in S, NEW y \in S, Rank(S, R, x) = Rank(S, R, y)
  PROVE  x = y
<1> SUFFICES ASSUME x # y PROVE FALSE OBVIOUS
<1>1. <<x, y>> \in R \/ <<y, x>> \in R BY DEF InLine
<1>2. Rank(S, R, x) < Rank(S, R, y) \/ Rank(S, R, y) < Rank(S, R, x) BY <1>1, RankGrows
<1>3. Rank(S, R, x) \in Nat /\ Rank(S, R, y) \in Nat BY RankRange
<1> QED BY <1>2, <1>3

\* Every rank is somebody's: the rank is an injection into as many places.
LEMMA EveryRank ==
  ASSUME NEW S, NEW R, InLine(S, R), NEW i \in 1 .. Cardinality(S)
  PROVE  \E x \in S : Rank(S, R, x) = i - 1
<1> DEFINE n == Cardinality(S)
           f == [x \in S |-> Rank(S, R, x) + 1]
<1>1. n \in Nat BY FS_CardinalityType DEF InLine
<1>2. \A x, y \in S : f[x] = f[y] => x = y
  <2>1. SUFFICES ASSUME NEW x \in S, NEW y \in S, f[x] = f[y] PROVE x = y
    OBVIOUS
  <2>2. Rank(S, R, x) \in Nat /\ Rank(S, R, y) \in Nat BY RankRange
  <2>3. Rank(S, R, x) = Rank(S, R, y) BY <2>1, <2>2
  <2> QED BY <2>3, RankOnly
<1>3. f \in [S -> 1 .. n] BY RankRange
<1>4. f \in Injection(S, 1 .. n)
  BY <1>2, <1>3 DEF Injection, IsInjective
<1>5. IsFiniteSet(1 .. n) /\ Cardinality(1 .. n) = n /\ IsFiniteSet(S)
  BY <1>1, FS_Interval DEF InLine
<1>6. f \in Surjection(S, 1 .. n)
  BY <1>4, <1>5, FS_Injection
<1>7. PICK x \in S : f[x] = i BY <1>6 DEF Surjection
<1>8. Rank(S, R, x) \in Nat BY RankRange
<1> QED BY <1>7, <1>8

LEMMA RankedEach ==
  ASSUME NEW S, NEW R, InLine(S, R), NEW i \in 1 .. Cardinality(S)
  PROVE  Ranked(S, R)[i] \in S /\ Rank(S, R, Ranked(S, R)[i]) = i - 1
<1>1. Ranked(S, R) = [j \in 1 .. Cardinality(S) |-> Placed(S, R, j)]
  BY DEF Ranked, Placed, Rank, Preceding
<1>2. Ranked(S, R)[i] = Placed(S, R, i) BY <1>1
<1>3. Placed(S, R, i) \in S /\ Rank(S, R, Placed(S, R, i)) = i - 1 BY EveryRank DEF Placed
<1> QED BY <1>2, <1>3

LEMMA RankedIs ==
  ASSUME NEW S, NEW R, InLine(S, R)
  PROVE  /\ Ranked(S, R) \in Seq(S) /\ Len(Ranked(S, R)) = Cardinality(S)
         /\ Cardinality(S) \in Nat /\ DOMAIN Ranked(S, R) = 1 .. Cardinality(S)
<1>1. Cardinality(S) \in Nat BY FS_CardinalityType DEF InLine
<1>2. DOMAIN Ranked(S, R) = 1 .. Cardinality(S) /\ Ranked(S, R) = [i \in 1 .. Cardinality(S) |-> Ranked(S, R)[i]]
  <2>1. Ranked(S, R) = [j \in 1 .. Cardinality(S) |-> Placed(S, R, j)]
    BY DEF Ranked, Placed, Rank, Preceding
  <2> QED BY <2>1
<1>3. Ranked(S, R) \in [1 .. Cardinality(S) -> S]
  <2> DEFINE l == Ranked(S, R)
  <2>1. \A i \in 1 .. Cardinality(S) : l[i] \in S BY RankedEach
  <2>2. l = [i \in 1 .. Cardinality(S) |-> l[i]] BY <1>2
  <2> HIDE DEF l
  <2>3. l \in [1 .. Cardinality(S) -> S] BY <2>1, <2>2
  <2> QED BY <2>3 DEF l
<1>4. Ranked(S, R) \in Seq(S) BY <1>1, <1>3 DEF Seq
<1>5. DOMAIN Ranked(S, R) = 1 .. Len(Ranked(S, R)) /\ Len(Ranked(S, R)) \in Nat
  BY <1>4, LenProperties
<1> QED BY <1>1, <1>2, <1>4, <1>5

LEMMA RankedAt ==
  ASSUME NEW S, NEW R, InLine(S, R), NEW x \in S
  PROVE  Ranked(S, R)[Rank(S, R, x) + 1] = x
<1> DEFINE i == Rank(S, R, x) + 1
           y == Ranked(S, R)[i]
<1>1. i \in 1 .. Cardinality(S) /\ Rank(S, R, x) \in Nat BY RankRange
<1>2. y \in S /\ Rank(S, R, y) = i - 1 BY <1>1, RankedEach
<1>3. Rank(S, R, y) = Rank(S, R, x) BY <1>1, <1>2
<1> HIDE DEF y
<1>4. y = x BY <1>2, <1>3, RankOnly
<1> QED BY <1>4 DEF y

-----------------------------------------------------------------------------
(* The tables, and the lists the statements read from them.                *)
Authors == Writers \cup {Reader}
TopicRow == [forum : ForumNames, by : Authors, last : Nat]
PostRow == [topic : Nat, by : Authors, at : Nat]
Counter == [count : Nat, activity : Nat]
TablesOk ==
  /\ topics \in Seq(TopicRow) /\ posts \in Seq(PostRow)
  /\ forums \in [ForumNames -> Counter]
  /\ \A p \in DOMAIN posts : posts[p].topic \in DOMAIN topics
  /\ 1 \in DOMAIN topics /\ 1 \in DOMAIN posts /\ fclock \in Nat

\* Nothing is ever deleted: a topic keeps its forum and its author, a post is kept as
\* it is.
RowsGrow ==
  /\ DOMAIN topics \subseteq DOMAIN topics'
  /\ \A t \in DOMAIN topics : topics'[t].forum = topics[t].forum /\ topics'[t].by = topics[t].by
  /\ DOMAIN posts \subseteq DOMAIN posts'
  /\ \A p \in DOMAIN posts : posts'[p] = posts[p]

InTime(S) == {e \in S \X S : Sooner(e[1], e[2])}
ByLife(f) == {e \in TopicsIn(f) \X TopicsIn(f) : Livelier(e[1], e[2])}

LEMMA RowsTyped ==
  ASSUME TablesOk
  PROVE  /\ DOMAIN topics = 1 .. Len(topics) /\ Len(topics) \in Nat
         /\ DOMAIN posts = 1 .. Len(posts) /\ Len(posts) \in Nat
         /\ \A t \in DOMAIN topics : topics[t] \in TopicRow
         /\ \A p \in DOMAIN posts : posts[p] \in PostRow
<1>1. topics \in Seq(TopicRow) /\ posts \in Seq(PostRow) BY DEF TablesOk
<1>2. DOMAIN topics = 1 .. Len(topics) /\ Len(topics) \in Nat BY <1>1, LenProperties
<1>3. DOMAIN posts = 1 .. Len(posts) /\ Len(posts) \in Nat BY <1>1, LenProperties
<1>4. \A t \in DOMAIN topics : topics[t] \in TopicRow BY <1>1, <1>2, ElementOfSeq
<1>5. \A p \in DOMAIN posts : posts[p] \in PostRow BY <1>1, <1>3, ElementOfSeq
<1> QED BY <1>2, <1>3, <1>4, <1>5

LEMMA TopicsInLine ==
  ASSUME TablesOk, NEW f
  PROVE  InLine(TopicsIn(f), ByLife(f)) /\ TopicsIn(f) \subseteq DOMAIN topics
<1>1. DOMAIN topics = 1 .. Len(topics) /\ Len(topics) \in Nat BY RowsTyped
<1>2. TopicsIn(f) \subseteq DOMAIN topics BY DEF TopicsIn
<1>3. IsFiniteSet(TopicsIn(f))
  <2>1. IsFiniteSet(DOMAIN topics) BY <1>1, FS_Interval
  <2> QED BY <1>2, <2>1, FS_Subset
<1>4. \A x, y \in TopicsIn(f) : <<x, y>> \in ByLife(f) <=> Livelier(x, y) BY DEF ByLife
<1>5. \A x \in TopicsIn(f) : x \in Nat /\ topics[x] \in TopicRow
  BY <1>1, <1>2, RowsTyped
<1>6. \A x \in TopicsIn(f) : x \in Nat /\ topics[x].last \in Nat BY <1>5 DEF TopicRow
<1>7. \A x \in TopicsIn(f) : ~Livelier(x, x) BY <1>6 DEF Livelier
<1>8. \A x, y \in TopicsIn(f) : x # y => Livelier(x, y) \/ Livelier(y, x) BY <1>6 DEF Livelier
<1>9. ASSUME NEW x \in TopicsIn(f), NEW y \in TopicsIn(f), NEW z \in TopicsIn(f), Livelier(x, y), Livelier(y, z)
      PROVE Livelier(x, z)
  BY <1>6, <1>9 DEF Livelier
<1> QED BY <1>2, <1>3, <1>4, <1>7, <1>8, <1>9 DEF InLine

LEMMA TopicsListed ==
  ASSUME TablesOk, NEW f
  PROVE  /\ ByActivity(f) \in Seq(TopicsIn(f))
         /\ Len(ByActivity(f)) = Cardinality(TopicsIn(f)) /\ Cardinality(TopicsIn(f)) \in Nat
         /\ \A t \in TopicsIn(f) : \E i \in 1 .. Len(ByActivity(f)) : ByActivity(f)[i] = t
<1>1. ByActivity(f) = Ranked(TopicsIn(f), ByLife(f)) BY DEF ByActivity, ByLife
<1>2. InLine(TopicsIn(f), ByLife(f)) BY TopicsInLine
<1>3. ByActivity(f) \in Seq(TopicsIn(f)) /\ Len(ByActivity(f)) = Cardinality(TopicsIn(f))
      /\ Cardinality(TopicsIn(f)) \in Nat
  BY <1>1, <1>2, RankedIs
<1>4. ASSUME NEW t \in TopicsIn(f) PROVE \E i \in 1 .. Len(ByActivity(f)) : ByActivity(f)[i] = t
  <2>1. Rank(TopicsIn(f), ByLife(f), t) + 1 \in 1 .. Cardinality(TopicsIn(f)) BY <1>2, RankRange
  <2>2. Ranked(TopicsIn(f), ByLife(f))[Rank(TopicsIn(f), ByLife(f), t) + 1] = t BY <1>2, RankedAt
  <2> QED BY <1>1, <1>3, <2>1, <2>2
<1> QED BY <1>3, <1>4

Until(t, n) == {p \in PostsIn(t) : p <= n}

LEMMA StoodWhole == ASSUME TablesOk, NEW t PROVE AsItStood(ListPostsInTopic(t), t)
<1>1. DOMAIN posts = 1 .. Len(posts) /\ Len(posts) \in Nat BY RowsTyped
<1>2. {p \in PostsIn(t) : p <= Len(posts)} = PostsIn(t) BY <1>1 DEF PostsIn
<1>3. ListPostsInTopic(t) = ByTime({p \in PostsIn(t) : p <= Len(posts)}) BY <1>2 DEF ListPostsInTopic
<1>4. \A s : s = ByTime({p \in PostsIn(t) : p <= Len(posts)}) => AsItStood(s, t)
  <2>1. Len(posts) \in 0 .. Len(posts) BY <1>1
  <2> QED BY <2>1, Zenon DEF AsItStood
<1> QED BY <1>3, <1>4, Zenon

LEMMA StoodEmpty == ASSUME TablesOk, NEW t PROVE AsItStood(<<>>, t)
<1>1. {p \in PostsIn(t) : p <= 0} = {} BY RowsTyped DEF PostsIn
<1>2. Cardinality({}) = 0 BY FS_EmptySet
<1>3. ByTime({}) = <<>> BY <1>2 DEF ByTime, Ranked
<1>4. Len(posts) \in Nat BY RowsTyped
<1>5. 0 \in 0 .. Len(posts) BY <1>4
<1> QED BY <1>1, <1>3, <1>5 DEF AsItStood

\* A post keeps its place among those that were there.
LEMMA StoodStill ==
  ASSUME TablesOk, TablesOk', RowsGrow, NEW s, NEW t, AsItStood(s, t)
  PROVE  AsItStood(s, t)'
<1>1. DOMAIN posts = 1 .. Len(posts) /\ Len(posts) \in Nat BY RowsTyped
<1>2. DOMAIN posts' = 1 .. Len(posts') /\ Len(posts') \in Nat
  <2>1. posts' \in Seq(PostRow') BY DEF TablesOk
  <2> QED BY <2>1, LenProperties
<1>3. Len(posts) <= Len(posts')
  <2>1. Len(posts) = 0 \/ Len(posts) \in DOMAIN posts BY <1>1
  <2> QED BY <1>1, <1>2, <2>1 DEF RowsGrow
<1>4. PICK n \in 0 .. Len(posts) : s = ByTime(Until(t, n)) BY DEF AsItStood, Until
<1>5. PICK S : S = Until(t, n) OBVIOUS
<1>6. Until(t, n)' = S
  <2>1. ASSUME NEW p PROVE p \in Until(t, n)' <=> p \in S
    <3>1. p \in Until(t, n)' <=> p \in DOMAIN posts' /\ posts'[p].topic = t /\ p <= n
      BY DEF Until, PostsIn
    <3>2. p \in S <=> p \in DOMAIN posts /\ posts[p].topic = t /\ p <= n
      BY <1>5 DEF Until, PostsIn
    <3>3. p \in DOMAIN posts' /\ p <= n => p \in DOMAIN posts BY <1>1, <1>2, <1>4
    <3>4. p \in DOMAIN posts => p \in DOMAIN posts' /\ posts'[p] = posts[p] BY DEF RowsGrow
    <3> QED BY <3>1, <3>2, <3>3, <3>4
  <2> QED BY <2>1
<1>7. \A p \in S : posts'[p] = posts[p] BY <1>5 DEF Until, PostsIn, RowsGrow
<1>8. InTime(S)' = InTime(S)
  <2>1. \A e \in S \X S : Sooner(e[1], e[2])' <=> Sooner(e[1], e[2]) BY <1>7 DEF Sooner
  <2> QED BY <2>1 DEF InTime
<1>9. ByTime(S)' = ByTime(S)
  <2>1. ByTime(S) = Ranked(S, InTime(S)) BY DEF ByTime, InTime
  <2>2. ByTime(S)' = Ranked(S, InTime(S)') BY DEF ByTime, InTime
  <2> QED BY <1>8, <2>1, <2>2
<1>10. s = ByTime(S)' BY <1>4, <1>5, <1>9
<1>11. s = ByTime(Until(t, n))' BY <1>6, <1>10 DEF ByTime, Sooner
<1>12. n \in 0 .. Len(posts') BY <1>1, <1>2, <1>3
<1> QED BY <1>11, <1>12 DEF AsItStood, Until

-----------------------------------------------------------------------------
(* The inductive invariant.                                                *)
ForumCallFields == {"k", "by", "step", "forum", "topic", "seq", "at", "list"}
BoardFields == {"mode", "listed", "seq", "forum", "topics", "cursor", "unread", "unreadForum", "topic",
                "posts", "stage", "err"}

\* A call knows rows that are there, and a load is not newer than the screen.
CreateRight(x) ==
  /\ x.by \in Authors /\ x.forum \in ForumNames
  /\ x.step # 1 => /\ x.topic \in DOMAIN topics /\ x.topic > 1
                   /\ topics[x.topic].forum = x.forum /\ topics[x.topic].by = x.by
ReplyRight(x) ==
  /\ x.by \in Authors /\ x.topic \in DOMAIN topics /\ x.forum = topics[x.topic].forum
  /\ x.step # 1 /\ x.by = Reader => HasWritten
CallRight(x) ==
  /\ x = [f \in ForumCallFields |-> x[f]] /\ x.at \in Nat
  /\ x.k = "create" => CreateRight(x)
  /\ x.k = "reply" => ReplyRight(x)
  /\ x.k = "topics" => /\ x.forum \in ForumNames /\ x.seq \in Nat /\ x.seq <= board.seq
                       /\ x.step # 1 => x.list \in Seq(DOMAIN topics)
  /\ x.k = "posts" => x.topic \in DOMAIN topics /\ x.seq \in Nat /\ x.seq <= board.seq
AnswerRight(m) ==
  /\ m.m = "topics" => /\ m.forum \in ForumNames /\ m.seq \in Nat /\ m.seq <= board.seq
                       /\ m.list \in Seq(DOMAIN topics)
  /\ m.m = "posts" => /\ m.topic \in DOMAIN topics /\ m.seq \in Nat /\ m.seq <= board.seq
                      /\ AsItStood(m.list, m.topic)
  /\ m.m = "topic" => HasWritten /\ m.topic \in DOMAIN topics /\ AsItStood(m.posts, m.topic)
  /\ m.m = "replied" => HasWritten
BoardRight ==
  /\ board = [f \in BoardFields |-> board[f]]
  /\ board.mode \in {"forums", "topics", "thread", "compose"}
  /\ board.seq \in Nat /\ board.cursor \in Nat
  /\ board.forum \in ForumNames \cup {NoForum}
  /\ board.topics \in Seq(DOMAIN topics)
  /\ board.topics # <<>> => board.cursor \in 1 .. Len(board.topics)
  /\ board.topic # Nil => board.topic \in DOMAIN topics /\ AsItStood(board.posts, board.topic)
WhatRuns ==
  /\ IsABag(running) /\ IsABag(inbox2)
  /\ \A x \in DOMAIN running : CallRight(x)
  /\ \A m \in DOMAIN inbox2 : AnswerRight(m)

\* A call that has made its topic and not counted it yet is the only one about it.
MakesTopic(x) == x.k = "create" /\ x.step \in {2, 3}
Alone ==
  /\ \A x \in DOMAIN running : MakesTopic(x) => running[x] = 1
  /\ \A x, y \in DOMAIN running : MakesTopic(x) /\ MakesTopic(y) /\ x.topic = y.topic => x = y
Uncounted(t) == \E x \in DOMAIN running : MakesTopic(x) /\ x.topic = t
CountedIn(f) == {t \in TopicsIn(f) : ~Uncounted(t)}
Counted == \A f \in ForumNames : forums[f].count = Cardinality(CountedIn(f))

\* A post that is later than its forum's time has a call that has yet to write that.
Posted(x) == (x.k = "create" /\ x.step = 3) \/ (x.k = "reply" /\ x.step \in {2, 3})
ForumOf(p) == topics[posts[p].topic].forum
StillToTime(f, at) == \E x \in DOMAIN running : Posted(x) /\ x.forum = f /\ x.at = at
Timed ==
  \A p \in DOMAIN posts :
    forums[ForumOf(p)].activity >= posts[p].at \/ StillToTime(ForumOf(p), posts[p].at)

\* While the reader has written nothing: an answer that the screen will take brings
\* it where it was asked to go. Until then it is where it was, and a load that has
\* failed leaves it there.
IsLoad(k) == k \in {"topics", "posts"}
Leads(k, f, t) ==
  /\ k = "topics" => wish.to[1] = "topics" /\ wish.to[2] = f
  /\ k = "posts" => wish.to[1] = "thread" /\ wish.to[2] = t
Landed == StandsAt(wish.to)
Stayed == StandsAt(wish.from)
Guided ==
  /\ wish.to[1] \in {"forums", "topics", "thread"}
  /\ wish.to[1] # "thread" \/ board.mode \in {"forums", "topics"} => board.topic = Nil
  /\ board.mode = "thread" => board.topic # Nil
  /\ \A x \in DOMAIN running : IsLoad(x.k) /\ x.seq = board.seq => Leads(x.k, x.forum, x.topic)
  /\ \A m \in DOMAIN inbox2 : m.m = "topics" /\ m.seq = board.seq => Leads("topics", m.forum, Nil)
  /\ \A m \in DOMAIN inbox2 : m.m = "posts" /\ m.seq = board.seq => Leads("posts", NoForum, m.topic)
  /\ Landed \/ (Stayed /\ (Awaited \/ wish.lost))

BoardInv ==
  /\ TablesOk /\ WhatRuns /\ BoardRight /\ Alone
  /\ ~ForumFaults => Counted /\ Timed
  /\ ~HasWritten => Guided

-----------------------------------------------------------------------------
(* What a step does to the calls and the answers.                          *)
Moves(X, Y) ==
  /\ IsABag(running') /\ DOMAIN running' \subseteq DOMAIN running \cup Y /\ Y \subseteq DOMAIN running'
  /\ \A e \in DOMAIN running \ X : e \in DOMAIN running' /\ (e \notin Y => running'[e] = running[e])
  /\ \A x \in X \ Y : running[x] = 1 => x \notin DOMAIN running'
  /\ \A y \in Y : y \notin DOMAIN running => running'[y] = 1
InboxMoves(M, N) ==
  /\ IsABag(inbox2') /\ DOMAIN inbox2' \subseteq DOMAIN inbox2 \cup N /\ N \subseteq DOMAIN inbox2'
  /\ \A e \in DOMAIN inbox2 \ M : e \in DOMAIN inbox2'

LEMMA GoingMoves ==
  ASSUME IsABag(running), NEW x \in DOMAIN running, NEW y, Going(x, y)
  PROVE  Moves({x}, {y})
<1> DEFINE B == TakeOut(running, x)
<1>1. running' = PutIn(B, {y}) BY DEF Going, PutIn, TakeOut
<1>2. IsABag(B) /\ DOMAIN B \subseteq DOMAIN running BY TakeOutBag
<1>3. \A e \in DOMAIN running : e # x => e \in DOMAIN B /\ B[e] = running[e] BY TakeOutKeeps
<1>4. running[x] = 1 => x \notin DOMAIN B BY TakeOutGone
<1> HIDE DEF B
<1>5. IsABag(running') /\ DOMAIN running' = DOMAIN B \cup {y} BY <1>1, <1>2, PutInBag
<1>6. ASSUME NEW e \in DOMAIN B, e # y PROVE running'[e] = B[e]
  <2>1. e \notin {y} BY <1>6
  <2> QED BY <1>1, <1>2, <2>1, PutInKeeps
<1>7. y \notin DOMAIN B => running'[y] = 1 BY <1>1, <1>2, PutInNew
<1> QED BY <1>2, <1>3, <1>4, <1>5, <1>6, <1>7 DEF Moves

LEMMA GoneMoves ==
  ASSUME IsABag(running), NEW x \in DOMAIN running, Gone(x)
  PROVE  Moves({x}, {})
<1>1. running' = TakeOut(running, x) BY DEF Gone, TakeOut
<1>2. IsABag(running') /\ DOMAIN running' \subseteq DOMAIN running BY <1>1, TakeOutBag
<1>3. \A e \in DOMAIN running : e # x => e \in DOMAIN running' /\ running'[e] = running[e]
  BY <1>1, TakeOutKeeps
<1>4. running[x] = 1 => x \notin DOMAIN running' BY <1>1, TakeOutGone
<1> QED BY <1>2, <1>3, <1>4 DEF Moves

LEMMA StartMoves ==
  ASSUME IsABag(running), NEW y, StartTask(y)
  PROVE  Moves({}, {y})
<1>1. running' = PutIn(running, {y}) BY DEF StartTask, PutIn
<1>2. IsABag(running') /\ DOMAIN running' = DOMAIN running \cup {y} BY <1>1, PutInBag
<1>3. ASSUME NEW e \in DOMAIN running, e # y PROVE running'[e] = running[e]
  <2>1. e \notin {y} BY <1>3
  <2> QED BY <1>1, <2>1, PutInKeeps
<1>4. y \notin DOMAIN running => running'[y] = 1 BY <1>1, PutInNew
<1> QED BY <1>2, <1>3, <1>4 DEF Moves

LEMMA NothingMoves == ASSUME IsABag(running), UNCHANGED running PROVE Moves({}, {})
BY DEF Moves
LEMMA NothingHeard == ASSUME IsABag(inbox2), UNCHANGED inbox2 PROVE InboxMoves({}, {})
BY DEF InboxMoves

LEMMA AnswerHeard ==
  ASSUME IsABag(inbox2), NEW m, Answer(m)
  PROVE  InboxMoves({}, {m})
<1>1. inbox2' = PutIn(inbox2, {m}) BY DEF Answer, PutIn
<1>2. IsABag(inbox2') /\ DOMAIN inbox2' = DOMAIN inbox2 \cup {m} BY <1>1, PutInBag
<1> QED BY <1>2 DEF InboxMoves

LEMMA GotHeard ==
  ASSUME IsABag(inbox2), NEW m \in DOMAIN inbox2, Got(m)
  PROVE  InboxMoves({m}, {})
<1>1. inbox2' = TakeOut(inbox2, m) BY DEF Got, TakeOut
<1>2. IsABag(inbox2') /\ DOMAIN inbox2' \subseteq DOMAIN inbox2 BY <1>1, TakeOutBag
<1>3. \A e \in DOMAIN inbox2 : e # m => e \in DOMAIN inbox2' BY <1>1, TakeOutKeeps
<1> QED BY <1>2, <1>3 DEF InboxMoves

-----------------------------------------------------------------------------
(* What stays true of what a step leaves alone.                            *)
Onward ==
  /\ TablesOk /\ TablesOk' /\ RowsGrow
  /\ board.seq \in Nat /\ board.seq' \in Nat /\ board.seq <= board.seq'

LEMMA WrittenStays ==
  ASSUME TablesOk, RowsGrow, HasWritten PROVE HasWritten'
BY DEF HasWritten, RowsGrow

LEMMA KeptSeq ==
  ASSUME NEW S, NEW T, S \subseteq T, NEW s \in Seq(S) PROVE s \in Seq(T)
OBVIOUS

LEMMA CallStays ==
  ASSUME Onward, NEW x, CallRight(x) PROVE CallRight(x)'
<1>1. DOMAIN topics \subseteq DOMAIN topics'
      /\ \A t \in DOMAIN topics : topics'[t].forum = topics[t].forum /\ topics'[t].by = topics[t].by
  BY DEF Onward, RowsGrow
<1>2. HasWritten => HasWritten' BY WrittenStays DEF Onward
<1>3. \A n \in Nat : n <= board.seq => n <= board.seq' BY DEF Onward
<1>4. x.k = "create" => CreateRight(x)' BY <1>1 DEF CallRight, CreateRight
<1>5. x.k = "reply" => ReplyRight(x)' BY <1>1, <1>2 DEF CallRight, ReplyRight
<1>6. x.k = "topics" => /\ x.forum \in ForumNames /\ x.seq \in Nat /\ x.seq <= board.seq'
                        /\ x.step # 1 => x.list \in Seq(DOMAIN topics')
  BY <1>1, <1>3, KeptSeq DEF CallRight
<1>7. x.k = "posts" => x.topic \in DOMAIN topics' /\ x.seq \in Nat /\ x.seq <= board.seq'
  BY <1>1, <1>3 DEF CallRight
<1> QED BY <1>4, <1>5, <1>6, <1>7 DEF CallRight

LEMMA AnswerStays ==
  ASSUME Onward, NEW m, AnswerRight(m) PROVE AnswerRight(m)'
<1>1. DOMAIN topics \subseteq DOMAIN topics' BY DEF Onward, RowsGrow
<1>2. HasWritten => HasWritten' BY WrittenStays DEF Onward
<1>3. \A n \in Nat : n <= board.seq => n <= board.seq' BY DEF Onward
<1>4. \A s, t : AsItStood(s, t) => AsItStood(s, t)' BY StoodStill DEF Onward
<1>5. m.m = "topics" => /\ m.forum \in ForumNames /\ m.seq \in Nat /\ m.seq <= board.seq'
                        /\ m.list \in Seq(DOMAIN topics')
  BY <1>1, <1>3, KeptSeq DEF AnswerRight
<1>6. m.m = "posts" => /\ m.topic \in DOMAIN topics' /\ m.seq \in Nat /\ m.seq <= board.seq'
                       /\ AsItStood(m.list, m.topic)'
  BY <1>1, <1>3, <1>4 DEF AnswerRight
<1>7. m.m = "topic" => HasWritten' /\ m.topic \in DOMAIN topics' /\ AsItStood(m.posts, m.topic)'
  BY <1>1, <1>2, <1>4 DEF AnswerRight
<1>8. m.m = "replied" => HasWritten' BY <1>2 DEF AnswerRight
<1> QED BY <1>5, <1>6, <1>7, <1>8 DEF AnswerRight

LEMMA RunsOn ==
  ASSUME Onward, WhatRuns, NEW X, NEW Y, NEW M, NEW N, Moves(X, Y), InboxMoves(M, N),
         \A y \in Y : CallRight(y)', \A m \in N : AnswerRight(m)'
  PROVE  WhatRuns'
<1>1. \A x \in DOMAIN running : CallRight(x)' BY CallStays DEF WhatRuns
<1>2. \A m \in DOMAIN inbox2 : AnswerRight(m)' BY AnswerStays DEF WhatRuns
<1>3. \A x \in DOMAIN running' : CallRight(x)' BY <1>1 DEF Moves
<1>4. \A m \in DOMAIN inbox2' : AnswerRight(m)' BY <1>2 DEF InboxMoves
<1> QED BY <1>3, <1>4 DEF WhatRuns, Moves, InboxMoves

LEMMA BoardStays ==
  ASSUME Onward, BoardRight, UNCHANGED board PROVE BoardRight'
<1>1. DOMAIN topics \subseteq DOMAIN topics' BY DEF Onward, RowsGrow
<1>2. board.topics \in Seq(DOMAIN topics') BY <1>1, KeptSeq DEF BoardRight
<1>3. \A s, t : AsItStood(s, t) => AsItStood(s, t)' BY StoodStill DEF Onward
<1>4. board.topic # Nil => board.topic \in DOMAIN topics' /\ AsItStood(board.posts, board.topic)'
  <2>1. SUFFICES ASSUME board.topic # Nil
                 PROVE board.topic \in DOMAIN topics' /\ AsItStood(board.posts, board.topic)'
    OBVIOUS
  <2> DEFINE s == board.posts
             t == board.topic
  <2>2. AsItStood(s, t) /\ t \in DOMAIN topics BY <2>1 DEF BoardRight
  <2>3. board.posts' = s /\ board.topic' = t OBVIOUS
  <2>4. AsItStood(s, t)' BY <1>3, <2>2
  <2> QED BY <1>1, <2>2, <2>3, <2>4
<1> QED BY <1>2, <1>4 DEF BoardRight

LEMMA AloneStays ==
  ASSUME Alone, NEW X, NEW Y, Moves(X, Y), \A y \in Y : ~MakesTopic(y)
  PROVE  Alone'
<1>1. ASSUME NEW x \in DOMAIN running', MakesTopic(x) PROVE x \in DOMAIN running /\ running'[x] = 1
  <2>1. x \notin Y /\ x \in DOMAIN running BY <1>1 DEF Moves
  <2>2. running[x] = 1 BY <1>1, <2>1 DEF Alone
  <2>3. x \notin X BY <1>1, <2>1, <2>2 DEF Moves
  <2> QED BY <2>1, <2>2, <2>3 DEF Moves
<1>2. \A x \in DOMAIN running' : MakesTopic(x) => running'[x] = 1 BY <1>1
<1>3. \A x, y \in DOMAIN running' : MakesTopic(x) /\ MakesTopic(y) /\ x.topic = y.topic => x = y
  BY <1>1 DEF Alone
<1> QED BY <1>2, <1>3 DEF Alone, MakesTopic

\* A call that goes on with its topic, or begins with a new one.
LEMMA AloneMoves ==
  ASSUME Alone, NEW X, NEW y, Moves(X, {y}), y \notin DOMAIN running,
         \A e \in DOMAIN running \ X : MakesTopic(e) => e.topic # y.topic
  PROVE  Alone'
<1>1. ASSUME NEW x \in DOMAIN running', MakesTopic(x), x # y
      PROVE x \in DOMAIN running \ X /\ running'[x] = 1
  <2>1. x \in DOMAIN running BY <1>1 DEF Moves
  <2>2. running[x] = 1 BY <1>1, <2>1 DEF Alone
  <2>3. x \notin X BY <1>1, <2>1, <2>2 DEF Moves
  <2> QED BY <1>1, <2>1, <2>2, <2>3 DEF Moves
<1>2. running'[y] = 1 BY DEF Moves
<1>3. \A x \in DOMAIN running' : MakesTopic(x) => running'[x] = 1 BY <1>1, <1>2
<1>4. \A x, z \in DOMAIN running' : MakesTopic(x) /\ MakesTopic(z) /\ x.topic = z.topic => x = z
  BY <1>1 DEF Alone
<1> QED BY <1>3, <1>4 DEF Alone, MakesTopic

-----------------------------------------------------------------------------
(* The forums' counters.                                                   *)
LEMMA CountedStays ==
  ASSUME Counted, \A f \in ForumNames : CountedIn(f)' = CountedIn(f) /\ forums'[f].count = forums[f].count
  PROVE  Counted'
BY DEF Counted

\* Rows that stay, calls that go on with the same topic or have none.
LEMMA SameCounted ==
  ASSUME Alone, NEW X, NEW Y, Moves(X, Y), DOMAIN topics' = DOMAIN topics,
         \A t \in DOMAIN topics : topics'[t].forum = topics[t].forum,
         \A y \in Y : MakesTopic(y) => Uncounted(y.topic),
         \A x \in X : MakesTopic(x) => \E y \in Y : MakesTopic(y) /\ y.topic = x.topic,
         NEW f
  PROVE  CountedIn(f)' = CountedIn(f)
<1>1. ASSUME NEW t, Uncounted(t) PROVE Uncounted(t)'
  <2>1. PICK x \in DOMAIN running : MakesTopic(x) /\ x.topic = t BY <1>1 DEF Uncounted
  <2>2. CASE x \in X
    <3>1. PICK y \in Y : MakesTopic(y) /\ y.topic = t BY <2>1, <2>2
    <3>2. y \in DOMAIN running' BY DEF Moves
    <3> QED BY <3>1, <3>2 DEF Uncounted, MakesTopic
  <2>3. CASE x \notin X
    <3>1. x \in DOMAIN running' BY <2>3 DEF Moves
    <3> QED BY <2>1, <3>1 DEF Uncounted, MakesTopic
  <2> QED BY <2>2, <2>3
<1>2. ASSUME NEW t, Uncounted(t)' PROVE Uncounted(t)
  <2>1. PICK x \in DOMAIN running' : MakesTopic(x) /\ x.topic = t BY <1>2 DEF Uncounted, MakesTopic
  <2>2. CASE x \in Y BY <2>1, <2>2
  <2>3. CASE x \notin Y
    <3>1. x \in DOMAIN running BY <2>3 DEF Moves
    <3> QED BY <2>1, <3>1 DEF Uncounted
  <2> QED BY <2>2, <2>3
<1>3. TopicsIn(f)' = TopicsIn(f) BY DEF TopicsIn
<1>4. \A t : Uncounted(t)' <=> Uncounted(t) BY <1>1, <1>2
<1> QED BY <1>3, <1>4 DEF CountedIn

LEMMA FiniteCounted ==
  ASSUME TablesOk, NEW f PROVE IsFiniteSet(CountedIn(f)) /\ Cardinality(CountedIn(f)) \in Nat
<1>1. IsFiniteSet(TopicsIn(f)) BY TopicsInLine DEF InLine
<1>2. CountedIn(f) \subseteq TopicsIn(f) BY DEF CountedIn
<1>3. IsFiniteSet(CountedIn(f)) BY <1>1, <1>2, FS_Subset
<1> QED BY <1>3, FS_CardinalityType

LEMMA TimedStays ==
  ASSUME Onward, Timed, NEW X, NEW Y, Moves(X, Y),
         \A f \in ForumNames : forums'[f].activity >= forums[f].activity,
         \A x \in X : Posted(x) /\ x.forum \in ForumNames =>
           \/ forums'[x.forum].activity >= x.at
           \/ \E y \in Y : Posted(y) /\ y.forum = x.forum /\ y.at = x.at,
         \A p \in DOMAIN posts' \ DOMAIN posts :
           \E y \in Y : Posted(y) /\ y.forum = ForumOf(p)' /\ y.at = posts'[p].at
  PROVE  Timed'
<1> SUFFICES ASSUME NEW p \in DOMAIN posts'
             PROVE  \/ forums'[ForumOf(p)'].activity >= posts'[p].at
                    \/ StillToTime(ForumOf(p), posts[p].at)'
  BY DEF Timed
<1>1. CASE p \notin DOMAIN posts
  <2>1. PICK y \in Y : Posted(y) /\ y.forum = ForumOf(p)' /\ y.at = posts'[p].at BY <1>1
  <2>2. y \in DOMAIN running' BY DEF Moves
  <2> QED BY <2>1, <2>2 DEF StillToTime, Posted
<1>2. CASE p \in DOMAIN posts
  <2> DEFINE f == ForumOf(p)
             at == posts[p].at
  <2>1. posts'[p] = posts[p] /\ posts[p].topic \in DOMAIN topics BY <1>2 DEF Onward, RowsGrow, TablesOk
  <2>2. ForumOf(p)' = f BY <2>1 DEF ForumOf, Onward, RowsGrow
  <2>3. topics[posts[p].topic] \in TopicRow /\ posts[p] \in PostRow BY <1>2, <2>1, RowsTyped DEF Onward
  <2>4. f \in ForumNames /\ at \in Nat BY <2>3 DEF TopicRow, PostRow, ForumOf
  <2>5. forums[f].activity \in Nat /\ forums'[f].activity \in Nat
    BY <2>4 DEF Onward, TablesOk, Counter
  <2>6. forums[f].activity >= at \/ StillToTime(f, at) BY <1>2 DEF Timed
  <2> HIDE DEF f, at
  <2>7. CASE forums[f].activity >= at
    <3>1. forums'[f].activity >= forums[f].activity BY <2>4
    <3>2. forums'[f].activity >= at BY <2>4, <2>5, <2>7, <3>1
    <3> QED BY <2>1, <2>2, <3>2 DEF at
  <2>8. CASE StillToTime(f, at)
    <3>1. PICK x \in DOMAIN running : Posted(x) /\ x.forum = f /\ x.at = at
      BY <2>8 DEF StillToTime
    <3>2. CASE x \notin X
      <4>1. x \in DOMAIN running' BY <3>2 DEF Moves
      <4> QED BY <2>1, <2>2, <3>1, <4>1 DEF StillToTime, Posted, at, f
    <3>3. CASE x \in X
      <4>1. forums'[f].activity >= at \/ \E y \in Y : Posted(y) /\ y.forum = f /\ y.at = at
        BY <2>4, <3>1, <3>3
      <4>2. ASSUME NEW y \in Y, Posted(y), y.forum = f, y.at = at PROVE StillToTime(f, at)'
        <5>1. y \in DOMAIN running' BY DEF Moves
        <5>2. \E z \in DOMAIN running' : Posted(z) /\ z.forum = f /\ z.at = at BY <4>2, <5>1
        <5> QED BY <2>1, <2>2, <5>2 DEF StillToTime, Posted, at, f
      <4> QED BY <2>1, <2>2, <4>1, <4>2 DEF at, f
    <3> QED BY <3>2, <3>3
  <2> QED BY <2>6, <2>7, <2>8
<1> QED BY <1>1, <1>2

-----------------------------------------------------------------------------
(* Where the screen is going.                                              *)
LoadMsg(m) == m.m \in {"topics", "posts"}
\* A step of a call: where the screen goes and comes from stays as it was.
WishKept == wish'.to = wish.to /\ wish'.from = wish.from /\ (wish.lost => wish'.lost)
LEMMA StillKept == ASSUME wish' = wish PROVE WishKept
BY DEF WishKept
\* A load that goes on, to its next statement or to its answer, or is lost.
LoadLost(x) == x.seq = board.seq => wish'.lost
Same(x, y) == y.k = x.k /\ y.seq = x.seq /\ y.forum = x.forum /\ y.topic = x.topic
Brings(x, m) ==
  /\ m.m = x.k /\ m.seq = x.seq
  /\ x.k = "topics" => m.forum = x.forum
  /\ x.k = "posts" => m.topic = x.topic

LEMMA GuidedStays ==
  ASSUME Guided, NEW X, NEW Y, NEW N, Moves(X, Y), InboxMoves({}, N), board' = board, WishKept,
         X \subseteq DOMAIN running,
         \A y \in Y : IsLoad(y.k) => \E x \in X : Same(x, y),
         \A m \in N : LoadMsg(m) => \E x \in X : Brings(x, m),
         \A x \in X : IsLoad(x.k) =>
           (\E y \in Y : Same(x, y)) \/ (\E m \in N : Brings(x, m)) \/ LoadLost(x)
  PROVE  Guided'
<1>0. \A k, f, t : Leads(k, f, t)' <=> Leads(k, f, t) BY DEF Leads, WishKept
<1>1. ASSUME NEW x \in DOMAIN running', IsLoad(x.k), x.seq = board.seq PROVE Leads(x.k, x.forum, x.topic)
  <2>1. CASE x \in Y
    <3>1. PICK w \in X : Same(w, x) BY <1>1, <2>1
    <3> QED BY <1>1, <3>1 DEF Same, Guided, Leads
  <2>2. CASE x \notin Y
    <3>1. x \in DOMAIN running BY <2>2 DEF Moves
    <3> QED BY <1>1, <3>1 DEF Guided
  <2> QED BY <2>1, <2>2
<1>2. ASSUME NEW m \in DOMAIN inbox2', m.m = "topics", m.seq = board.seq PROVE Leads("topics", m.forum, Nil)
  <2>1. CASE m \in N
    <3>1. PICK w \in X : Brings(w, m) BY <1>2, <2>1 DEF LoadMsg
    <3> QED BY <1>2, <3>1 DEF Brings, Guided, Leads, IsLoad
  <2>2. CASE m \notin N
    <3>1. m \in DOMAIN inbox2 BY <2>2 DEF InboxMoves
    <3> QED BY <1>2, <3>1 DEF Guided
  <2> QED BY <2>1, <2>2
<1>3. ASSUME NEW m \in DOMAIN inbox2', m.m = "posts", m.seq = board.seq PROVE Leads("posts", NoForum, m.topic)
  <2>1. CASE m \in N
    <3>1. PICK w \in X : Brings(w, m) BY <1>3, <2>1 DEF LoadMsg
    <3> QED BY <1>3, <3>1 DEF Brings, Guided, Leads, IsLoad
  <2>2. CASE m \notin N
    <3>1. m \in DOMAIN inbox2 BY <2>2 DEF InboxMoves
    <3> QED BY <1>3, <3>1 DEF Guided
  <2> QED BY <2>1, <2>2
<1>4. ASSUME Awaited PROVE Awaited' \/ wish'.lost
  <2>1. CASE \E m \in DOMAIN inbox2 : m.m \in {"topics", "posts"} /\ m.seq = board.seq
    <3>1. PICK m \in DOMAIN inbox2 : m.m \in {"topics", "posts"} /\ m.seq = board.seq BY <2>1
    <3>2. m \in DOMAIN inbox2' BY DEF InboxMoves
    <3> QED BY <3>1, <3>2 DEF Awaited
  <2>2. CASE \E x \in DOMAIN running : x.k \in {"topics", "posts"} /\ x.seq = board.seq
    <3>1. PICK x \in DOMAIN running : IsLoad(x.k) /\ x.seq = board.seq BY <2>2 DEF IsLoad
    <3>2. CASE x \notin X
      <4>1. x \in DOMAIN running' BY <3>2 DEF Moves
      <4> QED BY <3>1, <4>1 DEF Awaited, IsLoad
    <3>3. ASSUME NEW y \in Y, x \in X, Same(x, y) PROVE Awaited'
      <4>1. y \in DOMAIN running' BY DEF Moves
      <4> QED BY <3>1, <3>3, <4>1 DEF Awaited, IsLoad, Same
    <3>4. ASSUME NEW m \in N, x \in X, Brings(x, m) PROVE Awaited'
      <4>1. m \in DOMAIN inbox2' BY DEF InboxMoves
      <4> QED BY <3>1, <3>4, <4>1 DEF Awaited, IsLoad, Brings
    <3>5. LoadLost(x) => wish'.lost BY <3>1 DEF LoadLost
    <3> QED BY <3>1, <3>2, <3>3, <3>4, <3>5
  <2> QED BY <1>4, <2>1, <2>2 DEF Awaited
<1>5. (Landed => Landed') /\ (Stayed => Stayed') BY DEF Landed, Stayed, StandsAt, Beneath, WishKept
<1>6. Landed' \/ (Stayed' /\ (Awaited' \/ wish'.lost)) BY <1>4, <1>5 DEF Guided, WishKept
<1>7. wish'.to = wish.to BY DEF WishKept
<1> QED BY <1>0, <1>1, <1>2, <1>3, <1>6, <1>7 DEF Guided

-----------------------------------------------------------------------------
(* Statements.                                                             *)
SameRows == UNCHANGED <<forums, topics, posts, fclock>>

LEMMA RowsStay == ASSUME TablesOk, UNCHANGED <<forums, topics, posts>>, fclock' \in Nat PROVE TablesOk' /\ RowsGrow
BY DEF TablesOk, RowsGrow

LEMMA TopicMade ==
  ASSUME TablesOk, NEW f \in ForumNames, NEW u \in Authors, NEW at \in Nat, CreateTopicRow(f, u, at),
         UNCHANGED <<forums, posts, fclock>>
  PROVE  /\ TablesOk' /\ RowsGrow
         /\ Len(topics) + 1 \notin DOMAIN topics /\ Len(topics) + 1 > 1
         /\ DOMAIN topics' = DOMAIN topics \cup {Len(topics) + 1}
         /\ topics'[Len(topics) + 1] = [forum |-> f, by |-> u, last |-> at]
         /\ \A t \in DOMAIN topics : topics'[t] = topics[t]
<1> DEFINE row == [forum |-> f, by |-> u, last |-> at]
<1>1. row \in TopicRow BY DEF TopicRow
<1>2. topics \in Seq(TopicRow) /\ topics' = Append(topics, row) BY DEF TablesOk, CreateTopicRow
<1> HIDE DEF row
<1>3. /\ topics' \in Seq(TopicRow) /\ Len(topics') = Len(topics) + 1
      /\ \A i \in 1 .. Len(topics) : topics'[i] = topics[i]
      /\ topics'[Len(topics) + 1] = row
  BY <1>1, <1>2, AppendProperties
<1>4. DOMAIN topics = 1 .. Len(topics) /\ Len(topics) \in Nat BY <1>2, LenProperties
<1>5. DOMAIN topics' = 1 .. Len(topics') BY <1>3, LenProperties
<1>6. DOMAIN topics' = DOMAIN topics \cup {Len(topics) + 1} BY <1>3, <1>4, <1>5
<1>7. Len(topics) + 1 \notin DOMAIN topics /\ Len(topics) + 1 > 1 BY <1>4 DEF TablesOk
<1>8. RowsGrow BY <1>3, <1>4, <1>6 DEF RowsGrow
<1>9. TablesOk' BY <1>3, <1>6 DEF TablesOk
<1>10. topics'[Len(topics) + 1] = [forum |-> f, by |-> u, last |-> at] BY <1>3 DEF row
<1> QED BY <1>3, <1>4, <1>6, <1>7, <1>8, <1>9, <1>10

LEMMA PostMade ==
  ASSUME TablesOk, NEW t \in DOMAIN topics, NEW u \in Authors, NEW at \in Nat, CreatePost(t, u, at),
         UNCHANGED <<forums, topics, fclock>>
  PROVE  /\ TablesOk' /\ RowsGrow
         /\ Len(posts) + 1 \notin DOMAIN posts /\ Len(posts) + 1 > 1
         /\ DOMAIN posts' = DOMAIN posts \cup {Len(posts) + 1}
         /\ posts'[Len(posts) + 1] = [topic |-> t, by |-> u, at |-> at]
<1> DEFINE row == [topic |-> t, by |-> u, at |-> at]
<1>0. t \in Nat BY RowsTyped
<1>1. row \in PostRow BY <1>0 DEF PostRow
<1>2. posts \in Seq(PostRow) /\ posts' = Append(posts, row) BY DEF TablesOk, CreatePost
<1>x. row.topic = t OBVIOUS
<1> HIDE DEF row
<1>3. /\ posts' \in Seq(PostRow) /\ Len(posts') = Len(posts) + 1
      /\ \A i \in 1 .. Len(posts) : posts'[i] = posts[i]
      /\ posts'[Len(posts) + 1] = row
  BY <1>1, <1>2, AppendProperties
<1>4. DOMAIN posts = 1 .. Len(posts) /\ Len(posts) \in Nat BY <1>2, LenProperties
<1>5. DOMAIN posts' = 1 .. Len(posts') BY <1>3, LenProperties
<1>6. DOMAIN posts' = DOMAIN posts \cup {Len(posts) + 1} BY <1>3, <1>4, <1>5
<1>7. Len(posts) + 1 \notin DOMAIN posts /\ Len(posts) + 1 > 1 BY <1>4 DEF TablesOk
<1>8. RowsGrow BY <1>3, <1>4, <1>6 DEF RowsGrow
<1>9. \A p \in DOMAIN posts' : posts'[p].topic \in DOMAIN topics
  BY <1>3, <1>4, <1>6, <1>x DEF TablesOk
<1>10. TablesOk' BY <1>3, <1>6, <1>9 DEF TablesOk
<1>11. posts'[Len(posts) + 1] = [topic |-> t, by |-> u, at |-> at] BY <1>3 DEF row
<1> QED BY <1>6, <1>7, <1>8, <1>10, <1>11

LEMMA TopicTouched ==
  ASSUME TablesOk, NEW t \in DOMAIN topics, NEW at \in Nat, TouchTopicLastPost(t, at),
         UNCHANGED <<forums, posts, fclock>>
  PROVE  /\ TablesOk' /\ RowsGrow /\ DOMAIN topics' = DOMAIN topics
         /\ \A s \in DOMAIN topics : topics'[s].forum = topics[s].forum
<1>1. topics' = [topics EXCEPT ![t].last = at] /\ topics \in Seq(TopicRow)
  BY DEF TouchTopicLastPost, TablesOk
<1>2. topics \in [DOMAIN topics -> TopicRow] /\ DOMAIN topics = 1 .. Len(topics) /\ Len(topics) \in Nat
  BY <1>1, LenProperties
<1>3. topics' \in [DOMAIN topics -> TopicRow] BY <1>1, <1>2 DEF TopicRow
<1>4. topics' \in Seq(TopicRow) /\ DOMAIN topics' = DOMAIN topics BY <1>2, <1>3 DEF Seq
<1>5. \A s \in DOMAIN topics : topics'[s].forum = topics[s].forum /\ topics'[s].by = topics[s].by
  BY <1>1, <1>2 DEF TopicRow
<1>6. TablesOk' BY <1>4 DEF TablesOk
<1> QED BY <1>4, <1>5, <1>6 DEF RowsGrow

LEMMA LaterIs == ASSUME NEW a \in Nat, NEW b \in Nat PROVE Later(a, b) \in Nat /\ Later(a, b) >= a /\ Later(a, b) >= b
BY DEF Later

LEMMA ForumBumped ==
  ASSUME TablesOk, NEW f \in ForumNames, NEW at \in Nat, IncrementForumTopicCount(f, at),
         UNCHANGED <<topics, posts, fclock>>
  PROVE  /\ TablesOk' /\ RowsGrow
         /\ \A g \in ForumNames : forums'[g].count = forums[g].count + (IF g = f THEN 1 ELSE 0)
         /\ \A g \in ForumNames : forums'[g].activity >= forums[g].activity
         /\ forums'[f].activity >= at
<1>1. forums' = [forums EXCEPT ![f] = [count |-> @.count + 1, activity |-> Later(@.activity, at)]]
  BY DEF IncrementForumTopicCount
<1>2. forums \in [ForumNames -> Counter] BY DEF TablesOk
<1> DEFINE new == Later(forums[f].activity, at)
<1>3. forums[f].activity \in Nat /\ forums[f].count \in Nat BY <1>2 DEF Counter
<1>4. new \in Nat /\ new >= forums[f].activity /\ new >= at BY <1>3, LaterIs
<1>5. forums' = [forums EXCEPT ![f] = [count |-> forums[f].count + 1, activity |-> new]]
  BY <1>1, <1>2
<1> HIDE DEF new
<1>6. forums' \in [ForumNames -> Counter] BY <1>2, <1>3, <1>4, <1>5 DEF Counter
<1>7. \A g \in ForumNames : forums[g].activity \in Nat /\ forums[g].count \in Nat BY <1>2 DEF Counter
<1>8. \A g \in ForumNames : /\ forums'[g].count = forums[g].count + (IF g = f THEN 1 ELSE 0)
                            /\ forums'[g].activity >= forums[g].activity
  BY <1>2, <1>4, <1>5, <1>7
<1>9. forums'[f].activity >= at BY <1>2, <1>4, <1>5
<1> QED BY <1>6, <1>8, <1>9 DEF TablesOk, RowsGrow

LEMMA ForumTimed ==
  ASSUME TablesOk, NEW f \in ForumNames, NEW at \in Nat, TouchForumLastActivity(f, at),
         UNCHANGED <<topics, posts, fclock>>
  PROVE  /\ TablesOk' /\ RowsGrow
         /\ \A g \in ForumNames : forums'[g].count = forums[g].count
         /\ \A g \in ForumNames : forums'[g].activity >= forums[g].activity
         /\ forums'[f].activity >= at
<1>1. forums' = [forums EXCEPT ![f].activity = Later(@, at)]
  BY DEF TouchForumLastActivity
<1>2. forums \in [ForumNames -> Counter] BY DEF TablesOk
<1> DEFINE new == Later(forums[f].activity, at)
<1>3. forums[f].activity \in Nat /\ forums[f].count \in Nat BY <1>2 DEF Counter
<1>4. new \in Nat /\ new >= forums[f].activity /\ new >= at BY <1>3, LaterIs
<1>x. forums[f] = [count |-> forums[f].count, activity |-> forums[f].activity] BY <1>2 DEF Counter
<1>y. forums' = [g \in ForumNames |-> IF g = f THEN [forums[f] EXCEPT !.activity = new] ELSE forums[g]]
  BY <1>1, <1>2
<1>5. forums' = [forums EXCEPT ![f] = [count |-> forums[f].count, activity |-> new]]
  <2> DEFINE c == forums[f].count
             a == forums[f].activity
  <2>1. forums[f] = [count |-> c, activity |-> a] BY <1>x
  <2> HIDE DEF c, a
  <2>2. [forums[f] EXCEPT !.activity = new] = [count |-> c, activity |-> new] BY <2>1
  <2> QED BY <1>2, <1>y, <2>2 DEF c
<1> HIDE DEF new
<1>6. forums' \in [ForumNames -> Counter] BY <1>2, <1>3, <1>4, <1>5 DEF Counter
<1>7. \A g \in ForumNames : forums[g].activity \in Nat /\ forums[g].count \in Nat BY <1>2 DEF Counter
<1>8. \A g \in ForumNames : /\ forums'[g].count = forums[g].count
                            /\ forums'[g].activity >= forums[g].activity
  BY <1>2, <1>4, <1>5, <1>7
<1>9. forums'[f].activity >= at BY <1>2, <1>4, <1>5
<1> QED BY <1>6, <1>8, <1>9 DEF TablesOk, RowsGrow

LEMMA ToldHeard ==
  ASSUME IsABag(inbox2), NEW x, NEW m, Told(x, m)
  PROVE  \E N \in SUBSET {m} : InboxMoves({}, N) /\ (x.by # Reader => N = {})
<1>1. CASE x.by = Reader
  <2>1. InboxMoves({}, {m}) BY <1>1, AnswerHeard DEF Told
  <2> QED BY <1>1, <2>1
<1>2. CASE x.by # Reader
  <2>1. InboxMoves({}, {}) BY <1>2, NothingHeard DEF Told
  <2> QED BY <2>1
<1> QED BY <1>1, <1>2

LEMMA ServiceTurn ==
  ASSUME BoardInv, TablesOk', RowsGrow, board' = board, WishKept,
         NEW X \in SUBSET DOMAIN running, NEW Y, NEW N, Moves(X, Y), InboxMoves({}, N),
         \A y \in Y : CallRight(y)', \A m \in N : AnswerRight(m)',
         Alone', ~ForumFaults => Counted' /\ Timed',
         \A y \in Y : IsLoad(y.k) => \E x \in X : Same(x, y),
         \A m \in N : LoadMsg(m) => \E x \in X : Brings(x, m),
         \A x \in X : IsLoad(x.k) =>
           (\E y \in Y : Same(x, y)) \/ (\E m \in N : Brings(x, m)) \/ LoadLost(x)
  PROVE  BoardInv'
<1>1. Onward BY DEF Onward, BoardInv, BoardRight
<1>2. WhatRuns' BY <1>1, RunsOn DEF BoardInv
<1>3. BoardRight' BY <1>1, BoardStays DEF BoardInv
<1>4. HasWritten => HasWritten' BY WrittenStays DEF BoardInv
<1>5. Guided => Guided' BY GuidedStays
<1> QED BY <1>2, <1>3, <1>4, <1>5 DEF BoardInv

-----------------------------------------------------------------------------
(* A new topic, statement by statement.                                    *)
IsCall(x) == x = [f \in ForumCallFields |-> x[f]]

Stepped(x, s) == [x EXCEPT !.step = s]
Named(x, s, t) == [x EXCEPT !.step = s, !.topic = t]
WithList(x, s, l) == [x EXCEPT !.step = s, !.list = l]
\* y is x with another step, topic and list.
Follows(x, y, s, t, l) ==
  /\ IsCall(y) /\ y.step = s /\ y.k = x.k /\ y.by = x.by /\ y.forum = x.forum
  /\ y.topic = t /\ y.seq = x.seq /\ y.at = x.at /\ y.list = l

LEMMA CallNext == ASSUME NEW x, IsCall(x), NEW s PROVE Follows(x, Stepped(x, s), s, x.topic, x.list)
BY DEF Stepped, Follows, IsCall, ForumCallFields
LEMMA CallNamed == ASSUME NEW x, IsCall(x), NEW s, NEW t PROVE Follows(x, Named(x, s, t), s, t, x.list)
BY DEF Named, Follows, IsCall, ForumCallFields
LEMMA CallListed == ASSUME NEW x, IsCall(x), NEW s, NEW l PROVE Follows(x, WithList(x, s, l), s, x.topic, l)
BY DEF WithList, Follows, IsCall, ForumCallFields

\* What the invariant says of one call.
LEMMA CallFacts ==
  ASSUME BoardInv, NEW x \in DOMAIN running
  PROVE  /\ CallRight(x) /\ IsCall(x) /\ x.at \in Nat
         /\ TablesOk /\ IsABag(running) /\ IsABag(inbox2) /\ Alone /\ {x} \in SUBSET DOMAIN running
BY DEF BoardInv, WhatRuns, CallRight, IsCall

LEMMA MakersKnow ==
  ASSUME BoardInv, NEW e \in DOMAIN running, MakesTopic(e)
  PROVE  e.topic \in DOMAIN topics /\ topics[e.topic].forum = e.forum
BY CallFacts DEF CallRight, CreateRight, MakesTopic

LEMMA CreateFirst ==
  ASSUME BoardInv, NEW x \in DOMAIN running, x.k = "create", x.step = 1,
         CreateTopicRow(x.forum, x.by, x.at),
         Going(x, [x EXCEPT !.step = 2, !.topic = Len(topics) + 1]),
         UNCHANGED <<forums, posts, postReads, inbox2>>, UNCHANGED still
  PROVE  BoardInv'
<1>n. PICK n : n = Len(topics) + 1 OBVIOUS
<1>1. CallRight(x) /\ CreateRight(x) /\ IsCall(x) /\ x.at \in Nat /\ x.forum \in ForumNames /\ x.by \in Authors
  BY CallFacts DEF CallRight, CreateRight
<1>2. board' = board /\ fclock' = fclock /\ WishKept BY StillKept DEF still
<1>3. PICK y : y = Named(x, 2, n) OBVIOUS
<1>4. /\ IsCall(y) /\ y.step = 2 /\ y.k = "create" /\ y.by = x.by /\ y.forum = x.forum
      /\ y.topic = n /\ y.at = x.at
  BY <1>1, <1>3, CallNamed DEF Follows
<1>x. Going(x, y) BY <1>n, <1>3 DEF Named
<1>5. Moves({x}, {y}) BY <1>x, CallFacts, GoingMoves
<1>6. InboxMoves({}, {}) BY CallFacts, NothingHeard
<1>7. /\ TablesOk' /\ RowsGrow
      /\ n \notin DOMAIN topics /\ n > 1
      /\ DOMAIN topics' = DOMAIN topics \cup {n}
      /\ topics'[n] = [forum |-> x.forum, by |-> x.by, last |-> x.at]
      /\ \A t \in DOMAIN topics : topics'[t] = topics[t]
  BY <1>n, <1>1, <1>2, CallFacts, TopicMade
<1>8. topics'[n].forum = x.forum /\ topics'[n].by = x.by BY <1>7
<1>9. CreateRight(y)' BY <1>1, <1>4, <1>7, <1>8 DEF CreateRight
<1>10. CallRight(y)' BY <1>1, <1>4, <1>9 DEF CallRight, IsCall
<1>11. \A e \in DOMAIN running : MakesTopic(e) => e.topic # n BY <1>7, MakersKnow
<1>12. MakesTopic(y) BY <1>4 DEF MakesTopic
<1>13. y \notin DOMAIN running BY <1>4, <1>11, <1>12
<1>14. Alone' BY <1>4, <1>5, <1>11, <1>13, CallFacts, AloneMoves
<1>15. ~MakesTopic(x) /\ ~Posted(x) /\ ~IsLoad(x.k) /\ ~IsLoad(y.k) BY <1>4 DEF MakesTopic, Posted, IsLoad
<1>16. ASSUME Counted PROVE Counted'
  <2>1. ASSUME NEW t, t # n PROVE Uncounted(t)' <=> Uncounted(t)
    <3>1. ASSUME Uncounted(t) PROVE Uncounted(t)'
      <4>1. PICK e \in DOMAIN running : MakesTopic(e) /\ e.topic = t BY <3>1 DEF Uncounted
      <4>2. e \in DOMAIN running' BY <1>5, <1>15, <4>1 DEF Moves
      <4> QED BY <4>1, <4>2 DEF Uncounted, MakesTopic
    <3>2. ASSUME Uncounted(t)' PROVE Uncounted(t)
      <4>1. PICK e \in DOMAIN running' : MakesTopic(e) /\ e.topic = t BY <3>2 DEF Uncounted, MakesTopic
      <4>2. e # y BY <1>4, <2>1, <4>1
      <4>3. e \in DOMAIN running BY <1>5, <4>2 DEF Moves
      <4> QED BY <4>1, <4>3 DEF Uncounted
    <3> QED BY <3>1, <3>2
  <2>2. Uncounted(n)'
    <3>1. y \in DOMAIN running' BY <1>5 DEF Moves
    <3> QED BY <1>4, <1>12, <3>1 DEF Uncounted, MakesTopic
  <2>3. ASSUME NEW f PROVE CountedIn(f)' = CountedIn(f)
    <3>1. ASSUME NEW t PROVE t \in CountedIn(f)' <=> t \in CountedIn(f)
      <4>1. t \in CountedIn(f) => t # n BY <1>7 DEF CountedIn, TopicsIn
      <4>2. t \in CountedIn(f)' => t # n BY <2>2 DEF CountedIn
      <4>3. t # n => (t \in TopicsIn(f)' <=> t \in TopicsIn(f)) BY <1>7 DEF TopicsIn
      <4> QED BY <2>1, <4>1, <4>2, <4>3 DEF CountedIn
    <3> QED BY <3>1
  <2> QED BY <1>16, <2>3, CountedStays
<1>17. ASSUME Timed PROVE Timed'
  <2>1. Onward BY <1>2, <1>7 DEF Onward, BoardInv, BoardRight
  <2>2. \A f \in ForumNames : forums'[f].activity >= forums[f].activity
    BY CallFacts DEF TablesOk, Counter
  <2> QED BY <1>5, <1>15, <1>17, <2>1, <2>2, TimedStays
<1>18. ~ForumFaults => Counted' /\ Timed' BY <1>16, <1>17 DEF BoardInv
<1> QED BY <1>2, <1>5, <1>6, <1>7, <1>10, <1>14, <1>15, <1>18, CallFacts, ServiceTurn

\* Calls and tables after a step that makes no topic.
NewCalls(Y) == \A y \in Y : CallRight(y)' /\ ~MakesTopic(y)
NewAnswers(N) == \A m \in N : AnswerRight(m)'
\* A load goes on: to its next statement, or to its answer.
LoadGoes(x, Y, N) ==
  /\ \A y \in Y : IsLoad(y.k) => Same(x, y)
  /\ \A m \in N : LoadMsg(m) => Brings(x, m)
  /\ IsLoad(x.k) => (\E y \in Y : Same(x, y)) \/ (\E m \in N : Brings(x, m)) \/ LoadLost(x)
\* What x has posted is timed, or y is to do it; a new post is y's to time.
TimeGoes(x, Y) ==
  /\ \/ ~Posted(x)
     \/ forums'[x.forum].activity >= x.at
     \/ \E y \in Y : Posted(y) /\ y.forum = x.forum /\ y.at = x.at
  /\ \A p \in DOMAIN posts' \ DOMAIN posts :
       \E y \in Y : Posted(y) /\ y.forum = ForumOf(p)' /\ y.at = posts'[p].at
CountsStay ==
  /\ DOMAIN topics' = DOMAIN topics
  /\ \A t \in DOMAIN topics : topics'[t].forum = topics[t].forum
  /\ \A f \in ForumNames : forums'[f].count = forums[f].count
  /\ \A f \in ForumNames : forums'[f].activity >= forums[f].activity

LEMMA CalmTurn ==
  ASSUME BoardInv, TablesOk', RowsGrow, board' = board, WishKept, CountsStay,
         NEW x \in DOMAIN running, NEW Y, NEW N, Moves({x}, Y), InboxMoves({}, N),
         NewCalls(Y), ~MakesTopic(x), NewAnswers(N), TimeGoes(x, Y), LoadGoes(x, Y, N)
  PROVE  BoardInv'
<1>1. Onward BY DEF Onward, BoardInv, BoardRight
<1>2. Alone' BY CallFacts, AloneStays DEF NewCalls
<1>3. ASSUME Counted PROVE Counted'
  <2>1. \A f : CountedIn(f)' = CountedIn(f) BY CallFacts, SameCounted DEF NewCalls, CountsStay
  <2> QED BY <1>3, <2>1, CountedStays DEF CountsStay
<1>4. ASSUME Timed PROVE Timed'
  <2>1. \A e \in {x} : Posted(e) /\ e.forum \in ForumNames =>
           \/ forums'[e.forum].activity >= e.at
           \/ \E y \in Y : Posted(y) /\ y.forum = e.forum /\ y.at = e.at
    BY DEF TimeGoes
  <2>2. \A p \in DOMAIN posts' \ DOMAIN posts :
           \E y \in Y : Posted(y) /\ y.forum = ForumOf(p)' /\ y.at = posts'[p].at
    BY DEF TimeGoes
  <2>3. \A f \in ForumNames : forums'[f].activity >= forums[f].activity BY DEF CountsStay
  <2> QED BY <1>1, <1>4, <2>1, <2>2, <2>3, TimedStays
<1>5. ~ForumFaults => Counted' /\ Timed' BY <1>3, <1>4 DEF BoardInv
<1>6. \A y \in Y : IsLoad(y.k) => \E e \in {x} : Same(e, y) BY DEF LoadGoes
<1>7. \A m \in N : LoadMsg(m) => \E e \in {x} : Brings(e, m) BY DEF LoadGoes
<1>8. \A e \in {x} : IsLoad(e.k) =>
        (\E y \in Y : Same(e, y)) \/ (\E m \in N : Brings(e, m)) \/ LoadLost(e)
  BY DEF LoadGoes
<1>9. (\A y \in Y : CallRight(y)') /\ (\A m \in N : AnswerRight(m)') BY DEF NewCalls, NewAnswers
<1> QED BY <1>2, <1>5, <1>6, <1>7, <1>8, <1>9, CallFacts, ServiceTurn

\* The same of a step that leaves the tables alone.
LEMMA QuietTurn ==
  ASSUME BoardInv, UNCHANGED <<forums, topics, posts>>, board' = board, fclock' = fclock, WishKept,
         NEW x \in DOMAIN running, NEW Y, NEW N, Moves({x}, Y), InboxMoves({}, N),
         NewCalls(Y), ~MakesTopic(x), ~Posted(x), NewAnswers(N), LoadGoes(x, Y, N)
  PROVE  BoardInv'
<1>1. TablesOk' /\ RowsGrow BY CallFacts, RowsStay DEF TablesOk
<1>2. CountsStay BY CallFacts DEF TablesOk, Counter, CountsStay
<1>3. TimeGoes(x, Y) BY DEF TimeGoes
<1> QED BY <1>1, <1>2, <1>3, CalmTurn

LEMMA CreateSecond ==
  ASSUME BoardInv, NEW x \in DOMAIN running, x.k = "create", x.step = 2,
         CreatePost(x.topic, x.by, x.at), Going(x, [x EXCEPT !.step = 3]),
         UNCHANGED <<forums, topics, postReads, inbox2>>, UNCHANGED still
  PROVE  BoardInv'
<1>1. CallRight(x) /\ CreateRight(x) /\ IsCall(x) /\ x.at \in Nat /\ x.forum \in ForumNames /\ x.by \in Authors
      /\ x.topic \in DOMAIN topics
  BY CallFacts DEF CallRight, CreateRight
<1>2. board' = board /\ fclock' = fclock /\ WishKept BY StillKept DEF still
<1>3. PICK y : y = Stepped(x, 3) OBVIOUS
<1>4. /\ IsCall(y) /\ y.step = 3 /\ y.k = "create" /\ y.by = x.by /\ y.forum = x.forum
      /\ y.topic = x.topic /\ y.at = x.at
  BY <1>1, <1>3, CallNext DEF Follows
<1>x. Going(x, y) BY <1>3 DEF Stepped
<1>5. Moves({x}, {y}) BY <1>x, CallFacts, GoingMoves
<1>6. InboxMoves({}, {}) BY CallFacts, NothingHeard
<1>n. PICK n : n = Len(posts) + 1 OBVIOUS
<1>7. /\ TablesOk' /\ RowsGrow
      /\ DOMAIN posts' = DOMAIN posts \cup {n}
      /\ posts'[n] = [topic |-> x.topic, by |-> x.by, at |-> x.at]
  BY <1>n, <1>1, <1>2, CallFacts, PostMade
<1>8. CreateRight(y)' BY <1>1, <1>4 DEF CreateRight
<1>9. CallRight(y)' BY <1>1, <1>4, <1>8 DEF CallRight, IsCall
<1>10. MakesTopic(x) /\ MakesTopic(y) /\ ~Posted(x) /\ ~IsLoad(x.k) /\ ~IsLoad(y.k) /\ Posted(y) /\ x # y
  BY <1>4 DEF MakesTopic, Posted, IsLoad
<1>11. \A e \in DOMAIN running : MakesTopic(e) /\ e.topic = x.topic => e = x
  BY <1>10, CallFacts DEF Alone
<1>12. y \notin DOMAIN running BY <1>4, <1>10, <1>11
<1>13. \A e \in DOMAIN running \ {x} : MakesTopic(e) => e.topic # y.topic BY <1>4, <1>11
<1>14. Alone' BY <1>5, <1>12, <1>13, CallFacts, AloneMoves
<1>15. ASSUME Counted PROVE Counted'
  <2>1. Uncounted(x.topic) BY <1>10 DEF Uncounted
  <2>2. \A f : CountedIn(f)' = CountedIn(f) BY <1>4, <1>5, <1>10, <2>1, CallFacts, SameCounted
  <2> QED BY <1>15, <2>2, CountedStays
<1>16. ASSUME Timed PROVE Timed'
  <2>1. Onward BY <1>2, <1>7 DEF Onward, BoardInv, BoardRight
  <2>2. \A f \in ForumNames : forums'[f].activity >= forums[f].activity
    BY CallFacts DEF TablesOk, Counter
  <2>3. ForumOf(n)' = x.forum /\ posts'[n].at = x.at BY <1>1, <1>7 DEF ForumOf, CreateRight
  <2>4. \A p \in DOMAIN posts' \ DOMAIN posts :
           \E z \in {y} : Posted(z) /\ z.forum = ForumOf(p)' /\ z.at = posts'[p].at
    BY <1>4, <1>7, <1>10, <2>3
  <2> QED BY <1>5, <1>10, <1>16, <2>1, <2>2, <2>4, TimedStays
<1>17. ~ForumFaults => Counted' /\ Timed' BY <1>15, <1>16 DEF BoardInv
<1> QED BY <1>2, <1>5, <1>6, <1>7, <1>9, <1>14, <1>10, <1>17, CallFacts, ServiceTurn

\* The forum counts the topic, or with a fault does not.
LEMMA CreateThird ==
  ASSUME BoardInv, NEW x \in DOMAIN running, x.k = "create", x.step = 3,
         IncrementForumTopicCount(x.forum, x.at) \/ (ForumFaults /\ UNCHANGED forums),
         Going(x, [x EXCEPT !.step = 4]),
         UNCHANGED <<topics, posts, postReads, inbox2>>, UNCHANGED still
  PROVE  BoardInv'
<1>1. CallRight(x) /\ CreateRight(x) /\ IsCall(x) /\ x.at \in Nat /\ x.forum \in ForumNames /\ x.by \in Authors
      /\ x.topic \in DOMAIN topics /\ topics[x.topic].forum = x.forum
  BY CallFacts DEF CallRight, CreateRight
<1>2. board' = board /\ fclock' = fclock /\ WishKept BY StillKept DEF still
<1>3. PICK y : y = Stepped(x, 4) OBVIOUS
<1>4. /\ IsCall(y) /\ y.step = 4 /\ y.k = "create" /\ y.by = x.by /\ y.forum = x.forum
      /\ y.topic = x.topic /\ y.at = x.at
  BY <1>1, <1>3, CallNext DEF Follows
<1>x. Going(x, y) BY <1>3 DEF Stepped
<1>5. Moves({x}, {y}) BY <1>x, CallFacts, GoingMoves
<1>6. InboxMoves({}, {}) BY CallFacts, NothingHeard
<1>7. TablesOk' /\ RowsGrow
  <2>1. CASE IncrementForumTopicCount(x.forum, x.at) BY <1>1, <1>2, <2>1, CallFacts, ForumBumped
  <2>2. CASE UNCHANGED forums BY <1>2, <2>2, CallFacts, RowsStay DEF TablesOk
  <2> QED BY <2>1, <2>2
<1>8. CreateRight(y)' BY <1>1, <1>4 DEF CreateRight
<1>9. CallRight(y)' BY <1>1, <1>4, <1>8 DEF CallRight, IsCall
<1>10. MakesTopic(x) /\ ~MakesTopic(y) /\ ~IsLoad(x.k) /\ ~IsLoad(y.k) BY <1>4 DEF MakesTopic, IsLoad
<1>11. Alone' BY <1>5, <1>10, CallFacts, AloneStays
<1>12. ASSUME ~ForumFaults PROVE Counted' /\ Timed'
  <2>1. Counted /\ Timed BY <1>12 DEF BoardInv
  <2>2. IncrementForumTopicCount(x.forum, x.at) BY <1>12
  <2>3. /\ \A g \in ForumNames : forums'[g].count = forums[g].count + (IF g = x.forum THEN 1 ELSE 0)
        /\ \A g \in ForumNames : forums'[g].activity >= forums[g].activity
        /\ forums'[x.forum].activity >= x.at
    BY <1>1, <1>2, <2>2, CallFacts, ForumBumped
  <2>4. Onward BY <1>2, <1>7 DEF Onward, BoardInv, BoardRight
  <2>5. Timed'
    <3>1. \A p \in DOMAIN posts' \ DOMAIN posts :
           \E z \in {y} : Posted(z) /\ z.forum = ForumOf(p)' /\ z.at = posts'[p].at
      OBVIOUS
    <3> QED BY <1>5, <2>1, <2>3, <2>4, <3>1, TimedStays
  <2>6. x \notin DOMAIN running'
    <3>1. running[x] = 1 /\ x # y BY <1>4, <1>10, CallFacts DEF Alone
    <3> QED BY <1>5, <3>1 DEF Moves
  <2>7. ~Uncounted(x.topic)'
    <3>1. SUFFICES ASSUME NEW e \in DOMAIN running', MakesTopic(e), e.topic = x.topic PROVE FALSE
      BY DEF Uncounted, MakesTopic
    <3>2. e # y BY <1>10, <3>1
    <3>3. e \in DOMAIN running BY <1>5, <3>2 DEF Moves
    <3>4. e = x BY <1>10, <3>1, <3>3, CallFacts DEF Alone
    <3> QED BY <2>6, <3>4
  <2>8. ASSUME NEW t, t # x.topic PROVE Uncounted(t)' <=> Uncounted(t)
    <3>1. ASSUME Uncounted(t) PROVE Uncounted(t)'
      <4>1. PICK e \in DOMAIN running : MakesTopic(e) /\ e.topic = t BY <3>1 DEF Uncounted
      <4>2. e \in DOMAIN running' BY <1>5, <2>8, <4>1 DEF Moves
      <4> QED BY <4>1, <4>2 DEF Uncounted, MakesTopic
    <3>2. ASSUME Uncounted(t)' PROVE Uncounted(t)
      <4>1. PICK e \in DOMAIN running' : MakesTopic(e) /\ e.topic = t BY <3>2 DEF Uncounted, MakesTopic
      <4>2. e # y BY <1>10, <4>1
      <4>3. e \in DOMAIN running BY <1>5, <4>2 DEF Moves
      <4> QED BY <4>1, <4>3 DEF Uncounted
    <3> QED BY <3>1, <3>2
  <2>9. Uncounted(x.topic) BY <1>10 DEF Uncounted
  <2>10. ASSUME NEW f PROVE TopicsIn(f)' = TopicsIn(f) BY DEF TopicsIn
  <2>11. ASSUME NEW f \in ForumNames PROVE forums'[f].count = Cardinality(CountedIn(f)')
    <3>1. forums[f].count = Cardinality(CountedIn(f)) /\ IsFiniteSet(CountedIn(f))
          /\ Cardinality(CountedIn(f)) \in Nat
      BY <2>1, CallFacts, FiniteCounted DEF Counted
    <3>2. CASE f = x.forum
      <4>1. CountedIn(f)' = CountedIn(f) \cup {x.topic} /\ x.topic \notin CountedIn(f)
        <5>1. x.topic \in TopicsIn(f) BY <1>1, <3>2 DEF TopicsIn
        <5>2. ASSUME NEW t PROVE t \in CountedIn(f)' <=> t \in CountedIn(f) \/ t = x.topic
          <6>1. t = x.topic => t \in CountedIn(f)' BY <2>7, <2>10, <5>1 DEF CountedIn
          <6>2. t # x.topic => (t \in CountedIn(f)' <=> t \in CountedIn(f)) BY <2>8, <2>10 DEF CountedIn
          <6> QED BY <6>1, <6>2
        <5>3. x.topic \notin CountedIn(f) BY <2>9 DEF CountedIn
        <5> QED BY <5>2, <5>3
      <4>2. Cardinality(CountedIn(f)') = Cardinality(CountedIn(f)) + 1
        BY <3>1, <4>1, FS_AddElement
      <4>3. forums'[f].count = forums[f].count + 1 BY <2>3, <3>2
      <4> QED BY <3>1, <4>2, <4>3
    <3>3. CASE f # x.forum
      <4>1. x.topic \notin TopicsIn(f) BY <1>1, <3>3 DEF TopicsIn
      <4>2. ASSUME NEW t PROVE t \in CountedIn(f)' <=> t \in CountedIn(f)
        <5>1. t = x.topic => t \notin CountedIn(f)' /\ t \notin CountedIn(f)
          BY <2>10, <4>1 DEF CountedIn
        <5>2. t # x.topic => (t \in CountedIn(f)' <=> t \in CountedIn(f)) BY <2>8, <2>10 DEF CountedIn
        <5> QED BY <5>1, <5>2
      <4>3. CountedIn(f)' = CountedIn(f) BY <4>2
      <4>4. forums'[f].count = forums[f].count BY <2>3, <3>1, <3>3
      <4> QED BY <3>1, <4>3, <4>4
    <3> QED BY <3>2, <3>3
  <2>12. Counted' BY <2>11 DEF Counted
  <2> QED BY <2>5, <2>12
<1> QED BY <1>2, <1>5, <1>6, <1>7, <1>9, <1>10, <1>11, <1>12, CallFacts, ServiceTurn

LEMMA ToldRight ==
  ASSUME NEW m, NEW N \in SUBSET {m}, AnswerRight(m)' \/ N = {}
  PROVE  NewAnswers(N) /\ \A n \in N : AnswerRight(n)'
BY DEF NewAnswers

LEMMA CreateLast ==
  ASSUME BoardInv, NEW x \in DOMAIN running, x.k = "create", x.step = 4, Gone(x),
         NEW list, list = ListPostsInTopic(x.topic) \/ list = <<>>,
         Told(x, [m |-> "topic", topic |-> x.topic, posts |-> list]),
         UNCHANGED forumTables, UNCHANGED still
  PROVE  BoardInv'
<1>1. CreateRight(x) /\ x.topic \in DOMAIN topics /\ x.topic > 1 /\ topics[x.topic].by = x.by
  BY CallFacts DEF CallRight, CreateRight
<1>2. board' = board /\ fclock' = fclock /\ WishKept /\ UNCHANGED <<forums, topics, posts>>
  BY StillKept DEF still, forumTables
<1>3. PICK m : m = [m |-> "topic", topic |-> x.topic, posts |-> list] OBVIOUS
<1>4. m.m = "topic" /\ m.topic = x.topic /\ m.posts = list BY <1>3
<1>5. PICK N \in SUBSET {m} : InboxMoves({}, N) /\ (x.by # Reader => N = {})
  BY <1>3, CallFacts, ToldHeard
<1>6. Moves({x}, {}) BY CallFacts, GoneMoves
<1>7. Onward BY <1>2, CallFacts, RowsStay DEF Onward, BoardInv, BoardRight, TablesOk
<1>8. ASSUME x.by = Reader PROVE AnswerRight(m)'
  <2>1. HasWritten BY <1>1, <1>8 DEF HasWritten
  <2>2. AsItStood(m.posts, m.topic) BY <1>4, CallFacts, StoodWhole, StoodEmpty
  <2>3. AnswerRight(m) BY <1>1, <1>4, <2>1, <2>2 DEF AnswerRight
  <2> QED BY <1>7, <2>3, AnswerStays
<1>9. NewAnswers(N) /\ NewCalls({}) BY <1>5, <1>8, ToldRight DEF NewCalls
<1>10. ~MakesTopic(x) /\ ~Posted(x) BY DEF MakesTopic, Posted
<1>11. LoadGoes(x, {}, N) BY <1>4, <1>5 DEF LoadGoes, LoadMsg, IsLoad
<1> QED BY <1>2, <1>5, <1>6, <1>9, <1>10, <1>11, QuietTurn

\* A statement that fails: the call ends with an error.
LEMMA CallFails ==
  ASSUME BoardInv, NEW x \in DOMAIN running, x.k \in {"create", "reply"}, ForumFaults, Failed(x),
         UNCHANGED forumTables, UNCHANGED still
  PROVE  BoardInv'
<1>2. board' = board /\ fclock' = fclock /\ WishKept /\ UNCHANGED <<forums, topics, posts>>
  BY StillKept DEF still, forumTables
<1>3. PICK m : m = [m |-> "err"] OBVIOUS
<1>4. m.m = "err" BY <1>3
<1>5. PICK N \in SUBSET {m} : InboxMoves({}, N) /\ (x.by # Reader => N = {})
  BY <1>3, CallFacts, ToldHeard DEF Failed
<1>6. Moves({x}, {}) BY CallFacts, GoneMoves DEF Failed
<1>7. TablesOk' /\ RowsGrow BY <1>2, CallFacts, RowsStay DEF TablesOk
<1>8. AnswerRight(m)' BY <1>4 DEF AnswerRight
<1>9. \A n \in N : AnswerRight(n)' BY <1>5, <1>8, ToldRight
<1>10. ~IsLoad(x.k) BY DEF IsLoad
<1>11. \A n \in N : ~LoadMsg(n) BY <1>4, <1>5 DEF LoadMsg
<1>12. Alone' BY <1>6, CallFacts, AloneStays
<1> QED BY <1>2, <1>5, <1>6, <1>7, <1>9, <1>10, <1>11, <1>12, CallFacts, ServiceTurn

LEMMA CreateKeeps == ASSUME BoardInv, NEW x \in DOMAIN running, CreateTopic(x) PROVE BoardInv'
<1>0. x.k = "create" /\ UNCHANGED still BY DEF CreateTopic
<1>1. CASE /\ x.step = 1 /\ CreateTopicRow(x.forum, x.by, x.at)
           /\ Going(x, [x EXCEPT !.step = 2, !.topic = Len(topics) + 1])
           /\ UNCHANGED <<forums, posts, postReads, inbox2>>
  BY <1>0, <1>1, CreateFirst
<1>2. CASE /\ x.step = 2 /\ CreatePost(x.topic, x.by, x.at)
           /\ Going(x, [x EXCEPT !.step = 3])
           /\ UNCHANGED <<forums, topics, postReads, inbox2>>
  BY <1>0, <1>2, CreateSecond
<1>3. CASE /\ x.step = 3
           /\ \/ IncrementForumTopicCount(x.forum, x.at)
              \/ ForumFaults /\ UNCHANGED forums
           /\ Going(x, [x EXCEPT !.step = 4])
           /\ UNCHANGED <<topics, posts, postReads, inbox2>>
  BY <1>0, <1>3, CreateThird
<1>4. CASE /\ x.step = 4 /\ Gone(x)
           /\ \E list \in {ListPostsInTopic(x.topic)} \cup (IF LoadFaults THEN {<<>>} ELSE {}) :
                Told(x, [m |-> "topic", topic |-> x.topic, posts |-> list])
           /\ UNCHANGED forumTables
  <2>1. PICK list : /\ list = ListPostsInTopic(x.topic) \/ list = <<>>
                    /\ Told(x, [m |-> "topic", topic |-> x.topic, posts |-> list])
    BY <1>4
  <2> QED BY <1>0, <1>4, <2>1, CreateLast
<1>5. CASE ForumFaults /\ x.step \in {1, 2} /\ Failed(x) /\ UNCHANGED forumTables
  BY <1>0, <1>5, CallFails
<1> QED BY <1>1, <1>2, <1>3, <1>4, <1>5 DEF CreateTopic

-----------------------------------------------------------------------------
(* A reply, statement by statement.                                        *)
LEMMA ReplyFirst ==
  ASSUME BoardInv, NEW x \in DOMAIN running, x.k = "reply", x.step = 1,
         CreatePost(x.topic, x.by, x.at), Going(x, [x EXCEPT !.step = 2]),
         UNCHANGED <<forums, topics, postReads, inbox2>>, UNCHANGED still
  PROVE  BoardInv'
<1>1. ReplyRight(x) /\ IsCall(x) /\ x.at \in Nat /\ x.by \in Authors
      /\ x.topic \in DOMAIN topics /\ x.forum = topics[x.topic].forum
  BY CallFacts DEF CallRight, ReplyRight
<1>2. board' = board /\ fclock' = fclock /\ WishKept BY StillKept DEF still
<1>3. PICK y : y = Stepped(x, 2) OBVIOUS
<1>4. /\ IsCall(y) /\ y.step = 2 /\ y.k = "reply" /\ y.by = x.by /\ y.forum = x.forum
      /\ y.topic = x.topic /\ y.at = x.at
  BY <1>1, <1>3, CallNext DEF Follows
<1>x. Going(x, y) BY <1>3 DEF Stepped
<1>5. Moves({x}, {y}) BY <1>x, CallFacts, GoingMoves
<1>6. InboxMoves({}, {}) BY CallFacts, NothingHeard
<1>n. PICK n : n = Len(posts) + 1 OBVIOUS
<1>7. /\ TablesOk' /\ RowsGrow /\ n > 1
      /\ DOMAIN posts' = DOMAIN posts \cup {n}
      /\ posts'[n] = [topic |-> x.topic, by |-> x.by, at |-> x.at]
  BY <1>n, <1>1, <1>2, CallFacts, PostMade
<1>8. posts'[n].topic = x.topic /\ posts'[n].by = x.by /\ posts'[n].at = x.at BY <1>7
<1>9. x.by = Reader => HasWritten' BY <1>7, <1>8 DEF HasWritten
<1>10. ReplyRight(y)' BY <1>1, <1>4, <1>9 DEF ReplyRight
<1>11. CallRight(y)' BY <1>1, <1>4, <1>10 DEF CallRight, IsCall
<1>12. ~MakesTopic(x) /\ ~MakesTopic(y) /\ ~Posted(x) /\ ~IsLoad(x.k) /\ ~IsLoad(y.k) /\ Posted(y)
  BY <1>4 DEF MakesTopic, Posted, IsLoad
<1>13. ForumOf(n)' = x.forum BY <1>1, <1>8 DEF ForumOf
<1>14. TimeGoes(x, {y}) BY <1>4, <1>7, <1>8, <1>12, <1>13 DEF TimeGoes
<1>15. CountsStay BY CallFacts DEF TablesOk, Counter, CountsStay
<1>16. LoadGoes(x, {y}, {}) /\ NewAnswers({}) /\ NewCalls({y})
  BY <1>11, <1>12 DEF LoadGoes, NewAnswers, NewCalls
<1> QED BY <1>2, <1>5, <1>6, <1>7, <1>12, <1>14, <1>15, <1>16, CalmTurn

LEMMA ReplySecond ==
  ASSUME BoardInv, NEW x \in DOMAIN running, x.k = "reply", x.step = 2,
         TouchTopicLastPost(x.topic, x.at) \/ (ForumFaults /\ UNCHANGED topics),
         Going(x, [x EXCEPT !.step = 3]),
         UNCHANGED <<forums, posts, postReads, inbox2>>, UNCHANGED still
  PROVE  BoardInv'
<1>1. ReplyRight(x) /\ IsCall(x) /\ x.at \in Nat /\ x.by \in Authors
      /\ x.topic \in DOMAIN topics /\ x.forum = topics[x.topic].forum
  BY CallFacts DEF CallRight, ReplyRight
<1>2. board' = board /\ fclock' = fclock /\ WishKept BY StillKept DEF still
<1>3. PICK y : y = Stepped(x, 3) OBVIOUS
<1>4. /\ IsCall(y) /\ y.step = 3 /\ y.k = "reply" /\ y.by = x.by /\ y.forum = x.forum
      /\ y.topic = x.topic /\ y.at = x.at
  BY <1>1, <1>3, CallNext DEF Follows
<1>x. Going(x, y) BY <1>3 DEF Stepped
<1>5. Moves({x}, {y}) BY <1>x, CallFacts, GoingMoves
<1>6. InboxMoves({}, {}) BY CallFacts, NothingHeard
<1>7. /\ TablesOk' /\ RowsGrow /\ DOMAIN topics' = DOMAIN topics
      /\ \A s \in DOMAIN topics : topics'[s].forum = topics[s].forum
  <2>1. CASE TouchTopicLastPost(x.topic, x.at) BY <1>1, <1>2, <2>1, CallFacts, TopicTouched
  <2>2. CASE UNCHANGED topics BY <1>2, <2>2, CallFacts, RowsStay DEF TablesOk
  <2> QED BY <2>1, <2>2
<1>8. x.by = Reader => HasWritten' BY <1>1, <1>7, CallFacts, WrittenStays DEF ReplyRight
<1>9. ReplyRight(y)' BY <1>1, <1>4, <1>7, <1>8 DEF ReplyRight
<1>10. CallRight(y)' BY <1>1, <1>4, <1>9 DEF CallRight, IsCall
<1>11. ~MakesTopic(x) /\ ~MakesTopic(y) /\ ~IsLoad(x.k) /\ ~IsLoad(y.k) /\ Posted(y)
  BY <1>4 DEF MakesTopic, Posted, IsLoad
<1>12. CountsStay BY <1>7, CallFacts DEF TablesOk, Counter, CountsStay
<1>13. TimeGoes(x, {y}) BY <1>4, <1>11 DEF TimeGoes
<1>14. LoadGoes(x, {y}, {}) /\ NewAnswers({}) /\ NewCalls({y})
  BY <1>10, <1>11 DEF LoadGoes, NewAnswers, NewCalls
<1> QED BY <1>2, <1>5, <1>6, <1>7, <1>11, <1>12, <1>13, <1>14, CalmTurn

LEMMA ReplyLast ==
  ASSUME BoardInv, NEW x \in DOMAIN running, x.k = "reply", x.step = 3,
         TouchForumLastActivity(x.forum, x.at) \/ (ForumFaults /\ UNCHANGED forums),
         Gone(x), Told(x, [m |-> "replied"]),
         UNCHANGED <<topics, posts, postReads>>, UNCHANGED still
  PROVE  BoardInv'
<1>1. ReplyRight(x) /\ x.at \in Nat /\ x.topic \in DOMAIN topics /\ x.forum = topics[x.topic].forum
  BY CallFacts DEF CallRight, ReplyRight
<1>2. board' = board /\ fclock' = fclock /\ WishKept BY StillKept DEF still
<1>3. x.forum \in ForumNames BY <1>1, CallFacts, RowsTyped DEF TopicRow
<1>4. PICK m : m = [m |-> "replied"] OBVIOUS
<1>5. m.m = "replied" BY <1>4
<1>6. PICK N \in SUBSET {m} : InboxMoves({}, N) /\ (x.by # Reader => N = {})
  BY <1>4, CallFacts, ToldHeard
<1>7. Moves({x}, {}) BY CallFacts, GoneMoves
<1>8. TablesOk' /\ RowsGrow
  <2>1. CASE TouchForumLastActivity(x.forum, x.at) BY <1>1, <1>2, <1>3, <2>1, CallFacts, ForumTimed
  <2>2. CASE UNCHANGED forums BY <1>2, <2>2, CallFacts, RowsStay DEF TablesOk
  <2> QED BY <2>1, <2>2
<1>9. x.by = Reader => HasWritten' BY <1>1, <1>8, CallFacts, WrittenStays DEF ReplyRight
<1>10. x.by = Reader => AnswerRight(m)' BY <1>5, <1>9 DEF AnswerRight
<1>11. \A n \in N : AnswerRight(n)' BY <1>6, <1>10, ToldRight
<1>12. ~MakesTopic(x) /\ ~IsLoad(x.k) BY DEF MakesTopic, IsLoad
<1>13. \A n \in N : ~LoadMsg(n) BY <1>5, <1>6 DEF LoadMsg
<1>14. CASE TouchForumLastActivity(x.forum, x.at)
  <2>1. /\ \A g \in ForumNames : forums'[g].count = forums[g].count
        /\ \A g \in ForumNames : forums'[g].activity >= forums[g].activity
        /\ forums'[x.forum].activity >= x.at
    BY <1>1, <1>2, <1>3, <1>14, CallFacts, ForumTimed
  <2>2. CountsStay /\ TimeGoes(x, {}) BY <2>1 DEF CountsStay, TimeGoes
  <2>3. LoadGoes(x, {}, N) /\ NewAnswers(N) /\ NewCalls({})
    BY <1>11, <1>12, <1>13 DEF LoadGoes, NewAnswers, NewCalls
  <2> QED BY <1>2, <1>6, <1>7, <1>8, <1>12, <2>2, <2>3, CalmTurn
<1>15. CASE ForumFaults
  <2>1. Alone' BY <1>7, CallFacts, AloneStays
  <2> QED BY <1>2, <1>6, <1>7, <1>8, <1>11, <1>12, <1>13, <1>15, <2>1, CallFacts, ServiceTurn
<1> QED BY <1>14, <1>15

LEMMA ReplyKeeps == ASSUME BoardInv, NEW x \in DOMAIN running, Reply(x) PROVE BoardInv'
<1>0. x.k = "reply" /\ UNCHANGED still BY DEF Reply
<1>1. CASE /\ x.step = 1 /\ CreatePost(x.topic, x.by, x.at)
           /\ Going(x, [x EXCEPT !.step = 2])
           /\ UNCHANGED <<forums, topics, postReads, inbox2>>
  BY <1>0, <1>1, ReplyFirst
<1>2. CASE /\ x.step = 2
           /\ TouchTopicLastPost(x.topic, x.at) \/ (ForumFaults /\ UNCHANGED topics)
           /\ Going(x, [x EXCEPT !.step = 3])
           /\ UNCHANGED <<forums, posts, postReads, inbox2>>
  BY <1>0, <1>2, ReplySecond
<1>3. CASE /\ x.step = 3
           /\ TouchForumLastActivity(x.forum, x.at) \/ (ForumFaults /\ UNCHANGED forums)
           /\ Gone(x) /\ Told(x, [m |-> "replied"])
           /\ UNCHANGED <<topics, posts, postReads>>
  BY <1>0, <1>3, ReplyLast
<1>4. CASE ForumFaults /\ x.step = 1 /\ Failed(x) /\ UNCHANGED forumTables
  BY <1>0, <1>4, CallFails
<1> QED BY <1>1, <1>2, <1>3, <1>4 DEF Reply

-----------------------------------------------------------------------------
(* Loads, and what is read.                                                *)
LEMMA PageIs ==
  ASSUME NEW S, NEW s \in Seq(S), NEW limit \in Nat, NEW offset \in Nat
  PROVE  /\ Page(s, limit, offset) \in Seq(S)
         /\ \A i \in offset + 1 .. offset + limit :
              i <= Len(s) => \E j \in DOMAIN Page(s, limit, offset) : Page(s, limit, offset)[j] = s[i]
<1> DEFINE last == IF offset + limit > Len(s) THEN Len(s) ELSE offset + limit
           page == Page(s, limit, offset)
<1>1. Len(s) \in Nat BY LenProperties
<1>2. last \in Int /\ last <= Len(s) /\ offset + 1 \in Int BY <1>1
<1>3. page = SubSeq(s, offset + 1, last) BY DEF Page
<1> HIDE DEF last, page
<1>4. \A i \in offset + 1 .. last : s[i] \in S BY <1>1, <1>2, ElementOfSeq
<1>5. /\ SubSeq(s, offset + 1, last) \in Seq(S)
      /\ Len(SubSeq(s, offset + 1, last)) = IF offset + 1 <= last THEN last - (offset + 1) + 1 ELSE 0
      /\ \A i \in 1 .. last - (offset + 1) + 1 : SubSeq(s, offset + 1, last)[i] = s[(offset + 1) + i - 1]
  BY <1>2, <1>4, SubSeqProperties
<1>6. page \in Seq(S) /\ DOMAIN page = 1 .. Len(page) BY <1>3, <1>5, LenProperties
<1>7. ASSUME NEW i \in offset + 1 .. offset + limit, i <= Len(s)
      PROVE \E j \in DOMAIN page : page[j] = s[i]
  <2> DEFINE j == i - offset
  <2>1. i <= last BY <1>1, <1>7 DEF last
  <2>2. j \in 1 .. last - (offset + 1) + 1 /\ (offset + 1) + j - 1 = i BY <1>1, <1>2, <1>7, <2>1
  <2>3. j \in DOMAIN page BY <1>2, <1>3, <1>5, <1>6, <2>2
  <2>4. page[j] = s[i] BY <1>3, <1>5, <2>2
  <2> QED BY <2>3, <2>4
<1> QED BY <1>6, <1>7 DEF page

LEMMA PageHas ==
  ASSUME NEW S, NEW s \in Seq(S), NEW limit \in Nat, NEW offset \in Nat,
         NEW i \in offset + 1 .. offset + limit, i <= Len(s)
  PROVE  \E j \in DOMAIN Page(s, limit, offset) : Page(s, limit, offset)[j] = s[i]
<1>1. PICK page : page = Page(s, limit, offset) OBVIOUS
<1>2. \A k \in offset + 1 .. offset + limit :
        k <= Len(s) => \E j \in DOMAIN page : page[j] = s[k]
  BY <1>1, PageIs, Zenon
<1> QED BY <1>1, <1>2

LEMMA TopicsPaged ==
  ASSUME TablesOk, NEW f PROVE ListTopicsInForum(f) \in Seq(DOMAIN topics)
<1>1. ByActivity(f) \in Seq(TopicsIn(f)) BY TopicsListed
<1>2. TopicsIn(f) \subseteq DOMAIN topics BY DEF TopicsIn
<1>3. ByActivity(f) \in Seq(DOMAIN topics) BY <1>1, <1>2, KeptSeq
<1>4. TopicLimit \in Nat /\ 0 \in Nat BY ForumsAssumption
<1>5. Page(ByActivity(f), TopicLimit, 0) \in Seq(DOMAIN topics) BY <1>3, <1>4, PageIs
<1> QED BY <1>5 DEF ListTopicsInForum

LEMMA TouchKeeps == ASSUME BoardInv, NEW x \in DOMAIN running, TouchTopicRead(x) PROVE BoardInv'
<1>0. x.k = "touch" /\ UNCHANGED inbox2 /\ UNCHANGED still BY DEF TouchTopicRead
<1>1. InboxMoves({}, {}) BY <1>0, CallFacts, NothingHeard
<1>2. /\ UNCHANGED <<forums, topics, posts>>
      /\ board' = board /\ fclock' = fclock /\ WishKept
  BY <1>0, StillKept DEF TouchTopicRead, forumTables, still
<1>3. ~MakesTopic(x) /\ ~Posted(x) /\ ~IsLoad(x.k) BY <1>0 DEF MakesTopic, Posted, IsLoad
<1>4. CASE /\ x.step = 1
           /\ Going(x, [x EXCEPT !.step = 2, !.list = <<LatestPostInTopic(x.topic)>>])
  <2>1. PICK l : l = <<LatestPostInTopic(x.topic)>> OBVIOUS
  <2>2. PICK y : y = WithList(x, 2, l) OBVIOUS
  <2>3. IsCall(y) /\ y.k = "touch" /\ y.at = x.at /\ x.at \in Nat
    BY <1>0, <2>2, CallFacts, CallListed DEF Follows
  <2>4. Going(x, y) BY <1>4, <2>1, <2>2 DEF WithList
  <2>5. Moves({x}, {y}) BY <2>4, CallFacts, GoingMoves
  <2>6. CallRight(y)' BY <2>3 DEF CallRight, IsCall
  <2>7. NewCalls({y}) /\ NewAnswers({}) /\ LoadGoes(x, {y}, {})
    BY <1>3, <2>3, <2>6 DEF NewCalls, NewAnswers, LoadGoes, IsLoad, MakesTopic
  <2> QED BY <1>0, <1>1, <1>2, <1>3, <2>5, <2>7, QuietTurn
<1>5. CASE Gone(x)
  <2>1. Moves({x}, {}) BY <1>5, CallFacts, GoneMoves
  <2>2. NewCalls({}) /\ NewAnswers({}) /\ LoadGoes(x, {}, {})
    BY <1>3 DEF NewCalls, NewAnswers, LoadGoes
  <2> QED BY <1>0, <1>1, <1>2, <1>3, <2>1, <2>2, QuietTurn
<1> QED BY <1>4, <1>5 DEF TouchTopicRead

\* A call that ends with an answer and reads only.
LEMMA ReadKeeps ==
  ASSUME BoardInv, NEW x \in DOMAIN running, x.k \in {"forums", "topics", "posts"}, NEW m, Gone(x), Answer(m),
         UNCHANGED forumTables, fclock' = fclock, board' = board, WishKept, AnswerRight(m),
         LoadMsg(m) => Brings(x, m), IsLoad(x.k) => Brings(x, m) \/ LoadLost(x)
  PROVE  BoardInv'
<1>1. Moves({x}, {}) BY CallFacts, GoneMoves
<1>2. InboxMoves({}, {m}) BY CallFacts, AnswerHeard
<1>3. UNCHANGED <<forums, topics, posts, board, fclock>> BY DEF forumTables
<1>4. Onward BY <1>3, CallFacts, RowsStay DEF Onward, BoardInv, BoardRight, TablesOk
<1>5. AnswerRight(m)' BY <1>4, AnswerStays
<1>6. ~MakesTopic(x) /\ ~Posted(x) BY DEF MakesTopic, Posted
<1>7. NewCalls({}) /\ NewAnswers({m}) /\ LoadGoes(x, {}, {m})
  BY <1>5 DEF NewCalls, NewAnswers, LoadGoes
<1>8. UNCHANGED <<forums, topics, posts>> BY <1>3
<1> QED BY <1>1, <1>2, <1>6, <1>7, <1>8, QuietTurn

\* A load that fails tells the screen so, or nobody.
LEMMA LoadFails ==
  ASSUME BoardInv, NEW x \in DOMAIN running, x.k \in {"forums", "topics", "posts"}, Failed(x),
         UNCHANGED forumTables, fclock' = fclock, board' = board, WishKept, IsLoad(x.k) => LoadLost(x)
  PROVE  BoardInv'
<1>1. PICK m : m = [m |-> "err"] OBVIOUS
<1>2. m.m = "err" BY <1>1
<1>3. PICK N \in SUBSET {m} : InboxMoves({}, N) BY <1>1, CallFacts, ToldHeard DEF Failed
<1>4. Moves({x}, {}) BY CallFacts, GoneMoves DEF Failed
<1>5. UNCHANGED <<forums, topics, posts>> BY DEF forumTables
<1>6. AnswerRight(m)' BY <1>2 DEF AnswerRight
<1>7. ~MakesTopic(x) /\ ~Posted(x) BY DEF MakesTopic, Posted
<1>8. NewCalls({}) /\ NewAnswers(N) BY <1>6, ToldRight DEF NewCalls
<1>9. LoadGoes(x, {}, N) BY <1>2, <1>3 DEF LoadGoes, LoadMsg
<1> QED BY <1>3, <1>4, <1>5, <1>7, <1>8, <1>9, QuietTurn

LEMMA NotLoadedKeeps ==
  ASSUME BoardInv, NEW x \in DOMAIN running, x.k \in {"topics", "posts"}, NotLoaded(x),
         UNCHANGED forumTables, fclock' = fclock, board' = board
  PROVE  BoardInv'
<1>1. Failed(x) BY DEF NotLoaded
<1>2. wish' = [to |-> wish.to, from |-> wish.from, lost |-> wish.lost \/ x.seq = board.seq]
  BY DEF NotLoaded
<1>3. WishKept BY <1>2 DEF WishKept
<1>4. LoadLost(x) BY <1>2 DEF LoadLost
<1> QED BY <1>1, <1>3, <1>4, LoadFails

LEMMA LoadForumsKeeps == ASSUME BoardInv, NEW x \in DOMAIN running, LoadForums(x) PROVE BoardInv'
<1>1. x.k = "forums" /\ UNCHANGED forumTables /\ fclock' = fclock /\ board' = board /\ wish' = wish
  BY DEF LoadForums
<1>2. WishKept /\ ~IsLoad(x.k) BY <1>1, StillKept DEF IsLoad
<1>3. ASSUME NEW counts, Gone(x), Answer([m |-> "forums", unread |-> counts]) PROVE BoardInv'
  <2>1. PICK m : m = [m |-> "forums", unread |-> counts] OBVIOUS
  <2>2. m.m = "forums" BY <2>1
  <2>3. AnswerRight(m) BY <2>2 DEF AnswerRight
  <2>4. ~LoadMsg(m) BY <2>2 DEF LoadMsg
  <2> QED BY <1>1, <1>2, <1>3, <2>1, <2>3, <2>4, ReadKeeps
<1>4. ASSUME Failed(x) PROVE BoardInv' BY <1>1, <1>2, <1>4, LoadFails
<1> QED BY <1>3, <1>4 DEF LoadForums

LEMMA LoadTopicsKeeps == ASSUME BoardInv, NEW x \in DOMAIN running, LoadTopics(x) PROVE BoardInv'
<1>0. x.k = "topics" /\ UNCHANGED forumTables /\ fclock' = fclock /\ board' = board BY DEF LoadTopics
<1>1. CallRight(x) /\ IsCall(x) /\ x.forum \in ForumNames /\ x.seq \in Nat /\ x.seq <= board.seq /\ x.at \in Nat
      /\ (x.step # 1 => x.list \in Seq(DOMAIN topics))
  BY <1>0, CallFacts DEF CallRight
<1>2. CASE /\ x.step = 1
           /\ Going(x, [x EXCEPT !.step = 2, !.list = ListTopicsInForum(x.forum)])
           /\ UNCHANGED <<inbox2, wish>>
  <2>0. UNCHANGED <<forums, topics, posts>> /\ WishKept BY <1>0, <1>2, StillKept DEF forumTables
  <2>1. PICK l : l = ListTopicsInForum(x.forum) OBVIOUS
  <2>2. PICK y : y = WithList(x, 2, l) OBVIOUS
  <2>3. IsCall(y) /\ y.k = "topics" /\ y.at = x.at /\ y.forum = x.forum /\ y.seq = x.seq /\ y.topic = x.topic
        /\ y.list = l
    BY <1>0, <1>1, <2>2, CallListed DEF Follows
  <2>4. Going(x, y) BY <1>2, <2>1, <2>2 DEF WithList
  <2>5. Moves({x}, {y}) BY <2>4, CallFacts, GoingMoves
  <2>6. InboxMoves({}, {}) BY <1>2, CallFacts, NothingHeard
  <2>7. l \in Seq(DOMAIN topics) BY <2>1, CallFacts, TopicsPaged
  <2>8. CallRight(y)' BY <1>0, <1>1, <2>0, <2>3, <2>7 DEF CallRight, IsCall
  <2>9. ~MakesTopic(x) /\ ~Posted(x) /\ ~MakesTopic(y) BY <1>0, <2>3 DEF MakesTopic, Posted
  <2>10. NewCalls({y}) /\ NewAnswers({}) /\ LoadGoes(x, {y}, {})
    BY <1>0, <2>3, <2>8, <2>9 DEF NewCalls, NewAnswers, LoadGoes, IsLoad, Same
  <2> QED BY <1>0, <2>0, <2>5, <2>6, <2>9, <2>10, QuietTurn
<1>3. ASSUME x.step = 2, Gone(x), wish' = wish, NEW counts,
             Answer([m |-> "topics", seq |-> x.seq, forum |-> x.forum, list |-> x.list,
                     unread |-> counts])
      PROVE  BoardInv'
  <2>0. WishKept BY <1>3, StillKept
  <2>1. PICK m : m = [m |-> "topics", seq |-> x.seq, forum |-> x.forum, list |-> x.list,
                      unread |-> counts] OBVIOUS
  <2>2. m.m = "topics" /\ m.seq = x.seq /\ m.forum = x.forum /\ m.list = x.list BY <2>1
  <2>3. Gone(x) /\ Answer(m) BY <1>3, <2>1
  <2>4. AnswerRight(m) BY <1>1, <1>3, <2>2 DEF AnswerRight
  <2>5. Brings(x, m) BY <1>0, <2>2 DEF Brings
  <2> QED BY <1>0, <2>0, <2>3, <2>4, <2>5, ReadKeeps
<1>4. ASSUME NotLoaded(x) PROVE BoardInv' BY <1>0, <1>4, NotLoadedKeeps
<1> QED BY <1>2, <1>3, <1>4 DEF LoadTopics

LEMMA LoadPostsKeeps == ASSUME BoardInv, NEW x \in DOMAIN running, LoadPosts(x) PROVE BoardInv'
<1>0. x.k = "posts" /\ UNCHANGED forumTables /\ fclock' = fclock /\ board' = board BY DEF LoadPosts
<1>x. ASSUME NotLoaded(x) PROVE BoardInv' BY <1>0, <1>x, NotLoadedKeeps
<1>1. x.topic \in DOMAIN topics /\ x.seq \in Nat /\ x.seq <= board.seq
  BY <1>0, CallFacts DEF CallRight
<1>2. PICK m : m = [m |-> "posts", seq |-> x.seq, topic |-> x.topic,
                    list |-> ListPostsInTopic(x.topic)] OBVIOUS
<1>3. m.m = "posts" /\ m.seq = x.seq /\ m.topic = x.topic /\ m.list = ListPostsInTopic(x.topic) BY <1>2
<1>4. ~NotLoaded(x) => Gone(x) /\ Answer(m) /\ WishKept BY <1>2, StillKept DEF LoadPosts
<1>5. AsItStood(m.list, m.topic) BY <1>3, CallFacts, StoodWhole
<1>6. AnswerRight(m) BY <1>1, <1>3, <1>5 DEF AnswerRight
<1>7. Brings(x, m) BY <1>0, <1>3 DEF Brings
<1> QED BY <1>0, <1>x, <1>4, <1>6, <1>7, ReadKeeps

-----------------------------------------------------------------------------
(* The screen's own steps: no table moves.                                 *)
BoardLike(b) ==
  /\ b = [f \in BoardFields |-> b[f]]
  /\ b.mode \in {"forums", "topics", "thread", "compose"}
  /\ b.seq \in Nat /\ b.cursor \in Nat
  /\ b.forum \in ForumNames \cup {NoForum}
  /\ b.topics \in Seq(DOMAIN topics)
  /\ b.topics # <<>> => b.cursor \in 1 .. Len(b.topics)
  /\ b.topic # Nil => b.topic \in DOMAIN topics /\ AsItStood(b.posts, b.topic)

LEMMA BoardThen ==
  ASSUME Onward, NEW b, board' = b, BoardLike(b) PROVE BoardRight'
<1>1. DOMAIN topics \subseteq DOMAIN topics' BY DEF Onward, RowsGrow
<1>2. b.topics \in Seq(DOMAIN topics') BY <1>1, KeptSeq DEF BoardLike
<1>3. ASSUME b.topic # Nil PROVE b.topic \in DOMAIN topics' /\ AsItStood(board.posts, board.topic)'
  <2> DEFINE s == b.posts
             t == b.topic
  <2>1. AsItStood(s, t) /\ t \in DOMAIN topics BY <1>3 DEF BoardLike
  <2>2. AsItStood(s, t)' BY <2>1, StoodStill DEF Onward
  <2>3. board.posts' = s /\ board.topic' = t OBVIOUS
  <2> QED BY <1>1, <2>1, <2>2, <2>3 DEF AsItStood
<1> QED BY <1>2, <1>3 DEF BoardRight, BoardLike

\* The guidance after a step that leaves the sequence number alone.
StaleLeaves(M) == \A m \in M : LoadMsg(m) => m.seq # board.seq
NoLoads(Y) == \A y \in Y : ~IsLoad(y.k)
Unmoved == Beneath' = Beneath /\ board'.forum = board.forum /\ board'.topic = board.topic
LEMMA GuidedHere ==
  ASSUME Guided, NEW Y, NEW M, Moves({}, Y), InboxMoves(M, {}), NoLoads(Y),
         board'.seq = board.seq, wish' = wish,
         Landed' \/ (Unmoved /\ StaleLeaves(M)),
         wish.to[1] # "thread" \/ board'.mode \in {"forums", "topics"} => board'.topic = Nil,
         board'.mode = "thread" => board'.topic # Nil
  PROVE  Guided'
<1>1. ASSUME NEW x \in DOMAIN running', IsLoad(x.k), x.seq = board.seq PROVE Leads(x.k, x.forum, x.topic)
  <2>1. x \in DOMAIN running BY <1>1 DEF Moves, NoLoads
  <2> QED BY <1>1, <2>1 DEF Guided
<1>2. \A m \in DOMAIN inbox2' : m.m = "topics" /\ m.seq = board.seq => Leads("topics", m.forum, Nil)
  BY DEF InboxMoves, Guided
<1>3. \A m \in DOMAIN inbox2' : m.m = "posts" /\ m.seq = board.seq => Leads("posts", NoForum, m.topic)
  BY DEF InboxMoves, Guided
<1>4. ASSUME Awaited, StaleLeaves(M) PROVE Awaited'
  <2>1. CASE \E m \in DOMAIN inbox2 : m.m \in {"topics", "posts"} /\ m.seq = board.seq
    <3>1. PICK m \in DOMAIN inbox2 : m.m \in {"topics", "posts"} /\ m.seq = board.seq BY <2>1
    <3>2. m \notin M BY <1>4, <3>1 DEF StaleLeaves, LoadMsg
    <3>3. m \in DOMAIN inbox2' BY <3>2 DEF InboxMoves
    <3> QED BY <3>1, <3>3 DEF Awaited
  <2>2. CASE \E x \in DOMAIN running : x.k \in {"topics", "posts"} /\ x.seq = board.seq
    <3>1. PICK x \in DOMAIN running : x.k \in {"topics", "posts"} /\ x.seq = board.seq BY <2>2
    <3>2. x \in DOMAIN running' BY DEF Moves
    <3> QED BY <3>1, <3>2 DEF Awaited
  <2> QED BY <1>4, <2>1, <2>2 DEF Awaited
<1>5. Landed' \/ (Stayed' /\ (Awaited' \/ wish'.lost))
  <2>1. ASSUME Unmoved PROVE (Landed => Landed') /\ (Stayed => Stayed')
    BY <2>1 DEF Landed, Stayed, StandsAt, Unmoved
  <2> QED BY <1>4, <2>1 DEF Guided
<1>6. \A k, f, t : Leads(k, f, t)' <=> Leads(k, f, t) BY DEF Leads
<1> QED BY <1>1, <1>2, <1>3, <1>5, <1>6 DEF Guided

\* The guidance after a step that asks anew: what was asked before does not count.
NewLoads(Y) == \A y \in Y : IsLoad(y.k) => Leads(y.k, y.forum, y.topic)'
LEMMA GuidedThere ==
  ASSUME BoardInv, NEW Y, Moves({}, Y), InboxMoves({}, {}), NewLoads(Y),
         board'.seq = board.seq + 1, wish'.to[1] \in {"forums", "topics", "thread"},
         ((\E y \in Y : IsLoad(y.k) /\ y.seq = board.seq + 1) /\ Stayed') \/ Landed',
         board'.topic = Nil, board'.mode # "thread"
  PROVE  Guided'
<1>0. board.seq \in Nat BY DEF BoardInv, BoardRight
<1>1. \A x \in DOMAIN running : IsLoad(x.k) => x.seq # board'.seq
  <2>1. SUFFICES ASSUME NEW x \in DOMAIN running, IsLoad(x.k) PROVE x.seq # board'.seq
    OBVIOUS
  <2>2. x.seq \in Nat /\ x.seq <= board.seq BY <2>1, CallFacts DEF CallRight, IsLoad
  <2> QED BY <1>0, <2>2
<1>2. \A m \in DOMAIN inbox2 : LoadMsg(m) => m.seq # board'.seq
  <2>1. SUFFICES ASSUME NEW m \in DOMAIN inbox2, LoadMsg(m) PROVE m.seq # board'.seq
    OBVIOUS
  <2>2. AnswerRight(m) BY DEF BoardInv, WhatRuns
  <2>3. m.seq \in Nat /\ m.seq <= board.seq BY <2>1, <2>2 DEF AnswerRight, LoadMsg
  <2> QED BY <1>0, <2>3
<1>3. ASSUME NEW x \in DOMAIN running', IsLoad(x.k), x.seq = board'.seq PROVE Leads(x.k, x.forum, x.topic)'
  <2>1. x \in Y BY <1>1, <1>3 DEF Moves
  <2> QED BY <1>3, <2>1 DEF NewLoads
<1>4. \A m \in DOMAIN inbox2' : LoadMsg(m) => m.seq # board'.seq BY <1>2 DEF InboxMoves
<1>5. ASSUME NEW y \in Y, IsLoad(y.k), y.seq = board.seq + 1 PROVE Awaited'
  <2>1. y \in DOMAIN running' BY DEF Moves
  <2> QED BY <1>5, <2>1 DEF Awaited, IsLoad
<1>6. Landed' \/ (Stayed' /\ (Awaited' \/ wish'.lost)) BY <1>5
<1>7. (\A x \in DOMAIN running : IsLoad(x.k) /\ x.seq = board.seq => Leads(x.k, x.forum, x.topic))'
  BY <1>3 DEF IsLoad
<1>8. (\A m \in DOMAIN inbox2 : m.m = "topics" /\ m.seq = board.seq => Leads("topics", m.forum, Nil))'
  BY <1>4 DEF LoadMsg
<1>9. (\A m \in DOMAIN inbox2 : m.m = "posts" /\ m.seq = board.seq => Leads("posts", NoForum, m.topic))'
  BY <1>4 DEF LoadMsg
<1> QED BY <1>6, <1>7, <1>8, <1>9 DEF Guided

RowsKept == UNCHANGED <<forums, topics, posts>> /\ fclock' \in Nat
LEMMA ScreenOnward ==
  ASSUME BoardInv, RowsKept, NEW b, board' = b, b.seq \in Nat, board.seq <= b.seq
  PROVE  Onward /\ TablesOk' /\ (HasWritten' <=> HasWritten) /\ DOMAIN topics' = DOMAIN topics
<1>1. TablesOk' /\ RowsGrow BY RowsStay DEF BoardInv, RowsKept
<1>2. board.seq \in Nat BY DEF BoardInv, BoardRight
<1>3. HasWritten' <=> HasWritten BY DEF HasWritten, RowsKept
<1> QED BY <1>1, <1>2, <1>3 DEF Onward, BoardInv, RowsKept

LEMMA ScreenTurn ==
  ASSUME BoardInv, RowsKept, NEW b, board' = b, BoardLike(b), board.seq <= b.seq,
         NEW Y, NEW M, Moves({}, Y), InboxMoves(M, {}), NewCalls(Y), ~HasWritten => Guided'
  PROVE  BoardInv'
<1>1. Onward /\ TablesOk' /\ (HasWritten' <=> HasWritten) /\ DOMAIN topics' = DOMAIN topics
  BY ScreenOnward DEF BoardLike
<1>2. BoardRight' BY <1>1, BoardThen
<1>3. \A y \in Y : CallRight(y)' BY DEF NewCalls
<1>4. WhatRuns'
  <2>1. \A m \in {} : AnswerRight(m)' OBVIOUS
  <2>2. WhatRuns BY DEF BoardInv
  <2> QED BY <1>1, <1>3, <2>1, <2>2, RunsOn
<1>5. \A y \in Y : ~MakesTopic(y) BY DEF NewCalls
<1>6. Alone /\ TablesOk BY DEF BoardInv
<1>7. Alone' BY <1>5, <1>6, AloneStays
<1>8. ASSUME Counted PROVE Counted'
  <2>1. \A t \in DOMAIN topics : topics'[t].forum = topics[t].forum BY DEF RowsKept
  <2>2. \A f : CountedIn(f)' = CountedIn(f) BY <1>1, <1>5, <1>6, <2>1, SameCounted
  <2> QED BY <1>8, <2>2, CountedStays DEF RowsKept
<1>9. ASSUME Timed PROVE Timed'
  <2>1. \A f \in ForumNames : forums'[f].activity >= forums[f].activity
    BY <1>6 DEF RowsKept, TablesOk, Counter
  <2>2. \A p \in DOMAIN posts' \ DOMAIN posts :
           \E y \in Y : Posted(y) /\ y.forum = ForumOf(p)' /\ y.at = posts'[p].at
    BY DEF RowsKept
  <2> QED BY <1>1, <1>9, <2>1, <2>2, TimedStays
<1>10. ~ForumFaults => Counted' /\ Timed' BY <1>8, <1>9 DEF BoardInv
<1> QED BY <1>1, <1>2, <1>4, <1>7, <1>10 DEF BoardInv

\* A call that starts.
AboutTopic(f, t) == t \in DOMAIN topics /\ f = topics[t].forum
LEMMA WorkingIs ==
  ASSUME BoardInv, RowsKept, NEW k \in {"create", "reply", "touch", "topics", "posts"},
         NEW u \in Authors, NEW f, NEW t, NEW n,
         k = "create" => f \in ForumNames,
         k = "reply" => AboutTopic(f, t),
         k = "topics" => f \in ForumNames /\ n \in Nat /\ n <= board'.seq,
         k = "posts" => t \in DOMAIN topics /\ n \in Nat /\ n <= board'.seq,
         NEW y, y = Working(k, u, f, t, n)
  PROVE  /\ NewCalls({y}) /\ IsABag(running) /\ IsABag(inbox2)
         /\ y.k = k /\ y.forum = f /\ y.topic = t /\ y.seq = n
<1>1. fclock \in Nat BY DEF BoardInv, TablesOk
<1>2. /\ y = [g \in ForumCallFields |-> y[g]] /\ y.k = k /\ y.by = u /\ y.step = 1 /\ y.forum = f
      /\ y.topic = t /\ y.seq = n /\ y.at = fclock
  BY DEF Working, ForumCallFields
<1>3. k = "create" => CreateRight(y)' BY <1>2 DEF CreateRight
<1>4. k = "reply" => ReplyRight(y)' BY <1>2 DEF ReplyRight, RowsKept, AboutTopic
<1>5. CallRight(y)' BY <1>1, <1>2, <1>3, <1>4 DEF CallRight, RowsKept
<1>6. ~MakesTopic(y) BY <1>2 DEF MakesTopic
<1> QED BY <1>2, <1>5, <1>6, CallFacts DEF NewCalls, BoardInv, WhatRuns
-----------------------------------------------------------------------------
(* What comes back to the screen.                                          *)
LEMMA BoardFacts ==
  ASSUME BoardInv
  PROVE  /\ BoardLike(board) /\ TablesOk /\ IsABag(running) /\ IsABag(inbox2)
         /\ ~HasWritten => Guided
BY DEF BoardInv, BoardRight, BoardLike, WhatRuns

LEMMA MessageFacts == ASSUME BoardInv, NEW m \in DOMAIN inbox2 PROVE AnswerRight(m)
BY DEF BoardInv, WhatRuns

SamePlace(b) ==
  /\ b.mode = board.mode /\ b.seq = board.seq /\ b.forum = board.forum /\ b.topic = board.topic

\* The screen takes a message and stays where it is.
LEMMA StaysHere ==
  ASSUME BoardInv, RowsKept, wish' = wish, NEW b, board' = b, BoardLike(b), SamePlace(b),
         NEW Y, NEW M, Moves({}, Y), InboxMoves(M, {}), NewCalls(Y), NoLoads(Y), StaleLeaves(M)
  PROVE  BoardInv'
<1>1. board.seq <= b.seq BY BoardFacts DEF SamePlace, BoardLike
<1>2. ASSUME ~HasWritten PROVE Guided'
  <2>1. Guided BY <1>2, BoardFacts
  <2>2. Unmoved BY DEF Unmoved, Beneath, SamePlace
  <2>3. wish.to[1] # "thread" \/ board'.mode \in {"forums", "topics"} => board'.topic = Nil
    BY <2>1 DEF Guided, SamePlace
  <2>4. board'.mode = "thread" => board'.topic # Nil BY <2>1 DEF Guided, SamePlace
  <2>5. board'.seq = board.seq BY DEF SamePlace
  <2> QED BY <2>1, <2>2, <2>3, <2>4, <2>5, GuidedHere
<1> QED BY <1>1, <1>2, ScreenTurn

TakesMsg(m) ==
  /\ m \in DOMAIN inbox2 /\ Got(m)
  /\ RowsKept /\ wish' = wish

LEMMA ForumsArrive == ASSUME BoardInv, NEW m, TakesMsg(m), HandleForums(m) PROVE BoardInv'
<1>1. PICK b : b = [board EXCEPT !.listed = TRUE, !.unreadForum = m.unread] OBVIOUS
<1>2. board' = b /\ m.m = "forums" /\ UNCHANGED running BY <1>1 DEF HandleForums
<1>3. BoardLike(b) /\ SamePlace(b) BY <1>1, BoardFacts DEF BoardLike, BoardFields, SamePlace
<1>4. Moves({}, {}) BY <1>2, BoardFacts, NothingMoves
<1>5. InboxMoves({m}, {}) BY BoardFacts, GotHeard DEF TakesMsg
<1>6. NewCalls({}) /\ NoLoads({}) /\ StaleLeaves({m}) BY <1>2 DEF NewCalls, NoLoads, StaleLeaves, LoadMsg
<1> QED BY <1>2, <1>3, <1>4, <1>5, <1>6, StaysHere DEF TakesMsg

LEMMA ErrorArrives == ASSUME BoardInv, NEW m, TakesMsg(m), HandleError(m) PROVE BoardInv'
<1>1. PICK b : b = [board EXCEPT !.err = TRUE] OBVIOUS
<1>2. board' = b /\ m.m = "err" /\ UNCHANGED running BY <1>1 DEF HandleError
<1>3. BoardLike(b) /\ SamePlace(b) BY <1>1, BoardFacts DEF BoardLike, BoardFields, SamePlace
<1>4. Moves({}, {}) BY <1>2, BoardFacts, NothingMoves
<1>5. InboxMoves({m}, {}) BY BoardFacts, GotHeard DEF TakesMsg
<1>6. NewCalls({}) /\ NoLoads({}) /\ StaleLeaves({m}) BY <1>2 DEF NewCalls, NoLoads, StaleLeaves, LoadMsg
<1> QED BY <1>2, <1>3, <1>4, <1>5, <1>6, StaysHere DEF TakesMsg

\* An answer that was overtaken changes nothing.
LEMMA StaleArrives ==
  ASSUME BoardInv, NEW m, TakesMsg(m), m.seq # board.seq, board' = board, UNCHANGED running
  PROVE  BoardInv'
<1>1. PICK b : b = board OBVIOUS
<1>2. board' = b BY <1>1
<1>3. BoardLike(b) /\ SamePlace(b) BY <1>1, BoardFacts DEF SamePlace
<1>4. Moves({}, {}) BY BoardFacts, NothingMoves
<1>5. InboxMoves({m}, {}) BY BoardFacts, GotHeard DEF TakesMsg
<1>6. NewCalls({}) /\ NoLoads({}) /\ StaleLeaves({m}) BY DEF NewCalls, NoLoads, StaleLeaves
<1> QED BY <1>2, <1>3, <1>4, <1>5, <1>6, StaysHere DEF TakesMsg

\* One that the screen takes brings it where it was asked to go.
LEMMA Lands ==
  ASSUME BoardInv, RowsKept, wish' = wish, NEW b, board' = b, BoardLike(b), b.seq = board.seq,
         NEW Y, NEW M, Moves({}, Y), InboxMoves(M, {}), NewCalls(Y), NoLoads(Y),
         Guided => Landed',
         Guided /\ (wish.to[1] # "thread" \/ b.mode \in {"forums", "topics"}) => b.topic = Nil,
         Guided /\ b.mode = "thread" => b.topic # Nil
  PROVE  BoardInv'
<1>1. board.seq <= b.seq BY BoardFacts DEF BoardLike
<1>2. ASSUME ~HasWritten PROVE Guided'
  <2>1. Guided BY <1>2, BoardFacts
  <2> QED BY <2>1, GuidedHere
<1> QED BY <1>1, <1>2, ScreenTurn

LEMMA TopicsArrive == ASSUME BoardInv, NEW m, TakesMsg(m), HandleTopics(m) PROVE BoardInv'
<1>1. m.m = "topics" /\ UNCHANGED running BY DEF HandleTopics
<1>2. CASE m.seq # board.seq
  <2>1. board' = board BY <1>2 DEF HandleTopics
  <2> QED BY <1>1, <1>2, <2>1, StaleArrives
<1>3. CASE m.seq = board.seq
  <2>1. PICK b : b = [board EXCEPT !.forum = m.forum, !.topics = m.list, !.unread = m.unread,
                                 !.cursor = 1, !.mode = "topics"] OBVIOUS
  <2>2. board' = b BY <1>3, <2>1 DEF HandleTopics
  <2>3. m.forum \in ForumNames /\ m.list \in Seq(DOMAIN topics)
    BY <1>1, MessageFacts DEF TakesMsg, AnswerRight
  <2>4. BoardLike(board) BY BoardFacts
  <2>5. /\ b = [f \in BoardFields |-> b[f]]
        /\ b.mode = "topics" /\ b.seq = board.seq /\ b.cursor = 1 /\ b.forum = m.forum
        /\ b.topics = m.list /\ b.topic = board.topic /\ b.posts = board.posts
    BY <2>1, <2>4 DEF BoardLike, BoardFields
  <2>6. m.list # <<>> => 1 \in 1 .. Len(m.list)
    <3>1. Len(m.list) \in Nat /\ DOMAIN m.list = 1 .. Len(m.list) BY <2>3, LenProperties
    <3>2. m.list # <<>> => Len(m.list) # 0 BY <2>3, EmptySeq
    <3> QED BY <3>1, <3>2
  <2>7. BoardLike(b) BY <2>3, <2>4, <2>5, <2>6 DEF BoardLike
  <2>8. Moves({}, {}) BY <1>1, BoardFacts, NothingMoves
  <2>9. InboxMoves({m}, {}) BY BoardFacts, GotHeard DEF TakesMsg
  <2>10. NewCalls({}) /\ NoLoads({}) BY DEF NewCalls, NoLoads
  <2>11. ASSUME Guided PROVE Landed' /\ b.topic = Nil
    <3>1. Leads("topics", m.forum, Nil) BY <1>1, <1>3, <2>11 DEF Guided, TakesMsg
    <3>2. wish.to[1] = "topics" /\ wish.to[2] = m.forum BY <3>1 DEF Leads
    <3>3. b.topic = Nil BY <2>5, <2>11, <3>2 DEF Guided
    <3>4. Landed' BY <2>2, <2>5, <3>2 DEF Landed, StandsAt, Beneath, TakesMsg
    <3> QED BY <3>3, <3>4
  <2> QED BY <2>2, <2>5, <2>7, <2>8, <2>9, <2>10, <2>11, Lands DEF TakesMsg
<1> QED BY <1>2, <1>3

LEMMA PostsArrive == ASSUME BoardInv, NEW m, TakesMsg(m), HandlePosts(m) PROVE BoardInv'
<1>1. m.m = "posts" BY DEF HandlePosts
<1>2. CASE m.seq # board.seq
  <2>1. board' = board /\ UNCHANGED running BY <1>2 DEF HandlePosts
  <2> QED BY <1>1, <1>2, <2>1, StaleArrives
<1>3. CASE m.seq = board.seq
  <2>1. PICK u : u = [t \in DOMAIN board.unread |-> IF t = m.topic THEN 0 ELSE board.unread[t]] OBVIOUS
  <2>2. PICK b : b = [board EXCEPT !.topic = m.topic, !.posts = m.list, !.mode = "thread", !.unread = u]
    OBVIOUS
  <2>4. BoardLike(board) BY BoardFacts
  <2>3. board' = b
    <3>1. board' = [board EXCEPT !.topic = m.topic, !.posts = m.list, !.mode = "thread",
                !.unread = [t \in DOMAIN @ |-> IF t = m.topic THEN 0 ELSE @[t]]]
      BY <1>3 DEF HandlePosts
    <3>2. "unread" \in DOMAIN board BY <2>4 DEF BoardLike, BoardFields
    <3> QED BY <2>1, <2>2, <3>1, <3>2
  <2>5. m.topic \in DOMAIN topics /\ AsItStood(m.list, m.topic)
    BY <1>1, MessageFacts DEF TakesMsg, AnswerRight
  <2>6. /\ b = [f \in BoardFields |-> b[f]]
        /\ b.mode = "thread" /\ b.seq = board.seq /\ b.cursor = board.cursor /\ b.forum = board.forum
        /\ b.topics = board.topics /\ b.topic = m.topic /\ b.posts = m.list
    BY <2>2, <2>4 DEF BoardLike, BoardFields
  <2>7. BoardLike(b) BY <2>4, <2>5, <2>6 DEF BoardLike
  <2>8. PICK y : y = Working("touch", Reader, NoForum, m.topic, 0) OBVIOUS
  <2>9. StartTask(y) BY <1>3, <2>8 DEF HandlePosts
  <2>10. Moves({}, {y}) BY <2>9, BoardFacts, StartMoves
  <2>11. InboxMoves({m}, {}) BY BoardFacts, GotHeard DEF TakesMsg
  <2>12. NewCalls({y}) /\ y.k = "touch" BY <2>8, WorkingIs DEF TakesMsg, Authors
  <2>13. NoLoads({y}) BY <2>12 DEF NoLoads, IsLoad
  <2>14. m.topic # Nil BY <2>5, BoardFacts, RowsTyped DEF Nil
  <2>15. ASSUME Guided PROVE Landed' /\ wish.to[1] = "thread"
    <3>1. Leads("posts", NoForum, m.topic) BY <1>1, <1>3, <2>15 DEF Guided, TakesMsg
    <3>2. wish.to[1] = "thread" /\ wish.to[2] = m.topic BY <3>1 DEF Leads
    <3>3. Landed' BY <2>3, <2>6, <3>2 DEF Landed, StandsAt, Beneath, TakesMsg
    <3> QED BY <3>2, <3>3
  <2> QED BY <2>3, <2>6, <2>7, <2>10, <2>11, <2>12, <2>13, <2>14, <2>15, Lands DEF TakesMsg
<1> QED BY <1>2, <1>3

LEMMA WrittenArrives ==
  ASSUME BoardInv, RowsKept, HasWritten, NEW b, board' = b, BoardLike(b), board.seq <= b.seq,
         NEW Y, NEW M, Moves({}, Y), InboxMoves(M, {}), NewCalls(Y)
  PROVE  BoardInv'
BY ScreenTurn

LEMMA TopicArrives == ASSUME BoardInv, NEW m, TakesMsg(m), HandleTopicCreated(m) PROVE BoardInv'
<1>1. m.m = "topic" BY DEF HandleTopicCreated
<1>2. HasWritten /\ m.topic \in DOMAIN topics /\ AsItStood(m.posts, m.topic)
  BY <1>1, MessageFacts DEF TakesMsg, AnswerRight
<1>3. PICK b : b = [board EXCEPT !.topic = m.topic, !.posts = m.posts, !.stage = "none",
                            !.mode = "thread"] OBVIOUS
<1>4. board' = b BY <1>3 DEF HandleTopicCreated
<1>5. BoardLike(board) BY BoardFacts
<1>6. /\ b = [f \in BoardFields |-> b[f]]
      /\ b.mode = "thread" /\ b.seq = board.seq /\ b.cursor = board.cursor /\ b.forum = board.forum
      /\ b.topics = board.topics /\ b.topic = m.topic /\ b.posts = m.posts
  BY <1>3, <1>5 DEF BoardLike, BoardFields
<1>7. BoardLike(b) BY <1>2, <1>5, <1>6 DEF BoardLike
<1>8. PICK y : y = Working("touch", Reader, NoForum, m.topic, 0) OBVIOUS
<1>9. StartTask(y) BY <1>8 DEF HandleTopicCreated
<1>10. Moves({}, {y}) BY <1>9, BoardFacts, StartMoves
<1>11. InboxMoves({m}, {}) BY BoardFacts, GotHeard DEF TakesMsg
<1>12. NewCalls({y}) BY <1>8, WorkingIs DEF TakesMsg, Authors
<1>13. board.seq <= b.seq BY <1>5, <1>6 DEF BoardLike
<1> QED BY <1>2, <1>4, <1>7, <1>10, <1>11, <1>12, <1>13, WrittenArrives DEF TakesMsg

LEMMA ReplyArrives == ASSUME BoardInv, NEW m, TakesMsg(m), HandlePostCreated(m) PROVE BoardInv'
<1>1. m.m = "replied" BY DEF HandlePostCreated
<1>2. HasWritten BY <1>1, MessageFacts DEF TakesMsg, AnswerRight
<1>3. BoardLike(board) BY BoardFacts
<1>4. InboxMoves({m}, {}) BY BoardFacts, GotHeard DEF TakesMsg
<1>5. CASE board.topic = Nil
  <2>1. PICK b : b = [board EXCEPT !.stage = "none", !.mode = "thread"] OBVIOUS
  <2>2. board' = b /\ UNCHANGED running BY <1>5, <2>1 DEF HandlePostCreated
  <2>3. BoardLike(b) /\ b.seq = board.seq BY <1>3, <2>1 DEF BoardLike, BoardFields
  <2>4. Moves({}, {}) BY <2>2, BoardFacts, NothingMoves
  <2>5. NewCalls({}) BY DEF NewCalls
  <2>6. board.seq <= b.seq BY <1>3, <2>3 DEF BoardLike
  <2> QED BY <1>2, <1>4, <2>2, <2>3, <2>4, <2>5, <2>6, WrittenArrives DEF TakesMsg
<1>6. CASE board.topic # Nil
  <2>1. PICK n : n = board.seq + 1 OBVIOUS
  <2>2. PICK b : b = [board EXCEPT !.stage = "none", !.mode = "thread", !.seq = n] OBVIOUS
  <2>3. board' = b BY <1>3, <1>6, <2>1, <2>2 DEF HandlePostCreated, BoardLike, BoardFields
  <2>4. n \in Nat /\ board.seq <= n BY <1>3, <2>1 DEF BoardLike
  <2>5. BoardLike(b) /\ b.seq = n BY <1>3, <2>2, <2>4 DEF BoardLike, BoardFields
  <2>6. PICK y : y = Working("posts", Reader, NoForum, board.topic, n) OBVIOUS
  <2>7. StartTask(y) BY <1>6, <2>1, <2>6 DEF HandlePostCreated
  <2>8. Moves({}, {y}) BY <2>7, BoardFacts, StartMoves
  <2>9. board.topic \in DOMAIN topics BY <1>3, <1>6 DEF BoardLike
  <2>10. NewCalls({y})
    <3>1. n <= board'.seq BY <2>3, <2>4, <2>5
    <3>2. RowsKept /\ Reader \in Authors BY DEF TakesMsg, Authors
    <3> QED BY <2>4, <2>6, <2>9, <3>1, <3>2, WorkingIs
  <2> QED BY <1>2, <1>4, <2>3, <2>4, <2>5, <2>8, <2>10, WrittenArrives DEF TakesMsg
<1> QED BY <1>5, <1>6

LEMMA BoardsUpdateKeeps == ASSUME BoardInv, BoardsUpdate PROVE BoardInv'
<1>1. PICK m \in DOMAIN inbox2 :
        /\ Got(m)
        /\ \/ HandleForums(m) \/ HandleTopics(m) \/ HandlePosts(m)
           \/ HandleTopicCreated(m) \/ HandlePostCreated(m) \/ HandleError(m)
  BY DEF BoardsUpdate
<1>2. TakesMsg(m)
  <2>1. fclock \in Nat BY BoardFacts DEF TablesOk
  <2> QED BY <1>1, <2>1 DEF BoardsUpdate, TakesMsg, RowsKept, forumTables
<1> QED BY <1>1, <1>2, ForumsArrive, TopicsArrive, PostsArrive, TopicArrives, ReplyArrives, ErrorArrives
-----------------------------------------------------------------------------
(* The reader's keys, and what the others do.                              *)
LEMMA KeyFacts ==
  ASSUME BoardInv, Tick, UNCHANGED keyed
  PROVE  RowsKept /\ InboxMoves({}, {})
<1>1. fclock' \in Nat BY BoardFacts DEF Tick, TablesOk
<1>2. UNCHANGED inbox2 BY DEF keyed
<1>3. InboxMoves({}, {}) BY <1>2, BoardFacts, NothingHeard
<1> QED BY <1>1, <1>3 DEF RowsKept, keyed, forumTables

\* A key that moves nothing.
LEMMA KeyStays ==
  ASSUME BoardInv, Tick, UNCHANGED keyed, wish' = wish, NEW b, board' = b, BoardLike(b), b.seq = board.seq,
         NEW Y, Moves({}, Y), NewCalls(Y), NoLoads(Y),
         Guided => Unmoved,
         Guided /\ (wish.to[1] # "thread" \/ b.mode \in {"forums", "topics"}) => b.topic = Nil,
         Guided /\ b.mode = "thread" => b.topic # Nil
  PROVE  BoardInv'
<1>0. RowsKept /\ InboxMoves({}, {}) BY KeyFacts
<1>1. board.seq <= b.seq BY BoardFacts DEF BoardLike
<1>2. ASSUME ~HasWritten PROVE Guided'
  <2>1. Guided BY <1>2, BoardFacts
  <2>2. StaleLeaves({}) BY DEF StaleLeaves
  <2> QED BY <1>0, <2>1, <2>2, GuidedHere
<1> QED BY <1>0, <1>1, <1>2, ScreenTurn

\* A key that leaves for another place, or asks for it.
LEMMA KeyLeaves ==
  ASSUME BoardInv, Tick, UNCHANGED keyed, NEW b, board' = b, BoardLike(b), b.seq = board.seq + 1,
         NEW Y, Moves({}, Y), NewCalls(Y), NewLoads(Y),
         NEW place, AsksFor(place), place[1] \in {"forums", "topics", "thread"},
         \/ (\E y \in Y : IsLoad(y.k) /\ y.seq = board.seq + 1) /\ Unmoved
         \/ StandsAt(place)',
         Guided => b.topic = Nil, b.mode # "thread"
  PROVE  BoardInv'
<1>0. RowsKept /\ InboxMoves({}, {}) BY KeyFacts
<1>1. board.seq <= b.seq BY BoardFacts DEF BoardLike
<1>2. ASSUME ~HasWritten PROVE Guided'
  <2>1. Guided BY <1>2, BoardFacts
  <2>2. board'.topic = Nil BY <2>1
  <2>3. wish' = [to |-> place, from |-> Here, lost |-> FALSE] BY DEF AsksFor
  <2>4. wish'.to = place /\ wish'.from = Here BY <2>3
  <2>5. ASSUME Unmoved PROVE Stayed'
    <3>1. Beneath \in {"forums", "topics", "thread"} BY BoardFacts DEF Beneath, BoardLike
    <3>2. /\ Here[1] = Beneath
          /\ Beneath = "topics" => Here[2] = board.forum
          /\ Beneath = "thread" => Here[2] = board.topic
      BY <3>1 DEF Here
    <3> QED BY <2>4, <2>5, <3>2 DEF Stayed, StandsAt, Unmoved
  <2>6. StandsAt(place)' => Landed' BY <2>4 DEF Landed, StandsAt
  <2> QED BY <1>0, <2>2, <2>4, <2>5, <2>6, GuidedThere
<1> QED BY <1>0, <1>1, <1>2, ScreenTurn

LEMMA ForumListKeyKeeps == ASSUME BoardInv, ForumListKey PROVE BoardInv'
<1>1. PICK f \in ForumNames :
       /\ board' = [board EXCEPT !.seq = @ + 1]
       /\ StartTask(Working("topics", Reader, f, Nil, board.seq + 1))
       /\ AsksFor(<<"topics", f>>)
  BY DEF ForumListKey
<1>2. board.mode = "forums" /\ Tick /\ UNCHANGED keyed BY DEF ForumListKey
<1>3. BoardLike(board) BY BoardFacts
<1>4. PICK n : n = board.seq + 1 OBVIOUS
<1>5. PICK b : b = [board EXCEPT !.seq = n] OBVIOUS
<1>6. board' = b BY <1>1, <1>3, <1>4, <1>5 DEF BoardLike, BoardFields
<1>7. n \in Nat BY <1>3, <1>4 DEF BoardLike
<1>8. BoardLike(b) /\ b.seq = n /\ b.mode = "forums" /\ b.topic = board.topic
  BY <1>2, <1>3, <1>5, <1>7 DEF BoardLike, BoardFields
<1>9. PICK y : y = Working("topics", Reader, f, Nil, n) OBVIOUS
<1>10. Moves({}, {y}) BY <1>1, <1>4, <1>9, BoardFacts, StartMoves
<1>11. NewCalls({y}) /\ y.k = "topics" /\ y.forum = f /\ y.seq = n
  <2>1. n <= board'.seq BY <1>6, <1>7, <1>8
  <2>2. RowsKept /\ Reader \in Authors BY <1>2, KeyFacts DEF Authors
  <2> QED BY <1>7, <1>9, <2>1, <2>2, WorkingIs
<1>x. PICK place : place = <<"topics", f>> OBVIOUS
<1>12. place[1] = "topics" /\ AsksFor(place) /\ wish'.to[1] = "topics" /\ wish'.to[2] = f
  BY <1>1, <1>x DEF AsksFor
<1>y. Unmoved BY <1>2, <1>5, <1>6, <1>3 DEF Unmoved, Beneath, BoardLike, BoardFields
<1>13. NewLoads({y}) BY <1>11, <1>12 DEF NewLoads, Leads
<1>14. \E z \in {y} : IsLoad(z.k) /\ z.seq = board.seq + 1 BY <1>4, <1>11 DEF IsLoad
<1>15. Guided => b.topic = Nil BY <1>2, <1>8 DEF Guided
<1> QED BY <1>2, <1>4, <1>6, <1>8, <1>10, <1>11, <1>12, <1>13, <1>14, <1>15, <1>y, KeyLeaves

LEMMA TopicListKeyKeeps == ASSUME BoardInv, TopicListKey PROVE BoardInv'
<1>1. board.mode = "topics" /\ Tick /\ UNCHANGED keyed BY DEF TopicListKey
<1>2. BoardLike(board) BY BoardFacts
<1>3. NewCalls({}) /\ NoLoads({}) /\ NewLoads({}) BY DEF NewCalls, NoLoads, NewLoads
<1>4. Guided => board.topic = Nil BY <1>1 DEF Guided
<1>5. CASE /\ board' = [board EXCEPT !.seq = @ + 1, !.mode = "forums", !.forum = NoForum,
                                  !.topics = <<>>]
           /\ AsksFor(<<"forums">>) /\ UNCHANGED running
  <2>1. PICK n : n = board.seq + 1 OBVIOUS
  <2>2. PICK b : b = [board EXCEPT !.seq = n, !.mode = "forums", !.forum = NoForum, !.topics = <<>>]
    OBVIOUS
  <2>3. board' = b BY <1>2, <1>5, <2>1, <2>2 DEF BoardLike, BoardFields
  <2>4. n \in Nat BY <1>2, <2>1 DEF BoardLike
  <2>x. /\ b = [f \in BoardFields |-> b[f]]
        /\ b.seq = n /\ b.mode = "forums" /\ b.forum = NoForum /\ b.topics = <<>>
        /\ b.topic = board.topic /\ b.posts = board.posts /\ b.cursor = board.cursor
    BY <1>2, <2>2 DEF BoardLike, BoardFields
  <2>5. BoardLike(b) /\ b.seq = n /\ b.mode = "forums" /\ b.topic = board.topic
    <3>1. b.topics \in Seq(DOMAIN topics) BY <2>x, EmptySeq
    <3>2. b.topic # Nil => b.topic \in DOMAIN topics /\ AsItStood(b.posts, b.topic)
      BY <1>2, <2>x DEF BoardLike
    <3>3. b.cursor \in Nat BY <1>2, <2>x DEF BoardLike
    <3> QED BY <2>4, <2>x, <3>1, <3>2, <3>3 DEF BoardLike
  <2>y. PICK place : place = <<"forums">> OBVIOUS
  <2>6. place[1] = "forums" /\ AsksFor(place) BY <1>5, <2>y
  <2>7. StandsAt(place)' BY <2>3, <2>5, <2>6 DEF StandsAt, Beneath
  <2>8. Moves({}, {}) BY <1>5, BoardFacts, NothingMoves
  <2> QED BY <1>1, <1>3, <1>4, <2>1, <2>3, <2>5, <2>6, <2>7, <2>8, KeyLeaves
<1>6. CASE /\ board.cursor < Len(board.topics)
           /\ board' = [board EXCEPT !.cursor = @ + 1]
           /\ UNCHANGED <<running, wish>>
  <2>1. PICK n : n = board.cursor + 1 OBVIOUS
  <2>2. PICK b : b = [board EXCEPT !.cursor = n] OBVIOUS
  <2>3. board' = b BY <1>2, <1>6, <2>1, <2>2 DEF BoardLike, BoardFields
  <2>4. n \in Nat /\ n \in 1 .. Len(board.topics)
    <3>1. Len(board.topics) \in Nat BY <1>2, LenProperties DEF BoardLike
    <3> QED BY <1>2, <1>6, <2>1, <3>1 DEF BoardLike
  <2>5. BoardLike(b) /\ SamePlace(b)
    BY <1>2, <2>2, <2>4 DEF BoardLike, BoardFields, SamePlace
  <2>6. Moves({}, {}) BY <1>6, BoardFacts, NothingMoves
  <2>7. RowsKept /\ InboxMoves({}, {}) BY <1>1, KeyFacts
  <2>8. StaleLeaves({}) BY DEF StaleLeaves
  <2>9. wish' = wish BY <1>6
  <2> QED BY <1>3, <2>3, <2>5, <2>6, <2>7, <2>8, <2>9, StaysHere
<1>7. CASE /\ board' = [board EXCEPT !.stage = "new", !.mode = "compose"]
           /\ UNCHANGED <<running, wish>>
  <2>1. PICK b : b = [board EXCEPT !.stage = "new", !.mode = "compose"] OBVIOUS
  <2>2. board' = b BY <1>7, <2>1
  <2>3. BoardLike(b) /\ b.seq = board.seq /\ b.mode = "compose" /\ b.topic = board.topic
        /\ b.forum = board.forum
    BY <1>2, <2>1 DEF BoardLike, BoardFields
  <2>4. wish' = wish BY <1>7
  <2>5. Guided => Unmoved BY <1>1, <1>4, <2>2, <2>3, <2>4 DEF Unmoved, Beneath
  <2>6. Moves({}, {}) BY <1>7, BoardFacts, NothingMoves
  <2> QED BY <1>1, <1>3, <1>4, <2>2, <2>3, <2>4, <2>5, <2>6, KeyStays
<1>8. CASE /\ board.topics # <<>>
           /\ board' = [board EXCEPT !.seq = @ + 1]
           /\ StartTask(Working("posts", Reader, NoForum, board.topics[board.cursor], board.seq + 1))
           /\ AsksFor(<<"thread", board.topics[board.cursor]>>)
  <2>1. PICK n : n = board.seq + 1 OBVIOUS
  <2>2. PICK b : b = [board EXCEPT !.seq = n] OBVIOUS
  <2>3. board' = b BY <1>2, <1>8, <2>1, <2>2 DEF BoardLike, BoardFields
  <2>4. n \in Nat BY <1>2, <2>1 DEF BoardLike
  <2>5. BoardLike(b) /\ b.seq = n /\ b.mode = "topics" /\ b.topic = board.topic
    BY <1>1, <1>2, <2>2, <2>4 DEF BoardLike, BoardFields
  <2>6. PICK t : t = board.topics[board.cursor] OBVIOUS
  <2>7. t \in DOMAIN topics BY <1>2, <1>8, <2>6, ElementOfSeq DEF BoardLike
  <2>8. PICK y : y = Working("posts", Reader, NoForum, t, n) OBVIOUS
  <2>9. Moves({}, {y}) BY <1>8, <2>1, <2>6, <2>8, BoardFacts, StartMoves
  <2>10. NewCalls({y}) /\ y.k = "posts" /\ y.topic = t /\ y.seq = n
    <3>1. n <= board'.seq BY <2>3, <2>4, <2>5
    <3>2. RowsKept /\ Reader \in Authors BY <1>1, KeyFacts DEF Authors
    <3> QED BY <2>4, <2>7, <2>8, <3>1, <3>2, WorkingIs
  <2>x. PICK place : place = <<"thread", t>> OBVIOUS
  <2>11. place[1] = "thread" /\ AsksFor(place) /\ wish'.to[1] = "thread" /\ wish'.to[2] = t
    BY <1>8, <2>6, <2>x DEF AsksFor
  <2>y. Unmoved BY <1>1, <1>2, <2>2, <2>3 DEF Unmoved, Beneath, BoardLike, BoardFields
  <2>12. NewLoads({y}) BY <2>10, <2>11 DEF NewLoads, Leads
  <2>13. \E z \in {y} : IsLoad(z.k) /\ z.seq = board.seq + 1 BY <2>1, <2>10 DEF IsLoad
  <2> QED BY <1>1, <1>4, <2>1, <2>3, <2>5, <2>9, <2>10, <2>11, <2>12, <2>13, <2>y, KeyLeaves
<1> QED BY <1>5, <1>6, <1>7, <1>8 DEF TopicListKey

LEMMA ThreadKeyKeeps == ASSUME BoardInv, ThreadKey PROVE BoardInv'
<1>1. board.mode = "thread" /\ Tick /\ UNCHANGED keyed /\ UNCHANGED running BY DEF ThreadKey
<1>2. BoardLike(board) BY BoardFacts
<1>3. NewCalls({}) /\ NoLoads({}) /\ NewLoads({}) BY DEF NewCalls, NoLoads, NewLoads
<1>4. Moves({}, {}) BY <1>1, BoardFacts, NothingMoves
<1>5. CASE /\ board' = [board EXCEPT !.seq = @ + 1, !.mode = "topics", !.topic = Nil,
                                  !.posts = <<>>]
           /\ AsksFor(<<"topics", board.forum>>)
  <2>1. PICK n : n = board.seq + 1 OBVIOUS
  <2>2. PICK b : b = [board EXCEPT !.seq = n, !.mode = "topics", !.topic = Nil, !.posts = <<>>] OBVIOUS
  <2>3. board' = b BY <1>2, <1>5, <2>1, <2>2 DEF BoardLike, BoardFields
  <2>4. n \in Nat BY <1>2, <2>1 DEF BoardLike
  <2>x. /\ b = [f \in BoardFields |-> b[f]]
        /\ b.seq = n /\ b.mode = "topics" /\ b.forum = board.forum /\ b.topics = board.topics
        /\ b.topic = Nil /\ b.cursor = board.cursor
    BY <1>2, <2>2 DEF BoardLike, BoardFields
  <2>5. BoardLike(b) /\ b.seq = n /\ b.mode = "topics" /\ b.topic = Nil /\ b.forum = board.forum
    BY <1>2, <2>4, <2>x DEF BoardLike
  <2>y. PICK place : place = <<"topics", board.forum>> OBVIOUS
  <2>6. place[1] = "topics" /\ place[2] = board.forum /\ AsksFor(place) BY <1>5, <2>y
  <2>7. StandsAt(place)' BY <2>3, <2>5, <2>6 DEF StandsAt, Beneath
  <2> QED BY <1>1, <1>3, <1>4, <2>1, <2>3, <2>5, <2>6, <2>7, KeyLeaves
<1>6. CASE board' = [board EXCEPT !.stage = "reply", !.mode = "compose"] /\ UNCHANGED wish
  <2>1. PICK b : b = [board EXCEPT !.stage = "reply", !.mode = "compose"] OBVIOUS
  <2>2. board' = b BY <1>6, <2>1
  <2>3. BoardLike(b) /\ b.seq = board.seq /\ b.mode = "compose" /\ b.topic = board.topic
        /\ b.forum = board.forum
    BY <1>2, <2>1 DEF BoardLike, BoardFields
  <2>4. wish' = wish BY <1>6
  <2>5. Guided => board.topic # Nil /\ wish.to[1] = "thread" BY <1>1 DEF Guided
  <2>6. Guided => Unmoved BY <1>1, <2>2, <2>3, <2>4, <2>5 DEF Unmoved, Beneath
  <2> QED BY <1>1, <1>3, <1>4, <2>2, <2>3, <2>4, <2>5, <2>6, KeyStays
<1> QED BY <1>5, <1>6 DEF ThreadKey

LEMMA ComposeKeyKeeps == ASSUME BoardInv, ComposeKey PROVE BoardInv'
<1>1. board.mode = "compose" /\ Tick /\ UNCHANGED keyed BY DEF ComposeKey
<1>2. BoardLike(board) BY BoardFacts
<1>3. RowsKept /\ InboxMoves({}, {}) /\ Reader \in Authors BY <1>1, KeyFacts DEF Authors
<1>4. CASE /\ board' = [board EXCEPT !.stage = "none",
                                  !.mode = IF board.topic # Nil THEN "thread" ELSE "topics"]
           /\ UNCHANGED <<running, wish>>
  <2>0. PICK md : md = IF board.topic # Nil THEN "thread" ELSE "topics" OBVIOUS
  <2>1. PICK b : b = [board EXCEPT !.stage = "none", !.mode = md] OBVIOUS
  <2>2. board' = b BY <1>4, <2>0, <2>1
  <2>3. BoardLike(b) /\ b.seq = board.seq /\ b.mode = md /\ b.topic = board.topic
        /\ b.forum = board.forum
    BY <1>2, <2>0, <2>1 DEF BoardLike, BoardFields
  <2>4. wish' = wish BY <1>4
  <2>5. Guided => Unmoved BY <1>1, <2>0, <2>2, <2>3, <2>4 DEF Unmoved, Beneath
  <2>6. Moves({}, {}) BY <1>4, BoardFacts, NothingMoves
  <2>7. NewCalls({}) /\ NoLoads({}) BY DEF NewCalls, NoLoads
  <2>8. Guided /\ (wish.to[1] # "thread" \/ b.mode \in {"forums", "topics"}) => b.topic = Nil
    BY <2>0, <2>3 DEF Guided
  <2>9. b.mode = "thread" => b.topic # Nil BY <2>0, <2>3
  <2> QED BY <1>1, <2>2, <2>3, <2>4, <2>5, <2>6, <2>7, <2>8, <2>9, KeyStays
<1>5. ASSUME NEW y, StartTask(y), board' = board, wish' = wish, NewCalls({y}), ~IsLoad(y.k)
      PROVE BoardInv'
  <2>1. PICK b : b = board OBVIOUS
  <2>2. board' = b /\ BoardLike(b) /\ SamePlace(b) BY <1>2, <1>5, <2>1 DEF SamePlace
  <2>3. Moves({}, {y}) BY <1>5, BoardFacts, StartMoves
  <2>4. NoLoads({y}) /\ StaleLeaves({}) BY <1>5 DEF NoLoads, StaleLeaves
  <2> QED BY <1>3, <1>5, <2>2, <2>3, <2>4, StaysHere
<1>6. CASE /\ board.stage = "new" /\ ShowsForum /\ UNCHANGED <<board, wish>>
           /\ StartTask(Working("create", Reader, board.forum, Nil, 0))
  <2>1. PICK y : y = Working("create", Reader, board.forum, Nil, 0) OBVIOUS
  <2>2. board.forum \in ForumNames BY <1>2, <1>6 DEF BoardLike, ShowsForum
  <2>3. NewCalls({y}) /\ y.k = "create" BY <1>3, <2>1, <2>2, WorkingIs
  <2>4. ~IsLoad(y.k) BY <2>3 DEF IsLoad
  <2> QED BY <1>5, <1>6, <2>1, <2>3, <2>4
<1>7. CASE /\ board.stage = "reply" /\ board.topic # Nil /\ UNCHANGED <<board, wish>>
           /\ StartTask(Working("reply", Reader, topics[board.topic].forum, board.topic, 0))
  <2>0. PICK f, t : t = board.topic /\ f = topics[t].forum OBVIOUS
  <2>1. PICK y : y = Working("reply", Reader, f, t, 0) OBVIOUS
  <2>2. t \in DOMAIN topics BY <1>2, <1>7, <2>0 DEF BoardLike
  <2>x. AboutTopic(f, t) BY <2>0, <2>2 DEF AboutTopic
  <2>3. NewCalls({y}) /\ y.k = "reply" BY <1>3, <2>1, <2>x, WorkingIs
  <2>4. ~IsLoad(y.k) BY <2>3 DEF IsLoad
  <2> QED BY <1>5, <1>7, <2>0, <2>1, <2>3, <2>4
<1> QED BY <1>4, <1>6, <1>7 DEF ComposeKey

LEMMA OthersPostKeeps == ASSUME BoardInv, OthersPost PROVE BoardInv'
<1>1. Tick /\ UNCHANGED keyed /\ board' = board /\ wish' = wish BY DEF OthersPost
<1>2. RowsKept /\ InboxMoves({}, {}) BY <1>1, KeyFacts
<1>3. ASSUME NEW y, StartTask(y), NewCalls({y}), ~IsLoad(y.k) PROVE BoardInv'
  <2>1. PICK b : b = board OBVIOUS
  <2>2. board' = b /\ BoardLike(b) /\ SamePlace(b) BY <1>1, <2>1, BoardFacts DEF SamePlace
  <2>3. Moves({}, {y}) BY <1>3, BoardFacts, StartMoves
  <2>4. NoLoads({y}) /\ StaleLeaves({}) BY <1>3 DEF NoLoads, StaleLeaves
  <2> QED BY <1>1, <1>2, <1>3, <2>2, <2>3, <2>4, StaysHere
<1>4. PICK w \in Writers :
       \/ \E f \in ForumNames : StartTask(Working("create", w, f, Nil, 0))
       \/ \E t \in {p.topic : p \in Range(posts)} :
            StartTask(Working("reply", w, topics[t].forum, t, 0))
       \/ \E t \in DOMAIN topics : StartTask(Working("touch", w, NoForum, t, 0))
  BY DEF OthersPost
<1>5. w \in Authors BY DEF Authors
<1>6. ASSUME NEW f \in ForumNames, StartTask(Working("create", w, f, Nil, 0)) PROVE BoardInv'
  <2>1. PICK y : y = Working("create", w, f, Nil, 0) OBVIOUS
  <2>2. NewCalls({y}) /\ y.k = "create" BY <1>2, <1>5, <2>1, WorkingIs
  <2>3. ~IsLoad(y.k) BY <2>2 DEF IsLoad
  <2> QED BY <1>3, <1>6, <2>1, <2>2, <2>3
<1>7. ASSUME NEW t \in {p.topic : p \in Range(posts)},
             StartTask(Working("reply", w, topics[t].forum, t, 0))
      PROVE  BoardInv'
  <2>0. PICK f : f = topics[t].forum OBVIOUS
  <2>1. PICK y : y = Working("reply", w, f, t, 0) OBVIOUS
  <2>2. t \in DOMAIN topics
    <3>1. PICK p \in Range(posts) : t = p.topic BY <1>7
    <3>2. PICK i \in DOMAIN posts : p = posts[i] BY <3>1 DEF Range
    <3> QED BY <3>1, <3>2, BoardFacts DEF TablesOk
  <2>x. AboutTopic(f, t) BY <2>0, <2>2 DEF AboutTopic
  <2>3. NewCalls({y}) /\ y.k = "reply" BY <1>2, <1>5, <2>1, <2>x, WorkingIs
  <2>4. ~IsLoad(y.k) BY <2>3 DEF IsLoad
  <2> QED BY <1>3, <1>7, <2>0, <2>1, <2>3, <2>4
<1>8. ASSUME NEW t \in DOMAIN topics, StartTask(Working("touch", w, NoForum, t, 0)) PROVE BoardInv'
  <2>1. PICK y : y = Working("touch", w, NoForum, t, 0) OBVIOUS
  <2>2. NewCalls({y}) /\ y.k = "touch" BY <1>2, <1>5, <2>1, WorkingIs
  <2>3. ~IsLoad(y.k) BY <2>2 DEF IsLoad
  <2> QED BY <1>3, <1>8, <2>1, <2>2, <2>3
<1> QED BY <1>4, <1>6, <1>7, <1>8
-----------------------------------------------------------------------------
(* The whole, and what it is good for.                                     *)
LEMMA BoardInvKept == ASSUME BoardInv, [ForumsNext]_forumVars PROVE BoardInv'
<1>1. CASE UNCHANGED forumVars
  <2>1. /\ UNCHANGED <<forums, topics, posts>> /\ UNCHANGED running /\ UNCHANGED inbox2
        /\ fclock' = fclock /\ board' = board /\ wish' = wish
    BY <1>1 DEF forumVars, forumTables
  <2>2. RowsKept BY <2>1, BoardFacts DEF RowsKept, TablesOk
  <2>3. Moves({}, {}) /\ InboxMoves({}, {}) BY <2>1, BoardFacts, NothingMoves, NothingHeard
  <2>4. PICK b : b = board OBVIOUS
  <2>5. board' = b /\ BoardLike(b) /\ SamePlace(b) BY <2>1, <2>4, BoardFacts DEF SamePlace
  <2>6. NewCalls({}) /\ NoLoads({}) /\ StaleLeaves({}) BY DEF NewCalls, NoLoads, StaleLeaves
  <2> QED BY <2>1, <2>2, <2>3, <2>5, <2>6, StaysHere
<1>2. ASSUME NEW x \in DOMAIN running,
             \/ CreateTopic(x) \/ Reply(x) \/ TouchTopicRead(x) \/ LoadForums(x) \/ LoadTopics(x)
             \/ LoadPosts(x)
      PROVE  BoardInv'
  BY <1>2, CreateKeeps, ReplyKeeps, TouchKeeps, LoadForumsKeeps, LoadTopicsKeeps, LoadPostsKeeps
<1>3. BoardsUpdate => BoardInv' BY BoardsUpdateKeeps
<1>4. ForumListKey => BoardInv' BY ForumListKeyKeeps
<1>5. TopicListKey => BoardInv' BY TopicListKeyKeeps
<1>6. ThreadKey => BoardInv' BY ThreadKeyKeeps
<1>7. ComposeKey => BoardInv' BY ComposeKeyKeeps
<1>8. OthersPost => BoardInv' BY OthersPostKeeps
<1> QED BY <1>1, <1>2, <1>3, <1>4, <1>5, <1>6, <1>7, <1>8 DEF ForumsNext

LEMMA OneBag == ASSUME NEW S PROVE IsABag(SetToBag(S)) /\ DOMAIN SetToBag(S) = S
BY DEF IsABag, SetToBag

LEMMA BoardInvHolds == ASSUME ForumsInit PROVE BoardInv
<1>1. Forum \in ForumNames BY ForumsAssumption DEF Forum
<1>2. PICK r : r = [forum |-> Forum, by |-> Reader, last |-> 0] OBVIOUS
<1>3. PICK q : q = [topic |-> 1, by |-> Reader, at |-> 0] OBVIOUS
<1>4. topics = <<r>> /\ posts = <<q>> BY <1>2, <1>3 DEF ForumsInit
<1>5. r \in TopicRow /\ q \in PostRow BY <1>1, <1>2, <1>3 DEF TopicRow, PostRow, Authors
<1>6. DOMAIN topics = {1} /\ topics[1] = r /\ DOMAIN posts = {1} /\ posts[1] = q
  BY <1>4
<1>7. topics \in Seq(TopicRow) /\ posts \in Seq(PostRow) BY <1>4, <1>5
<1>8. forums = [f \in ForumNames |-> [count |-> IF f = Forum THEN 1 ELSE 0, activity |-> 0]] /\ fclock = 1
  BY DEF ForumsInit
<1>9. \A f \in ForumNames : forums[f].count = (IF f = Forum THEN 1 ELSE 0) /\ forums[f].activity = 0
  BY <1>8
<1>10. TablesOk
  <2>1. forums \in [ForumNames -> Counter] BY <1>8 DEF Counter
  <2> QED BY <1>3, <1>6, <1>7, <1>8, <2>1 DEF TablesOk
<1>11. PICK x : x = [k |-> "forums", by |-> Reader, step |-> 1, forum |-> NoForum,
                     topic |-> Nil, seq |-> 0, at |-> 0, list |-> <<>>] OBVIOUS
<1>12. running = SetToBag({x}) /\ inbox2 = EmptyBag BY <1>11 DEF ForumsInit
<1>13. IsABag(running) /\ DOMAIN running = {x} /\ IsABag(inbox2) /\ DOMAIN inbox2 = {}
  BY <1>12, OneBag DEF EmptyBag
<1>14. x.k = "forums" /\ x = [f \in ForumCallFields |-> x[f]] /\ x.at \in Nat BY <1>11 DEF ForumCallFields
<1>15. WhatRuns BY <1>13, <1>14 DEF WhatRuns, CallRight
<1>16. PICK b : b = [mode |-> "forums", listed |-> FALSE, seq |-> 0, forum |-> NoForum, topics |-> <<>>, cursor |-> 1,
              unread |-> <<>>, unreadForum |-> <<>>, topic |-> Nil, posts |-> <<>>,
              stage |-> "none", err |-> FALSE] OBVIOUS
<1>17. board = b BY <1>16 DEF ForumsInit
<1>18. /\ b = [f \in BoardFields |-> b[f]] /\ b.mode = "forums" /\ b.seq = 0 /\ b.cursor = 1
       /\ b.forum = NoForum /\ b.topics = <<>> /\ b.topic = Nil
  BY <1>16 DEF BoardFields
<1>19. BoardRight
  <2>1. b.topics \in Seq(DOMAIN topics) BY <1>18, EmptySeq
  <2> QED BY <1>17, <1>18, <2>1 DEF BoardRight
<1>20. ~MakesTopic(x) BY <1>14 DEF MakesTopic
<1>21. Alone BY <1>13, <1>20 DEF Alone
<1>22. Counted
  <2>1. \A t : ~Uncounted(t) BY <1>13, <1>20 DEF Uncounted
  <2>2. r.forum = Forum BY <1>2
  <2>3. SUFFICES ASSUME NEW f \in ForumNames PROVE forums[f].count = Cardinality(CountedIn(f))
    BY DEF Counted
  <2>4. CASE f = Forum
    <3>1. CountedIn(f) = {1} BY <1>6, <2>1, <2>2, <2>4 DEF CountedIn, TopicsIn
    <3>2. Cardinality({1}) = 1 BY FS_Singleton
    <3> QED BY <1>9, <2>4, <3>1, <3>2
  <2>5. CASE f # Forum
    <3>1. CountedIn(f) = {} BY <1>6, <2>2, <2>5 DEF CountedIn, TopicsIn
    <3>2. Cardinality({}) = 0 BY FS_EmptySet
    <3> QED BY <1>9, <2>5, <3>1, <3>2
  <2> QED BY <2>4, <2>5
<1>23. Timed
  <2>1. SUFFICES ASSUME NEW p \in DOMAIN posts PROVE forums[ForumOf(p)].activity >= posts[p].at
    BY DEF Timed
  <2>2. p = 1 BY <1>6
  <2>3. q.at = 0 /\ q.topic = 1 /\ r.forum = Forum BY <1>2, <1>3
  <2>4. ForumOf(p) = Forum BY <1>6, <2>2, <2>3 DEF ForumOf
  <2> QED BY <1>1, <1>6, <1>9, <2>2, <2>3, <2>4
<1>24. Guided
  <2>1. wish.to[1] = "forums" BY DEF ForumsInit
  <2>2. Landed BY <1>17, <1>18, <2>1 DEF Landed, StandsAt, Beneath
  <2>3. ~IsLoad(x.k) BY <1>14 DEF IsLoad
  <2> QED BY <1>13, <1>17, <1>18, <2>1, <2>2, <2>3 DEF Guided
<1> QED BY <1>10, <1>15, <1>19, <1>21, <1>22, <1>23, <1>24 DEF BoardInv

LEMMA BoardsAlways == ForumsSpec => []BoardInv
<1>1. ForumsInit => BoardInv BY BoardInvHolds
<1>2. BoardInv /\ [ForumsNext]_forumVars => BoardInv' BY BoardInvKept
<1> QED BY <1>1, <1>2, PTL DEF ForumsSpec

LEMMA InvLands == BoardInv => LandsWhereAsked
BY DEF BoardInv, Guided, Landed, Stayed, LandsWhereAsked

LEMMA InvThread == BoardInv => ThreadOfOneTopic
BY DEF BoardInv, BoardRight, ThreadOfOneTopic

\* The page of the i-th of n rows, P to a page.
LEMMA OnSomePage ==
  ASSUME NEW P \in Nat \ {0}, NEW n \in Nat, NEW i \in 1 .. n
  PROVE  LET page == (i - 1) \div P + 1 IN
         /\ page \in 1 .. n /\ page <= (n + P - 1) \div P
         /\ (page - 1) * P \in Nat /\ i \in (page - 1) * P + 1 .. (page - 1) * P + P
<1>1. PICK q : q = (i - 1) \div P OBVIOUS
<1>2. PICK c : c = (n + P - 1) \div P OBVIOUS
<1>3. q \in Int /\ q * P <= i - 1 /\ i - 1 < q * P + P BY <1>1
<1>4. c \in Int /\ n + P - 1 < c * P + P BY <1>2
<1>5. q \in Nat
  <2>1. SUFFICES ASSUME q <= -1 PROVE FALSE BY <1>3
  <2>2. q * P <= (-1) * P BY <1>3, <2>1
  <2> QED BY <1>3, <2>2
<1>6. q <= q * P BY <1>5
<1>7. q + 1 <= c
  <2>1. SUFFICES ASSUME c <= q PROVE FALSE BY <1>3, <1>4
  <2>2. c * P <= q * P BY <1>3, <1>4, <2>1
  <2> QED BY <1>3, <1>4, <2>2
<1>8. q * P \in Nat BY <1>5
<1>9. (q + 1) - 1 = q /\ q + 1 \in 1 .. n /\ i \in q * P + 1 .. q * P + P
  BY <1>3, <1>5, <1>6, <1>8
<1> QED BY <1>1, <1>2, <1>7, <1>8, <1>9

LEMMA InvCounters == ASSUME ~ForumFaults PROVE BoardInv => CountersAgree
<1> SUFFICES ASSUME BoardInv, \A x \in DOMAIN running : x.k \notin {"create", "reply"},
                    NEW f \in ForumNames
             PROVE  /\ \A t \in TopicsIn(f) : \E page \in 1 .. Len(topics) : t \in Range(ForumPage(f, page))
                    /\ \A p \in DOMAIN posts : topics[posts[p].topic].forum = f =>
                         forums[f].activity >= posts[p].at
  BY DEF CountersAgree
<1>1. TablesOk /\ Counted /\ Timed BY DEF BoardInv
<1>2. PICK n : n = forums[f].count OBVIOUS
<1>3. n = Cardinality(TopicsIn(f))
  <2>1. \A t : ~Uncounted(t) BY DEF Uncounted, MakesTopic
  <2>2. CountedIn(f) = TopicsIn(f) BY <2>1 DEF CountedIn
  <2> QED BY <1>1, <1>2, <2>2 DEF Counted
<1>4. PICK l : l = ByActivity(f) OBVIOUS
<1>5. /\ l \in Seq(TopicsIn(f)) /\ Len(l) = n /\ n \in Nat
      /\ \A t \in TopicsIn(f) : \E i \in 1 .. Len(l) : l[i] = t
  BY <1>1, <1>3, <1>4, TopicsListed
<1>6. n <= Len(topics) /\ Len(topics) \in Nat
  <2>1. DOMAIN topics = 1 .. Len(topics) /\ Len(topics) \in Nat BY <1>1, RowsTyped
  <2>2. TopicsIn(f) \subseteq 1 .. Len(topics) BY <2>1 DEF TopicsIn
  <2>3. IsFiniteSet(1 .. Len(topics)) /\ Cardinality(1 .. Len(topics)) = Len(topics)
    <3>1. PICK k \in Nat : k = Len(topics) BY <2>1
    <3>2. IsFiniteSet(1 .. k) /\ Cardinality(1 .. k) = k BY FS_Interval
    <3> QED BY <3>1, <3>2
  <2> QED BY <1>3, <2>1, <2>2, <2>3, FS_Subset
<1>7. ASSUME NEW t \in TopicsIn(f) PROVE \E page \in 1 .. Len(topics) : t \in Range(ForumPage(f, page))
  <2>1. PICK i \in 1 .. n : l[i] = t BY <1>5
  <2>2. PerPage \in Nat \ {0} BY ForumsAssumption
  <2>3. PICK page : page = (i - 1) \div PerPage + 1 OBVIOUS
  <2>4. /\ page \in 1 .. n /\ page <= (n + PerPage - 1) \div PerPage
        /\ (page - 1) * PerPage \in Nat
        /\ i \in (page - 1) * PerPage + 1 .. (page - 1) * PerPage + PerPage
    BY <1>5, <2>2, <2>3, OnSomePage
  <2>5. NewPageNav(page, n) = page
    <3>1. PICK c : c = (n + PerPage - 1) \div PerPage OBVIOUS
    <3>2. n # 0 BY <2>1, <1>5
    <3>3. PageCount(n) = c BY <3>1, <3>2 DEF PageCount
    <3>4. c \in Int BY <1>5, <2>2, <3>1
    <3> QED BY <1>5, <2>4, <3>1, <3>3, <3>4 DEF NewPageNav
  <2>6. PICK offset : offset = (page - 1) * PerPage OBVIOUS
  <2>7. ForumPage(f, page) = Page(l, PerPage, offset)
    BY <1>2, <1>4, <2>5, <2>6 DEF ForumPage, ListTopicsInForumPaged
  <2>8. offset \in Nat /\ PerPage \in Nat /\ i \in offset + 1 .. offset + PerPage /\ i <= Len(l)
    BY <1>5, <2>1, <2>2, <2>4, <2>6
  <2>9. \E j \in DOMAIN Page(l, PerPage, offset) : Page(l, PerPage, offset)[j] = l[i]
    <3>1. PICK S : S = TopicsIn(f) OBVIOUS
    <3>2. l \in Seq(S) BY <1>5, <3>1
    <3> QED BY <2>8, <3>2, PageHas
  <2>10. t \in Range(ForumPage(f, page)) BY <2>1, <2>7, <2>9 DEF Range
  <2>11. page \in 1 .. Len(topics) BY <1>5, <1>6, <2>4
  <2> QED BY <2>10, <2>11
<1>8. ASSUME NEW p \in DOMAIN posts, topics[posts[p].topic].forum = f
      PROVE  forums[f].activity >= posts[p].at
  <2>1. ~StillToTime(f, posts[p].at) BY DEF StillToTime, Posted
  <2>2. ForumOf(p) = f BY <1>8 DEF ForumOf
  <2> QED BY <1>1, <2>1, <2>2 DEF Timed
<1> QED BY <1>7, <1>8

\* In every order of the keys, of the calls and of their answers, and whatever fails,
\* until its reader writes the forum screen is where the last key that navigates asked
\* to be; or it is where that key was pressed, as long as the answer is awaited, and
\* for good when its load has failed.  And a thread shows the posts of its own topic,
\* whole and in order, as they stood at some time.
THEOREM ScreenLands == ForumsSpec => [](LandsWhereAsked /\ ThreadOfOneTopic)
<1>1. BoardInv => LandsWhereAsked /\ ThreadOfOneTopic BY InvLands, InvThread
<1> QED BY <1>1, BoardsAlways, PTL

\* When no statement that writes fails, a forum's counter is the number of its topics whenever no
\* one is writing, however the writers' updates were ordered: its pages reach them all,
\* for every page size, and its time is not before that of any of its posts.
THEOREM BoardsTell == ASSUME ForumFaults = FALSE PROVE ForumsSpec => []BoardFaithful
<1>1. BoardInv => LandsWhereAsked /\ ThreadOfOneTopic BY InvLands, InvThread
<1>2. BoardInv => CountersAgree BY InvCounters
<1>3. BoardInv => BoardFaithful BY <1>1, <1>2 DEF BoardFaithful
<1> QED BY <1>3, BoardsAlways, PTL
=============================================================================
