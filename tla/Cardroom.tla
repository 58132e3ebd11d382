------------------------------ MODULE Cardroom ------------------------------
(***************************************************************************)
(* The multiplayer Hold'em hall: the registry and the coordinators of      *)
(* internal/doors/holdem/multiplayer (registry.go, coordinator.go), the    *)
(* sessions' screens of internal/tui/screens/holdem_mp.go, the wallets the *)
(* screens buy in from, the rows the tables are saved in over a restart,   *)
(* and the hands that realtime/multiplayer_ledger.go puts on record.       *)
(*                                                                         *)
(* The rules of a hand are HoldemEngine's.  Here a hand takes one chip of  *)
(* every stack that has one, and an action may end it; the pot goes to a   *)
(* seat, and what was put in is remembered until the next hand.  A screen  *)
(* waits in Update for the answer of the table's actor, whose queue always *)
(* has room.  The actor answers first and shows the table to its           *)
(* subscribers after that, one send at a time and without their lock.      *)
(***************************************************************************)
EXTENDS Integers, SequencesExt

CONSTANTS
  Players,     (* the users, each with one session                          *)
  TableIds,    (* 1 .. n: the tables there may be                           *)
  SeatNos,     (* the seats of a table                                      *)
  BuyIn,       (* chips brought to a table                                  *)
  Savings,     (* what a wallet has at the start                            *)
  RoomFaults,  (* may a statement on a wallet fail?                         *)
  SubBuf,      (* the snapshots a subscription holds; in the code 4         *)
  MaxSubs,     (* bound: subscriptions                                      *)
  MaxDeals,    (* bound: hands                                              *)
  MaxLeaves,   (* bound: sessions and tables left                           *)
  MaxStops     (* bound: restarts                                           *)

NoOne == 0
ASSUME PlayersAssumption == Players \subseteq Nat \ {NoOne} /\ IsFiniteSet(Players)
ASSUME RoomAssumption ==
  /\ IsFiniteSet(TableIds) /\ SeatNos \subseteq Nat /\ IsFiniteSet(SeatNos)
  /\ BuyIn \in Nat /\ Savings \in Nat

VARIABLES
  tables,   (* the tables, and their actors                                 *)
  subs,     (* every subscription there was                                 *)
  halls,    (* the screens                                                  *)
  purses,   (* the wallets' rows                                            *)
  payments, (* wallet commands under way                                    *)
  asks,     (* subscriptions whose first snapshot is not asked for yet      *)
  pushes,   (* snapshots that were answered and not sent yet                *)
  timers,   (* tables whose pause after a hand runs                         *)
  saved,    (* the rows of holdem_tables                                    *)
  recorded, (* the rows of multiplayer_hands: table and hand number         *)
  refused,  (* history: hands the unique index did not take                 *)
  books,    (* history: what a wallet would have if every wallet command     *)
            (* asked for were carried out once and none of them failed      *)
  astray,   (* history: users who had two wallet commands under way at      *)
            (* once, or one that failed                                     *)
  process,  (* up, stopping, saving (Persist waits for an actor), down or   *)
            (* crashed                                                      *)
  toSave,   (* the tables Persist has still to save                         *)
  nextId, deals, leaves, stops

roomVars == <<tables, subs, halls, purses, payments, asks, pushes, timers, saved, recorded,
              refused, process, toSave, nextId, deals, leaves, stops, books, astray>>

-----------------------------------------------------------------------------
Away ==
  [mode |-> "away", tbl |-> 0, sub |-> 0, snap |-> 0, copy |-> 0, row |-> NoOne, call |-> "none", got |-> 0,
   waits |-> {}, late |-> <<>>, rejected |-> FALSE]

NoTable ==
  [actor |-> "none", user |-> [i \in SeatNos |-> NoOne], chips |-> [i \in SeatNos |-> 0],
   in |-> {}, bet |-> [i \in SeatNos |-> 0], pot |-> 0, running |-> FALSE, hand |-> 0, queue |-> <<>>,
   subs |-> <<>>, sends |-> <<>>]

SeatsOf(t, u)  == {i \in SeatNos : t.user[i] = u}
Occupied(t)    == {i \in SeatNos : t.user[i] # NoOne}
Lowest(S)      == CHOOSE i \in S : \A j \in S : i <= j
SeatedUsers(t) == {t.user[i] : i \in Occupied(t)}

\* The abstract hand: who is in it, and what each put in.
CanDeal(t) == Cardinality(Occupied(t)) >= 2
Ante(t, i) == IF t.chips[i] > 0 THEN 1 ELSE 0
DealHand(t) ==
  IF ~CanDeal(t) THEN t
  ELSE [t EXCEPT !.running = TRUE, !.hand = @ + 1, !.in = Occupied(t),
                 !.pot = Cardinality({i \in SeatNos : t.chips[i] > 0}),
                 !.chips = [i \in SeatNos |-> @[i] - Ante(t, i)], !.bet = [i \in SeatNos |-> Ante(t, i)]]

Ends(t) == {[t EXCEPT !.running = FALSE, !.pot = 0, !.chips[i] = @ + t.pot] : i \in t.in}

\* Stand: the seat is empty, what it put in stays in the pot or is forgotten; a lone
\* player wins the pot.
Rise(t, i) ==
  LET r(lost) == [t EXCEPT !.user[i] = NoOne, !.chips[i] = 0, !.bet[i] = 0, !.in = @ \ {i},
                           !.pot = @ - lost]
  IN  IF ~t.running THEN {r(0)}
      ELSE UNION {IF Cardinality(t.in \ {i}) = 1 THEN Ends(r(lost)) ELSE {r(lost)} : lost \in {0, t.bet[i]}}

-----------------------------------------------------------------------------
(* The actor.                                                              *)
Up      == process \in {"up", "stopping", "saving"}
Runs(t) == Up /\ tables[t].actor = "running"

Put(t, c)    == [tables EXCEPT ![t].queue = Append(@, c)]
Request(kind, u, s) == [kind |-> kind, user |-> u, sub |-> s]

\* broadcast copies the list under the lock.
Shown(t) == [t EXCEPT !.sends = t.subs]

\* A call's reply reaches the screen that waits for it.
Replied(u, x) == [halls EXCEPT ![u].call = "answered", ![u].got = x]

SitProcessed(t, c) ==
  LET tb == [tables[t] EXCEPT !.queue = Tail(@)]
      free == SeatNos \ Occupied(tb)
  IN  /\ IF free = {}
         THEN tables' = [tables EXCEPT ![t] = tb] /\ halls' = Replied(c.user, 0)
         ELSE \E i \in free :
                LET s == [tb EXCEPT !.user[i] = c.user, !.chips[i] = BuyIn, !.bet[i] = 0]
                    d == IF s.running THEN s ELSE DealHand(s)
                IN  /\ d.hand # s.hand => deals < MaxDeals
                    /\ tables' = [tables EXCEPT ![t] = Shown(d)]
                    /\ deals' = deals + d.hand - s.hand
                    /\ halls' = Replied(c.user, 1)
      /\ free = {} => UNCHANGED deals
      /\ UNCHANGED <<timers, recorded, refused, pushes>>

\* Mutant: the seat is paid out and kept.
StandKeepsSeat(t, c) ==
  LET tb == [tables[t] EXCEPT !.queue = Tail(@)]
      mine == SeatsOf(tb, c.user)
  IN  /\ tables' = [tables EXCEPT ![t] = tb]
      /\ halls' = Replied(c.user, IF mine = {} THEN 0 ELSE tb.chips[Lowest(mine)])
      /\ UNCHANGED <<timers, recorded, refused, pushes, deals>>

StandProcessed(t, c) ==
  LET tb == [tables[t] EXCEPT !.queue = Tail(@)]
      mine == SeatsOf(tb, c.user)
  IN  /\ IF mine = {}
         THEN tables' = [tables EXCEPT ![t] = tb] /\ halls' = Replied(c.user, 0)
         ELSE \E r \in Rise(tb, Lowest(mine)) :
                /\ tables' = [tables EXCEPT ![t] = Shown(r)]
                /\ halls' = Replied(c.user, tb.chips[Lowest(mine)])
      /\ UNCHANGED <<timers, recorded, refused, pushes, deals>>

\* The ledger's transaction runs on the server's context; the unique index keeps a
\* second hand of the same number out.
SettleHand(t, hand) ==
  IF process # "up" THEN UNCHANGED <<recorded, refused>>
  ELSE IF <<t, hand>> \in recorded
  THEN refused' = refused \union {<<t, hand>>} /\ UNCHANGED recorded
  ELSE recorded' = recorded \union {<<t, hand>>} /\ UNCHANGED refused

\* handleEnd: the hand is put on record and the pause begins (here before the
\* sends that precede it).
HandEnd(t, hand) == timers' = timers \union {t} /\ SettleHand(t, hand)

ActionProcessed(t, c) ==
  LET tb == [tables[t] EXCEPT !.queue = Tail(@)]
  IN  /\ halls' = Replied(c.user, 1)
      /\ \/ /\ tables' = [tables EXCEPT ![t] = IF SeatsOf(tb, c.user) = {} THEN tb ELSE Shown(tb)]
            /\ UNCHANGED <<timers, recorded, refused>>
         \/ /\ tb.running /\ SeatsOf(tb, c.user) \cap tb.in # {}
            /\ \E e \in Ends(tb) : tables' = [tables EXCEPT ![t] = Shown(e)]
            /\ HandEnd(t, tb.hand)
      /\ UNCHANGED <<pushes, deals>>

StartHandProcessed(t) ==
  LET tb == [tables[t] EXCEPT !.queue = Tail(@)]
      d  == DealHand(tb)
  IN  /\ d.hand # tb.hand => deals < MaxDeals
      /\ tables' = [tables EXCEPT ![t] = IF d.hand = tb.hand THEN d ELSE Shown(d)]
      /\ deals' = deals + d.hand - tb.hand
      /\ UNCHANGED <<halls, timers, recorded, refused, pushes>>

\* A first snapshot is for its subscription, or for Persist, which has none.
SnapshotProcessed(t, c) ==
  /\ tables' = [tables EXCEPT ![t].queue = Tail(@)]
  /\ pushes' = pushes \union {[sub |-> c.sub, seated |-> SeatedUsers(tables[t])]}
  /\ UNCHANGED <<halls, timers, recorded, refused, deals>>

Process(t) ==
  /\ Runs(t) /\ tables[t].sends = <<>> /\ tables[t].queue # <<>>
  /\ LET c == Head(tables[t].queue)
     IN  \/ c.kind = "sit"    /\ SitProcessed(t, c)
         \/ c.kind = "stand"  /\ StandProcessed(t, c)
         \/ c.kind = "action" /\ ActionProcessed(t, c)
         \/ c.kind = "start"  /\ StartHandProcessed(t)
         \/ c.kind = "snap"   /\ SnapshotProcessed(t, c)
  /\ UNCHANGED <<subs, purses, payments, asks, saved, process, toSave, nextId, leaves, stops,
                 books, astray>>

\* A send on a subscription that was closed meanwhile ends the program; a full one
\* misses the snapshot.
Sent(s, seated) ==
  IF ~subs[s].open THEN process' = "crashed" /\ UNCHANGED subs
  ELSE /\ subs' = IF Len(subs[s].buf) < SubBuf THEN [subs EXCEPT ![s].buf = Append(@, seated)]
                  ELSE subs
       /\ UNCHANGED process

Send(t) ==
  /\ Runs(t) /\ tables[t].sends # <<>>
  /\ Sent(Head(tables[t].sends), SeatedUsers(tables[t]))
  /\ tables' = [tables EXCEPT ![t].sends = Tail(@)]
  /\ UNCHANGED <<halls, purses, payments, asks, pushes, timers, saved, recorded, refused, toSave,
                 nextId, deals, leaves, stops, books, astray>>

Push ==
  /\ Up
  /\ \E p \in pushes :
       /\ p.sub # 0
       /\ Sent(p.sub, p.seated)
       /\ pushes' = pushes \ {p}
  /\ UNCHANGED <<tables, halls, purses, payments, asks, timers, saved, recorded, refused, toSave,
                 nextId, deals, leaves, stops, books, astray>>

\* The goroutine of Subscribe asks for the first snapshot.
AskSnapshot ==
  /\ Up
  /\ \E s \in asks :
       /\ tables' = Put(subs[s].tbl, Request("snap", subs[s].user, s))
       /\ asks' = asks \ {s}
  /\ UNCHANGED <<subs, halls, purses, payments, pushes, timers, saved, recorded, refused, process,
                 toSave, nextId, deals, leaves, stops, books, astray>>

\* The goroutine of handleEnd asks for the next hand.
TimerFires ==
  /\ Up
  /\ \E t \in timers :
       /\ timers' = timers \ {t}
       /\ tables' = IF tables[t].actor = "running" THEN Put(t, Request("start", NoOne, 0)) ELSE tables
  /\ UNCHANGED <<subs, halls, purses, payments, asks, pushes, saved, recorded, refused, process,
                 toSave, nextId, deals, leaves, stops, books, astray>>

-----------------------------------------------------------------------------
(* The screens.  A call keeps the screen in Update until it is answered.   *)
(* rejected is history: the subscription is one to a table without a seat  *)
(* for the user, and no table was left or rejoined since.                  *)
AtLobby(u) == halls[u].mode = "lobby" /\ halls[u].call = "none"
AtTable(u) == halls[u].mode = "table" /\ halls[u].call = "none"

Paying(u) == \E p \in payments : p.user = u

\* A wallet command takes the screen's copy along, and whose row it is (nobody's
\* before the wallet is loaded).  Its answer is lost when the session ends.
Payment(u, kind, amount) ==
  [nr |-> CHOOSE n \in 1 .. Cardinality(payments) + 1 : \A p \in payments : p.nr # n,
   user |-> u, kind |-> kind, amount |-> amount, copy |-> halls[u].copy, row |-> halls[u].row,
   done |-> FALSE, lost |-> FALSE]

Asked(u, kind, amount) ==
  /\ payments' = payments \union {Payment(u, kind, amount)}
  /\ books' = [books EXCEPT ![u] = CASE kind = "load"   -> @
                                     [] kind = "debit"  -> @ - amount
                                     [] kind = "credit" -> @ + amount]
  /\ astray' = IF Paying(u) THEN astray \union {u} ELSE astray

\* Subscribe: a new subscription of table t.
Subscribed(u, t) == [tbl |-> t, user |-> u, open |-> TRUE, buf |-> <<>>]
NewSub == Len(subs) + 1

\* unsubscribe closes it and takes it off the list.
Unlisted(ts, s) == [ts EXCEPT ![subs[s].tbl].subs = SelectSeq(@, LAMBDA x : x # s)]

OpenHall(u) ==
  /\ process = "up" /\ halls[u].mode = "away"
  /\ halls' = [halls EXCEPT ![u] = [Away EXCEPT !.mode = "lobby", !.waits = halls[u].waits,
                                               !.late = halls[u].late]]
  /\ Asked(u, "load", 0)
  /\ UNCHANGED <<tables, subs, purses, asks, pushes, timers, saved, recorded, refused, process,
                 toSave, nextId, deals, leaves, stops>>

\* joinTable up to its Sit: a screen without a snapshot subscribes first, whatever
\* subscription it has.
Join(u, t, ts) ==
  /\ halls[u].copy >= BuyIn
  /\ IF halls[u].snap = 0
     THEN /\ Len(subs) < MaxSubs
          /\ subs' = Append(subs, Subscribed(u, t))
          /\ asks' = asks \union {NewSub}
          /\ tables' = [ts EXCEPT ![t].subs = Append(@, NewSub),
                                  ![t].queue = Append(@, Request("sit", u, 0))]
          /\ halls' = [halls EXCEPT ![u].tbl = t, ![u].mode = "table", ![u].call = "sit", ![u].sub = NewSub,
                                    ![u].rejected = FALSE]
     ELSE /\ tables' = [ts EXCEPT ![t].queue = Append(@, Request("sit", u, 0))]
          /\ halls' = [halls EXCEPT ![u].tbl = t, ![u].mode = "table", ![u].call = "sit"]
          /\ UNCHANGED <<subs, asks>>

\* Registry.Create: the next id, and an actor of its own.
NewTable == [tables EXCEPT ![nextId + 1] = [NoTable EXCEPT !.actor = "running"]]

Create(u) ==
  /\ AtLobby(u) /\ nextId + 1 \in TableIds
  /\ nextId' = nextId + 1
  /\ Join(u, nextId', NewTable)
  /\ UNCHANGED <<purses, payments, pushes, timers, saved, recorded, refused, process, toSave,
                 deals, leaves, stops, books, astray>>

Pick(u, t) ==
  /\ AtLobby(u) /\ tables[t].actor # "none"
  /\ Join(u, t, tables)
  /\ UNCHANGED <<purses, payments, pushes, timers, saved, recorded, refused, process, toSave,
                 nextId, deals, leaves, stops, books, astray>>

\* The rest of joinTable: the buy-in is debited with or without a seat; a seated
\* screen that has no subscription gets one, and waits on the one it has.
Joined(u) ==
  /\ halls[u].call = "answered" /\ halls[u].mode = "table" /\ halls[u].tbl # 0
  /\ Asked(u, "debit", BuyIn)
  /\ LET h == [halls[u] EXCEPT !.call = "none", !.got = 0]
     IN  IF halls[u].got = 0
         THEN halls' = [halls EXCEPT ![u] = [h EXCEPT !.mode = "lobby", !.rejected = h.sub # 0]]
              /\ UNCHANGED <<tables, subs, asks>>
         ELSE IF h.sub # 0
         THEN halls' = [halls EXCEPT ![u] = [h EXCEPT !.waits = @ \union {h.sub}]] /\ UNCHANGED <<tables, subs, asks>>
         ELSE /\ Len(subs) < MaxSubs
              /\ subs' = Append(subs, Subscribed(u, h.tbl))
              /\ asks' = asks \union {NewSub}
              /\ tables' = [tables EXCEPT ![h.tbl].subs = Append(@, NewSub)]
              /\ halls' = [halls EXCEPT ![u] = [h EXCEPT !.sub = NewSub, !.waits = @ \union {NewSub}]]
  /\ UNCHANGED <<purses, pushes, timers, saved, recorded, refused, process, toSave, nextId, deals,
                 leaves, stops>>

\* tableUpdate: an action of the hand, or Esc.
AskTable(u, kind, mode) ==
  /\ tables' = Put(halls[u].tbl, Request(kind, u, 0))
  /\ halls' = [halls EXCEPT ![u].call = kind, ![u].mode = mode]
  /\ UNCHANGED <<subs, purses, payments, asks, pushes, timers, saved, recorded, refused, process,
                 toSave, nextId, deals, stops, books, astray>>

Act(u) == AtTable(u) /\ AskTable(u, "action", "acting") /\ UNCHANGED leaves

Acted(u) ==
  /\ halls[u].call = "answered" /\ halls[u].mode = "acting"
  /\ halls' = [halls EXCEPT ![u].call = "none", ![u].mode = "table", ![u].got = 0]
  /\ UNCHANGED <<tables, subs, purses, payments, asks, pushes, timers, saved, recorded, refused,
                 process, toSave, nextId, deals, leaves, stops, books, astray>>

LeaveTable(u) ==
  /\ AtTable(u) /\ leaves < MaxLeaves
  /\ leaves' = leaves + 1
  /\ AskTable(u, "stand", "leaving")

\* The rest of leaveTable: the subscription is closed, the chips are credited.
Left(u) ==
  /\ halls[u].call = "answered" /\ halls[u].mode = "leaving"
  /\ subs' = [subs EXCEPT ![halls[u].sub].open = FALSE]
  /\ tables' = Unlisted(tables, halls[u].sub)
  /\ Asked(u, "credit", halls[u].got)
  /\ halls' = [halls EXCEPT ![u] = [@ EXCEPT !.mode = "lobby", !.call = "none", !.got = 0, !.tbl = 0, !.sub = 0,
                                             !.snap = 0, !.rejected = FALSE]]
  /\ UNCHANGED <<purses, asks, pushes, timers, saved, recorded, refused, process, toSave, nextId,
                 deals, leaves, stops>>

\* rejoinExistingSeat: subscribe, and look at the first snapshot.
Rejoin(u, t) ==
  /\ AtLobby(u) /\ tables[t].actor # "none" /\ Len(subs) < MaxSubs
  /\ subs' = Append(subs, Subscribed(u, t))
  /\ asks' = asks \union {NewSub}
  /\ tables' = [tables EXCEPT ![t].subs = Append(@, NewSub)]
  /\ halls' = [halls EXCEPT ![u].call = "first", ![u].got = NewSub]
  /\ UNCHANGED <<purses, payments, pushes, timers, saved, recorded, refused, process, toSave,
                 nextId, deals, leaves, stops, books, astray>>

\* The snapshot shows the user's seat, or the subscription is given up; it is also
\* given up when no snapshot comes in time.
Rejoined(u) ==
  /\ halls[u].call = "first"
  /\ LET s == halls[u].got
         h == [halls[u] EXCEPT !.call = "none", !.got = 0]
     IN  IF subs[s].buf # <<>> /\ u \in Head(subs[s].buf)
         THEN /\ subs' = [subs EXCEPT ![s].buf = Tail(@)]
              /\ halls' = [halls EXCEPT ![u] = [h EXCEPT !.mode = "table", !.tbl = subs[s].tbl,
                              !.snap = subs[s].tbl, !.sub = s, !.waits = @ \union {s}, !.rejected = FALSE]]
              /\ UNCHANGED tables
         ELSE /\ subs' = [subs EXCEPT ![s].open = FALSE]
              /\ tables' = Unlisted(tables, s)
              /\ halls' = [halls EXCEPT ![u] = h]
  /\ UNCHANGED <<purses, payments, asks, pushes, timers, saved, recorded, refused, process,
                 toSave, nextId, deals, leaves, stops, books, astray>>

\* Esc in the lobby: another screen takes the place of this one, and the commands
\* under way go on.
LeaveHall(u) ==
  /\ AtLobby(u) /\ leaves < MaxLeaves
  /\ leaves' = leaves + 1
  /\ halls' = [halls EXCEPT ![u] = [Away EXCEPT !.waits = halls[u].waits, !.late = halls[u].late]]
  /\ UNCHANGED <<tables, subs, purses, payments, asks, pushes, timers, saved, recorded, refused,
                 process, toSave, nextId, deals, stops, books, astray>>

\* The session ends, after the message that is handled: a seat is kept, and so is
\* the subscription; nobody hears the answers of the commands under way.
Disconnect(u) ==
  /\ halls[u].call = "none" /\ leaves < MaxLeaves
  /\ leaves' = leaves + 1
  /\ halls' = [halls EXCEPT ![u] = Away]
  /\ payments' = {p \in payments : p.user # u}
                   \union {[p EXCEPT !.lost = TRUE] : p \in {q \in payments : q.user = u /\ ~q.done}}
  /\ UNCHANGED <<tables, subs, purses, asks, pushes, timers, saved, recorded, refused, process,
                 toSave, nextId, deals, stops, books, astray>>

\* waitSnap: a closed channel still gives what it holds, and then ends the wait.
WaitSnap(u, s) ==
  /\ s \in halls[u].waits
  /\ subs[s].buf # <<>> \/ ~subs[s].open
  /\ IF subs[s].buf # <<>>
     THEN /\ subs' = [subs EXCEPT ![s].buf = Tail(@)]
          /\ halls' = [halls EXCEPT ![u].waits = @ \ {s}, ![u].late = Append(@, subs[s].tbl)]
     ELSE halls' = [halls EXCEPT ![u].waits = @ \ {s}] /\ UNCHANGED subs
  /\ UNCHANGED <<tables, purses, payments, asks, pushes, timers, saved, recorded, refused,
                 process, toSave, nextId, deals, leaves, stops, books, astray>>

\* Mutant: one snapshot and no more.
GotSnapOnce(u) ==
  /\ halls[u].late # <<>> /\ halls[u].call = "none"
  /\ halls' = [halls EXCEPT ![u].late = Tail(@),
                            ![u].snap = IF halls[u].mode = "away" THEN @ ELSE Head(halls[u].late)]
  /\ UNCHANGED <<tables, subs, purses, payments, asks, pushes, timers, saved, recorded, refused,
                 process, toSave, nextId, deals, leaves, stops, books, astray>>

\* hmpSnapMsg: the table is shown, and the wait is for the subscription of now;
\* another screen drops it.
GotSnap(u) ==
  /\ halls[u].late # <<>> /\ halls[u].call = "none"
  /\ halls' = [halls EXCEPT ![u].late = Tail(@),
                            ![u].snap = IF halls[u].mode = "away" THEN @ ELSE Head(halls[u].late),
                            ![u].waits = IF halls[u].sub = 0 THEN @ ELSE @ \union {halls[u].sub}]
  /\ UNCHANGED <<tables, subs, purses, payments, asks, pushes, timers, saved, recorded, refused,
                 process, toSave, nextId, deals, leaves, stops, books, astray>>

\* The copy after a wallet command: Bet and Credit change it and write it over its
\* row, if it has one.
Changed(p) == IF p.kind = "debit" THEN p.copy - p.amount ELSE p.copy + p.amount
Write(p)   == purses' = IF p.row = NoOne THEN purses ELSE [purses EXCEPT ![p.row] = Changed(p)]

\* The command is through, with this copy for the screen; or it has none.
Through(p, copy, row) ==
  payments' = (payments \ {p})
    \union (IF p.lost THEN {} ELSE {[p EXCEPT !.done = TRUE, !.copy = copy, !.row = row]})

Pay(p) ==
  /\ p \in payments /\ ~p.done
  /\ \/ /\ p.kind = "load"
        /\ Through(p, purses[p.user], p.user) /\ UNCHANGED purses
     \/ /\ p.kind = "debit" \/ p.amount > 0
        /\ Write(p) /\ Through(p, Changed(p), p.row)
     \/ /\ p.kind = "credit" /\ p.amount = 0
        /\ Through(p, p.copy, p.row) /\ UNCHANGED purses
  /\ UNCHANGED <<tables, subs, halls, asks, pushes, timers, saved, recorded, refused, process,
                 toSave, nextId, deals, leaves, stops, books, astray>>

\* A statement that fails, or whose context ends with the session, is not carried
\* out, or its answer is lost.  The screen shows the error of a load or of a debit
\* and keeps its copy; that of a credit it does not look at.
PayFails(p) ==
  /\ RoomFaults /\ p \in payments /\ ~p.done /\ ~(p.kind = "credit" /\ p.amount = 0)
  /\ (p.kind # "load" /\ Write(p)) \/ UNCHANGED purses
  /\ IF p.kind = "credit" THEN Through(p, Changed(p), p.row) ELSE payments' = payments \ {p}
  /\ astray' = astray \union {p.user}
  /\ UNCHANGED <<tables, subs, halls, asks, pushes, timers, saved, recorded, refused, process,
                 toSave, nextId, deals, leaves, stops, books>>

\* hmpWalletMsg, hmpBuyInMsg: whichever screen of the hall there is takes the copy.
GotPayment(p) ==
  /\ p \in payments /\ p.done /\ halls[p.user].call = "none"
  /\ payments' = payments \ {p}
  /\ halls' = IF halls[p.user].mode = "away" THEN halls
              ELSE [halls EXCEPT ![p.user].copy = p.copy, ![p.user].row = p.row]
  /\ UNCHANGED <<tables, subs, purses, asks, pushes, timers, saved, recorded, refused, process,
                 toSave, nextId, deals, leaves, stops, books, astray>>

-----------------------------------------------------------------------------
(* Shutdown and restart.                                                   *)
Live == {t \in TableIds : tables[t].actor # "none"}

Shutdown ==
  /\ process = "up" /\ stops < MaxStops
  /\ process' = "stopping" /\ toSave' = Live
  /\ UNCHANGED <<tables, subs, halls, purses, payments, asks, pushes, timers, saved, recorded,
                 refused, nextId, deals, leaves, stops, books, astray>>

\* An actor finds its context cancelled, between two commands: the subscriptions
\* are closed.
ActorStops(t) ==
  /\ process \in {"stopping", "saving"} /\ Runs(t) /\ tables[t].sends = <<>>
  /\ tables' = [tables EXCEPT ![t].actor = "ended", ![t].subs = <<>>]
  /\ subs' = [s \in DOMAIN subs |-> IF s \in Range(tables[t].subs) THEN [subs[s] EXCEPT !.open = FALSE]
                                    ELSE subs[s]]
  /\ UNCHANGED <<halls, purses, payments, asks, pushes, timers, saved, recorded, refused, process,
                 toSave, nextId, deals, leaves, stops, books, astray>>

\* Persist: a snapshot command to each actor, and, when that is answered, the row.
SaveAsks ==
  /\ process = "stopping" /\ toSave # {}
  /\ process' = "saving"
  /\ tables' = Put(Lowest(toSave), Request("snap", NoOne, 0))
  /\ UNCHANGED <<subs, halls, purses, payments, asks, pushes, timers, saved, recorded, refused,
                 toSave, nextId, deals, leaves, stops, books, astray>>

\* SnapshotState has the stacks with what is in play, and the hand's number.
SnapshotState(t) ==
  [user |-> tables[t].user, chips |-> [i \in SeatNos |-> tables[t].chips[i] + tables[t].bet[i]],
   hand |-> tables[t].hand]

SaveWrites ==
  /\ process = "saving" /\ \E p \in pushes : p.sub = 0
  /\ process' = "stopping"
  /\ pushes' = {p \in pushes : p.sub # 0}
  /\ saved' = [saved EXCEPT ![Lowest(toSave)] = SnapshotState(Lowest(toSave))]
  /\ toSave' = toSave \ {Lowest(toSave)}
  /\ UNCHANGED <<tables, subs, halls, purses, payments, asks, timers, recorded, refused, nextId,
                 deals, leaves, stops, books, astray>>

Saved ==
  /\ process = "stopping" /\ toSave = {}
  /\ process' = "down"
  /\ UNCHANGED <<tables, subs, halls, purses, payments, asks, pushes, timers, saved, recorded,
                 refused, toSave, nextId, deals, leaves, stops, books, astray>>

NoSavedRow == [user |-> [i \in SeatNos |-> NoOne], chips |-> [i \in SeatNos |-> 0], hand |-> 0]

\* Restore: the tables with a seat that has chips.
Restorable == {t \in TableIds : \E i \in SeatNos : saved[t].user[i] # NoOne /\ saved[t].chips[i] > 0}

Restart ==
  /\ process \in {"down", "crashed"} /\ stops < MaxStops
  /\ stops' = stops + 1
  /\ process' = "up"
  /\ tables' = [t \in TableIds |->
       IF t \notin Restorable THEN NoTable
       ELSE [NoTable EXCEPT !.actor = "running", !.user = saved[t].user, !.chips = saved[t].chips,
                            !.hand = saved[t].hand]]
  /\ saved' = [t \in TableIds |-> IF t \in Restorable THEN saved[t] ELSE NoSavedRow]
  /\ nextId' = IF Restorable = {} THEN 0 ELSE CHOOSE t \in Restorable : \A x \in Restorable : x <= t
  /\ halls' = [u \in Players |-> Away]
  /\ subs' = <<>> /\ payments' = {} /\ asks' = {} /\ pushes' = {} /\ timers' = {} /\ toSave' = {}
  /\ UNCHANGED <<purses, recorded, refused, deals, leaves, books, astray>>

RoomInit ==
  /\ tables = [t \in TableIds |-> NoTable] /\ subs = <<>>
  /\ halls = [u \in Players |-> Away] /\ purses = [u \in Players |-> Savings]
  /\ payments = {} /\ asks = {} /\ pushes = {} /\ timers = {}
  /\ saved = [t \in TableIds |-> NoSavedRow] /\ recorded = {} /\ refused = {}
  /\ process = "up" /\ toSave = {}
  /\ nextId = 0 /\ deals = 0 /\ leaves = 0 /\ stops = 0
  /\ books = purses /\ astray = {}

Sitting ==
  /\ Up
  /\ \E u \in Players :
       \/ OpenHall(u) \/ Create(u) \/ Joined(u) \/ Act(u) \/ Acted(u) \/ LeaveTable(u) \/ Left(u)
       \/ Rejoined(u) \/ LeaveHall(u) \/ Disconnect(u) \/ GotSnap(u)
       \/ \E t \in TableIds : Pick(u, t) \/ Rejoin(u, t)
       \/ \E s \in halls[u].waits : WaitSnap(u, s)

Paid == Up /\ \E p \in payments : Pay(p) \/ PayFails(p) \/ GotPayment(p)

Stopping == Shutdown \/ SaveAsks \/ SaveWrites \/ Saved \/ Restart \/ \E t \in TableIds : ActorStops(t)

Dealing == Push \/ AskSnapshot \/ TimerFires \/ \E t \in TableIds : Process(t) \/ Send(t)

RoomNext == Sitting \/ Paid \/ Dealing \/ Stopping

RoomSpec == RoomInit /\ [][RoomNext]_roomVars

-----------------------------------------------------------------------------
(* Properties.                                                             *)
SumOver(S, F(_)) == FoldFunction(LAMBDA a, b : a + b, 0, [x \in S |-> F(x)])
OnTable(t) ==
  SumOver(SeatNos, LAMBDA i : tables[t].chips[i]) + (IF tables[t].running THEN tables[t].pot ELSE 0)

Idle == \A u \in Players : halls[u].call \in {"none", "first"}

\* Until a restart, what the players bought in for and cashed out leaves no more
\* than they came with, however they hurry and whatever fails: a stack is asked for
\* once and cashed once (holdem_mp.go joinTable, leaveTable; coordinator.go Stand).
\* And the wallet of a user is what he asked for, but for one who did not wait for a
\* wallet command or had one fail: the commands of such a user write over each
\* other (ChipsArePaidFor).
NoFreeChips ==
  stops = 0 =>
    /\ Up /\ Idle =>
         SumOver(Players, LAMBDA u : books[u]) + SumOver(TableIds, OnTable)
           <= Cardinality(Players) * Savings
    /\ \A u \in Players \ astray : ~Paying(u) => purses[u] = books[u]

\* A screen at a table has an open subscription, or one the actor closed at its
\* end, and something that will take the next snapshot from it; and it is one of
\* this table, unless the screen has kept that of a table which turned the user
\* away (holdem_mp.go joinTable, hmpSnapMsg, rejoinExistingSeat).
StillWatching ==
  \A u \in Players : Up /\ AtTable(u) =>
    /\ halls[u].sub # 0 /\ (subs[halls[u].sub].tbl = halls[u].tbl \/ halls[u].rejected)
    /\ subs[halls[u].sub].open => halls[u].sub \in halls[u].waits \/ halls[u].late # <<>>

\* The hands of a table are numbered so that the unique index of multiplayer_hands
\* takes every one (engine.go HandNumber).
HandsDontCollide == refused = {}

\* holdem_mp.go:266: "Debit the buy-in. Settlement on stand returns whatever chips
\* remain": wallets and tables have no more than the players came with.
ChipsArePaidFor ==
  Up /\ stops = 0 /\ Idle /\ payments = {} =>
    SumOver(Players, LAMBDA u : purses[u]) + SumOver(TableIds, OnTable)
      <= Cardinality(Players) * Savings

\* The actor's loop ends with its context and not before (coordinator.go Run:
\* "Returns when ctx is cancelled or Close() is called").
RunsUntilStopped == process # "crashed"

\* A shutdown gets the tables saved (registry.go: "writes a snapshot back to the
\* same row on graceful Shutdown").
PersistReturns == process = "stopping" ~> process = "down"

ShutdownFairness ==
  /\ WF_roomVars(SaveAsks) /\ WF_roomVars(SaveWrites) /\ WF_roomVars(Saved)
  /\ \A t \in TableIds : WF_roomVars(Process(t)) /\ WF_roomVars(Send(t)) /\ WF_roomVars(ActorStops(t))
=============================================================================
