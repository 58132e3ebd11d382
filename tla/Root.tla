-------------------------------- MODULE Root --------------------------------
(* realtime/wall.go and tui/app.go: the dispatcher that fans broadcasts out   *)
(* to the sessions, and the root model of each session, which shows them as a *)
(* banner, routes between the screens and keeps the temperature fresh. A      *)
(* broadcast is its number. A channel outlives its registration: what was     *)
(* buffered in it can still be read.                                          *)
EXTENDS Integers, Sequences, FiniteSets, SequencesExt

CONSTANTS
  Terminals,          \* sessions
  SysopTerminals,     \* those of sysops
  Dests,              \* destinations of NavigateMsg
  Broadcasts,         \* how many broadcasts are published
  BufferSize,         \* wallSubBufferSize (16)
  EvictAfter,         \* evictAfterDrops (4)
  WallTTL,            \* how long a banner stays
  NavCap              \* bound: navigations of a session

ASSUME RootAssumption ==
  /\ Broadcasts \in Nat /\ BufferSize \in Nat \ {0} /\ EvictAfter \in Nat \ {0}
  /\ WallTTL \in Nat \ {0} /\ NavCap \in Nat

VARIABLES
  published,  \* broadcasts so far
  dispatcher,       \* the dispatcher: "on" the topic, "lost" and waiting, "off"
  topic,      \* payloads on their way to it
  chans,      \* every channel Subscribe made: [open, listed, buf, drops]
  term        \* session -> the state of its root model; times are what is left

rootVars == <<published, dispatcher, topic, chans, term>>
NoBanner == 0

Slots == {c \in DOMAIN chans : chans[c].listed}
NewChan == [open |-> TRUE, listed |-> TRUE, buf |-> <<>>, drops |-> 0]
\* Mutant: the slot stays in the map.
DelistNone(c) == chans

Delist(c) == [chans EXCEPT ![c].listed = FALSE]
\* rearmWallCmd: the old slot is given back, then a new channel is registered.
RearmWall(c) == Append(Delist(c), NewChan)
-----------------------------------------------------------------------------
(* The dispatcher. *)
PublishWall ==
  /\ published < Broadcasts
  /\ published' = published + 1
  /\ topic' = IF dispatcher = "on" THEN Append(topic, published + 1) ELSE topic
  /\ UNCHANGED <<dispatcher, chans, term>>

\* A full buffer counts a drop; the last one allowed closes the channel.
Offered(c, b) ==
  IF Len(c.buf) < BufferSize THEN [c EXCEPT !.buf = Append(@, b), !.drops = 0]
  ELSE IF c.drops + 1 >= EvictAfter
       THEN [c EXCEPT !.drops = @ + 1, !.open = FALSE, !.listed = FALSE]
       ELSE [c EXCEPT !.drops = @ + 1]
Fanout ==
  /\ dispatcher = "on" /\ topic # <<>>
  /\ topic' = Tail(topic)
  /\ chans' = [c \in DOMAIN chans |->
                 IF chans[c].listed THEN Offered(chans[c], Head(topic)) ELSE chans[c]]
  /\ UNCHANGED <<published, dispatcher, term>>
\* Run: a subscription that is lost is retried after a backoff, and what is
\* published meanwhile is lost.
ConsumeFails ==
  /\ dispatcher = "on" /\ published < Broadcasts /\ dispatcher' = "lost" /\ topic' = <<>>
  /\ UNCHANGED <<published, chans, term>>
Retry ==
  /\ dispatcher = "lost" /\ dispatcher' = "on"
  /\ UNCHANGED <<published, topic, chans, term>>
-----------------------------------------------------------------------------
(* A session. Its waiter is the goroutine of waitWallCmd, blocked on the      *)
(* channel `reads`; the broadcast it took is in `hand` until Update has it.   *)
InState(s, state) == term[s].state = state

\* The program runs until it handles the QuitMsg: "leaving" and "quitting" are told to
\* quit, and the second has given its slot back.  "out", "quit" and "lost" have ended:
\* through the menu, by Ctrl+C and with the connection.
Running(s) == term[s].state \in {"up", "leaving", "quitting"}

StartSession(s) ==
  /\ InState(s, "new")
  /\ chans' = Append(chans, NewChan)
  /\ term' = [term EXCEPT ![s].state = "up", ![s].sub = Len(chans) + 1,
                          ![s].reads = Len(chans) + 1, ![s].temp = "fetching"]
  /\ UNCHANGED <<published, dispatcher, topic>>
\* waitWallCmd: a closed channel ends it once its buffer is read.
WaitWall(s) ==
  LET c == term[s].reads IN
  /\ c # 0
  /\ IF chans[c].buf # <<>>
     THEN /\ term' = [term EXCEPT ![s].reads = 0, ![s].hand = Head(chans[c].buf)]
          /\ chans' = [chans EXCEPT ![c].buf = Tail(@)]
     ELSE /\ ~chans[c].open /\ UNCHANGED chans
          /\ term' = [term EXCEPT ![s].reads = 0]
  /\ UNCHANGED <<published, dispatcher, topic>>
\* Update of wallRecvMsg: the banner, a fresh channel in the place of the old
\* one, and the timer that will take the banner down.  One who has pressed Ctrl+C
\* gets a channel again.
WallRecv(s) ==
  LET t == term[s] IN
  /\ Running(s) /\ t.hand # NoBanner
  /\ chans' = RearmWall(t.sub)
  /\ term' = [term EXCEPT ![s].hand = NoBanner, ![s].banner = t.hand,
       ![s].expires = WallTTL, ![s].timers = @ \cup {WallTTL},
       ![s].sub = Len(chans) + 1, ![s].reads = Len(chans) + 1,
       ![s].state = IF t.state = "quitting" THEN "leaving" ELSE @]
  /\ UNCHANGED <<published, dispatcher, topic>>
\* Mutant: any timer takes any banner down.
WallExpireAny(s) ==
  /\ Running(s)
  /\ 0 \in term[s].timers
  /\ term' = [term EXCEPT ![s].timers = @ \ {0}, ![s].banner = NoBanner]
  /\ UNCHANGED <<published, dispatcher, topic, chans>>

WallExpire(s) ==
  /\ Running(s)
  /\ 0 \in term[s].timers
  /\ term' = [term EXCEPT ![s].timers = @ \ {0},
                 ![s].banner = IF term[s].expires > 0 THEN @ ELSE NoBanner]
  /\ UNCHANGED <<published, dispatcher, topic, chans>>
\* route: every destination is a fresh screen; the moderation console is for
\* sysops, and logging out quits, with no word to the dispatcher.
Route(s, dest) ==
  /\ Running(s) /\ term[s].moves < NavCap
  /\ term' = [term EXCEPT ![s].moves = @ + 1,
       ![s].screen = IF dest = "sysop" /\ s \notin SysopTerminals THEN "lobby" ELSE dest,
       ![s].state = IF dest = "logout" /\ @ = "up" THEN "leaving" ELSE @]
  /\ UNCHANGED <<published, dispatcher, topic, chans>>
\* wallCancel.
CtrlC(s) ==
  /\ InState(s, "up") \/ InState(s, "leaving")
  /\ chans' = Delist(term[s].sub)
  /\ term' = [term EXCEPT ![s].state = "quitting"]
  /\ UNCHANGED <<published, dispatcher, topic>>
\* The QuitMsg of tea.Quit: bubbletea ends the program without asking Update.
Quit(s) ==
  /\ \/ InState(s, "leaving")  /\ term' = [term EXCEPT ![s].state = "out"]
     \/ InState(s, "quitting") /\ term' = [term EXCEPT ![s].state = "quit"]
  /\ UNCHANGED <<published, dispatcher, topic, chans>>
\* The connection is lost, kicked or idle for too long: the session's context ends
\* the program, and nothing gives the slot back.
HangUp(s) ==
  /\ InState(s, "up")
  /\ term' = [term EXCEPT ![s].state = "lost"]
  /\ UNCHANGED <<published, dispatcher, topic, chans>>
\* The status bar's temperature: a fetch, then a wait, whatever the result.
StatusTemp(s) ==
  /\ Running(s)
  /\ \/ term[s].temp = "fetching" /\ term' = [term EXCEPT ![s].temp = "waiting"]
     \/ term[s].temp = "waiting" /\ term' = [term EXCEPT ![s].temp = "fetching"]
     \/ term[s].temp = "waiting" /\ term' = [term EXCEPT ![s].temp = "no location"]
  /\ UNCHANGED <<published, dispatcher, topic, chans>>
\* A unit of time passes; a timer that is due goes off first.
OneSecondOff(n) == IF n = 0 THEN 0 ELSE n - 1
SecondPasses ==
  /\ \A s \in Terminals : Running(s) => 0 \notin term[s].timers
  /\ \E s \in Terminals : Running(s) /\ term[s].timers # {}
  /\ term' = [s \in Terminals |->
       [term[s] EXCEPT !.expires = OneSecondOff(@), !.timers = {OneSecondOff(n) : n \in @}]]
  /\ UNCHANGED <<published, dispatcher, topic, chans>>

RootInit ==
  /\ published = 0 /\ dispatcher = "on" /\ topic = <<>> /\ chans = <<>>
  /\ term = [s \in Terminals |->
       [state |-> "new", screen |-> "lobby", sub |-> 0, reads |-> 0, hand |-> NoBanner,
        banner |-> NoBanner, expires |-> 0, timers |-> {}, temp |-> "none", moves |-> 0]]
Session(s) == WaitWall(s) \/ WallRecv(s) \/ WallExpire(s)
RootNext ==
  \/ PublishWall \/ Fanout \/ ConsumeFails \/ Retry \/ SecondPasses
  \/ \E s \in Terminals : \/ Session(s) \/ StartSession(s) \/ StatusTemp(s)
                          \/ CtrlC(s) \/ Quit(s) \/ HangUp(s)
                          \/ (\E d \in Dests : Route(s, d))
\* The dispatcher, the program of each session and the clock go on.
RootFair ==
  /\ WF_rootVars(Fanout) /\ WF_rootVars(Retry) /\ WF_rootVars(SecondPasses)
  /\ \A s \in Terminals : WF_rootVars(Session(s))
RootSpec == RootInit /\ [][RootNext]_rootVars /\ RootFair
-----------------------------------------------------------------------------
\* A session that is up will hear of the next broadcast: it has one in hand, or
\* its waiter reads a channel that is registered or has something left in it.
\* An eviction does not end that: a full buffer is something left.
StillListens ==
  \A s \in Terminals : InState(s, "up") =>
    \/ term[s].hand # NoBanner
    \/ /\ term[s].reads = term[s].sub
       /\ chans[term[s].sub].listed \/ chans[term[s].sub].buf # <<>>

\* rearmWallCmd "keeps the dispatcher's subscriber map proportional to live
\* sessions": a slot is the present one of a session, so that each has one at most,
\* and none is left by Ctrl+C.  That the other ends of a session leave theirs,
\* SlotsOfLiveSessions says below.
SlotsBelong ==
  \A c \in Slots : \E s \in Terminals :
    term[s].sub = c /\ term[s].state \in {"up", "leaving", "out", "lost"}

\* The dispatcher's map holds whoever is up, nobody twice, and nobody who gave his
\* slot back.
WallKept == StillListens /\ SlotsBelong

\* Banners come in the order of the broadcasts, and an old timer takes no newer
\* banner down before its time.
BannersInOrder ==
  [][\A s \in Terminals :
       /\ term'[s].banner # NoBanner => term'[s].banner >= term[s].banner
       /\ term[s].banner # NoBanner /\ term'[s].banner = NoBanner
            => term[s].expires = 0]_rootVars

\* A banner of a session that stays goes away by itself, unless a newer one
\* takes its place.
BannerClears ==
  \A s \in Terminals : \A b \in 1 .. Broadcasts :
    (InState(s, "up") /\ term[s].banner = b) ~> (term[s].banner # b \/ ~InState(s, "up"))

\* Every banner has its time, and no more.
BannersInTime == BannersInOrder /\ BannerClears
-----------------------------------------------------------------------------
(* What the comments of the code say, and the code does not do. *)

\* rearmWallCmd "keeps the dispatcher's subscriber map proportional to live
\* sessions": a slot is that of a session that still runs.  Only Ctrl+C gives it back;
\* a logout through the menu and the end of the connection leave it, and a broadcast
\* between Ctrl+C and the QuitMsg takes another, until the dispatcher has dropped
\* enough broadcasts for it to evict it.
SlotsOfLiveSessions ==
  \A c \in Slots : \E s \in Terminals : term[s].sub = c /\ Running(s)

\* waitWallCmd: "a session sees every subsequent broadcast": what a session in
\* time was sent is shown, if no broadcast was dropped for it.
SeesEveryBroadcast ==
  [][\A s \in Terminals : term'[s].banner > term[s].banner /\ term[s].banner # NoBanner
       => term'[s].banner = term[s].banner + 1]_rootVars
=============================================================================
