# TLA+ verification of ssh.night.ms

ssh.night.ms is a bulletin board reached over SSH and over a WebSocket: chat,
forums, news, and a casino whose games share one wallet per user. It is one Go
process with a PostgreSQL database and a Redis server, many goroutines per
session, and a few actors (goroutines that own some state and read commands from
a channel). This directory holds TLA+ models of the parts in which the order of
steps decides whether the program is right, TLC configurations that check them on
small instances, and proofs that hold for every instance.

Line numbers are those of the sources the models were written from. Paths
without a directory are under `internal/`. `PROJECT.json` maps every definition to
the lines it stands for.

## 1. Inventory

### 1.1 The parts, what each keeps, and what makes it correct

| Part | State | Operations | Correct when | Module |
|---|---|---|---|---|
| Hold'em engine, `doors/holdem/multiplayer/engine.go` | seats (user, stack, street bet, commitment, folded), pot, street, button, actor, last raiser | Sit, Stand, StartHand, PlayerAction, SnapshotState, RestoreFromSnapshot | no chip is created or lost; side pots pay no one more than he matched; someone can always act | `HoldemEngine` |
| Hold'em table actor, `.../coordinator.go` | the game, subscribers, one delayed StartHand per finished hand | commands Sit, Stand, Action, StartHand, Subscribe, Snapshot; broadcast; shutdown | a hand is dealt only when none is running and settled once; the loop ends with its context and not before | `HoldemTable`, `Cardroom` |
| Hold'em hall: registry, ledger, screen, `.../registry.go`, `realtime/multiplayer_ledger.go`, `tui/screens/holdem_mp.go` | map of tables, next id, rows of `holdem_tables` and `multiplayer_hands`; a copy of the wallet, the table a screen is at, its subscription | Create, Restore, Persist, the settlement hook; join (Sit, debit), rejoin, leave (Stand, credit) | chips at the table were paid for and come back once; a screen at a table goes on seeing it | `Cardroom` |
| Roulette wheel, `doors/roulette/` | none | Draw, Evaluate, bet keys | each pocket pays what the bet's odds say | `RouletteWheel` |
| Roulette table actor and registry, `doors/roulette/multiplayer/` | phase and its deadline, pending bets, totals, history ring, hand number, phase token | PlaceBet, the four phase changes, DrainPending, PersistShape, refund on exit | each accepted bet is settled or refunded once, for what is due, on the pocket of its round | `RouletteTable` |
| Wallet, `doors/wallet.go` | a row per user (daily credits, winnings, date), and the copies that screens hold | Load (creates or refreshes), Bet, Credit | a bet or credit is applied to the balance as it is; nothing goes negative | `Wallet`, `AtomicWallet` |
| Single-player doors, `doors/{slots,blackjack,videopoker,holdem}`, `tui/screens/` of the same names | the hand, the animation, the screen's copy of the wallet | deal, hit, double, split, hold, draw, bet, call, fold, buy in, cash out | wallet and `game_rounds` agree; no chip is made at the heads-up table | `DoorGames`, `Doors` |
| Connection limits, `security/netlimit/`, driven by `transport/server.go` | a counter per source, a counter of unauthenticated handshakes, the config | Accept, refuse, handshake, authenticate, deadline, close, GC, config change | a slot is taken once and given back once; caps hold | `NetLimit` |
| Sessions, kicker, presence: `transport/server.go`, `web/wsbridge.go`, `realtime/{sessionkick,presence}.go` | the number of active sessions, a slice of close functions per user, a Redis key per user | acquire, release, register, kick, heartbeat, clear | no more sessions than the cap; who is registered is up; presence follows the sessions | `Sessions` |
| Login and registration, `auth/{lookup,decision,ratelimit_redis,register}.go`, `tui/screens/register.go` | Redis counters, locks and lock counts per handle and source; users and keys | decide, record a failure, clear, rehash, register | guesses are bounded; a name or a key has one owner; one founder | `Login` |
| Sysop console, bans and settings, `tui/screens/sysop*.go`, `auth/persistban.go`, `settings/cache.go` | the users table, the events, a map per process of each cached table | the tabs and commands; refresh by ticker, message and own write | every replica ends up with the table's contents | `Console` |
| Chat: service, screen, log, web page: `realtime/{chat,bus}.go`, `tui/screens/chat*.go`, `tui/components/chatlog.go`, `web/handlers_chat.go`, `web/static/chat.js` | rows of messages, reactions, pins, members and read marks; Redis subscriptions; logs, waiters, rows shown | send, edit, delete, react, pin, join, leave, topic, DM, subscribe, history, threads, search, images | what is stored is shown; a screen never stops listening | `Chat`, `ChatLog`, `ChatScreen`, `WebChat` |
| Forums, `realtime/forums.go`, `tui/screens/boards.go`, `web/handlers_boards.go` | topics, posts, counters, read marks; the screen's mode | create, reply, page, read | the screen is where the user asked; counters agree with rows | `Forums` |
| Wall and root model, `realtime/wall.go`, `tui/app.go` | the dispatcher's map of channels; the banner, the current screen | broadcast, fan-out with eviction, expiry, navigate, quit | a broadcast is shown for its time, in order; no one listens after he left | `Root` |
| OAuth linking, `auth/devicecode/`, `auth/oauthrefresh/`, `tui/screens/profile_oauth.go`, `web/handlers_{oauth,connections}.go` | flows in Redis, links and sealed tokens in the database | begin, poll, callback, unlink, refresh | a link has its token; a screen with a flow polls it | `Linking` |
| Saved locations, `realtime/locations.go`, `tui/screens/profile_locations.go` | ordered rows, the label in the users row, the session's mirror | add, rename, delete, swap, make primary, save the profile | order settles; the cap holds but for races | `Places` |
| Account, `tui/screens/profile*.go`, `web/{sessions,handlers_profile,handlers_rename,profilepic}.go` | password, keys, the passwordless switch, browser sessions in Redis, the picture's file | the forms, log in and out, log out everywhere, revoke, rename, upload | the last way in is not lost; a revoked session stays revoked | `Account` |
| Web screen and browser, `tui/screens/web*.go`, `carbonyl/` | bookmarks, history, editor, question; slots, the child, three loops | open, launch, edit, delete; acquire, start, bridge, wait, release | what was named is deleted; each slot is given back once | `WebScreen`, `Carbonyl` |
| The rest | | display, providers, imaging, reader, leaderboards, tools | | not modelled, section 8 |

### 1.2 How they interact

- The listener (`NetLimit`) admits a TCP connection. When its authentication
  succeeds the handshake slot is released and the session handler runs: that
  step is `Authenticate` in `NetLimit` and `Connect` in `Sessions`. Composing the
  two modules multiplies their state spaces without adding a shared variable, so
  they are kept apart at this interface.
- A session takes a place in the counter, registers a close function with the
  kicker, and starts a heartbeat. All three are undone by goroutines or deferred
  calls of their own when the session's context ends, in any order.
- Screens talk to the table actors by commands with a reply channel, and to the
  wallet directly. The roulette actor is the only actor that writes wallets
  itself, through a `WalletAdapter` that loads a fresh copy for each call.
- On SIGTERM `cmd/nightms/main.go` cancels the root context, which the actors
  and the listeners watch, and then asks the registries to persist. The two race:
  the roulette actor's own refund, the registry's drain and a phase timer that is
  already due may come in any order.
- The settings cache calls `UpdateConfig` of the tracker, and the session counter
  reads its cap from it, while connections and sessions are open.
- A screen runs in one goroutine, `Update`. Whatever costs time is a command: a
  goroutine of its own that works on values it took along and answers by a message.
  The answers of several commands, keys, ticks and events of a subscription meet in
  `Update` in any order. That is the shape of `ChatScreen`, `Forums`, `Doors`,
  `Places`, `Account`, `Console`, `Linking` and `WebScreen`, and the reason why
  each has the screen and the service in one module or in composition.
- Chat's service writes rows and then publishes on Redis; the screens and the pages
  read both. `ChatScreen` and `WebChat` EXTEND `Chat`, so that their properties speak
  of the tables and of what is shown. `WebScreen` EXTENDS `Carbonyl`, and `Doors`
  `DoorGames`.
- The multiplayer screens write a wallet from commands of their own while the
  table's actor goes on: `Cardroom` has both.

### 1.3 What is hard

`PROJECT.json` lists each hazard at its line. In short: players who sit and leave
in the middle of a hand; side pots; the shutdown of the tables at any moment, with
a wallet that fails and a process that is killed; wallets written whole from
copies; buy-ins spread over four calls; counters incremented first and checked
after; a kick that walks a slice without the lock; subscriptions replaced while
an event is in hand; channels closed while someone sends; messages stored and then
published, and histories loaded meanwhile; caches refreshed by older reads;
commands to Redis that are not one transaction; answers that arrive after the
user has gone elsewhere; questions that name a row by where the cursor was.

## 2. Modules

Every module has the same layout: constants with named assumptions, variables,
one action for each handler or atomic step, `Next`, `Spec`, properties. Variables
marked "history" in their comment record what happened and are read by the
properties only. A few definitions beside an action (`AwardOpen`, `FireAlways`,
`ReleaseGlobal`...) are broken variants that no specification uses: they are the
mutants of `PROJECT.json`, which show that each property can fail.

### 2.1 Money

**HoldemEngine** is the rules as functions on a record `game`: `Sit`, `Stand`,
`StartHand`, `PlayerAction`, and below them `CloseStreet`, `Levels`/`Award`
(the side pots) and `EndByFold`. Cards are abstracted: the board is a count, and
at the showdown each live seat gets any hand strength from `Strengths`, so every
ranking and every tie occurs. `PlayerAction` therefore returns a set of games.

**HoldemTable** is the actor: `SitCmd`, `StandCmd`, `ActionCmd`, `StartHandCmd`,
each one iteration of `Run`'s loop. `timers` counts the goroutines that
`handleEnd` leaves behind; `settled` is what `onSettlement` was called with;
`net` is the money players brought minus what they took away. Three constants
switch an environment on: players who sit during a hand (`SitInHand`), who leave
during one (`StandInHand`), and who fold when they could check or act when the
engine asks them although they folded (`Careless`). The code allows all three;
the properties say which of them they need switched off, because the code
breaks them otherwise (section 7).

**Cardroom** is the hall around those tables, and abstracts a hand to one chip per
stack. It has the actor's queue and its answers, the list of subscribers with a
buffer each, the broadcast (a copy of the list under the lock, `Send` for each
channel without it), the goroutine of a new subscription that sends the first
snapshot, the screens (`Join`, `Rejoin`, `LeaveTable`, `Disconnect`, an answer each) with their
wallet commands, `Create`, `Restore`, the three steps of `Persist` per table and
the ledger's unique index. A send on a closed channel is the end of the process.

**RouletteWheel** is the pockets, the bets and what they pay, as functions.
**RouletteTable** is the table actor, its registry and the shutdown of main. The
phases are `CloseBetting`, `Spin`, `Reveal`, `NewRound`; `Cutoff` is the moment
after which `PlaceBet` is refused though the phase is still Betting. `main` is a
program counter of the shutdown (`serving`, `draining`, `refunding`, `shaping`,
`saved`), which runs beside the actor. `Exit` is the actor's reaction to the
cancelled context, `DrainPending` and `PersistShape` are its answers to main,
`Signal` is SIGTERM, `Restart` starts a new process from the stored row (after a
clean shutdown, or any time if `Crashes`). The wallet is the promise of
`AtomicWallet`: a debit that is covered and a credit; with `DebitFaults` a debit may
report an error and be written (`LoseDebit`), with `CreditFaults` a credit may fail. Broadcasts to subscribers are left
out: they are dropped when a subscriber is slow, and change nothing.

**Wallet** has one action per SQL statement: `Load`, `WriteRefresh` (a wallet of
yesterday), `Bet`, `Credit`. `copy` is the wallet a screen or a coordinator's call
holds; `Owner` says whose it is. `due` is what the user should have by the calls
that reported success. **AtomicWallet** is what callers rely on; `Wallet` with one
writer per user implements it under `account <- row`.

**DoorGames** is the rules of slots, blackjack, video poker and the heads-up table
as operators; a card drawn is a choice from a few points, a poker hand is its
class. **Doors** is their screens: keys, the animation that must end before a key
counts, the wallet commands that take a copy along, the answers that put it back,
and the rows of `game_rounds`.

### 2.2 Sessions

**NetLimit** splits `AcquireConn` where another goroutine can get in between:
`Lookup` (the map), `Count` (the increment and the check), `Refuse` (taking it
back). `Knock`, `CountHandshake`, `RejectHandshake` are the connection callback;
`Authenticate`, `Close` with `GiveBack`, `InnerClose` and `SecondClose` are the
ends of a connection, where `DeadlineConn` and the library may close twice. `Gc`
may run between any two steps. Whether an entry is idle long enough, and whether
the token bucket lets a connection pass, is nondeterministic. A connection whose
address cannot be parsed is not counted by the code and not modelled.

**Sessions** splits a session's start as its handler does (`ReadLimit`, `Acquire`,
`StartHeartbeat`, `Register`), and its end as its goroutines do (`Release`, `Clear`,
`Deregister`). `cells` is the backing array of a user's slice and `len` its length,
because `kickLocal` copies the slice header and walks the array without the lock
while `append(list[:i], list[i+1:]...)` shifts it: `KickNext` reads the array as it
is, unless a registration has moved the slice to a new one (`KeepArray`).
`SignedUp` turns a session that began as a signup into a user's.

**Login** is one attempt per client, split at each round trip to Redis or
PostgreSQL: the denylist, the lock check, the user's row, the comparison, the
failure counters (`INCR`, `EXPIRE`, lock, lock count, each of which may fail), the clear,
the rehash; then the lobby, or the signup form with its insert.

**Console** is the sysop console over two caches per replica. A command is a
goroutine (`work`); a refresh is a read of the table (`reads`) whose result is
stored later, whether a ticker, a message or an own write asked for it. `feed` is the
event table, with the filter, the paging, the cursor and the debounce of the list.

**Carbonyl** is the full browser: a launch with its phase, the child, the three
loops of the bridge, the terminal and the context, and the counters it is let in
by. **Root** is the dispatcher of broadcasts and the root model of each session;
a channel there is a registration and a buffer, because what was buffered can be
read after an eviction.

### 2.3 What people write

**Chat** is the service: a call is a goroutine that stops between its statements,
and `subs` are subscriptions with what was published to them and is not yet read.
**ChatLog** is the log of one channel as a value, which keeps for each entry what
it was last rendered as. **ChatScreen** is the screen over both: commands in
flight, their answers in any order, and the number of waiters on each stream.
**WebChat** is a page over the same service: the statements it is rendered from, the
stream it opens after, and each frame's effect on its rows.

**Forums** is the service, the screen's four modes with the sequence number that
tells an answer from a stale one, and the pages' arithmetic.

### 2.4 An account

**Linking** is the device flow in Redis, the polls of the screens, the browser's
callback, unlinking from both, and the refresher of stored tokens per replica.
**Places** is the saved locations, statement by statement, with the window that
edits them and the two mirrors of the first. **Account** is the password, the
keys, the passwordless switch, the picture and the browser sessions: forms and
requests whose steps are one statement, Redis command or file operation each.
**WebScreen** is the address line, bookmarks and history over Carbonyl.

**MCHoldem, MCRoulette, MCWallet, MCNetLimit** give TLC the instances and
symmetries of one module; MCRoulette also holds the property of the wheel.
**MCSessions, MCCommunity, MCGames** put several components side by side: a
behaviour is about one `part`, and the others stay where they start, so that the
state spaces add up instead of multiplying. The scripts (bags or sequences of what
each user does) are chosen there; everything the code does between is free.

## 3. Runs

| Run | Question | Instance and why it is enough |
|---|---|---|
| `holdem_table` | Can sitting, leaving and acting at any time create chips, break the side pots or settle a hand twice? | 3 seats, 2 users, so one of them may hold two seats; stacks 2 and 3 with blinds 1/2, so that posting a blind may put a player all-in and side pots have two levels; 2 hands and one delayed StartHand, so that it can find a hand running. 360,000 states. |
| `holdem_orderly` | Is every chip accounted for when nobody sits, leaves or folds for free, and can somebody always act? | 3 users restored with stacks 2, 3 and 5: three different all-in levels, odd chips, and three strengths for every ranking with ties. 274,000 states. |
| `roulette_serve` | Is every bet accepted before SIGTERM decided once and for its due, whenever the signal comes but in Reveal? Is the felt what was bet? Are the odds right? | 2 players with one credit each, 2 bets, 2 spins with a history of 1, so that the ring drops an outcome; a bet on one number and one on a colour; a winning and a losing pocket; a second process after a clean shutdown; debits that are written and report an error. `WheelFair` ranges over all 38 pockets and all bets, whatever `Keys` is. 1,220,000 states. |
| `net_limit` | Are the counters exact, and the caps kept by those they count? | 3 connections of one source, so that one more than the cap of 2 is tried; caps 0 (off) and a positive one, changed at any time; enough entries for the GC to remove one while connections hold it. Deadlock is checked. 165,000 states. |
| `sessions` | Do counters, registries, caches and banners end up right when sessions come and go? | `sessions`: an SSH and a WebSocket session of one user and the cap 0 or 1. `console`: 2 replicas, 2 sysops whose scripts change a setting, ban and take back a ban, work on the same user, and page, filter and open the event list; one failing statement; a ban that expires. `browser`: 2 launches of one user under caps 2 and 1 or 2, a key that may end one. `root`: 3 broadcasts, buffers of 1, eviction after 2 drops, banners of 2 seconds. 81,000 states with five liveness properties. |
| `community` | Do screens and pages show what is stored; are logins, links, places and accounts sound? | `screen` and `page`: a bag of at most 4 deeds of two users from each of 13 and 10 plans, one for each kind of event and some where two sessions change one message at a time (message, edit, deletion, reaction, pin, topic, typing, join, leave, DM, thread, reply, notice, image, resize), a log of 3 and a history of 2, so that both overflow. `forums`: 10 plans of two writers, two of whose replies overlap, so that the one with the later time may be stored first. `login`: up to two clients, thresholds of 2, one failing Redis command. `linking`: one or two terminals, one refresher, flows that expire. `places`: tours of the window and of the form, and a second terminal. `account`: tours of the lockout guards, two browsers that log in, out and everywhere, uploads cut off by a crash. 930,000 states. |
| `games` | Is money kept through cards, doors, buy-ins and restarts; do the lists of the Web screen agree? | `wallets`: 2 users, 2 days with a screen left open over midnight, a stake that is split over both buckets. `hall`, `rush` and `restart`: 2 players, 1 table of 2 seats, a buffer of 1 so that a snapshot is dropped, 1 deal, 1 leave, 1 restart. In `hall` patient players are busy one after the other (`Patiently`); in `rush` one of them hurries, has wallet commands fail and his connection end while he pays, and no snapshots reach the screens meanwhile (`Hurriedly`); in `restart` the process is shut down and started again while players sit down, without a hand (`Restarted`). All of it at once has too many states for one run; `ChipsAreBoughtOnce` and `ScreensStillWatch` need none of these bounds and cover the rest. `doors`: each game, 2 hands of it, up to 2 commands in flight. `roulette`: a wallet that fails and a process that is killed and restarted. `browse` and `lists`: two bookmarks, two visits, two edits. 1,777,000 states. |
| `hall_mint`, `roulette_refund`, `wallet_lost`, `sessions_kick`, `hall_crash` | Does the code do what its comments say? | It does not: section 7. |

What the properties say is stated above each of them in the modules. Those that
took most to get right:

- `SidePotCap` (nobody wins more from an opponent than he matched), `PaidExactly`
  (over settlement, refund by the actor and refund by the registry), `FeltExact`
  and `CountersExact` with the switch of the caps.
- `AlwaysListening`: a chat screen without an error has a waiter on a live stream, or
  holds the event whose handler starts the next. Each of the two dozen handlers of
  `Update` can break it, and so can a join in flight. `StillWatching` is the same of a
  card table, `StillListens` (in `WallKept`) of a session and the dispatcher.
- `LogFaithful`, `PageFaithful`: once all is delivered, what is shown is what is
  stored, edited and deleted rows included, in a log that evicts its oldest.
- `BoardFaithful`: until its reader writes, the screen is where the last key that
  navigates asked to be (a compose box is over it), or where that key was pressed, while
  the answer is awaited and when its load has failed; a thread holds the posts of its topic as they stood at some time; and the counters let the
  pages reach every topic.
- `NoFreeChips`: what the players bought in for and cashed out, with what is on the
  tables, is never more than they came with, whoever hurries or has commands fail; and
  the wallet of a user is what he asked for, once his command is through.
- `WalletAgreesWithRecord`: what a door paid is what its rounds on record say, less
  the stake on the table, whenever nothing is under way.
- `RevokedStaysRevoked`: no request that was still running brings a session back.
- `CachesConverge`: the caches of all replicas agree with the tables in the end,
  though messages are lost and an older read may be stored after a newer one.

Some say in a conjunct what they do not cover, because the code breaks it there:
`PatientNeverLockedOut` (in `NothingLost`) is about a user with one terminal and no
browser (and its `PictureWhole` is checked with one uploading browser, and proved for
one, `OneUploader`), `PlacesSettle` about one terminal whose user waits for each answer,
`LobbyLogFaithful` about a screen that joined no other channel, `PageFaithful` about
what was sent after the stream was opened, and both about messages whose changes were
published in the order they were written in (`crossed` remembers the others: two calls
on one message run beside each other, from the look-up to the publication), on the page
also but for the body of a row that was edited while it was an input (`missed`),
`SlotsBelong` but for sessions that ended without giving their slot back,
`AdmittedWithinCaps` but for connections let in while the cap was off and entries the GC
took from an Accept in progress, `NoFreeChips` about a process that was not
restarted, and its second half about users who had one wallet command at a time and none
that failed (`astray` remembers the others, whose commands write over each other:
`ChipsArePaidFor`, section 7.1),
`WalletAgreesWithRecord` about blackjack without a double and a player who waits
(`Patient`). Section 7 names what happens outside.

Three constants keep faults out where the properties do not survive them:
`PublishFaults = FALSE` (a message that was stored and not published is in no log),
`ForumFaults = FALSE` (a counter that was not bumped hides a topic; the other two
conjuncts of `BoardFaithful` hold with `TRUE`, and the loads fail, `LoadFaults`), `RowErrors = FALSE`. Where they do,
faults are on: `DbFaults`, `LoginFaults`, `LinkFaults`, `ConsoleFaults`, `DbErrors`, the
roulette wallet's `DebitFaults`, and in `games` its `CreditFaults` and `Crashes` and the
hall's `RoomFaults`.

All bounds are constants named `Max...`, or the length of a script; an action whose
result would pass one is not taken. They cut histories short and do not remove an
interleaving of the steps before them. Only MCGames does that, where `Patiently` and
`Hurriedly` restrict what the players of the hall do at the same time, in the run and
not in the theorems. `CHECK_DEADLOCK FALSE` stands where a system
really ends: the tables and wallets of a bounded history, a stopped process, scripts
that are played.

Atomicity. One SQL statement, Redis command, file operation or iteration of an
`Update` or actor loop is one step. Coarser than that are only reads nobody can
tell apart: the four statements behind the overlays of a chat page (pins, threads,
search, images) are one, and the cascade of a user's deletion is one.

## 4. Fairness

Safety properties use specifications without fairness.

`RouletteTable.FairSpec` assumes that the actor's deadline timer fires (`Timer`),
that the loop's `select` does not ignore the cancelled context or a waiting command
for ever (`Exit`, `DrainPending`, `PersistShape`), and that main goes on with its
refunds (`RefundDrained`). Go's `select` chooses uniformly among ready cases, so each
of them is weakly fair. Nothing is assumed of players, of the signal or of restarts.

`SessionFair` assumes that a live session's ticker fires, that the deferred delete
of a dead one runs, and that Redis expires a key: the TTL is two heartbeats, so
`Expire` is possible only when no session of the user is beating, and Redis answers.
Nothing is assumed of clients or kicks. `ConsoleFair` assumes that each replica's
ticker fires, that a read that came back is stored, and that commands run: a ticker
per cache and a goroutine per command. Nothing is assumed of the messages, which may
be lost, or of the sysops. `CarbonylFairness` assumes that the goroutines of a launch
go on, that a child that is killed dies and that a loop notices its closed channel;
not that a child ends by itself, nor that a key is typed. `RootFair` assumes that the
dispatcher's loop and each session's program run and that time passes.

## 5. Proofs

Each theorem holds for every value of the constants that satisfies the named
assumptions: any number of seats, players, bets, connections, browsers, writers or
terminals. Each proof has one lemma or step per action. "Restored" is the table
rebuilt from a snapshot. The last column names the inductive invariant in its module.

**The Hold'em table** (HoldemTableProofs, on Sums)

| Theorem | Says | Assumes | Inductive invariant |
|---|---|---|---|
| `SettledOnce`, `SettledOnceRestored` | hand numbers are settled in strictly increasing order, whatever players do | | `SettledInv`: no number settled is above the current hand's, and none reaches it while the hand is running. Needed because the settlement uses the number of a game that the very action ends. |
| `SomebodyToAct`, `SomebodyToActRestored` | a running hand waits for a seat with a player in it | `~StandInHand` | `ActorInv`: the button, too, is with a player, so that the search for the next seat finds one. |
| `TableTyped` | stacks, bets and pot stay natural numbers, indices on the table | | `ChipInv` |
| `NothingMinted`, `PotsCovered` | the table never holds more than was brought to it; the pot covers what the seats committed | | `ChipInv`: a `SoundGame` also keeps empty seats without chips (`Bare`), and the commitments within the pot (`Covered`), which players who leave only lower. |
| `SidePotsCapped` | nobody wins more from another than he matched | | `ChipInv`: what a winner takes of a level is at most one share of the level from each contributor, and his levels add up to his own commitment (`WinningsBounded`). |
| `OwnChipsOnly` | a stack falls only by its owner's move or a new hand's blinds | | `ChipInv` |
| `OrderlyPlayConserves`, `OrderlyPotPaidOut` | no chip is lost; the end of a hand pays out what was in the pot | `~SitInHand`, `~StandInHand`, `~Careless`; TLC refutes both with any one of them TRUE | `ConservedInv`: the order of betting. A seat is `Led`, and whoever has been passed since the last raise owes nothing (`Moved`, `NoneBetween`), so that at a closing street all who can act are even and the largest commitment is a live player's. Each level then has a live contributor (`WinnersExist`), and the showdown pays every level. |
| `LedgerBalances` | the movements handed to the ledger add up to nothing | the same | `ConservedInv` with `Balanced`: when a hand has ended, what was paid is what was committed, in sum, and no seat without a player was dealt in. |

The chips are sums over seats. **Sums** proves what the folds of the community modules
add up to: that the recursive function exists, that the order does not matter, that a
sum is monotonous, changes by what one term changes by, and may be taken by rows or by
columns. Its inductions are on the size of a set, as a smallest counterexample.
HoldemTableProofs begins with the engine's arithmetic: the side pots add up to
the commitments (`PotsAreCommitments`, `NearestAre`), that a pot pays out what is in it
(`AwardsAddUp`) and that nobody wins more than he matched (`WinningsBounded`).

**The roulette table** (RouletteTableProofs, on Sums)

| Theorem | Says | Assumes | Inductive invariant |
|---|---|---|---|
| `BetsKept` | an undecided bet is with the actor or the registry; the felt holds this round's bets | nothing: wallets may fail, the process may be killed | `Kept`: adds that the pocket is the last outcome exactly in Spinning and Reveal, that in Reveal the felt is settled, and that the registry holds bets only between drain and refund. |
| `BetsPaidExactly` | a bet brought back what is due, once | `~CreditFaults`, `~StopInReveal` | `Exact`: outside Reveal the felt is undecided, what is drained is undecided and off the felt, what is settled was drawn. The second assumption is needed: `roulette_refund`. |
| `BetsPaidOrNothing` | a decided bet brought back what is due or nothing | `~StopInReveal` | `Exact` without the part that a credit always arrives. |
| `RouletteTyped`, `FeltIsExact` | stakes and wallets stay natural numbers; the totals are those of the bets on the felt, the history is what was revealed, the ledger gets each round once and in order | nothing | `FeltInv`: adds the types and, for the first process, that nothing handed over is above the current round. |

**Wallets and the hall** (GamesProofs, on Sums)

| Theorem | Says | Assumes | Inductive invariant |
|---|---|---|---|
| `WalletsStayCovered` | no bucket is negative, whatever number of writers and errors | | `TypeOK` is inductive. |
| `OneWriterAccounted`, `OneWriterIsAtomic` | the row is the sum of all calls; `Wallet` implements `AtomicWallet` | `OneWriter`, `~Faults` | `Held`: a writer's copy is the row, or the row with the new allowance and a later date. The refinement maps each SQL statement to a step or a stutter. |
| `ScreensStillWatch` | a screen at a table waits for its subscription as long as that is open | | `WatchInv`: `HallOk` says which subscription a screen holds in each mode, and that an answer on its way to it names one that exists. One that a screen kept from a table that turned it away may be another table's (section 7.5). |
| `ChipsAreBoughtOnce` | until a restart, what is bought in for and cashed out leaves the players and the tables no more than the players came with; and the wallet of a user who is not `astray` is what he asked for | `PlayersAssumption`, `RoomAssumption`: finitely many players, tables and seats. Players may press any key at any time, lose their connection, and have every wallet command fail | `MoneyInv`: until a restart, `Money` and `RowsOk`. `Money`: a screen waits for one answer (`UserOk`), the calls queued at a table are the ones the screens wait for, once each (`QueueOk`), the pot of a running hand covers its bets (`TableOk`); then the sum of what each player has in the `books` or is about to be told (`Worth`) and of what each table holds (`Holds`) never rises. `RowsOk`: the row of a user not astray is what the books say, or what his one command will make it (`UnderWay`). |

**The single-player doors and the Web screen** (DoorsProofs)

| Theorem | Says | Assumes | Inductive invariant |
|---|---|---|---|
| `HeadsUpChipsKept` | the two stacks and what is in play at a heads-up table are its two buy-ins, and no stack is negative | `"holdem" \in Patient`: he waits for one thing before the next. One who steps the buy-in while it is being paid gets a table of the new size for the old price (section 7.5). `DoorAssumption`: the ladder is positive and not empty | `HeadsUpInv`: every table on the heap is an `EvenTable`, with nothing in play between hands, since a new hand clears pot and bets; a buy-in under way is for the bet on the screen. Each rule keeps the sum (`PostBetEven`, `WonEven`, `SplitEven`, `CloseStreetEven`, `ApplyActionEven`, `StartHandEven`). |
| `WalletKeptWithRecord` | with nothing under way, wallet = start + recorded net - forfeited stakes - stake on the table | `{"blackjack", "videopoker", "holdem"} \subseteq Patient` and `~Rebuying`, as in `Games.cfg`; at the slots he need not wait, `SlotsKey`'s own guard does it | `PurseInv`: exactly one thing is under way and the row has got as far as it says. Nothing: the screen has what is in the row and the bet of its game (`AtTheDoor`), or a natural is still to be settled (`Natural`), or reels turn on what was paid (`Turning`). One command: the row is short of the record by its bet, by the bet less the payout, or by nothing (`Loads`, `Buys`, `Draws`, `Pays`). TLC checked `DoorTypes`, `HeadsUpInv` and `PurseInv` on the doors of `Games.cfg` (2,172,481 states). |
| `OnlyNamedGo` | a bookmark goes only by a delete command given for its own address | `WebAssumption`: the rows there before are a list, the limit of a SELECT is a natural number | `WebInv`: every id that a loaded list, a question or a command holds is the id of the address it was read with, or of no row any more (`Known`), since no id is given twice. Each statement is a `TableStep`: the rows left have their addresses, or are new (`KeepsRows`), and at most the named one goes (`Spares`). |
| `ListsStayTrue` | with nothing under way, the screen of the one user who waits shows the rows as they are; the cursor stands in them | the same | `WebInv`: a list that is not the table's has a command under way that will bring it (`PatientOk`). The user has one command under way, but for the two loads of the start (`Alone`). |

**Connections and sessions** (SessionsProofs)

| Theorem | Says | Assumes | Inductive invariant |
|---|---|---|---|
| `NoSlotLeaks` | each counter is the number of connections that occupy it | | `NetInv`: adds what a connection's fields may be at each place. The counting rests on one lemma: if one element changes sides, the cardinality changes by one. |
| `NobodyOverTheCaps` | when a connection is let in, no more of its source are open than the cap and those let in while it was off, but for sources the GC raced; no handshake begins over its cap and those begun while that was off | | `NetInv` and `Linked`: a connection holds the entry that the map has for its source. |
| `SlotsAreExact` | the counters of limits.go are the launches that hold a slot, in all and per user, and no child runs without one | `BrowsersAssumption`: finitely many sessions | `CarbonylInv`: adds the types and `Bridged`, that a child is alive only between the bridge's start and the wait; `StartFails` gives a slot back from a phase in which the step alone could not rule a child out. Every action moves a launch and leaves its slot alone (`LaunchMoves`), takes a slot (`LaunchTakes`) or gives one back (`LaunchGives`). |
| `NoSessionOverTheCap` | with a session that is let in, no more are up than the cap it read | | `CountInv`: `active` is the number of sessions let in or on their way to be turned away; only `Acquire` lets one in. |
| `RegistryIsExact` | each user's slice lists his registered sessions once each and nothing else, kicks included | | `RegistryInv`: the cells up to `len` are distinct and are exactly the listed sessions (`RowExact`), and one that registers has a user (`Known`). The shift of the slice is a lemma on sequences. |
| `WallIsKept` | however sessions end, the dispatcher's map holds whoever is up, at most one channel for each session, and none for one that Ctrl+C ended | | `RootInv`: whose channel is whose (`Tuned`, `OwnChannels`), that the listed ones are open (`ListedOpen`), and that each of those is the present one of a session that has not given it back (`Owned`). Who hangs up, is kicked or logs out through the menu keeps his slot, section 7.2. |
| `BannersKeepOrder` | a session never shows an older broadcast after a newer one | | `OrderInv`: the topic and each buffer ascend, and what a session shows or has in hand is below what its buffer still holds. |

**Accounts** (AccountsProofs)

| Theorem | Says | Assumes | Inductive invariant |
|---|---|---|---|
| `LoginIsSound` | wrong passwords compared are bounded by the threshold, plus one per connection, lost Redis command and failure that a late DEL forgot; nobody is in the lobby without an account and a proof; a handle and a key are registered once | `BackoffAssumption`, `RegisteredAssumption` | `LoginBase` and one for each part: `GuessInv` (a guess that is not counted yet is a connection's), `FounderInv`, `KeyInv`. |
| `LinkingIsSound` | an external account has one owner, a grant makes one credential, a page that waits for consent will hear | the scripts are finite | `LinkBase`; `PollingInv`: a page that waits has a timer, a message or a poll that will answer; `GrantInv`: a grant is held by one poll or by one credential. |
| `RevokedForGood` | a session that was revoked never authenticates again | | `StoreInv`: the next sid is above those given. Each statement on Redis is looked at for what it does to a row without its uid: only `Set` writes a uid, and under a new sid. |
| `AccountKeepsWhole` | a user who waits for each answer keeps a way to log in; the picture in place is one whole image | `AccountAssumption`: an account that can be logged in to, finite keys with ids in order; `OneUploader`: one browser of the user uploads pictures. Two at a time write the same temporary file, and TLC refutes the second part (section 7.4) | `PatientInv`: the user has one thing under way, a call or a message or nothing (`OneThing`), and what his page knows is the account then, or is what that call or message will make it know again (`WaitsForCall`, `WaitsForMsg`); a delete that has been asked for spares a key. `PictureInv`: who asks for what (`RequestsInv`), that the temporary file is not the one in place and holds as much as its one writer has drawn (`Drawn`). |

**The chat screen, the forums and the saved places** (CommunityProofs)

| Theorem | Says | Assumes | Inductive invariant |
|---|---|---|---|
| `ScreenListens` | a screen that shows a channel, without an error and without a load or a failure under way, reads a live stream | `ChatAssumption`: the bound on subscriptions is a natural number. Statements may fail anywhere (`DbFaults` is free) | `ListenInv`: the subscription that a load has opened is held by one goroutine, then by one message (`CmdOk`, `MsgOk`), no join knows it and nobody else holds it (`Apart`), and it is not the screen's; so what a join or a failure gives up is never what the screen will read. `Reads`: the open stream has a waiter or an event in hand, so each handler must wait again. `Tuned`: without a load under way the stream is open. A join that gives up the screen's own stream is such a load. TLC checked it on the screen of `Community.cfg` (115,352 states). |
| `PlacesHold` | ids and labels of the rows stay unique, whoever writes; with every call over, a user at one terminal who waits for each answer sees the truth: the label in the users row is the first place's, the positions differ, the limit is kept, the open list and the mirror are the table's | `PlaceAssumption`: the limit is a natural number, at most one legacy location, finitely many terminals. The one terminal and the waiting are in the property itself; a user who chains swaps without waiting gives two rows one position (section 7.4) | `PlacesInv`: `Table` for however many terminals; and for the patient user (`Waits`, `OneThing`) nothing, one call or one answer is under way, and what each statement has yet to do is what makes the page right again (`CallOk`, `AnswerOk`). Between the two statements of a swap two rows share a position (`HalfSwapped`). What ORDER BY returns is shown from ranks: rows with distinct positions are mapped one-to-one onto as many places (`Standing`). TLC checked it on the places of `Community.cfg` (32,063 states). |
| `ScreenLands` | until its reader has written something, the forum screen is where the last key that navigates asked to be, or it is where that key was pressed, and then the answer is awaited or its load has failed; a thread shows its own topic's posts, whole and in order, as they stood at some time | `ForumsAssumption`: at least one forum, a positive page size, a limit that is a natural number. Statements may fail anywhere, of the calls that write and of the loads (`ForumFaults` and `LoadFaults` are free) | `BoardInv`. Nothing is deleted (`RowsGrow`), and a post keeps its place among those that were there, so that what was read stays a list as it once stood (`StoodStill`), in a call, in its answer and on the screen (`WhatRuns`, `BoardRight`). `Guided`: every load with the screen's number leads to where the last key asked (`Leads`); until one arrives the screen stays where the key was pressed (`Stayed`), and a load that failed says so in the history `wish`. One that has written is brought to his thread by an answer without a number, hence "until". |
| `BoardsTell` | `BoardFaithful`: also, when no call is writing, a forum counts all its topics, its pages reach each of them, and its time is not before any of its posts | `ForumsAssumption`, `ForumFaults = FALSE`: a counter that was not bumped hides a topic. Loads may fail | `BoardInv`, without faults: a new topic has one call that still writes its row's companions (`Alone`), the counter is the number of topics but for those whose call has still to count them (`Counted`), and a post later than its forum's time has a call that will write it (`Timed`). That the pages hold all is shown from the ranks that ORDER BY gives (`TopicsListed`, `OnSomePage`). TLC checked `BoardFaithful` on the forums of `Community.cfg` (241,464 states; its first two conjuncts with `ForumFaults` too, 642,827). |

Two statements about the forums that looked right did not survive the attempt to prove them.
A draft is not safe from a load that is under way (`DraftIsShown`, section 7.3); the screen's
place is therefore what the compose box was opened over. And what a thread shows
need not stay the beginning of the list: ORDER BY `created_at` is the time at which the
author's call began, so that of two replies that overlap the earlier may be stored later
and come in between.

The assumptions on constants are what the code's own types and settings give (counts
are natural numbers, seats a finite range, timeouts positive, the terminals of a script
finitely many). TLC evaluates each of them in the runs.

Only model-checked:

- All liveness (`EveryBetDecided`, `PresenceConverges`, `CachesConverge`,
  `BannerClears`, `GoneGivesBack`): fairness and ENABLED are beyond the prover.
- The wheel's odds (`WheelFair`): a statement about 38 pockets without variables or
  constants, which TLC's evaluation decides.
- The chat's log and page (`LogFaithful`, `PageFaithful`): what they say of a list is a
  `SelectSeq` or a fold of another, with the step of the list and of its source in
  two different actions. The induction over sequences that Sums does for sets would
  have to be done for each.

## 6. What the checks assume of the outside

PostgreSQL statements are atomic and, where a module has no fault constant,
succeed. Redis keeps a key until it is deleted or its TTL ends, delivers what is
published to those subscribed, in order per subscription, and may lose an
invalidation. Chips stay far below the width of their Go types (stakes are at most
100 credits, stacks start at a buy-in), so no number wraps.
`golang.org/x/crypto/ssh` may close a connection more than once. bubbletea runs
`Update` one message at a time and each command in a goroutine of its own. OAuth
providers, the geocoder and the browser's child process answer as they like.

## 7. Where the code and its comments disagree

Each of these is a property written from a comment, a doc or the name of a
function, which TLC finds violated by what the code does. The first five are runs
of the project. Each other row names a configuration that shows it: the cfg named,
with its INVARIANT and PROPERTY lines replaced by this property (a formula with
`[][..]_..` or `~>` as PROPERTY, any other as INVARIANT) and with the changes given.
"Parts" and the plans are in the MC module that the cfg is for; narrowing `Parts`
only keeps the run short.

### 7.1 Money

| Property | Comment | What happens | Shown by |
|---|---|---|---|
| `Cardroom!ChipsArePaidFor` | holdem_mp.go:266 "Debit the buy-in. Settlement on stand returns whatever chips remain" | the buy-in is debited in a command of its own. Esc before its answer credits the stack to the copy from before the debit and writes it over the debited wallet: the buy-in is minted. With `RoomFaults = TRUE` a debit that fails leaves a seat nobody paid for (holdem_mp.go:276) | run `hall_mint` |
| `RouletteTable!RefundsOnlyUnsettled` | coordinator.go:425 "bets ... that were placed but never settled" | a shutdown in Reveal refunds bets that were just settled, which are still pending | run `roulette_refund` |
| `Wallet!Accounted` | roulette coordinator.go:70 "Bet / Credit are atomic per-call" | the wallet is written whole from a copy: a second writer undoes what the first did | run `wallet_lost` |
| `Sessions!KickClosesAll` | sessionkick.go:79 "closes every local session" | a deregistration shifts the array under the walk, which skips a session | run `sessions_kick` |
| `Cardroom!RunsUntilStopped` | coordinator.go:134 "Returns when ctx is cancelled or Close() is called" | a snapshot is sent on a subscription that was closed meanwhile, and the panic ends the process | run `hall_crash` |
| `Cardroom!HandsDontCollide` | the unique index of multiplayer_hands (registry.go:72 only logs what it refuses) | a restart with nothing saved counts tables and hands from 1 again, and the ledger refuses the new hands | `HallCrash.cfg` with `BuyIn = 1`, `Savings = 2`, `MaxSubs = 2`, `MaxDeals = 2`, `MaxLeaves = 0`, `MaxStops = 1` |
| `Cardroom!PersistReturns` | registry.go:21 "on graceful Shutdown" | Persist waits for the reply of an actor that has ended (or the process has crashed before) | a module that EXTENDS Cardroom and states `RoomSpec /\ ShutdownFairness`, with the same constants, `Savings = 1`, `MaxSubs = 1`, `MaxDeals = 0` |
| `HoldemTable!LeftChipsStay` | engine.go:177 "chips committed to the pot stay there" | a player who stands up takes his bet of the street out of the game: it is neither in the pot nor returned | `MCHoldem.cfg` without SYMMETRY and with `Users = {a, b, c}`, `BuyIns = {2, 4}`, `MaxNet = 8`, `SitInHand = FALSE`, `Careless = FALSE` |
| `HoldemTable!DealtWhenIdle` | coordinator.go:192 "we're idle" | a Sit deals a hand in the pause, and the delayed StartHand deals another over it | these constants and `MaxHands = 3`, `SitInHand = TRUE`, `StandInHand = FALSE` |
| `HoldemTable!PotPaidOut` | engine.go:511 "Folded seats' committed chips fund the pots they paid into" | a layer of the pot whose contributors all folded has no eligible winner; the code skips it (engine.go:565) and clears the pot | the same, with `RestoredSpec`, `StandInHand = FALSE`, `Careless = TRUE`, `BuyIns = {2, 3, 5}`, `MaxNet = 10` |
| `HoldemTable!NotAskedAgain` | engine.go:391 "once everyone either matches the high bet or is all-in, close the street" | a round ends only when the action comes back to the last raiser, which may ask a player again | the same, with `StandInHand = FALSE` |
| `HoldemTable!SnapshotHoldsTheChips` | engine.go:700 "so the restore is a clean between-hands state" | commitments survive the end of a hand and are added to the stacks by the next snapshot | the same, as INVARIANT |
| `HoldemTable!HolesHidden` | coordinator.go:303 "hole cards masked for everyone other than viewerUserID, except at showdown" | a hand won by a fold ends in the street the mask calls a showdown, and the winner's cards are shown | the same, as INVARIANT |
| `HoldemTable!IdleTableStarts` | engine.go:715 "the coordinator will auto-start the next hand" | only a Sit starts a hand: a restored table, or one whose hand ended because a player left, stays idle | the same, with `FairSpec` |
| `RouletteTable!NoBetLost` | coordinator.go:425 "so users don't lose chips that were placed but never settled" | a bet that is placed between the drain and the end of main is forgotten with the process | `RouletteRefund.cfg`, `MaxBoots = 2`, `MaxDraws = 2`, `StopInReveal = FALSE` |
| `RouletteTable!PersistAnswered` | coordinator.go:572 "Returns the zero value if the actor is no longer running" | the command goes into the buffer of an actor that has stopped, and the caller waits for a reply for ever | `RouletteRefund.cfg`, `FairSpec`, `StopInReveal = FALSE` |
| `RouletteTable!HandNumberMonotonic` | coordinator.go:131 "monotonic round counter for ledger HandNumber" | the number starts again with the process, and the ledger's unique index then refuses rounds | `RouletteRefund.cfg`, `MaxBoots = 2`, `MaxDraws = 2`, `StopInReveal = FALSE` |
| `RouletteTable!TokenMonotonic` | snapshot.go:54 "seeds the next-boot counter so monotonicity holds" | the token in the row is read before the last changes of the running actor | `RouletteRefund.cfg`, `MaxBoots = 2`, `MaxDraws = 2` |
| `Doors!ChipsReturn` | holdem.go "Cash out before leaving so the player's chips return to the wallet" | a player who leaves while the buy-in is under way has no game yet: the wallet is debited and nothing is cashed out | `Games.cfg`, `Parts = {"doors"}`, `DoorNames = {"holdem"}`, `Patient = {}` |

### 7.2 Sessions and screens

| Property | Comment | What happens | Shown by |
|---|---|---|---|
| `Root!SlotsOfLiveSessions` | app.go:316 "keeps the dispatcher's subscriber map proportional to live sessions" | only Ctrl+C gives the slot back (app.go:148). A logout through the menu (app.go:405), a connection that is lost, kicked or idle for too long, and a broadcast shown between Ctrl+C and the end leave it in the map, until a full buffer (16) and four more broadcasts evict it | `Sessions.cfg`, `Parts = {"root"}` |
| `Root!SeesEveryBroadcast` | app.go:125 "a session sees every subsequent broadcast" | each broadcast shown is followed by a new subscription, and what the old channel still held is lost with it | `Sessions.cfg`, `Parts = {"root"}` |
| `NetLimit!OpenWithinCap` | tracker.go:18 "caps the number of concurrently open TCP connections from one source" | who is let in while the cap is off is not counted (tracker.go:235): a cap that the sysop switches on lets in as many more. So does a new entry after the GC took one from an Accept in progress (tracker.go:177): it looks idle until its first Accept has counted | `NetLimit.cfg` |
| `NetLimit!HandshakesWithinCap` | tracker.go:31 "caps in-flight unauthenticated handshakes process-wide" | the same of the handshakes | `NetLimit.cfg` |
| `Console!WindowOnRows` | sysop_events.go:343 indexes from the scroll on | page-down on an empty list puts the cursor at -1, and View takes that for the scroll | `Sessions.cfg`, `Parts = {"console"}` |
| `Console!ListIsFiltered` | sysop_events.go:146 "A fresh-load's first row is always at least as new" | the answer to a changed filter is appended to the old list when its rows are older | `Sessions.cfg`, `Parts = {"console"}` and the plan `Plan(<<Nav("pgdown"), [do \|-> "type", arg \|-> "ban"]>>, <<>>, {}, {})` |
| `Carbonyl!BridgeEndsWithChild` | ptybridge_linux.go:48 "Returns when ctx is done OR the master read returns EOF" | it also waits for the loop that reads the keyboard, that is for another key | `Sessions.cfg`, `Parts = {"browser"}` |
| `WebScreen!TabCycles` | web.go:29 "Tab cycles through these in order" | cycleFocus focuses the input and leaves `focus` at the last region, so that the next Tab goes from there | `Games.cfg`, `Parts = {"lists"}` |

### 7.3 What people write

| Property | Comment | What happens | Shown by |
|---|---|---|---|
| `Forums!NothingDrawnFromNil` | navSeq: no slow response will "yank them back into a thread they Esc'd out of" | the answers of a new topic and of a reply carry no navSeq: they switch to the thread whatever was left meanwhile | `Community.cfg`, `Parts = {"forums"}` |
| `Forums!DraftIsShown` | boards.go:31 "navSeq is bumped on every view-changing transition (drill-in and Esc-back)" | opening the compose box and leaving it by esc do not bump it: a thread that is still loading closes the box over what is being written, or comes up after the user has left it | `Community.cfg`, `Parts = {"forums"}` |
| `Forums!NoEmptyTopic` | realtime/forums.go:237 CreateTopic adds a topic and its post "in a single transaction so the forum list never sees a topic with zero posts" | two statements and no transaction: the list has the topic before its post, and keeps it without one when the second fails | `Community.cfg`, `Parts = {"forums"}` |
| `Forums!EveryPostHasAPage` | "lets the web thread view page through long threads" | GetTopic does not fill `PostCount`, from which handlers_boards.go:282 counts the pages: there is one page | `Community.cfg`, `Parts = {"forums"}` |
| `ChatScreen!ChangesArrive` | chat.go:570 DeleteMessage publishes "so other sessions can re-render the entry as "(deleted)"" | write and publish are two steps of each call (chat.go:104-146, 274-305, 583-612). A deletion or an edit published before the creation of its message is undone by it: `Append` puts the old body back (chatlog.go:346-354). Of two edits published in the opposite order the older stays | `Community.cfg`, `Parts = {"screen"}` |
| `WebChat!EditsArrive` | chat.js:291 "SSE will refresh on save" | the same on the page, which drops an edit or a deletion that comes before its message (chat.js:159-161); an edit that comes while the body is an input is lost when the input is left without saving | `Community.cfg`, `Parts = {"page"}` |
| `ChatScreen!ViewInBounds` | `ChatLog.View` slices its lines | the scroll is kept when the log gets fewer lines, and may then exceed them | `Community.cfg`, `Parts = {"screen"}` |
| `ChatScreen!SwitchLoadsHistory` | switchChannel: "The first /switch into a channel still needs history" | a log that a live message made counts as a loaded one (chat.go:374) | `Community.cfg`, `Parts = {"screen"}` and the plan `<<M("join", den), M("switch", ""), A("send", "hi")>>` |
| `ChatScreen!ReactionsNotInflated` | chat.go:313 "hammering the same emoji doesn't inflate counts" | the row is inserted once, the event is published each time and each screen counts it | `Community.cfg`, `Parts = {"screen"}` and the plan `<<A("send", "hi"), M("react", "+"), M("react", "+")>>` |

### 7.4 Accounts

| Property | Comment | What happens | Shown by |
|---|---|---|---|
| `Login!BanEarned` | ratelimit_redis.go:23 "After PersistentBanThreshold lockouts within 24h" | failures beside each other at the threshold each count one more lockout for the one lock | `Community.cfg`, `Parts = {"login"}`, `PersistentBanThreshold = 2` |
| `Linking!OneFlow` | devicecode.go "Keeps the 'one active flow per user' invariant simple" | two Begins beside each other read no earlier flow and leave two | `Community.cfg`, `Parts = {"linking"}` |
| `Linking!FlaggedForCause` | the flag is for a grant that is dead | the refresher flags the row by a failure of the token it read before a new link | `Community.cfg`, `Parts = {"linking"}` |
| `Linking!NoticeTrue` | "X account linked." | the answer of a flow that was given up is shown as the present flow's | `Community.cfg`, `Parts = {"linking"}` |
| `Places!ClosedFormAddsNothing` | Esc drops the search | the answer of a search or an insert under way still adds a row | `Community.cfg`, `Parts = {"places"}` and the plan `[hasty \|-> 30, keys \|-> <<ListTour>>]` |
| `Places!ChainMovesRow` | swapWithPrev: "so the user can chain" | the second swap is computed from rows the first has not refreshed, and two rows get one position | `Community.cfg`, `Parts = {"places"}` and a plan of hasty 2: open, add two, down, down, swapUp, swapUp |
| `Account!NeverLockedOut` | requestKeyDelete "enforces the lockout guards" | the guard looks at the loaded list: two deletes one after the other pass it | `Community.cfg`, `Parts = {"account"}` and the plan `[OneAccount("", TwoKeys, {1}, <<KeyTour>>, 0) EXCEPT !.hasty = 40]` |
| `Account!PictureWhole` | profilepic.go: "a half-written upload can never poison the existing avatar" | the temporary file has one name per user (profilepic.go:51): of two uploads at a time the one moves the file into place while the other still writes it | `Community.cfg`, `Parts = {"account"}` and the plan `OneAccount("pw", TwoKeys, {}, << <<LogIn("pw"), Upload(1)>>, <<LogIn("pw"), Upload(2)>> >>, 0)` |
| `Account!ListsEverySession` | "List returns every active session for userID" | a login between the two commands of a logout everywhere loses its index entry and keeps its session | `Community.cfg`, `Parts = {"account"}` |

### 7.5 Without a property

- A session that began as a signup is never registered with the kicker
  (signup_root.go:62), so a kick does not close it; `KickClosesAll` speaks of
  registered sessions.
- registry.go:15 says a table is "deleted when the last subscriber leaves and no seats
  are occupied (handled by the screen-side calls into Drop())"; nothing calls `Drop`.
- coordinator.go:48 says "every read/write goes through its in/out channels"; `List`
  and `Persist` read the game directly.
- The hall's screen debits the buy-in also when no seat was free (`Joined` does so), and
  `Stand` reports no chips when its two seconds pass.
- At the heads-up table of one player the buy-in may still be stepped while its debit
  runs (holdem.go), and the table is then made of the new size: the case `Patient`
  takes out of `HeadsUpChips`.
- The web screen leaves Carbonyl by Ctrl+\ or Esc-q through an error, so that visit is
  not put into the history; the cap per address never applies, because `RemoteIP` is
  not filled in; `TrimWebHistory` has no caller.
- Chat's `joinChannel` cancels the old subscription first: a failure after that leaves
  the screen without one. An edit that reaches the page after the deletion overwrites
  its tombstone (chat.js:159, :175).
- A sysop who is demoted keeps an open console.
- `RecordFailure` (ratelimit_redis.go) is several commands: the DEL that follows a
  lockout, or a login that succeeded, may come after failures that others have
  counted, and forgets them. `AdmittedRightly` allows for one guess more each
  (`forgiven`).
- A screen of the hall that a table turned away keeps its subscription into the lobby;
  at the next table it enters through its own seat it watches the wrong one.
  `StillWatching` says so by its `rejected`; without it TLC finds the case with three
  players and two tables of two seats (`Games.cfg`, `Parts = {"hall"}`, `BuyIn = 1`).

## 8. Not modelled, and why

- Text: parsing and formatting of commands, dates, ANSI and HTML; templates; layout of
  the screens. Where a value decides what is done next it is a class (a form that is
  filled in or not, a query of a filter).
- Cryptography: password hashing, token sealing, host keys, the signatures of cookies;
  CSRF tokens.
- The ranking of cards and random numbers: a hand's worth and a drawn number are
  choices.
- Pure functions without state: address collapsing, the wheel's drawing, durations.
- SQL whose answer is only shown: leaderboards, finger, the search of chat and forums,
  unread badges. Unique indexes matter, and are in `FeltExact`, `SettledOncePerHand`,
  `Cardroom`'s `SettleHand`, `KeyOfOne` and the names of `Account` and `Login`.
- External providers (weather, news, places, finance, maps) and the screens that only
  draw what they answer; imaging and the reader: HTTP clients behind a cache, no state
  that another part reads. The search for a place and the identity providers appear as
  answers that may be any, or fail.
- The start of the process: migrations, seeds, routes and middleware; only the order of
  main's shutdown matters and is in `RouletteTable` and `Cardroom`.
- In modules that are otherwise there: the snapshots of a roulette table to its
  subscribers (they carry no decision, and the hall's broadcast has the same shape); the
  two-second timeouts of the hold'em calls; `List` and `Drop`;
  the buffer of the audit recorder, which drops by design; the image proxy of the web
  chat; the free-text fields of a profile, which are one field.
- The memory model: a data race (`List` against the actor, `combosCache` of cards.go
  between two goroutines) is described in section 7.5 or in the hazards; the modules
  take reads of a running actor as whole.

## 9. Plan

Done: every part that section 8 does not exclude is modelled and checked, and what is
checked of the tables, the doors, the wallets, the connections, the sessions, the
accounts' logins, links, sessions and keys, of the chat screen's stream, of the
forums, of the saved places and of the Web screen's lists is proved. What is left is to prove more of what is only checked, in this
order:

1. `ChatScreen!LogFaithful` and `WebChat!PageFaithful`: what a screen shows against the
   tables it was read from.
2. The safety core of the caches: what a replica shows was the table's content at some
   time since its last refresh.
