------------------------------- MODULE Console -------------------------------
(* The sysop console (tui/screens/sysop*.go) and what it steers: the users    *)
(* table, the event feed, and the two caches every replica keeps of a table,  *)
(* settings.Cache and auth.BanCache, refreshed by a ticker, by invalidation   *)
(* messages and by the replica's own writes. Consoles are users; a command    *)
(* runs in its own goroutine and its answer comes back as a message.          *)
EXTENDS Integers, Sequences, FiniteSets, SequencesExt, TLC

CONSTANTS
  Hosts,          \* replicas
  HostOf,         \* console -> the replica its session runs on
  Population,     \* id -> user: [sysop, banned, keyOnly, keys, posts]
  SettingKeys,    \* settings.Catalog; a row that is absent reads as the default
  DefaultValue,
  BanKeys,        \* collapsed addresses
  BanLength,      \* how long a ban lasts
  EventsAtStart,  \* kinds in the feed when the consoles open, oldest first
  PageSize,       \* eventsPageSize (100)
  ListHeight,     \* rows of the Events tab's window
  Scripts,        \* bound: [of: console -> what its sysop types, tables: which of
                  \* the two tables are written and refreshed, fresh: the consoles
                  \* whose first page of events is still being loaded]
  ConsoleFaults,  \* bound: statements and publishes that fail
  LastTick        \* bound on the clock

ASSUME ConsoleAssumption ==
  /\ PageSize \in Nat \ {0} /\ ListHeight \in Nat \ {0}
  /\ BanLength \in Nat \ {0} /\ LastTick \in Nat /\ ConsoleFaults \in Nat

Consoles == DOMAIN HostOf
Deleted == 0        \* the '[deleted]' sentinel
NoAction == [verb |-> "none"]

VARIABLES
  users,      \* the rows of users, the sentinel among them
  rows,       \* system_settings: key -> value
  bans,       \* security_ip_bans: key -> expiry; 0 is no row
  feed,       \* audit_log and security_events, oldest first
  clock,
  cache,      \* replica -> [set, caps, bans]: snapshot, what OnChange got, bans
  reads,      \* refreshes under way: [host, table, by, seen, stage]
  pushes,     \* replica -> table -> invalidations its listener has not taken
  con,        \* console -> its screen
  work,       \* commands under way
  script,     \* what each sysop still types
  tables,     \* the tables of the script that runs
  troubles    \* failures so far

consoleVars == <<users, rows, bans, feed, clock, cache, reads, pushes, con, work, script, tables, troubles>>
dbVars == <<users, rows, bans, feed, tables>>
cacheVars == <<cache, reads, pushes>>
-----------------------------------------------------------------------------
(* The replica's caches. A refresh reads the table, then replaces the cache;  *)
(* the settings' consumers are told last.                                     *)
ListActiveIPBans == [k \in BanKeys |-> IF bans[k] > clock THEN bans[k] ELSE 0]
ListSystemSettings == rows
Listed(table) == IF table = "bans" THEN ListActiveIPBans ELSE ListSystemSettings
IsBanned(h, k) == cache[h].bans[k] > clock
Refreshing(h, table, by) == \E r \in reads : r.host = h /\ r.table = table /\ r.by = by
Reading(h, table, by) == [host |-> h, table |-> table, by |-> by, seen |-> Listed(table), stage |-> "read"]

\* Mutant: the bans are read when a message says so, and not from time to time.
TickSettings(h, table) ==
  /\ table \in tables \ {"bans"} /\ ~Refreshing(h, table, "tick")
  /\ reads' = reads \cup {Reading(h, table, "tick")}
  /\ UNCHANGED <<dbVars, clock, cache, pushes, con, work, script, troubles>>

Tick(h, table) ==
  /\ table \in tables /\ ~Refreshing(h, table, "tick")
  /\ reads' = reads \cup {Reading(h, table, "tick")}
  /\ UNCHANGED <<dbVars, clock, cache, pushes, con, work, script, troubles>>

\* listenInvalidations takes its messages one at a time.
Invalidated(h, table) ==
  /\ pushes[h][table] > 0 /\ ~Refreshing(h, table, "listen")
  /\ pushes' = [pushes EXCEPT ![h][table] = @ - 1]
  /\ reads' = reads \cup {Reading(h, table, "listen")}
  /\ UNCHANGED <<dbVars, clock, cache, con, work, script, troubles>>

StoreRead(r) ==
  /\ r \in reads /\ r.stage = "read"
  /\ IF r.table = "bans"
     THEN /\ cache' = [cache EXCEPT ![r.host].bans = r.seen]
          /\ reads' = reads \ {r}
     ELSE /\ cache' = [cache EXCEPT ![r.host].set = r.seen]
          /\ reads' = (reads \ {r}) \cup {[r EXCEPT !.stage = "fire"]}
  /\ UNCHANGED <<dbVars, clock, pushes, con, work, script, troubles>>

RefreshFails(r) ==
  /\ r \in reads /\ r.stage = "read" /\ troubles < ConsoleFaults
  /\ troubles' = troubles + 1
  /\ reads' = reads \ {r}
  /\ UNCHANGED <<dbVars, clock, cache, pushes, con, work, script>>

FireOnChange(r) ==
  /\ r \in reads /\ r.stage = "fire"
  /\ cache' = [cache EXCEPT ![r.host].caps = r.seen]
  /\ reads' = reads \ {r}
  /\ UNCHANGED <<dbVars, clock, pushes, con, work, script, troubles>>

\* Redis pub/sub: every replica's listener, the publisher's own included.
Published(table) == [h \in Hosts |-> [pushes[h] EXCEPT ![table] = @ + 1]]

\* retention.Sweeper.
DeleteExpiredIPBans ==
  /\ \E k \in BanKeys : bans[k] \in 1..clock
  /\ bans' = ListActiveIPBans
  /\ UNCHANGED <<users, rows, feed, tables, clock, cacheVars, con, work, script, troubles>>

TimePasses ==
  /\ clock < LastTick /\ clock' = clock + 1
  /\ UNCHANGED <<dbVars, cacheVars, con, work, script, troubles>>
-----------------------------------------------------------------------------
(* Commands. One is looked up, applied, finished and answered; Aim has the    *)
(* user it is about and Said what the screen gets.                            *)
Destructive == {"reset-password", "remove-keys", "delete-user"}
Toggles == {"ban", "unban", "sysop", "unsysop", "clear-passwordless"}
Job(s, verb, target, value) ==
  [who |-> s, verb |-> verb, target |-> target, value |-> value, stage |-> "start",
   said |-> "", before |-> <<>>, page |-> <<>>, nr |-> CHOOSE n \in 0..Cardinality(work) : \A w \in work : w.nr # n]

Live(u) == u \in DOMAIN users
Answer(w, said) == {v \in work : v.nr # w.nr} \cup {[w EXCEPT !.stage = "answer", !.said = said]}
Goes(w, stage) == (work \ {w}) \cup {[w EXCEPT !.stage = stage]}

\* GetUserByHandle and the guards on its row.
Lookup(w) ==
  /\ w \in work /\ w.stage = "start"
  /\ w.verb \in Toggles \cup {"kick", "preflight"}
  /\ work' = IF \/ ~Live(w.target) \/ w.target = w.who
                \/ w.verb = "clear-passwordless" /\ ~users[w.target].keyOnly
                \/ w.verb = "preflight" /\ w.value = "remove-keys" /\ users[w.target].keys = 0
             THEN Answer(w, "refused")
             ELSE IF w.verb = "preflight" THEN Answer(w, "preflight") ELSE Goes(w, "apply")
  /\ UNCHANGED <<dbVars, clock, cacheVars, con, script, troubles>>

WriteAudit(kind) == feed' = Append(feed, kind)
Changed(u, r) == IF Live(u) THEN [users EXCEPT ![u] = r] ELSE users
ToggleUser(w) ==
  /\ w \in work /\ w.stage = "apply" /\ w.verb \in Toggles
  /\ LET u == IF Live(w.target) THEN users[w.target] ELSE users[Deleted] IN
     users' = Changed(w.target,
                CASE w.verb = "ban" -> [u EXCEPT !.banned = TRUE]
                  [] w.verb = "unban" -> [u EXCEPT !.banned = FALSE]
                  [] w.verb = "sysop" -> [u EXCEPT !.sysop = TRUE]
                  [] w.verb = "unsysop" -> [u EXCEPT !.sysop = FALSE]
                  [] OTHER -> [u EXCEPT !.keyOnly = FALSE])
  /\ WriteAudit(w.verb)
  /\ work' = Answer(w, "done")
  /\ UNCHANGED <<rows, bans, tables, clock, cacheVars, con, script, troubles>>

\* Kicker.Kick is in Sessions; the row is not read again.
KickCmd(w) ==
  /\ w \in work /\ w.stage = "apply" /\ w.verb = "kick"
  /\ WriteAudit("kick")
  /\ work' = Answer(w, "done")
  /\ UNCHANGED <<users, rows, bans, tables, clock, cacheVars, con, script, troubles>>

\* What the sysop confirmed is run by the id the preflight found.
ResetOrRemove(w) ==
  /\ w \in work /\ w.stage = "start" /\ w.verb \in {"reset-password", "remove-keys"}
  /\ users' = IF Live(w.target) /\ w.verb = "remove-keys"
              THEN [users EXCEPT ![w.target].keys = 0] ELSE users
  /\ WriteAudit(w.verb)
  /\ work' = Answer(w, "done")
  /\ UNCHANGED <<rows, bans, tables, clock, cacheVars, con, script, troubles>>

\* One transaction: what the user wrote goes to the sentinel, then the row.
DeleteUser(w) ==
  /\ w \in work /\ w.stage = "start" /\ w.verb = "delete-user"
  /\ IF w.target = Deleted
     THEN work' = Answer(w, "refused") /\ UNCHANGED <<users, feed>>
     ELSE /\ users' = IF Live(w.target)
                      THEN [u \in DOMAIN users \ {w.target} |->
                              IF u = Deleted THEN [users[u] EXCEPT !.posts = @ + users[w.target].posts]
                              ELSE users[u]]
                      ELSE users
          /\ WriteAudit(w.verb)
          /\ work' = Answer(w, "done")
  /\ UNCHANGED <<rows, bans, tables, clock, cacheVars, con, script, troubles>>

Wall(w) ==
  /\ w \in work /\ w.stage = "start" /\ w.verb = "wall"
  /\ WriteAudit("wall")
  /\ work' = Answer(w, "done")
  /\ UNCHANGED <<users, rows, bans, tables, clock, cacheVars, con, script, troubles>>

\* Set and Reset: the row, a refresh of the sysop's own replica, the message.
WriteSetting(w) ==
  /\ w \in work /\ w.stage = "start" /\ w.verb \in {"set", "reset"}
  /\ LET absent == w.verb = "reset" /\ rows[w.target] = DefaultValue IN
     /\ rows' = [rows EXCEPT ![w.target] = IF w.verb = "set" THEN w.value ELSE DefaultValue]
     /\ work' = (work \ {w}) \cup {[w EXCEPT !.stage = "refresh", !.said = IF absent THEN "same" ELSE "done"]}
  /\ UNCHANGED <<users, bans, feed, tables, clock, cacheVars, con, script, troubles>>
RefreshOwn(w) ==
  /\ w \in work /\ w.stage = "refresh"
  /\ reads' = reads \cup {Reading(HostOf[w.who], "settings", ToString(w.nr))}
  /\ work' = Goes(w, "publish")
  /\ UNCHANGED <<dbVars, clock, cache, pushes, con, script, troubles>>

\* AddBan and RemoveBan: the row; this replica's map and the message.
WriteBan(w) ==
  /\ w \in work /\ w.stage = "start" /\ w.verb \in {"ban-ip", "unban-ip"}
  /\ bans' = [bans EXCEPT ![w.target] = IF w.verb = "ban-ip" THEN clock + BanLength ELSE 0]
  /\ work' = (work \ {w}) \cup
             {[w EXCEPT !.stage = "publish", !.page = <<bans'[w.target]>>,
                        !.said = IF w.verb = "unban-ip" /\ bans[w.target] = 0 THEN "none" ELSE "done"]}
  /\ UNCHANGED <<users, rows, feed, tables, clock, cacheVars, con, script, troubles>>

Publish(w) ==
  /\ w \in work /\ w.stage = "publish"
  /\ ~\E r \in reads : r.by = ToString(w.nr)
  /\ LET banning == w.verb \in {"ban-ip", "unban-ip"}
         table == IF banning THEN "bans" ELSE "settings" IN
     /\ cache' = IF banning THEN [cache EXCEPT ![HostOf[w.who]].bans[w.target] = w.page[1]] ELSE cache
     /\ \/ pushes' = Published(table) /\ UNCHANGED troubles
        \/ troubles < ConsoleFaults /\ troubles' = troubles + 1 /\ UNCHANGED pushes
  /\ IF w.said = "done" THEN WriteAudit(w.verb) ELSE UNCHANGED feed
  /\ work' = Answer(w, w.said)
  /\ UNCHANGED <<users, rows, bans, tables, clock, reads, con, script>>

\* A page of the feed, newest first: a row is its place in the feed.
Matches(kind, filter) == filter \in {"", kind}
EventRows(filter, before) ==
  LET all == Reverse(SelectSeq([i \in 1..Len(feed) |-> i],
                               LAMBDA i : Matches(feed[i], filter) /\ (before = <<>> \/ i < before[1])))
  IN SubSeq(all, 1, IF Len(all) < PageSize THEN Len(all) ELSE PageSize)
ListUnifiedEvents(w) ==
  /\ w \in work /\ w.stage = "start" /\ w.verb = "events"
  /\ work' = Answer([w EXCEPT !.page = EventRows(w.value, w.before)], "page")
  /\ UNCHANGED <<dbVars, clock, cacheVars, con, script, troubles>>

CommandFails(w) ==
  /\ w \in work /\ w.stage \in {"start", "apply"} /\ troubles < ConsoleFaults
  /\ troubles' = troubles + 1
  /\ work' = Answer(w, "failed")
  /\ UNCHANGED <<dbVars, clock, cacheVars, con, script>>
-----------------------------------------------------------------------------
(* The screen. input is the one text field all tabs share; on the Events tab  *)
(* it is the filter, which is parsed when the typing pauses.                  *)
Clamp(i, n) == IF n = 0 \/ i < 0 THEN 0 ELSE IF i >= n THEN n - 1 ELSE i
AtMost(a, b) == IF a < b THEN a ELSE b
AtLeast(a, b) == IF a > b THEN a ELSE b
NewConsole(s, fresh) ==
  [open |-> script[s] # <<>>, tab |-> "events", input |-> "", pending |-> NoAction, users |-> {}, bans |-> {},
   events |-> IF fresh THEN <<>> ELSE EventRows("", <<>>), cursor |-> 0, scroll |-> 0,
   filter |-> "", raw |-> "", due |-> FALSE, loading |-> fresh, hasMore |-> ~fresh /\ Len(feed) >= PageSize, detail |-> 0, focus |-> TRUE]

\* renderEvents moves the window to the cursor; First is the first row it draws.
Scrolled(c) ==
  IF c.tab # "events" \/ (c.loading /\ c.events = <<>>) THEN c
  ELSE [c EXCEPT !.scroll = IF c.cursor < @ THEN c.cursor
                            ELSE IF c.cursor >= @ + ListHeight THEN c.cursor - ListHeight + 1 ELSE @]

Shows(s, c) == con' = [con EXCEPT ![s] = Scrolled(c)]
Starts(s, job) == work' = work \cup {job}
ReloadEvents(s, c) == Job(s, "events", 0, c.filter)
LoadMore(s, c) == [Job(s, "events", 0, c.filter) EXCEPT !.before = <<Last(c.events)>>]
WantsMore(c) == c.cursor >= Len(c.events) - 3 /\ c.hasMore /\ ~c.loading /\ c.events # <<>>

\* A deed is the script's next; Types(s, do) takes it.
NextDeed(s) == Head(script[s])
Types(s, do) ==
  /\ con[s].open /\ script[s] # <<>> /\ NextDeed(s).do = do
  /\ script' = [script EXCEPT ![s] = Tail(@)]
  /\ UNCHANGED <<dbVars, clock, cacheVars, troubles>>
OnPage(s) == con[s].pending = NoAction /\ ~(con[s].tab = "events" /\ con[s].detail # 0)

\* A pending action takes every key until it is confirmed or cancelled.
AnswerPending(s) ==
  /\ Types(s, "key") /\ con[s].pending # NoAction
  /\ LET p == con[s].pending IN
     \/ /\ NextDeed(s).arg \in {"y", "enter"}
        /\ Shows(s, [con[s] EXCEPT !.pending = NoAction])
        /\ Starts(s, Job(s, p.verb, p.target, ""))
     \/ /\ NextDeed(s).arg \in {"n", "esc"}
        /\ Shows(s, [con[s] EXCEPT !.pending = NoAction])
        /\ UNCHANGED work
     \/ /\ NextDeed(s).arg \notin {"y", "enter", "n", "esc"}
        /\ UNCHANGED <<con, work>>

CloseDetail(s) ==
  /\ Types(s, "key") /\ con[s].pending = NoAction /\ con[s].tab = "events" /\ con[s].detail # 0
  /\ Shows(s, IF NextDeed(s).arg = "esc" THEN [con[s] EXCEPT !.detail = 0] ELSE con[s])
  /\ UNCHANGED work

\* cycleTab and the digit jumps end in applyTabFocus, which empties the input
\* and leaves the filter as it is.
SwitchTab(s) ==
  /\ Types(s, "tab") /\ OnPage(s)
  /\ Shows(s, [con[s] EXCEPT !.tab = NextDeed(s).arg, !.input = "",
                             !.focus = IF NextDeed(s).arg = "events" THEN TRUE ELSE @])
  /\ UNCHANGED work

Leave(s) ==
  /\ Types(s, "key") /\ OnPage(s) /\ NextDeed(s).arg = "esc"
  /\ con' = [con EXCEPT ![s].open = FALSE]
  /\ UNCHANGED work

\* Typing into the field; a change on the Events tab starts the debounce.
TypeFilter(s) ==
  /\ Types(s, "type") /\ OnPage(s)
  /\ Shows(s, [con[s] EXCEPT !.input = NextDeed(s).arg,
                             !.focus = IF con[s].tab = "events" THEN TRUE ELSE @,
                             !.due = @ \/ (con[s].tab = "events" /\ NextDeed(s).arg # con[s].input)])
  /\ UNCHANGED work

\* maybeFireFilterReload, whatever tab is shown by then.
FilterTick(s) ==
  /\ con[s].open /\ con[s].due
  /\ LET c == [con[s] EXCEPT !.due = FALSE]
         f == [c EXCEPT !.raw = c.input, !.filter = c.input, !.loading = TRUE] IN
     IF c.input = c.raw THEN Shows(s, c) /\ UNCHANGED work
     ELSE Shows(s, f) /\ Starts(s, ReloadEvents(s, f))
  /\ UNCHANGED <<dbVars, clock, cacheVars, script, troubles>>

Navigate(s) ==
  /\ Types(s, "nav") /\ OnPage(s) /\ con[s].tab = "events" /\ NextDeed(s).arg # "open"
  /\ LET c == con[s]
         key == NextDeed(s).arg
         n == Len(c.events)
         moved == [c EXCEPT !.focus = FALSE,
                            !.cursor = CASE key = "up" -> AtLeast(0, @ - 1)
                                         [] key = "down" -> IF @ < n - 1 THEN @ + 1 ELSE @
                                         [] key = "pgup" -> AtLeast(0, @ - 20)
                                         [] key = "pgdown" -> AtMost(n - 1, @ + 20)
                                         [] key = "home" -> 0
                                         [] key = "end" -> AtLeast(0, n - 1)]
     IN IF key \in {"down", "pgdown"} /\ WantsMore(moved)
        THEN Shows(s, [moved EXCEPT !.loading = TRUE]) /\ Starts(s, LoadMore(s, moved))
        ELSE Shows(s, moved) /\ UNCHANGED work

\* Enter on the Events tab's list. Esc never gets here: it leaves the page.
OpenDetail(s) ==
  /\ Types(s, "nav") /\ OnPage(s) /\ con[s].tab = "events" /\ ~con[s].focus
  /\ NextDeed(s).arg = "open"
  /\ Shows(s, IF con[s].cursor \in 0..(Len(con[s].events) - 1)
              THEN [con[s] EXCEPT !.detail = con[s].events[con[s].cursor + 1]] ELSE con[s])
  /\ UNCHANGED work
\* Enter on a command tab.
Submit(s) ==
  /\ Types(s, "line") /\ OnPage(s) /\ con[s].tab # "events"
  /\ LET l == NextDeed(s).arg IN
     IF l.verb = "wall"
     THEN Shows(s, [con[s] EXCEPT !.input = "", !.pending = [verb |-> "wall", target |-> 0]]) /\ UNCHANGED work
     ELSE /\ Shows(s, [con[s] EXCEPT !.input = ""])
          /\ Starts(s, IF l.verb \in Destructive THEN Job(s, "preflight", l.target, l.verb)
                       ELSE Job(s, l.verb, l.target, l.value))

\* handleEventsLoaded: a page whose first row is no older than the list's
\* replaces it, any other is appended.
IsFreshLoad(existing, incoming) ==
  existing = <<>> \/ incoming = <<>> \/ incoming[1] >= existing[1]
EventsLoaded(c, rowsIn) ==
  LET got == [c EXCEPT !.loading = FALSE, !.hasMore = Len(rowsIn) = PageSize] IN
  IF IsFreshLoad(c.events, rowsIn)
  THEN [got EXCEPT !.events = rowsIn, !.cursor = Clamp(@, Len(rowsIn)), !.scroll = 0]
  ELSE [got EXCEPT !.events = @ \o SelectSeq(rowsIn, LAMBDA e : e \notin Range(c.events))]

\* An answer arrives; what was done is followed by a load of the active tab.
Deliver(w) ==
  /\ w \in work /\ w.stage = "answer"
  /\ LET s == w.who
         c == con[s]
         rest == work \ {w} IN
     IF ~c.open THEN work' = rest /\ UNCHANGED con
     ELSE CASE w.verb = "events" /\ w.said = "failed" ->
                 Shows(s, [c EXCEPT !.loading = FALSE]) /\ work' = rest
            [] w.said = "page" -> Shows(s, EventsLoaded(c, w.page)) /\ work' = rest
            [] w.said = "preflight" ->
                 /\ Shows(s, [c EXCEPT !.pending = [verb |-> w.value, target |-> w.target]])
                 /\ work' = rest
            [] w.said = "done" /\ w.verb # "kick" ->
                 CASE c.tab = "events" -> /\ Shows(s, [c EXCEPT !.loading = TRUE])
                                          /\ work' = rest \cup {ReloadEvents(s, c)}
                   [] c.tab = "users" -> Shows(s, [c EXCEPT !.users = DOMAIN users]) /\ work' = rest
                   [] c.tab = "bans" ->
                        /\ Shows(s, [c EXCEPT !.bans = {k \in BanKeys : ListActiveIPBans[k] > 0}])
                        /\ work' = rest
                   [] OTHER -> work' = rest /\ UNCHANGED con
            [] OTHER -> work' = rest /\ UNCHANGED con
  /\ UNCHANGED <<dbVars, clock, cacheVars, script, troubles>>
-----------------------------------------------------------------------------
ConsoleInit ==
  /\ users = Population @@ (Deleted :> [sysop |-> FALSE, banned |-> TRUE, keyOnly |-> FALSE,
                                        keys |-> 0, posts |-> 0])
  /\ rows = [k \in SettingKeys |-> DefaultValue] /\ bans = [k \in BanKeys |-> 0]
  /\ feed = EventsAtStart /\ clock = 0
  /\ cache = [h \in Hosts |-> [set |-> rows, caps |-> rows, bans |-> bans]]
  /\ reads = {} /\ pushes = [h \in Hosts |-> [settings |-> 0, bans |-> 0]]
  /\ \E plan \in Scripts :
       /\ script = plan.of /\ tables = plan.tables
       /\ con = [s \in Consoles |-> NewConsole(s, s \in plan.fresh)]
       /\ work = {[who |-> s, verb |-> "events", target |-> 0, value |-> "", stage |-> "start", said |-> "",
                   before |-> <<>>, page |-> <<>>, nr |-> s] : s \in plan.fresh}
  /\ troubles = 0

Keystroke(s) ==
  \/ AnswerPending(s) \/ CloseDetail(s) \/ SwitchTab(s) \/ Leave(s) \/ TypeFilter(s)
  \/ Navigate(s) \/ OpenDetail(s) \/ Submit(s)
Runs(w) ==
  \/ Lookup(w) \/ ToggleUser(w) \/ KickCmd(w) \/ ResetOrRemove(w) \/ DeleteUser(w) \/ Wall(w) \/ WriteSetting(w)
  \/ RefreshOwn(w) \/ WriteBan(w) \/ Publish(w) \/ ListUnifiedEvents(w) \/ Deliver(w)
Keeps(h, table) == Tick(h, table) \/ Invalidated(h, table)
ConsoleNext ==
  \/ \E h \in Hosts, table \in {"settings", "bans"} : Keeps(h, table)
  \/ \E r \in reads : StoreRead(r) \/ FireOnChange(r) \/ RefreshFails(r)
  \/ DeleteExpiredIPBans \/ TimePasses
  \/ \E s \in Consoles : Keystroke(s) \/ FilterTick(s)
  \/ \E w \in work : Runs(w) \/ CommandFails(w)
-----------------------------------------------------------------------------
(* Tickers fire, goroutines run and bubbletea delivers; nobody has to type.  *)
Settle(h, table, by) ==
  \E r \in reads :
    /\ r.host = h /\ r.table = table
    /\ IF by = "own" THEN r.by \notin {"tick", "listen"} ELSE r.by = by
    /\ StoreRead(r) \/ FireOnChange(r)
ConsoleFair ==
  /\ \A h \in Hosts, table \in {"settings", "bans"} : WF_consoleVars(Tick(h, table))
  /\ \A h \in Hosts, table \in {"settings", "bans"}, by \in {"tick", "listen", "own"} :
       WF_consoleVars(Settle(h, table, by))
  /\ WF_consoleVars(\E w \in work : Runs(w))
ConsoleSpec == ConsoleInit /\ [][ConsoleNext]_consoleVars /\ ConsoleFair

(* Whatever invalidation is lost and in whatever order refreshes overtake     *)
(* each other, every replica ends with the settings, the caps and the bans of *)
(* the tables (settings/cache.go:225, auth/persistban.go:192).                *)
InStep(h) ==
  /\ cache[h].set = rows /\ cache[h].caps = rows
  /\ \A k \in BanKeys : IsBanned(h, k) <=> bans[k] > clock
CachesConverge == <>[](\A h \in Hosts : InStep(h))

(* The window of the Events tab never starts before the first row, so that    *)
(* View indexes rows that are there (sysop_events.go:343).                    *)
WindowOnRows == \A s \in Consoles : con[s].scroll >= 0 /\ con[s].cursor >= 0

(* "A fresh-load's first row is always at least as new as the existing first  *)
(* row" (sysop_events.go:146): the list shows what the filter asks for.       *)
ListIsFiltered ==
  \A s \in Consoles :
    con[s].open /\ ~con[s].loading /\ ~(\E w \in work : w.who = s /\ w.verb = "events")
      => \A i \in DOMAIN con[s].events : Matches(feed[con[s].events[i]], con[s].filter)
=============================================================================
