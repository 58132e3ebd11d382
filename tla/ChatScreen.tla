----------------------------- MODULE ChatScreen -----------------------------
(* screens/chat.go and its companions: one session's chat screen over the    *)
(* service of module Chat. Update runs alone; the commands it returns run in  *)
(* goroutines of their own and post their results to the inbox, from which    *)
(* Update takes them in any order. A waiter is a goroutine blocked on a       *)
(* stream of events; every event handled starts the next one.                 *)
EXTENDS Chat, ChatLog

CONSTANTS
  Me,             \* the user of the screen
  WithPicture,    \* users with a profile picture
  Images,         \* bodies that carry the URL of an image
  DbFaults        \* may a statement of a command fail?

VARIABLES
  up,         \* is the chat the session's screen?
  active,     \* the active channel, {} before the bootstrap has landed
  joined, logs, unread,
  stream,     \* the subscription the screen reads, 0 for none
  waiters,    \* subscription -> how many waiters are blocked on it
  inbox,      \* bag of messages on their way to Update
  cmds,       \* bag of commands that are running
  typing,     \* <<channel, handle>> shown as typing
  pending,    \* pendingFetches: URL -> messages that wait for it
  imageCache, \* URL -> "ok" or "failed"
  width, err

screenVars == <<up, active, joined, logs, unread, stream, waiters, inbox, cmds,
                typing, pending, imageCache, width, err>>
chatScreenVars == <<chatVars, screenVars>>
Height == 4

LogFor(ch) == IF ch \in DOMAIN logs THEN logs[ch] ELSE NewChatLog(width, Height)
Post(m) == inbox' = inbox (+) SetToBag({m})

Command(k, step, ch, from, old) ==
  [k |-> k, step |-> step, ch |-> ch, from |-> from, old |-> old, sub |-> 0,
   joined |-> {}, unread |-> <<>>, hist |-> <<>>, loaded |-> FALSE]
Touch(ch, i) == [k |-> "touch", ch |-> ch, id |-> i]
TouchActiveAtLatest(ch) == [k |-> "latest", ch |-> ch, id |-> 0]
FetchImage(url, ch) == [k |-> "image", url |-> url, ch |-> ch]
ResolvePfp(h) == [k |-> "pfp", handle |-> h]
Report(op, ch, body) == [k |-> "report", op |-> op, ch |-> ch, body |-> body]

Row(i) == LET m == messages[i] IN
  LogMessage(i, m.by, m.body, m.edited, m.deleted, m.pinned, m.parent)
History(ch) == LET ids == RecentMessages(ch) IN [n \in DOMAIN ids |-> Row(ids[n])]
-----------------------------------------------------------------------------
(* Images. *)
ScheduleImageFetches(s, m) ==
  IF m.body \notin Images THEN s
  ELSE IF m.body \in DOMAIN imageCache
       THEN IF imageCache[m.body] = "ok" THEN [s EXCEPT !.log = AttachImage(@, m.id)] ELSE s
  ELSE IF m.body \in DOMAIN s.pending
       THEN [s EXCEPT !.pending[m.body] = Append(@, m.id)]
  ELSE [s EXCEPT !.pending = Put(@, m.body, <<m.id>>), !.fetch = @ \cup {m.body}]
ScheduleHistoryImageFetches(log, hist) ==
  FoldLeft(ScheduleImageFetches, [log |-> log, pending |-> pending, fetch |-> {}], hist)
-----------------------------------------------------------------------------
(* The commands that load a channel. *)
Advance(x, y) == cmds' = (cmds (-) SetToBag({x})) (+) SetToBag({y})
Finish(x) == cmds' = cmds (-) SetToBag({x})
screenRest == <<up, active, joined, logs, unread, stream, typing, pending, imageCache, width, err>>

Leave(x) ==
  /\ x.k = "join" /\ x.step = "leave"
  /\ LeaveChannelMembership(x.from, Me)
  /\ Advance(x, [x EXCEPT !.step = "cancel"])
  /\ UNCHANGED <<rest, channels, messages, reactions, reads, subs, chatCalls, waiters, inbox>>
\* joinChannel gives up the subscription it knew when it was started.
CancelOld(x) ==
  /\ x.k = "join" /\ x.step = "cancel"
  /\ IF x.old = 0 THEN UNCHANGED subs ELSE Cancel(x.old)
  /\ Advance(x, [x EXCEPT !.step = "resolve"])
  /\ UNCHANGED <<rest, chatTables, chatCalls, waiters, inbox>>
ResolvePublicChannel(x) ==
  /\ x.k \in {"boot", "join"} /\ x.step \in {"resolve", "create"}
  /\ IF x.step = "create"
     THEN CreateChannel(x.ch, FALSE, Me) /\ Advance(x, [x EXCEPT !.step = "member"])
     ELSE /\ Advance(x, [x EXCEPT !.step = IF x.ch \in DOMAIN channels THEN "member" ELSE "create"])
          /\ UNCHANGED channels
  /\ UNCHANGED <<rest, members, messages, reactions, reads, subs, chatCalls, waiters, inbox>>
Join(x) ==
  /\ x.k \in {"boot", "join"} /\ x.step = "member"
  /\ JoinChannelMembership(x.ch, Me)
  /\ Advance(x, [x EXCEPT !.step = "list"])
  /\ UNCHANGED <<rest, channels, messages, reactions, reads, subs, chatCalls, waiters, inbox>>
ListJoined(x) ==
  /\ x.k \in {"boot", "join"} /\ x.step = "list"
  /\ Advance(x, [x EXCEPT !.step = "subscribe", !.joined = ListChannelsForUser(Me),
                          !.unread = IF x.k = "boot" THEN UnreadCountsForUser(Me) ELSE <<>>])
  /\ UNCHANGED <<chatVars, waiters, inbox>>
OpenMergedSub(x) ==
  /\ x.k \in {"boot", "join"} /\ x.step = "subscribe" /\ Len(subs) < MaxSubs
  /\ SubscribeChannels(x.joined)
  /\ Advance(x, [x EXCEPT !.step = "history", !.sub = Len(subs) + 1])
  /\ UNCHANGED <<rest, chatTables, chatCalls, waiters, inbox>>
LoadHistory(x) ==
  /\ x.k \in {"boot", "join", "switch"} /\ x.step = "history" /\ ~x.loaded
  /\ Advance(x, [x EXCEPT !.step = "overlays", !.hist = History(x.ch)])
  /\ UNCHANGED <<chatVars, waiters, inbox>>
\* Reactions, reply counts and profile pictures, and the result is posted.
LoadDecorations(x) ==
  /\ x.k \in {"boot", "join", "switch"} /\ (x.step = "overlays" \/ x.loaded)
  /\ Finish(x)
  /\ Post([m |-> "loaded", cmd |-> x, reactions |-> ReactionsForChannel(x.ch),
           replies |-> ReplyCountsForParents({x.hist[n].id : n \in DOMAIN x.hist}),
           pfp |-> [h \in {x.hist[n].by : n \in DOMAIN x.hist} |-> h \in WithPicture]])
  /\ UNCHANGED <<chatVars, waiters>>
\* A statement fails: the subscription just opened is given up again. A failed
\* LeaveMembership does not stop the join that follows it.
CommandFails(x) ==
  /\ x.k \in {"boot", "join", "switch"} /\ x.step # "cancel" /\ ~x.loaded
  /\ DbFaults \/ (x.step = "create" /\ x.ch \in DOMAIN channels)
  /\ IF x.step = "leave" THEN Advance(x, [x EXCEPT !.step = "cancel"]) ELSE Finish(x)
  /\ IF x.sub = 0 THEN UNCHANGED subs ELSE Cancel(x.sub)
  /\ Post([m |-> "err"])
  /\ UNCHANGED <<rest, chatTables, chatCalls, waiters>>
LoadStep(x) == /\ \/ Leave(x) \/ CancelOld(x) \/ ResolvePublicChannel(x) \/ Join(x)
                  \/ ListJoined(x) \/ OpenMergedSub(x) \/ LoadHistory(x)
                  \/ LoadDecorations(x) \/ CommandFails(x)
               /\ UNCHANGED screenRest

(* The other commands. *)
TouchRead(x) ==
  /\ x.k = "touch"
  /\ UpsertChannelRead(Me, x.ch, x.id) /\ Finish(x)
  /\ UNCHANGED <<rest, channels, members, messages, reactions, subs, chatCalls,
                 waiters, inbox, screenRest>>
FindLatest(x) ==
  /\ x.k = "latest"
  /\ Advance(x, Touch(x.ch, LatestMessageIDInChannel(x.ch)))
  /\ UNCHANGED <<chatVars, waiters, inbox, screenRest>>
ImageFetched(x) ==
  /\ x.k = "image"
  /\ \E result \in {"ok", "failed"} :
       /\ imageCache' = Put(imageCache, x.url, result)
       /\ Post([m |-> "image", url |-> x.url, ch |-> x.ch, ok |-> result = "ok"])
  /\ Finish(x)
  /\ UNCHANGED <<chatVars, up, active, joined, logs, unread, stream, waiters, typing,
                 pending, width, err>>
\* /pins, /search and /who read, and answer with a notice that the log shown
\* when it arrives will carry: not always the one it was asked about.
Reported(x) ==
  /\ x.k = "report"
  /\ Post([m |-> "notice",
           found |-> CASE x.op = "pins"   -> ListPinnedMessages(x.ch)
                       [] x.op = "search" -> SearchChat(x.ch, x.body)
                       [] x.op = "who"    -> {}])
  /\ Finish(x)
  /\ UNCHANGED <<chatVars, waiters, screenRest>>
PfpResolved(x) ==
  /\ x.k = "pfp"
  /\ Post([m |-> "pfp", handle |-> x.handle, has |-> x.handle \in WithPicture])
  /\ Finish(x)
  /\ UNCHANGED <<chatVars, waiters, screenRest>>

(* waitForEvent: an event, or nothing once the subscription is given up. *)
EventArrives(s) ==
  /\ waiters[s] > 0
  /\ waiters' = [waiters EXCEPT ![s] = @ - 1]
  /\ \E ch \in Names :
       Received(s, ch) /\ Post([m |-> "event", ev |-> Head(subs[s].queue[ch])])
  /\ UNCHANGED <<rest, chatTables, chatCalls, cmds, screenRest>>
StreamCloses(s) ==
  /\ waiters[s] > 0 /\ ~subs[s].open
  /\ waiters' = [waiters EXCEPT ![s] = @ - 1]
  /\ UNCHANGED <<chatVars, cmds, inbox, screenRest>>
-----------------------------------------------------------------------------
(* Update, one message of the inbox at a time. *)
Take(m) == inbox' = inbox (-) SetToBag({m})
Run(new) == cmds' = cmds (+) SetToBag(new)
Wait(s) == waiters' = IF s = 0 THEN waiters ELSE [waiters EXCEPT ![s] = @ + 1]

\* seedChannelLog: pictures first, then history, reactions and reply counts.
SeedChannelLog(msg) ==
  LET x == msg.cmd
      read == AppendAll(SetPfpHandles(LogFor(x.ch), msg.pfp), x.hist)
      chips == IF x.loaded THEN read ELSE SetReactions(read, msg.reactions)
  IN SnapToBottom(SetReplyCounts(chips, msg.replies))

\* chatBootstrapMsg, chatRefanMsg and chatLocalSwitchMsg.
HandleLoaded(msg) ==
  LET x == msg.cmd
      s == ScheduleHistoryImageFetches(SeedChannelLog(msg), x.hist)
      refan == x.k \in {"boot", "join"}
  IN /\ msg.m = "loaded" /\ Take(msg)
     /\ active' = x.ch
     /\ joined' = IF refan THEN x.joined ELSE joined
     /\ stream' = IF refan THEN x.sub ELSE stream
     /\ IF refan THEN Wait(x.sub) ELSE UNCHANGED waiters
     /\ unread' = Put(IF x.k = "boot" THEN x.unread ELSE unread, x.ch, 0)
     /\ logs' = Put(logs, x.ch, s.log)
     /\ pending' = s.pending
     /\ Run({TouchActiveAtLatest(x.ch)} \cup {FetchImage(u, x.ch) : u \in s.fetch})
     /\ UNCHANGED <<chatVars, up, typing, imageCache, width, err>>

\* chatEventMsg of a new message.
HandleCreated(msg) ==
  LET ev == msg.ev
      log == Append1(LogFor(ev.ch),
               LogMessage(ev.id, ev.by, ev.body, FALSE, FALSE, FALSE, ev.parent))
      s == ScheduleImageFetches([log |-> log, pending |-> pending, fetch |-> {}],
                                EntryOf(log, ev.id).msg)
      here == ev.ch = active
  IN /\ msg.m = "event" /\ ev.kind = "created" /\ Take(msg)
     /\ logs' = Put(logs, ev.ch, IF here THEN SnapToBottom(s.log) ELSE s.log)
     /\ pending' = s.pending
     /\ unread' = IF here \/ ev.by = Me THEN unread
                  ELSE Put(unread, ev.ch,
                           1 + IF ev.ch \in DOMAIN unread THEN unread[ev.ch] ELSE 0)
     /\ Run({FetchImage(u, ev.ch) : u \in s.fetch}
            \cup {ResolvePfp(h) : h \in {ev.by} \ DOMAIN log.pfp}
            \cup IF here THEN {Touch(ev.ch, ev.id)} ELSE {})
     /\ Wait(stream)
     /\ UNCHANGED <<chatVars, up, active, joined, stream, typing, imageCache, width, err>>

\* chatEventMsg of the other kinds. An edit carries no pin, parent or tombstone.
Patched(log, ev) ==
  CASE ev.kind = "edited" ->
         Append1(log, LogMessage(ev.id, ev.by, ev.body, TRUE, FALSE, FALSE, NoParent))
    [] ev.kind = "reacted"   -> LogAddReaction(log, ev.id, ev.emoji)
    [] ev.kind = "unreacted" -> LogRemoveReaction(log, ev.id, ev.emoji)
    [] ev.kind = "deleted"   -> MarkDeleted(log, ev.id)
    [] ev.kind = "pinned"    -> MarkPinned(log, ev.id, ev.pinned)
    [] OTHER -> log
\* Mutant: the wait for the next event is not renewed.
HandleEventOnce(msg) ==
  LET ev == msg.ev IN
  /\ msg.m = "event" /\ ev.kind # "created" /\ Take(msg)
  /\ logs' = Put(logs, ev.ch, Patched(LogFor(ev.ch), ev))
  /\ UNCHANGED <<chatVars, up, active, joined, unread, stream, waiters, cmds, typing, pending,
                 imageCache, width, err>>

HandleEvent(msg) ==
  LET ev == msg.ev IN
  /\ msg.m = "event" /\ ev.kind # "created" /\ Take(msg)
  /\ logs' = IF ev.kind \in {"typing", "topic"} THEN logs
             ELSE Put(logs, ev.ch, Patched(LogFor(ev.ch), ev))
  /\ typing' = IF ev.kind = "typing" /\ ev.by # Me
               THEN typing \cup {<<ev.ch, ev.by>>} ELSE typing
  /\ Wait(stream)
  /\ UNCHANGED <<chatVars, up, active, joined, unread, stream, cmds, pending,
                 imageCache, width, err>>

HandleImage(msg) ==
  LET ids == IF msg.url \in DOMAIN pending THEN pending[msg.url] ELSE <<>> IN
  /\ msg.m = "image" /\ Take(msg)
  /\ pending' = [u \in DOMAIN pending \ {msg.url} |-> pending[u]]
  /\ logs' = IF msg.ok THEN Put(logs, msg.ch, FoldLeft(AttachImage, LogFor(msg.ch), ids))
             ELSE logs
  /\ UNCHANGED <<chatVars, up, active, joined, unread, stream, waiters, cmds, typing,
                 imageCache, width, err>>
HandlePfp(msg) ==
  /\ msg.m = "pfp" /\ Take(msg)
  /\ logs' = [ch \in DOMAIN logs |-> SetPfp(logs[ch], msg.handle, msg.has)]
  /\ UNCHANGED <<chatVars, up, active, joined, unread, stream, waiters, cmds, typing,
                 pending, imageCache, width, err>>
HandleErr(msg) ==
  /\ msg.m = "err" /\ Take(msg) /\ err' = TRUE
  /\ UNCHANGED <<chatVars, up, active, joined, logs, unread, stream, waiters, cmds,
                 typing, pending, imageCache, width>>
HandleNotice(msg) ==
  /\ msg.m = "notice" /\ Take(msg)
  /\ logs' = Put(logs, active, SnapToBottom(AppendSystem(LogFor(active))))
  /\ UNCHANGED <<chatVars, up, active, joined, unread, stream, waiters, cmds, typing,
                 pending, imageCache, width, err>>
TypingTick ==
  /\ \E gone \in SUBSET typing \ {{}} : typing' = typing \ gone
  /\ UNCHANGED <<chatVars, up, active, joined, logs, unread, stream, waiters, inbox,
                 cmds, pending, imageCache, width, err>>
\* Another screen is up: it does not know the message.
Dropped(msg) == /\ ~up /\ Take(msg)
                /\ UNCHANGED <<chatVars, waiters, cmds, screenRest>>
Update == \/ \E m \in DOMAIN inbox :
               \/ up /\ (HandleLoaded(m) \/ HandleImage(m) \/ HandlePfp(m) \/ HandleErr(m)
                      \/ HandleNotice(m))
               \/ up /\ m.m = "event" /\ (HandleCreated(m) \/ HandleEvent(m))
               \/ Dropped(m)
          \/ TypingTick
-----------------------------------------------------------------------------
(* Keys and commands. *)
Type(key, arg) == Spend(<<Me, key, arg>>)
keyRest == <<clock, crossed, chatTables, chatCalls, waiters, inbox, unread, typing, pending,
             imageCache, err>>
ready == up /\ active # {}

\* submit and runCommand for what goes through the service, in a caller.
Submit ==
  /\ ready
  /\ \E c \in Callers, deed \in DOMAIN chatTodo :
       /\ deed[1] = Me /\ deed[2] \in ServiceOps
       /\ ChatCall(c, deed[2], Me, active, 0, deed[3])
  /\ UNCHANGED screenVars
\* The others' chatCalls, from their own sessions; the web names the message.
OthersCall ==
  /\ \E c \in Callers, deed \in DOMAIN chatTodo, ch \in Names, i \in {0} \cup Ids :
       /\ deed[1] # Me /\ <<ch, deed[1]>> \in members
       /\ i # 0 => i \in Live(ch) /\ deed[2] \notin {"send", "edit", "reply"}
       /\ ChatCall(c, deed[2], deed[1], ch, i, deed[3])
  /\ UNCHANGED screenVars
JoinChannel(ch) == Run({Command("join", "cancel", ch, {}, stream)})
TypeJoin ==
  /\ ready /\ (\E ch \in Names : Type("join", ch) /\ JoinChannel(ch))
  /\ UNCHANGED <<keyRest, subs, up, active, joined, logs, stream, width>>
LeaveCurrent ==
  /\ ready /\ Type("leave", "") /\ active # lobby
  /\ Run({Command("join", "leave", lobby, active, stream)})
  /\ UNCHANGED <<keyRest, subs, up, active, joined, logs, stream, width>>
\* chatDMReadyMsg: the caller that resolved the DM joins its channel.
DMReady(c) ==
  /\ At(c, {"dm"}, "ready") /\ DidDeed(c)
  /\ JoinChannel(chatCalls[c].ch)
  /\ UNCHANGED <<rest, chatTables, subs, up, active, joined, logs, unread, stream,
                 waiters, inbox, typing, pending, imageCache, width, err>>
SwitchChannel ==
  /\ ready /\ Type("switch", "")
  /\ \E ch \in joined \ {active} :
       Run({[Command("switch", "history", ch, {}, 0) EXCEPT !.loaded = ch \in DOMAIN logs]})
  /\ UNCHANGED <<keyRest, subs, up, active, joined, logs, stream, width>>
Notice ==
  /\ ready /\ Type("notice", "")
  /\ logs' = Put(logs, active, SnapToBottom(AppendSystem(LogFor(active))))
  /\ UNCHANGED <<keyRest, subs, cmds, up, active, joined, stream, width>>
Ask ==
  /\ ready
  /\ \E op \in {"pins", "search", "who"}, body \in Bodies :
       /\ Type(op, body)
       /\ Run({Report(op, active, body)})
  /\ UNCHANGED <<keyRest, subs, up, active, joined, logs, stream, width>>
Scroll ==
  /\ ready /\ Type("scroll", "")
  /\ logs' = Put(logs, active, ScrollUp(LogFor(active), Height - 1))
     \/ logs' = Put(logs, active, ScrollDown(LogFor(active), 3))
  /\ UNCHANGED <<keyRest, subs, cmds, up, active, joined, stream, width>>
Thread ==
  /\ ready /\ Type("thread", "")
  /\ \E root \in {0} \cup Ids : logs' = Put(logs, active, SetThreadFilter(LogFor(active), root))
  /\ UNCHANGED <<keyRest, subs, cmds, up, active, joined, stream, width>>
\* A new window size reflows the log that is shown.
Resize ==
  /\ ready /\ Type("resize", "")
  /\ width' = IF width = "wide" THEN "narrow" ELSE "wide"
  /\ logs' = Put(logs, active, SetSize(LogFor(active), width', Height))
  /\ UNCHANGED <<keyRest, subs, cmds, up, active, joined, stream>>
\* Esc leaves a thread first, then the screen, and gives up the subscription.
Esc ==
  /\ ready /\ Type("esc", "")
  /\ IF active \in DOMAIN logs /\ logs[active].filter # 0
     THEN /\ logs' = [logs EXCEPT ![active] = SetThreadFilter(@, 0)]
          /\ UNCHANGED <<up, subs>>
     ELSE /\ up' = FALSE
          /\ IF stream = 0 THEN UNCHANGED subs ELSE Cancel(stream)
          /\ UNCHANGED logs
  /\ UNCHANGED <<keyRest, cmds, active, joined, stream, width>>

\* /finger leaves for another screen and gives nothing up.
Finger ==
  /\ ready /\ Type("finger", "") /\ up' = FALSE
  /\ UNCHANGED <<keyRest, subs, cmds, active, joined, logs, stream, width>>
\* NewChat and Init: a fresh screen, while what the last one started goes on.
Open ==
  /\ ~up /\ Type("open", "") /\ up' = TRUE
  /\ active' = {} /\ joined' = {} /\ logs' = <<>> /\ unread' = <<>> /\ stream' = 0
  /\ typing' = {} /\ pending' = <<>> /\ imageCache' = <<>> /\ err' = FALSE
  /\ Run({Command("boot", "resolve", lobby, {}, 0)})
  /\ UNCHANGED <<clock, crossed, chatTables, chatCalls, subs, waiters, inbox, width>>

ChatScreenInit ==
  /\ ChatInit
  /\ up = TRUE /\ active = {} /\ joined = {} /\ logs = <<>> /\ unread = <<>>
  /\ stream = 0 /\ waiters = [s \in 1 .. MaxSubs |-> 0] /\ inbox = EmptyBag
  /\ cmds = SetToBag({Command("boot", "resolve", lobby, {}, 0)})
  /\ typing = {} /\ pending = <<>> /\ imageCache = <<>>
  /\ width = "narrow" /\ err = FALSE

ChatScreenNext ==
  \/ \E c \in Callers : (ServiceStep(c) /\ UNCHANGED screenVars) \/ DMReady(c)
  \/ \E x \in DOMAIN cmds : LoadStep(x) \/ TouchRead(x) \/ FindLatest(x)
                            \/ ImageFetched(x) \/ PfpResolved(x) \/ Reported(x)
  \/ \E s \in DOMAIN subs : EventArrives(s) \/ StreamCloses(s)
  \/ Update \/ Submit \/ OthersCall \/ TypeJoin \/ LeaveCurrent \/ SwitchChannel
  \/ Notice \/ Ask \/ Scroll \/ Thread \/ Resize \/ Esc \/ Finger \/ Open
ChatScreenSpec == ChatScreenInit /\ [][ChatScreenNext]_chatScreenVars
-----------------------------------------------------------------------------
Loading == (\E x \in DOMAIN cmds : x.k \in {"boot", "join"})
           \/ (\E m \in DOMAIN inbox : m.m = "loaded" /\ m.cmd.k \in {"boot", "join"})
FailureInHand == \E m \in DOMAIN inbox : m.m = "err"
EventsInHand == \E m \in DOMAIN inbox : m.m = "event"

\* A screen that shows a channel and reports no error reads a live stream: a
\* waiter is blocked on it, or the event that will start the next one is in
\* hand. A handler that returns without waitForEvent leaves the screen deaf.
AlwaysListening ==
  up /\ active # {} /\ ~err /\ ~FailureInHand /\ ~Loading =>
    stream # 0 /\ subs[stream].open /\ (waiters[stream] > 0 \/ EventsInHand)

Settled ==
  /\ ready /\ ~err /\ inbox = EmptyBag /\ cmds = EmptyBag
  /\ \A c \in Callers : chatCalls[c] = NoCalls
  /\ \A ch \in Names : subs[stream].queue[ch] = <<>>
\* As long as the first subscription is the only one, the lobby's log agrees
\* with the table once all is delivered: what was sent is there, with its
\* latest body, and what was deleted is a tombstone or was never loaded. A log
\* at its cap may have evicted it. What the log says of a message two of whose
\* changes were published in the wrong order is whatever came last.
LobbyLogFaithful ==
  Settled /\ Len(subs) = 1 /\ Len(LogFor(lobby).entries) < LogCap =>
    \A i \in Ids : messages[i].ch = lobby =>
      LET log == LogFor(lobby)  m == messages[i] IN
      IF Loaded(log, i)
      THEN LET e == EntryOf(log, i).msg IN
           i \notin crossed =>
             e.deleted = m.deleted /\ (m.deleted \/ (e.body = m.body /\ e.edited = m.edited))
      ELSE m.deleted \/ i \notin RecentMessagesForChannel(lobby)

\* The index of a log points at its messages, whatever was evicted or noted.
IndexExact ==
  \A ch \in DOMAIN logs : LET log == logs[ch] IN
    /\ \A id \in DOMAIN log.byID : id > 0 /\ EntryOf(log, id).msg.id = id
    /\ \A i \in DOMAIN log.entries :
         ~log.entries[i].system => log.byID[log.entries[i].msg.id] = i

\* The cached lines of an entry are what it would be wrapped into now, but for
\* the name of a parent and for chips that a new snapshot took away.
LinesFresh ==
  \A ch \in DOMAIN logs : \A i \in DOMAIN logs[ch].entries :
    LET log == logs[ch]  e == log.entries[i]  now == RenderEntry(log, e.msg) IN
    ~e.system =>
      /\ DOMAIN e.shown = DOMAIN now
      /\ \A f \in DOMAIN now \ {"replyTo", "chips"} : e.shown[f] = now[f]
      /\ "chips" \in DOMAIN now /\ now["chips"] # <<>> => e.shown["chips"] = now["chips"]

\* What the screen holds of the chat: the messages, an index of them and the
\* lines they were wrapped into, each true to the one before.
LogFaithful == LobbyLogFaithful /\ IndexExact /\ LinesFresh
-----------------------------------------------------------------------------
(* What the comments of the code say, and the code does not do. *)

\* EditLastOwnInChannel "rewrites the user's most recent message ... and
\* publishes a ChatEventMessageEdited event", and DeleteMessage one "so other
\* sessions can re-render the entry as "(deleted)"": once all is delivered, the
\* log has no body that was replaced and nothing that was deleted.
ChangesArrive ==
  Settled /\ Len(subs) = 1 => \A i \in DOMAIN LogFor(lobby).byID :
    LET e == EntryOf(LogFor(lobby), i).msg IN
    e.deleted \/ (~messages[i].deleted /\ e.body = messages[i].body)

\* switchChannel: "The first /switch into a channel still needs history": after
\* one, what the channel holds is in its log.
SwitchLoadsHistory ==
  Settled /\ Len(LogFor(active).entries) < LogCap =>
    \A i \in RecentMessagesForChannel(active) : Loaded(LogFor(active), i)

\* ChatLog.View slices its lines between two indices of them.
ViewInBounds ==
  \A ch \in DOMAIN logs : Window(logs[ch]).to >= 0

\* React: "hammering the same emoji doesn't inflate counts".
ReactionsNotInflated ==
  Settled => \A p \in DOMAIN LogFor(active).reactions :
    LogFor(active).reactions[p]
      <= Cardinality({r \in reactions : r[1] = p[1] /\ r[3] = p[2]})
=============================================================================
