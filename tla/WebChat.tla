------------------------------- MODULE WebChat -------------------------------
(* web/handlers_chat.go and web/static/chat.js: a channel page of the web    *)
(* chat over the service of module Chat. The page is rendered from statements *)
(* that run one after the other; once it is shown it opens a stream of its    *)
(* own, and every frame of the stream patches what is shown. The page keeps   *)
(* its rows in the order they were added.                                     *)
EXTENDS Chat

CONSTANTS
  Viewer,     \* the user of the browser
  Palette     \* the reactions the web offers

VARIABLES
  page,       \* where the request for the page stands, and what it has read
  shown,      \* the rows of the page that is shown
  wsub,       \* the subscription behind its event stream, 0 for none
  since,      \* how many messages there were when that subscription opened
  editing,    \* the row whose body is an input now, 0 for none
  posted      \* the caller of the send the browser waits for, 0 for none

webVars == <<page, shown, wsub, since, editing, posted>>
webChatVars == <<chatVars, webVars>>
NoPage == [step |-> "none", ch |-> {}]
webRest == <<shown, wsub, since, editing, posted>>
-----------------------------------------------------------------------------
(* The gate: public channels are open to every account, private ones to their *)
(* members. *)
IsMember(u, ch) == <<ch, u>> \in members
LoadChannelForUser(ch) ==
  ch \in DOMAIN channels /\ (channels[ch].private => IsMember(Viewer, ch))

WebRow(i, m, counts, mine, replies) ==
  [id |-> i, by |-> m.by, body |-> m.body, edited |-> m.edited, pinned |-> m.pinned,
   deleted |-> FALSE, missed |-> FALSE,
   chips |-> [e \in {x[2] : x \in {y \in DOMAIN counts : y[1] = i}} |-> counts[<<i, e>>]],
   mine |-> {x[2] : x \in {y \in mine : y[1] = i}},
   replies |-> IF i \in DOMAIN replies THEN replies[i] ELSE 0]

\* chatChannel, statement by statement.
Visit(ch) ==
  /\ page = NoPage /\ posted = 0 /\ Spend(<<Viewer, "visit", ch>>)
  /\ page' = IF LoadChannelForUser(ch) THEN [step |-> "history", ch |-> ch] ELSE NoPage
  /\ IF wsub = 0 THEN UNCHANGED subs ELSE Cancel(wsub)
  /\ wsub' = 0 /\ shown' = <<>> /\ editing' = 0 /\ since' = 0
  /\ UNCHANGED <<clock, crossed, chatTables, chatCalls, posted>>
\* What a row looked like when it was read.
ReadHistory ==
  /\ page.step = "history"
  /\ LET ids == RecentMessages(page.ch) IN
     page' = [step |-> "overlays", ch |-> page.ch,
              rows |-> [n \in DOMAIN ids |-> [id |-> ids[n], m |-> messages[ids[n]]]]]
  /\ UNCHANGED <<chatVars, webRest>>
ReadOverlays ==
  /\ page.step = "overlays"
  /\ page' = [step |-> "latest", ch |-> page.ch,
       rows |-> [n \in DOMAIN page.rows |->
         WebRow(page.rows[n].id, page.rows[n].m, ReactionsForChannel(page.ch),
                MyReactionsForChannel(page.ch, Viewer),
                ReplyCountsForParents({page.rows[k].id : k \in DOMAIN page.rows}))],
       pins |-> ListPinnedMessages(page.ch)]
  /\ UNCHANGED <<chatVars, webRest>>
\* The marker goes to the latest message now, seen or not.
ReadLatest ==
  /\ page.step = "latest"
  /\ page' = [page EXCEPT !.step = "touch"] @@ [latest |-> LatestMessageIDInChannel(page.ch)]
  /\ UNCHANGED <<chatVars, webRest>>
RenderPage ==
  /\ page.step = "touch"
  /\ UpsertChannelRead(Viewer, page.ch, page.latest)
  /\ shown' = page.rows
  /\ page' = [step |-> "shown", ch |-> page.ch]
  /\ UNCHANGED <<rest, channels, members, messages, reactions, subs, chatCalls,
                 wsub, since, editing, posted>>
\* chatStream: the gate again, then the subscription.
OpenStream ==
  /\ page.step = "shown" /\ wsub = 0 /\ Len(subs) < MaxSubs
  /\ LoadChannelForUser(page.ch)
  /\ SubscribeChannels({page.ch})
  /\ wsub' = Len(subs) + 1 /\ since' = Len(messages)
  /\ UNCHANGED <<rest, chatTables, chatCalls, page, shown, editing, posted>>
\* The connection breaks; EventSource opens another one.
StreamBreaks ==
  /\ wsub # 0 /\ Spend(<<Viewer, "drop", "">>)
  /\ Cancel(wsub) /\ wsub' = 0
  /\ UNCHANGED <<clock, crossed, chatTables, chatCalls, page, shown, since, editing, posted>>
-----------------------------------------------------------------------------
(* Frames. *)
Surfaced(ev) == ev.kind \notin {"topic", "typing"}
HasRow(i) == \E n \in DOMAIN shown : shown[n].id = i
At1(i) == CHOOSE n \in DOMAIN shown : shown[n].id = i
Patch(i, F(_)) == IF HasRow(i) THEN [shown EXCEPT ![At1(i)] = F(@)] ELSE shown

BumpReplyBadge(rows, parent) ==
  [n \in DOMAIN rows |-> IF rows[n].id = parent /\ ~rows[n].deleted
                         THEN [rows[n] EXCEPT !.replies = @ + 1] ELSE rows[n]]
\* Mutant: the id is not looked for among the rows.
AppendAlways(ev) ==
  BumpReplyBadge(Append(shown,
    WebRow(ev.id, [by |-> ev.by, body |-> ev.body, edited |-> FALSE, pinned |-> FALSE],
           <<>>, {}, <<>>)), ev.parent)

AppendMessage(ev) ==
  IF HasRow(ev.id) THEN shown
  ELSE BumpReplyBadge(Append(shown,
         WebRow(ev.id, [by |-> ev.by, body |-> ev.body, edited |-> FALSE, pinned |-> FALSE],
                <<>>, {}, <<>>)), ev.parent)
\* A row that is being edited has no body to patch ("missed", a history of the
\* row, until the next edit). The tombstone has one: an edit that comes after
\* the deletion writes its text over "(deleted)".
ApplyEdit(ev) ==
  Patch(ev.id, LAMBDA r : [r EXCEPT !.body = IF editing = ev.id THEN @ ELSE ev.body,
                                    !.missed = editing = ev.id,
                                    !.edited = @ \/ ~r.deleted])
ApplyDelete(ev) ==
  Patch(ev.id, LAMBDA r : [r EXCEPT !.deleted = TRUE, !.body = "(deleted)", !.chips = <<>>, !.mine = {}])
AddChip(r, ev) ==
  LET n == IF ev.emoji \in DOMAIN r.chips THEN r.chips[ev.emoji] ELSE 0 IN
  IF r.deleted THEN r
  ELSE [r EXCEPT !.chips = (ev.emoji :> n + 1) @@ @,
                 !.mine = IF ev.by = Viewer THEN @ \cup {ev.emoji} ELSE @]
DropChip(r, ev) ==
  IF r.deleted \/ ev.emoji \notin DOMAIN r.chips THEN r
  ELSE IF r.chips[ev.emoji] <= 1
  THEN [r EXCEPT !.chips = [e \in DOMAIN @ \ {ev.emoji} |-> @[e]], !.mine = @ \ {ev.emoji}]
  ELSE [r EXCEPT !.chips[ev.emoji] = @ - 1,
                 !.mine = IF ev.by = Viewer THEN @ \ {ev.emoji} ELSE @]
Patched1(ev) ==
  CASE ev.kind = "created"   -> AppendMessage(ev)
    [] ev.kind = "edited"    -> ApplyEdit(ev)
    [] ev.kind = "deleted"   -> ApplyDelete(ev)
    [] ev.kind = "reacted"   -> Patch(ev.id, LAMBDA r : AddChip(r, ev))
    [] ev.kind = "unreacted" -> Patch(ev.id, LAMBDA r : DropChip(r, ev))
    [] ev.kind = "pinned"    -> Patch(ev.id, LAMBDA r : [r EXCEPT !.pinned = ev.pinned])

Frame ==
  /\ wsub # 0 /\ Received(wsub, page.ch)
  /\ LET ev == Head(subs[wsub].queue[page.ch]) IN
     /\ IF Surfaced(ev) THEN shown' = Patched1(ev) ELSE UNCHANGED shown
     /\ editing' = IF ev.kind = "deleted" /\ ev.id = editing THEN 0 ELSE editing
  /\ UNCHANGED <<rest, chatTables, chatCalls, page, wsub, since, posted>>
-----------------------------------------------------------------------------
(* What the user does on the page. *)
onPage == page.step = "shown" /\ posted = 0
Mine(n) == shown[n].by = Viewer
LastOwnRow == LET own == {n \in DOMAIN shown : Mine(n)} IN
  IF own = {} THEN 0 ELSE CHOOSE n \in own : \A k \in own : k <= n

\* chatSend: a public channel is joined by the first message, then SendReply.
Compose(c, parent) ==
  /\ onPage /\ LoadChannelForUser(page.ch)
  /\ \E deed \in DOMAIN chatTodo :
       /\ deed[1] = Viewer /\ deed[2] = "send"
       /\ ChatCall(c, "send", Viewer, page.ch, parent, deed[3])
  /\ posted' = c
  /\ UNCHANGED <<page, shown, wsub, since, editing>>
JoinsFirst(c) == /\ posted = c /\ At(c, {"send"}, "find")
                 /\ ~channels[page.ch].private /\ ~IsMember(Viewer, page.ch)
AutoJoin(c) ==
  /\ JoinsFirst(c)
  /\ JoinChannelMembership(page.ch, Viewer)
  /\ UNCHANGED <<rest, channels, messages, reactions, reads, subs, chatCalls, webVars>>
\* The redirect loads the page anew.
Redirected ==
  /\ posted # 0 /\ chatCalls[posted] = NoCalls
  /\ posted' = 0 /\ editing' = 0 /\ shown' = <<>> /\ wsub' = 0 /\ since' = 0
  /\ page' = [step |-> "history", ch |-> page.ch]
  /\ IF wsub = 0 THEN UNCHANGED subs ELSE Cancel(wsub)
  /\ UNCHANGED <<rest, chatTables, chatCalls>>
\* chatReact, chatUnreact, chatPin and chatDelete name the row they were
\* clicked on; a chip of one's own takes the reaction back.
Click(c) ==
  /\ onPage /\ LoadChannelForUser(page.ch)
  /\ \E n \in DOMAIN shown, e \in Palette :
       /\ ~shown[n].deleted
       /\ \/ ChatCall(c, "react", Viewer, page.ch, shown[n].id, e) /\ e \notin shown[n].mine
          \/ ChatCall(c, "unreact", Viewer, page.ch, shown[n].id, e) /\ e \in shown[n].mine
          \/ ChatCall(c, "pin", Viewer, page.ch, shown[n].id, "") /\ ~shown[n].pinned
          \/ ChatCall(c, "unpin", Viewer, page.ch, shown[n].id, "") /\ shown[n].pinned
          \/ /\ ChatCall(c, "delete", Viewer, page.ch, shown[n].id, "")
             /\ Mine(n) \/ Viewer \in Sysops
  /\ UNCHANGED webVars
\* Only the viewer's last row has an edit button; the service edits the last
\* message of the viewer in the channel, whichever that is.
StartEdit ==
  /\ onPage /\ editing = 0 /\ LastOwnRow # 0 /\ ~shown[LastOwnRow].deleted
  /\ \E deed \in DOMAIN chatTodo : deed[1] = Viewer /\ deed[2] = "edit"
  /\ editing' = shown[LastOwnRow].id
  /\ UNCHANGED <<chatVars, page, shown, wsub, since, posted>>
FinishEdit(c) ==
  /\ onPage /\ editing # 0 /\ editing' = 0
  /\ \/ UNCHANGED chatVars
     \/ \E deed \in DOMAIN chatTodo :
          deed[1] = Viewer /\ deed[2] = "edit"
          /\ ChatCall(c, "edit", Viewer, page.ch, 0, deed[3])
  /\ UNCHANGED <<page, shown, wsub, since, posted>>
\* chatJoin and chatStartDM.
WebJoin ==
  /\ posted = 0 /\ page = NoPage /\ Spend(<<Viewer, "webjoin", den>>)
  /\ JoinChannelMembership(den, Viewer)
  /\ page' = [step |-> "history", ch |-> den]
  /\ UNCHANGED <<clock, crossed, channels, messages, reactions, reads, subs, chatCalls, webRest>>
WebDM(c) ==
  /\ posted = 0 /\ page = NoPage
  /\ \E deed \in DOMAIN chatTodo :
       /\ deed[1] = Viewer /\ deed[2] = "dm"
       /\ ChatCall(c, "dm", Viewer, {}, 0, deed[3])
  /\ UNCHANGED webVars
DMRedirect(c) ==
  /\ At(c, {"dm"}, "ready") /\ chatCalls[c].by = Viewer /\ DidDeed(c)
  /\ page' = IF page = NoPage /\ LoadChannelForUser(chatCalls[c].ch)
             THEN [step |-> "history", ch |-> chatCalls[c].ch] ELSE page
  /\ UNCHANGED <<rest, chatTables, subs, webRest>>
\* Calls of the others, and of the viewer's other sessions.
ElsewhereCall ==
  /\ \E c \in Callers, deed \in DOMAIN chatTodo, ch \in Names, i \in {0} \cup Ids :
       /\ deed[2] \in ServiceOps /\ <<ch, deed[1]>> \in members
       /\ i # 0 => i \in Live(ch) /\ deed[2] \notin {"send", "edit", "reply"}
       /\ ChatCall(c, deed[2], deed[1], ch, i, deed[3])
  /\ UNCHANGED webVars

WebInit ==
  /\ ChatInit /\ page = NoPage /\ shown = <<>> /\ wsub = 0 /\ since = 0
  /\ editing = 0 /\ posted = 0
WebNext ==
  \/ \E ch \in Names : Visit(ch)
  \/ ReadHistory \/ ReadOverlays \/ ReadLatest \/ RenderPage
  \/ OpenStream \/ StreamBreaks \/ Frame \/ Redirected \/ StartEdit \/ WebJoin
  \/ ElsewhereCall
  \/ \E c \in Callers :
       \/ AutoJoin(c) \/ Click(c) \/ FinishEdit(c) \/ WebDM(c) \/ DMRedirect(c)
       \/ (\E parent \in {0} \cup {shown[n].id : n \in DOMAIN shown} : Compose(c, parent))
       \/ ServiceStep(c) /\ ~JoinsFirst(c) /\ UNCHANGED webVars
WebSpec == WebInit /\ [][WebNext]_webChatVars
-----------------------------------------------------------------------------
WebSettled ==
  /\ page.step = "shown" /\ wsub # 0 /\ posted = 0
  /\ \A c \in Callers : chatCalls[c] = NoCalls
  /\ subs[wsub].queue[page.ch] = <<>>

\* Once all is delivered, the page of a stream that never broke shows every
\* message sent since the stream was opened, and each row it shows is as the
\* table has it: a deleted one a tombstone, a pinned one starred. A row whose
\* changes fell between the history and the stream is excused, and so is what a
\* row says of a message two of whose changes were published in the wrong
\* order, and the body of one that was edited while its body was an input.
\* "The sender never sees their own message twice", and neither does anybody: a
\* message both in the history and in a frame is one row.
PageFaithful ==
  /\ \A n, k \in DOMAIN shown : shown[n].id = shown[k].id => n = k
  /\ WebSettled =>
       /\ \A i \in Live(page.ch) : i > since => HasRow(i)
       /\ \A n \in DOMAIN shown : shown[n].id > since =>
            LET m == messages[shown[n].id] IN
            /\ m.ch = page.ch
            /\ shown[n].id \notin crossed =>
                 /\ shown[n].deleted = m.deleted
                 /\ ~m.deleted => /\ shown[n].body = m.body \/ shown[n].missed
                                  /\ shown[n].pinned = m.pinned
-----------------------------------------------------------------------------
(* What the comments of the code say, and the code does not do. *)

\* startEdit (chat.js:291): "SSE will refresh on save": once all is delivered, a
\* row shows the body that was saved last.
EditsArrive ==
  WebSettled /\ editing = 0 => \A n \in DOMAIN shown :
    shown[n].id > since /\ ~shown[n].deleted => shown[n].body = messages[shown[n].id].body
=============================================================================
