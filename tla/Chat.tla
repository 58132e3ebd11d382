-------------------------------- MODULE Chat --------------------------------
(* realtime/chat.go over data/gen/chat.sql.go and realtime/bus.go: the tables *)
(* of the chat, the service's calls, and the subscriptions their events are   *)
(* published to. A call runs in a goroutine of its own (a caller) and stops   *)
(* between its statements: look up, write, publish. One SQL statement is      *)
(* atomic. A channel is named by the set of its name's parts, so that the     *)
(* name of a DM is the same set from both sides.                              *)
EXTENDS Integers, Sequences, FiniteSets, SequencesExt

CONSTANTS
  Home,               \* the channels everybody is a member of at the start
  Users, Sysops,      \* accounts, and those with is_sysop
  Callers,            \* goroutines in which service calls run
  Emoji, Bodies,
  Plans,              \* bags of <<user, operation, argument>>: what the users
                      \* of a behaviour will do, in any order
  MaxSubs,            \* subscriptions opened in a behaviour
  HistoryLimit,       \* RecentMessages' limit (100)
  PublishFaults       \* may a publish fail?

ASSUME ChatAssumption == MaxSubs \in Nat

VARIABLES
  chatTodo,       \* what the users will still do
  clock,      \* the time callers stamp their rows with
  channels,   \* channels: name -> [private, by, topic]
  members,    \* channel_members
  messages,   \* chat_messages; the id is the index
  reactions,  \* message_reactions
  reads,      \* channel_reads: <<user, channel>> -> last_read_message_id
  subs,       \* subscriptions: [open, topics, queue: channel -> events]
  chatCalls,      \* caller -> the call it is in
  crossed         \* history: the messages two of whose changes were published
                  \* in another order than they were written in

chatVars == <<chatTodo, clock, channels, members, messages, reactions, reads, subs, chatCalls,
              crossed>>
chatTables == <<channels, members, messages, reactions, reads>>

lobby == {"lobby"}
den   == {"den"}
DMChannelName(a, b) == {a, b}
Names == {lobby, den} \cup {DMChannelName(p[1], p[2]) : p \in {q \in Users \X Users : q[1] # q[2]}}

ServiceOps == {"send", "reply", "edit", "delete", "react", "unreact", "pin", "unpin",
               "topic", "typing", "dm"}
RowKinds == {"created", "edited", "deleted", "pinned"}
NoCalls == [op |-> "idle"]
Ids  == DOMAIN messages
Live(ch) == {i \in Ids : messages[i].ch = ch /\ ~messages[i].deleted}
Newest(ids) == CHOOSE i \in ids : \A j \in ids : messages[j].at <= messages[i].at
-----------------------------------------------------------------------------
(* Reading statements. *)
RecentMessagesForChannel(ch) ==
  {i \in Live(ch) : Cardinality({j \in Live(ch) : messages[j].at > messages[i].at})
                      < HistoryLimit}
RecentMessages(ch) ==
  SetToSortSeq(RecentMessagesForChannel(ch),
               LAMBDA i, j : messages[i].at < messages[j].at)
GetLastOwnMessageInChannel(ch, by) == {i \in Live(ch) : messages[i].by = by}
LastOwnMessageID(ch, by) ==
  LET own == GetLastOwnMessageInChannel(ch, by) IN IF own = {} THEN 0 ELSE Newest(own)
LatestMessageIDInChannel(ch) ==
  CHOOSE n \in Live(ch) \cup {0} : \A i \in Live(ch) : i <= n
ReactionsForChannel(ch) ==
  LET rows == {r \in reactions : r[1] \in Live(ch)}
  IN [p \in {<<r[1], r[3]>> : r \in rows} |->
        Cardinality({r \in rows : r[1] = p[1] /\ r[3] = p[2]})]
ReplyCountsForParents(ids) ==
  LET replies(p) == {i \in Ids : messages[i].parent = p /\ ~messages[i].deleted}
  IN [p \in {q \in ids : replies(q) # {}} |-> Cardinality(replies(p))]
MyReactionsForChannel(ch, u) ==
  {<<r[1], r[3]>> : r \in {x \in reactions : x[1] \in Live(ch) /\ x[2] = u}}
ListPinnedMessages(ch) == {i \in Live(ch) : messages[i].pinned}
\* Full text first; the substring search only when it finds nothing.
SearchChat(ch, body) == {i \in Live(ch) : messages[i].body = body}
ListChannelsForUser(u) == {ch \in Names : <<ch, u>> \in members}
UnreadCountsForUser(u) ==
  [ch \in ListChannelsForUser(u) |->
     Cardinality({i \in Live(ch) :
       i > IF <<u, ch>> \in DOMAIN reads THEN reads[<<u, ch>>] ELSE 0})]
CanSetTopic(ch, by) ==
  by \in Sysops \/ channels[ch].by = "none" \/ channels[ch].by = by
-----------------------------------------------------------------------------
(* Writing statements. *)
InsertChatMessage(ch, by, body, at, parent) ==
  messages' = Append(messages, [ch |-> ch, by |-> by, body |-> body, at |-> at,
    edited |-> FALSE, deleted |-> FALSE, pinned |-> FALSE, parent |-> parent])
UpdateChatMessage(i, by, body) ==
  /\ messages[i].by = by /\ ~messages[i].deleted
  /\ messages' = [messages EXCEPT ![i].body = body, ![i].edited = TRUE]
SoftDeleteChatMessage(i, by) ==
  messages' = [messages EXCEPT ![i].deleted = @ \/ messages[i].by = by]
SoftDeleteChatMessageAsSysop(i) == messages' = [messages EXCEPT ![i].deleted = TRUE]
SetChatMessagePinned(i, pin) ==
  messages' = [messages EXCEPT ![i].pinned = IF messages[i].deleted THEN @ ELSE pin]
SetChannelTopic(ch, topic) == channels' = [channels EXCEPT ![ch].topic = topic]
CreateChannel(ch, private, by) ==
  /\ ch \notin DOMAIN channels
  /\ channels' = [c \in DOMAIN channels \cup {ch} |->
       IF c = ch THEN [private |-> private, by |-> by, topic |-> "none"] ELSE channels[c]]
JoinChannelMembership(ch, u) == members' = members \cup {<<ch, u>>}
LeaveChannelMembership(ch, u) == members' = members \ {<<ch, u>>}
AddReaction(i, u, e) == reactions' = reactions \cup {<<i, u, e>>}
RemoveReaction(i, u, e) == reactions' = reactions \ {<<i, u, e>>}
UpsertChannelRead(u, ch, i) ==
  reads' = [k \in DOMAIN reads \cup {<<u, ch>>} |->
    IF k # <<u, ch>> THEN reads[k]
    ELSE IF k \in DOMAIN reads /\ reads[k] > i THEN reads[k] ELSE i]
-----------------------------------------------------------------------------
(* The bus. Redis hands a payload to every subscription of the topic that is *)
(* open; the goroutines behind a subscription keep each topic's order and    *)
(* merge the topics as they come.                                            *)
SubscribeChannels(topics) ==
  subs' = Append(subs, [open |-> TRUE, topics |-> topics,
                        queue |-> [ch \in Names |-> <<>>]])
Cancel(s) == subs' = [subs EXCEPT ![s].open = FALSE]
PublishTo(ev) ==
  subs' = [s \in DOMAIN subs |->
    IF subs[s].open /\ ev.ch \in subs[s].topics
    THEN [subs[s] EXCEPT !.queue[ev.ch] = Append(@, ev)] ELSE subs[s]]
\* The next event of one topic comes out of the merged stream.
Received(s, ch) == /\ subs[s].queue[ch] # <<>>
                   /\ subs' = [subs EXCEPT ![s].queue[ch] = Tail(@)]
-----------------------------------------------------------------------------
(* The calls. A call record says what it is (op), where it stands (step) and *)
(* what it found. *)
Event(kind, i, ch, by) ==
  [kind |-> kind, id |-> i, ch |-> ch, by |-> by, body |-> "none",
   edited |-> FALSE, pinned |-> FALSE, parent |-> 0, emoji |-> "none"]

Spend(deed) == deed \in DOMAIN chatTodo /\ chatTodo' = chatTodo (-) SetToBag({deed})
ChatCall(c, op, by, ch, target, arg) ==
  /\ chatCalls[c] = NoCalls /\ Spend(<<by, op, arg>>)
  /\ clock' = clock + 1
  /\ chatCalls' = [chatCalls EXCEPT ![c] = [op |-> op, step |-> "find", by |-> by, ch |-> ch,
                 id |-> target, arg |-> arg, at |-> clock, behind |-> {},
                 event |-> Event("none", 0, ch, by)]]
  /\ UNCHANGED <<chatTables, subs, crossed>>
DidDeed(c) == chatCalls' = [chatCalls EXCEPT ![c] = NoCalls]
Step(c, step) == chatCalls' = [chatCalls EXCEPT ![c].step = step]
\* The calls that have changed the row of message i and have not said so yet;
\* a call is known by the time it began.
Unpublished(i) ==
  {chatCalls[d].at : d \in {e \in Callers :
     /\ chatCalls[e] # NoCalls /\ chatCalls[e].step = "publish" /\ chatCalls[e].id = i
     /\ chatCalls[e].event.kind \in RowKinds}}
Announce(c, ev) ==
  chatCalls' = [chatCalls EXCEPT ![c].step = "publish", ![c].event = ev, ![c].id = ev.id,
                  ![c].behind = IF ev.kind \in RowKinds THEN Unpublished(ev.id) ELSE {}]
At(c, op, step) == chatCalls[c] # NoCalls /\ chatCalls[c].op \in op /\ chatCalls[c].step = step
rest == <<chatTodo, clock, crossed>>

\* SendReply: a top-level message, or one under the parent /reply found.
SendMessage(c) ==
  LET k == chatCalls[c]  new == Len(messages) + 1 IN
  /\ At(c, {"send"}, "find") \/ At(c, {"reply"}, "check")
  /\ InsertChatMessage(k.ch, k.by, k.arg, k.at, k.id)
  /\ Announce(c, [Event("created", new, k.ch, k.by) EXCEPT !.body = k.arg, !.parent = k.id])
  /\ UNCHANGED <<channels, members, reactions, reads, subs, rest>>

\* Edit, delete, react, pin and reply name a message, or the one they find:
\* the caller's own last one, or the channel's latest. A call that finds none ends.
Find(c) ==
  LET k == chatCalls[c]
      found == IF k.id # 0 THEN k.id
               ELSE IF k.op \in {"edit", "delete", "reply"} THEN LastOwnMessageID(k.ch, k.by)
               ELSE LatestMessageIDInChannel(k.ch)
  IN /\ At(c, {"edit", "delete", "reply", "react", "unreact", "pin", "unpin"}, "find")
     /\ chatCalls' = [chatCalls EXCEPT ![c] =
          IF found = 0 THEN NoCalls ELSE [k EXCEPT !.id = found, !.step = "check"]]
     /\ UNCHANGED <<chatTables, subs, rest>>

EditLastOwnInChannel(c) ==
  LET k == chatCalls[c] IN
  /\ At(c, {"edit"}, "check")
  /\ \/ /\ UpdateChatMessage(k.id, k.by, k.arg)
        /\ Announce(c, [Event("edited", k.id, k.ch, k.by) EXCEPT
                          !.body = k.arg, !.edited = TRUE])
     \/ /\ messages[k.id].deleted
        /\ DidDeed(c) /\ UNCHANGED messages
  /\ UNCHANGED <<channels, members, reactions, reads, subs, rest>>

React(c) ==
  LET k == chatCalls[c] IN
  /\ At(c, {"react"}, "check")
  /\ AddReaction(k.id, k.by, k.arg)
  /\ Announce(c, [Event("reacted", k.id, k.ch, k.by) EXCEPT !.emoji = k.arg])
  /\ UNCHANGED <<channels, members, messages, reads, subs, rest>>
Unreact(c) ==
  LET k == chatCalls[c] IN
  /\ At(c, {"unreact"}, "check")
  /\ RemoveReaction(k.id, k.by, k.arg)
  /\ Announce(c, [Event("unreacted", k.id, k.ch, k.by) EXCEPT !.emoji = k.arg])
  /\ UNCHANGED <<channels, members, messages, reads, subs, rest>>

\* GetChatMessageByID, then who may do it, then the write by itself.
DeleteMessage(c) ==
  LET k == chatCalls[c]  m == messages[k.id]
      allowed == ~m.deleted /\ (m.by = k.by \/ k.by \in Sysops)
  IN /\ At(c, {"delete"}, "check")
     /\ IF allowed THEN Step(c, "write") ELSE DidDeed(c)
     /\ UNCHANGED <<chatTables, subs, rest>>
SoftDelete(c) ==
  LET k == chatCalls[c] IN
  /\ At(c, {"delete"}, "write")
  /\ IF k.by \in Sysops /\ messages[k.id].by # k.by
     THEN SoftDeleteChatMessageAsSysop(k.id)
     ELSE SoftDeleteChatMessage(k.id, k.by)
  /\ Announce(c, Event("deleted", k.id, k.ch, k.by))
  /\ UNCHANGED <<channels, members, reactions, reads, subs, rest>>
SetPinned(c) ==
  LET k == chatCalls[c]  m == messages[k.id]  pin == k.op = "pin" IN
  /\ At(c, {"pin", "unpin"}, "check")
  /\ IF ~m.deleted /\ m.pinned # pin THEN Step(c, "write") ELSE DidDeed(c)
  /\ UNCHANGED <<chatTables, subs, rest>>
WritePin(c) ==
  LET k == chatCalls[c]  pin == k.op = "pin" IN
  /\ At(c, {"pin", "unpin"}, "write")
  /\ SetChatMessagePinned(k.id, pin)
  /\ Announce(c, [Event("pinned", k.id, k.ch, k.by) EXCEPT !.pinned = pin])
  /\ UNCHANGED <<channels, members, reactions, reads, subs, rest>>

SetTopic(c) ==
  LET k == chatCalls[c] IN
  /\ At(c, {"topic"}, "find")
  /\ IF k.ch \in DOMAIN channels /\ CanSetTopic(k.ch, k.by) /\ channels[k.ch].topic # k.arg
     THEN Step(c, "write") ELSE DidDeed(c)
  /\ UNCHANGED <<chatTables, subs, rest>>
WriteTopic(c) ==
  LET k == chatCalls[c] IN
  /\ At(c, {"topic"}, "write")
  /\ SetChannelTopic(k.ch, k.arg)
  /\ Announce(c, [Event("topic", 0, k.ch, k.by) EXCEPT !.body = k.arg])
  /\ UNCHANGED <<members, messages, reactions, reads, subs, rest>>

PublishTyping(c) ==
  /\ At(c, {"typing"}, "find")
  /\ Announce(c, Event("typing", 0, chatCalls[c].ch, chatCalls[c].by))
  /\ UNCHANGED <<chatTables, subs, rest>>

\* ResolveDM: the partner is arg. Get the channel, create it when it was not
\* there (an error when another call has created it since), join both.
ResolveDM(c) ==
  LET k == chatCalls[c]  ch == DMChannelName(k.by, k.arg) IN
  /\ At(c, {"dm"}, "find")
  /\ IF k.by = k.arg \/ k.arg \notin Users THEN DidDeed(c)
     ELSE chatCalls' = [chatCalls EXCEPT ![c].ch = ch,
            ![c].step = IF ch \in DOMAIN channels THEN "self" ELSE "create"]
  /\ UNCHANGED <<chatTables, subs, rest>>
CreateDM(c) ==
  LET k == chatCalls[c] IN
  /\ At(c, {"dm"}, "create")
  /\ \/ CreateChannel(k.ch, TRUE, k.by) /\ Step(c, "self")
     \/ k.ch \in DOMAIN channels /\ DidDeed(c) /\ UNCHANGED channels
  /\ UNCHANGED <<members, messages, reactions, reads, subs, rest>>
EnsureMembership(c) ==
  LET k == chatCalls[c] IN
  /\ At(c, {"dm"}, "self") \/ At(c, {"dm"}, "other")
  /\ IF k.step = "self"
     THEN JoinChannelMembership(k.ch, k.by) /\ Step(c, "other")
     ELSE JoinChannelMembership(k.ch, k.arg) /\ Step(c, "ready")
  /\ UNCHANGED <<channels, messages, reactions, reads, subs, rest>>

\* The last thing a call does; when it fails the row stays and nobody is told.
\* Nothing keeps it from overtaking a call that has written before it.
Publish(c) ==
  LET k == chatCalls[c] IN
  /\ k # NoCalls /\ k.step = "publish"
  /\ PublishTo(k.event) \/ (PublishFaults /\ UNCHANGED subs)
  /\ DidDeed(c)
  /\ crossed' = crossed \cup {i \in {k.id} : Unpublished(i) \cap k.behind # {}}
  /\ UNCHANGED <<chatTables, chatTodo, clock>>

ServiceStep(c) ==
  \/ SendMessage(c) \/ Find(c) \/ EditLastOwnInChannel(c) \/ React(c) \/ Unreact(c)
  \/ DeleteMessage(c) \/ SoftDelete(c) \/ SetPinned(c) \/ WritePin(c)
  \/ SetTopic(c) \/ WriteTopic(c) \/ PublishTyping(c)
  \/ ResolveDM(c) \/ CreateDM(c) \/ EnsureMembership(c) \/ Publish(c)
-----------------------------------------------------------------------------
ChatInit ==
  /\ chatTodo \in Plans
  /\ clock = 1
  /\ channels = (lobby :> [private |-> FALSE, by |-> "none", topic |-> "general chat"])
             @@ (den :> [private |-> FALSE, by |-> CHOOSE u \in Users : TRUE, topic |-> "none"])
  /\ members = Home \X Users
  /\ messages = <<>> /\ reactions = {} /\ reads = <<>>
  /\ subs = <<>>
  /\ chatCalls = [c \in Callers |-> NoCalls]
  /\ crossed = {}
=============================================================================
