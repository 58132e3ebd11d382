------------------------------ MODULE ChatLog ------------------------------
(* components/chatlog.go: the scrolling log of one chat channel, as a value  *)
(* and the operations the screen applies to it. An entry keeps the lines it  *)
(* was last wrapped into ("shown"): the code renders when it changes an      *)
(* entry and paints the cached lines, so a change that forgets to rewrap     *)
(* leaves old lines on the screen. Bodies are members of a small set; how    *)
(* many lines one takes depends only on the width.                           *)
EXTENDS Integers, FiniteSets, Sequences, SequencesExt

CONSTANTS
  LogCap,     \* chatLogMaxEntries
  Long,       \* bodies that wrap into several lines in a narrow window
  Emotes      \* bodies that begin with "/me "

NoParent == 0
Earlier  == "(earlier)"

\* A history row or an event turned into a message; `deleted` and `pinned` are
\* what the carrier of the message says, not what the database holds.
LogMessage(id, by, body, edited, deleted, pinned, parent) ==
  [id |-> id, by |-> by, body |-> body, edited |-> edited,
   deleted |-> deleted, pinned |-> pinned, parent |-> parent]

NewChatLog(width, height) ==
  [entries |-> <<>>, byID |-> <<>>, reactions |-> EmptyBag, pfp |-> <<>>,
   filter |-> 0, scroll |-> 0, width |-> width, height |-> height]

\* A partial function changed or extended at one point.
Put(f, k, v) == [x \in DOMAIN f \cup {k} |-> IF x = k THEN v ELSE f[x]]

Loaded(log, id) == id \in DOMAIN log.byID
EntryOf(log, id) == log.entries[log.byID[id]]

HasPfp(log, handle) == handle \in DOMAIN log.pfp

Chips(log, id) ==
  [e \in {x[2] : x \in {y \in DOMAIN log.reactions : y[1] = id}} |->
     log.reactions[<<id, e>>]]

ReplyTo(log, m) ==
  IF Loaded(log, m.parent) THEN EntryOf(log, m.parent).msg.by ELSE Earlier

\* What a message looks like: a tombstone hides everything, an emote carries
\* only its text, any other message its star, dot, parent, badge and chips.
RenderEntry(log, m) ==
  IF m.deleted THEN [tombstone |-> TRUE]
  ELSE IF m.body \in Emotes THEN [body |-> m.body, edited |-> m.edited]
  ELSE [body |-> m.body, edited |-> m.edited, star |-> m.pinned,
        dot |-> HasPfp(log, m.by) /\ log.pfp[m.by],
        replyTo |-> IF m.parent = NoParent THEN Earlier ELSE ReplyTo(log, m),
        replies |-> IF Loaded(log, m.id) THEN EntryOf(log, m.id).replies ELSE 0,
        chips |-> Chips(log, m.id)]

RewrapAt(log, i) ==
  IF log.entries[i].system THEN log
  ELSE [log EXCEPT !.entries[i].shown = RenderEntry(log, log.entries[i].msg)]
Rewrap(log, indices) == FoldLeft(RewrapAt, log, SetToSeq(indices))
RewrapByID(log, id) == IF Loaded(log, id) THEN RewrapAt(log, log.byID[id]) ELSE log
WrittenBy(log, handle) ==
  {i \in DOMAIN log.entries :
     ~log.entries[i].system /\ log.entries[i].msg.by = handle}

\* Mutant: the index stays as it was.
EvictUnindexed(log) ==
  IF Len(log.entries) <= LogCap THEN log
  ELSE [log EXCEPT !.entries = SubSeq(@, Len(@) - LogCap + 1, Len(@))]

\* The oldest entries beyond the cap go, and every index moves down.
Evict(log) ==
  LET drop == Len(log.entries) - LogCap
      kept == SubSeq(log.entries, drop + 1, Len(log.entries))
  IN IF drop <= 0 THEN log
     ELSE [log EXCEPT
       !.entries = kept,
       !.byID = [id \in {kept[i].msg.id : i \in {j \in DOMAIN kept : ~kept[j].system}} |->
                   CHOOSE i \in DOMAIN kept : ~kept[i].system /\ kept[i].msg.id = id]]

BumpParentReplyCount(log, m) ==
  IF m.parent = NoParent \/ ~Loaded(log, m.parent) THEN log
  ELSE LET i == log.byID[m.parent]
       IN RewrapAt([log EXCEPT !.entries[i].replies = @ + 1], i)

\* A message that is already there is replaced where it stands: only its reply
\* count survives, its images, pin and tombstone are what the new copy says.
Append1(log, m) ==
  LET entry(n) == [msg |-> m, shown |-> RenderEntry(log, m), replies |-> n,
                   images |-> 0, system |-> FALSE]
      i == log.byID[m.id]
  IN IF Loaded(log, m.id)
     THEN BumpParentReplyCount([log EXCEPT !.entries[i] = entry(@.replies)], m)
     ELSE Evict(BumpParentReplyCount(
            [log EXCEPT !.entries = Append(@, entry(0)),
                        !.byID = Put(@, m.id, Len(log.entries) + 1)], m))

AppendAll(log, msgs) == FoldLeft(Append1, log, msgs)

AppendSystem(log) ==
  Evict([log EXCEPT !.entries =
    Append(@, [msg |-> LogMessage(0, "", "", FALSE, FALSE, FALSE, NoParent),
               shown |-> [notice |-> TRUE], replies |-> 0, images |-> 0,
               system |-> TRUE])])

SetPfpHandles(log, snapshot) ==
  Rewrap([log EXCEPT !.pfp = [h \in DOMAIN @ \cup DOMAIN snapshot |->
                                IF h \in DOMAIN snapshot THEN snapshot[h] ELSE @[h]]],
         UNION {WrittenBy(log, h) : h \in DOMAIN snapshot})
SetPfp(log, handle, has) ==
  IF HasPfp(log, handle) /\ log.pfp[handle] = has THEN log
  ELSE Rewrap([log EXCEPT !.pfp = Put(@, handle, has)], WrittenBy(log, handle))

SetReplyCount(log, parent, n) ==
  IF ~Loaded(log, parent) THEN log
  ELSE LET i == log.byID[parent]
       IN RewrapAt([log EXCEPT !.entries[i].replies = n], i)
SetReplyCounts(log, snapshot) ==
  FoldLeft(LAMBDA l, p : SetReplyCount(l, p, snapshot[p]), log,
           SetToSeq(DOMAIN snapshot))

MarkDeleted(log, id) ==
  IF ~Loaded(log, id) \/ EntryOf(log, id).msg.deleted THEN log
  ELSE LET i == log.byID[id]
       IN RewrapAt([log EXCEPT !.entries[i].msg.deleted = TRUE,
                               !.entries[i].images = 0], i)
MarkPinned(log, id, pinned) ==
  IF ~Loaded(log, id) THEN log
  ELSE LET i == log.byID[id]
       IN RewrapAt([log EXCEPT !.entries[i].msg.pinned = pinned], i)

AttachImage(log, id) ==
  IF ~Loaded(log, id) THEN log
  ELSE [log EXCEPT !.entries[log.byID[id]].images = @ + 1]

\* Only the messages of the new snapshot are rewrapped: one that lost its last
\* reaction keeps the chips it was painted with.
SetReactions(log, snapshot) ==
  LET new == [log EXCEPT !.reactions = snapshot]
      ids == {x[1] : x \in DOMAIN snapshot}
  IN Rewrap(new, {log.byID[id] : id \in ids \cap DOMAIN log.byID})
LogAddReaction(log, id, emoji) ==
  RewrapByID([log EXCEPT !.reactions = @ (+) SetToBag({<<id, emoji>>})], id)
LogRemoveReaction(log, id, emoji) ==
  RewrapByID([log EXCEPT !.reactions = @ (-) SetToBag({<<id, emoji>>})], id)

SetThreadFilter(log, root) == [log EXCEPT !.filter = root, !.scroll = 0]
EntryInFilter(log, e) ==
  log.filter = 0 \/ e.msg.id = log.filter \/ e.msg.parent = log.filter

LinesOf(log, e) ==
  e.images + IF e.system \/ e.msg.deleted THEN 1
             ELSE IF e.msg.body \in Long /\ log.width = "narrow" THEN 8 ELSE 2
TotalLines(log) ==
  FoldLeft(LAMBDA n, e : IF EntryInFilter(log, e) THEN n + LinesOf(log, e) ELSE n,
           0, log.entries)

ScrollUp(log, n) ==
  LET top == IF TotalLines(log) > log.height THEN TotalLines(log) - log.height ELSE 0
  IN [log EXCEPT !.scroll = IF @ + n > top THEN top ELSE @ + n]
ScrollDown(log, n) == [log EXCEPT !.scroll = IF @ < n THEN 0 ELSE @ - n]
SnapToBottom(log) == [log EXCEPT !.scroll = 0]

\* A new width wraps every entry again and leaves the scroll offset alone.
SetSize(log, width, height) ==
  LET sized == [log EXCEPT !.width = width, !.height = height]
  IN IF width = log.width THEN sized ELSE Rewrap(sized, DOMAIN log.entries)

\* The slice of lines the view takes: from (exclusive) and to (inclusive).
Window(log) ==
  LET end == TotalLines(log) - log.scroll
  IN [from |-> IF end > log.height THEN end - log.height ELSE 0, to |-> end]
=============================================================================
