-------------------------------- MODULE Forums --------------------------------
(* realtime/forums.go over data/gen/forums.sql.go, the forum screen           *)
(* (screens/boards.go) and the forum pages (web/handlers_boards.go). A call   *)
(* runs in a goroutine of its own and stops between its statements; what the  *)
(* screen asked for comes back to it as a message, in any order.              *)
EXTENDS Integers, Sequences, FiniteSets, SequencesExt

CONSTANTS
  Reader,             \* the user of the screen
  Writers,            \* users who post
  ForumNames,
  ForumPlans,         \* bags of <<user, deed>>: keys of the screen, calls of others
  PerPage,            \* postsPerPage and topicsPerPage
  TopicLimit,         \* topicListLimit
  ForumFaults,        \* may a statement of CreateTopic or Reply fail?
  LoadFaults          \* may one of a load fail, or of TouchTopicRead?

ASSUME ForumsAssumption ==
  /\ ForumNames # {} /\ "none" \notin ForumNames
  /\ PerPage \in Nat \ {0} /\ TopicLimit \in Nat
  /\ ForumFaults \in BOOLEAN /\ LoadFaults \in BOOLEAN

VARIABLES
  fplan, fclock,
  forums,     \* forum -> [count, activity]
  topics,     \* [forum, by, last]; the id is the index
  posts,      \* [topic, by, at]; the id is the index
  postReads,  \* <<user, topic>> -> last_read_post_id
  running,    \* bag of calls
  inbox2,     \* bag of the answers on their way to the screen
  board,      \* the screen
  wish        \* history: where a key last asked the screen to go, where it was then,
              \* and whether the load that the key began has failed

forumTables == <<forums, topics, posts, postReads>>
forumVars == <<fplan, fclock, forumTables, running, inbox2, board, wish>>

Nil == 0
NoForum == "none"
Forum == CHOOSE f \in ForumNames : TRUE
Page(s, limit, offset) ==
  SubSeq(s, offset + 1, IF offset + limit > Len(s) THEN Len(s) ELSE offset + limit)
\* The rows of S in the order in which R says which comes before which.
Ranked(S, R) ==
  [i \in 1 .. Cardinality(S) |->
     CHOOSE x \in S : Cardinality({y \in S : <<y, x>> \in R}) = i - 1]
-----------------------------------------------------------------------------
(* Statements. *)
TopicsIn(f) == {t \in DOMAIN topics : topics[t].forum = f}
PostsIn(t) == {p \in DOMAIN posts : posts[p].topic = t}
Livelier(a, b) ==
  \/ topics[a].last > topics[b].last
  \/ topics[a].last = topics[b].last /\ a < b
ByActivity(f) ==
  Ranked(TopicsIn(f), {e \in TopicsIn(f) \X TopicsIn(f) : Livelier(e[1], e[2])})
ListTopicsInForum(f) == Page(ByActivity(f), TopicLimit, 0)
ListTopicsInForumPaged(f, limit, offset) == Page(ByActivity(f), limit, offset)
\* By the time the author's call began, which need not be the order of the ids.
Sooner(p, q) ==
  \/ posts[p].at < posts[q].at
  \/ posts[p].at = posts[q].at /\ p < q
ByTime(S) == Ranked(S, {e \in S \X S : Sooner(e[1], e[2])})
ListPostsInTopic(t) == ByTime(PostsIn(t))
ListPostsInTopicPaged(t, limit, offset) ==
  Page(ListPostsInTopic(t), limit, offset)
LatestPostInTopic(t) == IF PostsIn(t) = {} THEN Nil ELSE Max(PostsIn(t))
ReadUpTo(u, t) == IF <<u, t>> \in DOMAIN postReads THEN postReads[<<u, t>>] ELSE 0
UnreadTopicCountsForForum(u, f) ==
  [t \in TopicsIn(f) |-> Cardinality({p \in PostsIn(t) : p > ReadUpTo(u, t)})]
UnreadCountsByForumForUser(u) ==
  [f \in ForumNames |->
     Cardinality({p \in DOMAIN posts :
       topics[posts[p].topic].forum = f /\ p > ReadUpTo(u, posts[p].topic)})]
CreateTopicRow(f, u, at) == topics' = Append(topics, [forum |-> f, by |-> u, last |-> at])
CreatePost(t, u, at) == posts' = Append(posts, [topic |-> t, by |-> u, at |-> at])
TouchTopicLastPost(t, at) == topics' = [topics EXCEPT ![t].last = at]
Later(a, b) == IF a > b THEN a ELSE b
IncrementForumTopicCount(f, at) ==
  forums' = [forums EXCEPT ![f] = [count |-> @.count + 1, activity |-> Later(@.activity, at)]]
TouchForumLastActivity(f, at) == forums' = [forums EXCEPT ![f].activity = Later(@, at)]
UpsertPostRead(u, t, p) ==
  postReads' = [k \in DOMAIN postReads \cup {<<u, t>>} |->
    IF k = <<u, t>> THEN Later(ReadUpTo(u, t), p) ELSE postReads[k]]
-----------------------------------------------------------------------------
(* Calls. A call is who makes it, what it does, where it stands, what it is    *)
(* about and, for a load, the screen's sequence number. *)
Working(k, by, f, t, seq) ==
  [k |-> k, by |-> by, step |-> 1, forum |-> f, topic |-> t, seq |-> seq, at |-> fclock,
   list |-> <<>>]
Going(x, y) == running' = (running (-) SetToBag({x})) (+) SetToBag({y})
Gone(x) == running' = running (-) SetToBag({x})
Answer(m) == inbox2' = inbox2 (+) SetToBag({m})
Told(x, m) == IF x.by = Reader THEN Answer(m) ELSE UNCHANGED inbox2
Failed(x) == Gone(x) /\ Told(x, [m |-> "err"])
still == <<fplan, fclock, board, wish>>

\* CreateTopic: the topic, its first post, the forum's counters. Only the last
\* may fail without an error. The screen reads the posts after it, or has none.
CreateTopic(x) ==
  /\ x.k = "create"
  /\ \/ /\ x.step = 1 /\ CreateTopicRow(x.forum, x.by, x.at)
        /\ Going(x, [x EXCEPT !.step = 2, !.topic = Len(topics) + 1])
        /\ UNCHANGED <<forums, posts, postReads, inbox2>>
     \/ /\ x.step = 2 /\ CreatePost(x.topic, x.by, x.at)
        /\ Going(x, [x EXCEPT !.step = 3])
        /\ UNCHANGED <<forums, topics, postReads, inbox2>>
     \/ /\ x.step = 3
        /\ \/ IncrementForumTopicCount(x.forum, x.at)
           \/ ForumFaults /\ UNCHANGED forums
        /\ Going(x, [x EXCEPT !.step = 4])
        /\ UNCHANGED <<topics, posts, postReads, inbox2>>
     \/ /\ x.step = 4 /\ Gone(x)
        /\ \E list \in {ListPostsInTopic(x.topic)} \cup (IF LoadFaults THEN {<<>>} ELSE {}) :
             Told(x, [m |-> "topic", topic |-> x.topic, posts |-> list])
        /\ UNCHANGED forumTables
     \/ /\ ForumFaults /\ x.step \in {1, 2} /\ Failed(x) /\ UNCHANGED forumTables
  /\ UNCHANGED still
\* Reply: the post, the topic's time, the forum's time. Only the first may not
\* fail silently; the second is overwritten whatever it was.
Reply(x) ==
  /\ x.k = "reply"
  /\ \/ /\ x.step = 1 /\ CreatePost(x.topic, x.by, x.at)
        /\ Going(x, [x EXCEPT !.step = 2])
        /\ UNCHANGED <<forums, topics, postReads, inbox2>>
     \/ /\ x.step = 2
        /\ TouchTopicLastPost(x.topic, x.at) \/ (ForumFaults /\ UNCHANGED topics)
        /\ Going(x, [x EXCEPT !.step = 3])
        /\ UNCHANGED <<forums, posts, postReads, inbox2>>
     \/ /\ x.step = 3
        /\ TouchForumLastActivity(x.forum, x.at) \/ (ForumFaults /\ UNCHANGED forums)
        /\ Gone(x) /\ Told(x, [m |-> "replied"])
        /\ UNCHANGED <<topics, posts, postReads>>
     \/ /\ ForumFaults /\ x.step = 1 /\ Failed(x) /\ UNCHANGED forumTables
  /\ UNCHANGED still
\* TouchTopicRead reads the latest post and then marks it read.
TouchTopicRead(x) ==
  /\ x.k = "touch"
  /\ \/ /\ x.step = 1
        /\ Going(x, [x EXCEPT !.step = 2, !.list = <<LatestPostInTopic(x.topic)>>])
        /\ UNCHANGED forumTables
     \/ /\ x.step = 2 /\ UpsertPostRead(x.by, x.topic, x.list[1])
        /\ Gone(x) /\ UNCHANGED <<forums, topics, posts>>
     \/ /\ LoadFaults /\ Gone(x) /\ UNCHANGED forumTables
  /\ UNCHANGED <<inbox2, still>>
\* A list that could not be read: boardsErrMsg carries no number, and navSeq was moved
\* on by the key. Unread counts that could not be read are none.
NotLoaded(x) ==
  /\ LoadFaults /\ Failed(x)
  /\ wish' = [to |-> wish.to, from |-> wish.from, lost |-> wish.lost \/ x.seq = board.seq]
OrNone(counts) == {counts} \cup (IF LoadFaults THEN {<<>>} ELSE {})
LoadForums(x) ==
  /\ x.k = "forums"
  /\ \/ /\ Gone(x) /\ UNCHANGED wish
        /\ \E counts \in OrNone(UnreadCountsByForumForUser(Reader)) :
             Answer([m |-> "forums", unread |-> counts])
     \/ LoadFaults /\ Failed(x) /\ UNCHANGED wish
  /\ UNCHANGED <<forumTables, fplan, fclock, board>>
\* RecentTopics, and then their unread counts.
LoadTopics(x) ==
  /\ x.k = "topics"
  /\ \/ /\ x.step = 1
        /\ Going(x, [x EXCEPT !.step = 2, !.list = ListTopicsInForum(x.forum)])
        /\ UNCHANGED <<inbox2, wish>>
     \/ /\ x.step = 2 /\ Gone(x) /\ UNCHANGED wish
        /\ \E counts \in OrNone(UnreadTopicCountsForForum(Reader, x.forum)) :
             Answer([m |-> "topics", seq |-> x.seq, forum |-> x.forum, list |-> x.list,
                     unread |-> counts])
     \/ x.step = 1 /\ NotLoaded(x)
  /\ UNCHANGED <<forumTables, fplan, fclock, board>>
LoadPosts(x) ==
  /\ x.k = "posts"
  /\ \/ /\ Gone(x) /\ UNCHANGED wish
        /\ Answer([m |-> "posts", seq |-> x.seq, topic |-> x.topic,
                   list |-> ListPostsInTopic(x.topic)])
     \/ NotLoaded(x)
  /\ UNCHANGED <<forumTables, fplan, fclock, board>>
-----------------------------------------------------------------------------
(* The screen. *)
ShowsForum == board.forum # NoForum
Spent(deed) == <<Reader, deed>> \in DOMAIN fplan /\ fplan' = fplan (-) SetToBag({<<Reader, deed>>})
StartTask(x) == running' = running (+) SetToBag({x})
Got(m) == inbox2' = inbox2 (-) SetToBag({m})
keyed == <<forumTables, inbox2>>
Tick == fclock' = fclock + 1
\* What the screen shows, or what its compose box was opened over.
Beneath ==
  IF board.mode # "compose" THEN board.mode ELSE IF board.topic # Nil THEN "thread" ELSE "topics"
Here ==
  CASE Beneath = "topics" -> <<"topics", board.forum>>
    [] Beneath = "thread" -> <<"thread", board.topic>>
    [] OTHER -> <<"forums">>
AsksFor(place) == wish' = [to |-> place, from |-> Here, lost |-> FALSE]

HandleForums(m) ==
  /\ m.m = "forums" /\ board' = [board EXCEPT !.listed = TRUE, !.unreadForum = m.unread]
  /\ UNCHANGED running
\* Mutant: a late answer is as good as any.
HandleTopicsLate(m) ==
  /\ m.m = "topics"
  /\ board' = [board EXCEPT !.forum = m.forum, !.topics = m.list, !.unread = m.unread,
                            !.cursor = 1, !.mode = "topics"]
  /\ UNCHANGED running

\* A load that was overtaken is dropped.
HandleTopics(m) ==
  /\ m.m = "topics"
  /\ board' = IF m.seq # board.seq THEN board
              ELSE [board EXCEPT !.forum = m.forum, !.topics = m.list, !.unread = m.unread,
                                 !.cursor = 1, !.mode = "topics"]
  /\ UNCHANGED running
HandlePosts(m) ==
  /\ m.m = "posts"
  /\ IF m.seq # board.seq THEN UNCHANGED <<board, running>>
     ELSE /\ board' = [board EXCEPT !.topic = m.topic, !.posts = m.list, !.mode = "thread",
                !.unread = [t \in DOMAIN @ |-> IF t = m.topic THEN 0 ELSE @[t]]]
          /\ StartTask(Working("touch", Reader, NoForum, m.topic, 0))
HandleTopicCreated(m) ==
  /\ m.m = "topic"
  /\ board' = [board EXCEPT !.topic = m.topic, !.posts = m.posts, !.stage = "none",
                            !.mode = "thread"]
  /\ StartTask(Working("touch", Reader, NoForum, m.topic, 0))
HandlePostCreated(m) ==
  /\ m.m = "replied"
  /\ IF board.topic = Nil
     THEN /\ board' = [board EXCEPT !.stage = "none", !.mode = "thread"]
          /\ UNCHANGED running
     ELSE /\ board' = [board EXCEPT !.stage = "none", !.mode = "thread", !.seq = @ + 1]
          /\ StartTask(Working("posts", Reader, NoForum, board.topic, board.seq + 1))
HandleError(m) ==
  /\ m.m = "err" /\ board' = [board EXCEPT !.err = TRUE] /\ UNCHANGED running
BoardsUpdate ==
  /\ \E m \in DOMAIN inbox2 :
       /\ Got(m)
       /\ \/ HandleForums(m) \/ HandleTopics(m) \/ HandlePosts(m)
          \/ HandleTopicCreated(m) \/ HandlePostCreated(m) \/ HandleError(m)
  /\ UNCHANGED <<fplan, fclock, forumTables, wish>>

ForumListKey ==
  /\ board.mode = "forums" /\ board.listed /\ Spent("enter")
  /\ \E f \in ForumNames :
       /\ board' = [board EXCEPT !.seq = @ + 1]
       /\ StartTask(Working("topics", Reader, f, Nil, board.seq + 1))
       /\ AsksFor(<<"topics", f>>)
  /\ Tick /\ UNCHANGED keyed
TopicListKey ==
  /\ board.mode = "topics"
  /\ \/ /\ Spent("esc")
        /\ board' = [board EXCEPT !.seq = @ + 1, !.mode = "forums", !.forum = NoForum,
                                  !.topics = <<>>]
        /\ AsksFor(<<"forums">>) /\ UNCHANGED running
     \/ /\ Spent("down") /\ board.cursor < Len(board.topics)
        /\ board' = [board EXCEPT !.cursor = @ + 1]
        /\ UNCHANGED <<running, wish>>
     \/ /\ Spent("new")
        /\ board' = [board EXCEPT !.stage = "new", !.mode = "compose"]
        /\ UNCHANGED <<running, wish>>
     \/ /\ board.topics # <<>> /\ Spent("enter")
        /\ board' = [board EXCEPT !.seq = @ + 1]
        /\ StartTask(Working("posts", Reader, NoForum, board.topics[board.cursor], board.seq + 1))
        /\ AsksFor(<<"thread", board.topics[board.cursor]>>)
  /\ Tick /\ UNCHANGED keyed
ThreadKey ==
  /\ board.mode = "thread"
  /\ \/ /\ Spent("esc")
        /\ board' = [board EXCEPT !.seq = @ + 1, !.mode = "topics", !.topic = Nil,
                                  !.posts = <<>>]
        /\ AsksFor(<<"topics", board.forum>>)
     \/ /\ Spent("reply")
        /\ board' = [board EXCEPT !.stage = "reply", !.mode = "compose"]
        /\ UNCHANGED wish
  /\ Tick /\ UNCHANGED <<running, keyed>>
\* The compose box stays open until the answer comes, so it can be submitted
\* again, or left for what it was opened over.
ComposeKey ==
  /\ board.mode = "compose"
  /\ \/ /\ Spent("esc")
        /\ board' = [board EXCEPT !.stage = "none",
                                  !.mode = IF board.topic # Nil THEN "thread" ELSE "topics"]
        /\ UNCHANGED <<running, wish>>
     \/ /\ Spent("submit") /\ UNCHANGED <<board, wish>>
        /\ \/ board.stage = "new" /\ ShowsForum
              /\ StartTask(Working("create", Reader, board.forum, Nil, 0))
           \/ board.stage = "reply" /\ board.topic # Nil
              /\ StartTask(Working("reply", Reader, topics[board.topic].forum, board.topic, 0))
  /\ Tick /\ UNCHANGED keyed
\* What the others do, over the web or on screens of their own.
OthersPost ==
  /\ \E w \in Writers :
       \/ /\ <<w, "create">> \in DOMAIN fplan
          /\ fplan' = fplan (-) SetToBag({<<w, "create">>})
          /\ \E f \in ForumNames : StartTask(Working("create", w, f, Nil, 0))
       \/ /\ <<w, "reply">> \in DOMAIN fplan
          /\ fplan' = fplan (-) SetToBag({<<w, "reply">>})
          /\ \E t \in {p.topic : p \in Range(posts)} :
               StartTask(Working("reply", w, topics[t].forum, t, 0))
       \/ /\ <<w, "view">> \in DOMAIN fplan
          /\ fplan' = fplan (-) SetToBag({<<w, "view">>})
          /\ \E t \in DOMAIN topics : StartTask(Working("touch", w, NoForum, t, 0))
  /\ Tick /\ UNCHANGED <<keyed, board, wish>>
-----------------------------------------------------------------------------
(* The web's pages. *)
PageCount(total) == IF total = 0 THEN 1 ELSE (total + PerPage - 1) \div PerPage
NewPageNav(page, total) ==
  IF page < 1 THEN 1 ELSE IF page > PageCount(total) THEN PageCount(total) ELSE page
\* boardForum: the total is the forum's counter.
ForumPage(f, page) ==
  ListTopicsInForumPaged(f, PerPage, (NewPageNav(page, forums[f].count) - 1) * PerPage)
\* boardTopic: GetTopic reads no post count, so the total it carries is zero.
GetTopicPostCount(t) == 0
TopicPage(t, page) ==
  ListPostsInTopicPaged(t, PerPage, (NewPageNav(page, GetTopicPostCount(t)) - 1) * PerPage)

ForumsInit ==
  /\ fplan \in ForumPlans /\ fclock = 1
  /\ forums = [f \in ForumNames |-> [count |-> IF f = Forum THEN 1 ELSE 0, activity |-> 0]]
  /\ topics = <<[forum |-> Forum, by |-> Reader, last |-> 0]>>
  /\ posts = <<[topic |-> 1, by |-> Reader, at |-> 0]>>
  /\ postReads = <<>> /\ inbox2 = EmptyBag
  /\ wish = [to |-> <<"forums">>, from |-> <<"forums">>, lost |-> FALSE]
  /\ board = [mode |-> "forums", listed |-> FALSE, seq |-> 0, forum |-> NoForum, topics |-> <<>>, cursor |-> 1,
              unread |-> <<>>, unreadForum |-> <<>>, topic |-> Nil, posts |-> <<>>,
              stage |-> "none", err |-> FALSE]
  /\ running = SetToBag({[k |-> "forums", by |-> Reader, step |-> 1, forum |-> NoForum,
                          topic |-> Nil, seq |-> 0, at |-> 0, list |-> <<>>]})
ForumsNext ==
  \/ \E x \in DOMAIN running :
       CreateTopic(x) \/ Reply(x) \/ TouchTopicRead(x) \/ LoadForums(x) \/ LoadTopics(x)
       \/ LoadPosts(x)
  \/ BoardsUpdate \/ ForumListKey \/ TopicListKey \/ ThreadKey \/ ComposeKey \/ OthersPost
ForumsSpec == ForumsInit /\ [][ForumsNext]_forumVars
-----------------------------------------------------------------------------
\* A load whose answer the screen will take.
Awaited ==
  \/ \E x \in DOMAIN running : x.k \in {"topics", "posts"} /\ x.seq = board.seq
  \/ \E m \in DOMAIN inbox2 : m.m \in {"topics", "posts"} /\ m.seq = board.seq
\* The reader has a topic or a post, but for those of the seed. The answer to what
\* he wrote goes to the thread wherever he is.
HasWritten ==
  \/ \E n \in DOMAIN topics : topics[n].by = Reader /\ n > 1
  \/ \E n \in DOMAIN posts : posts[n].by = Reader /\ n > 1
StandsAt(place) ==
  /\ Beneath = place[1]
  /\ Beneath = "topics" => board.forum = place[2]
  /\ Beneath = "thread" => board.topic = place[2]

\* "A slow response can't paint a forum or topic the user already navigated
\* away from": whatever else is still on its way, the screen is where the last key
\* that navigates asked to be, or it is still where that key was pressed, and the
\* answer is awaited or its load has failed.
LandsWhereAsked ==
  ~HasWritten => StandsAt(wish.to) \/ (StandsAt(wish.from) /\ (Awaited \/ wish.lost))

\* When nobody is writing and nothing failed, the forum's counters agree with
\* its topics and posts, in whatever order two writers' updates arrived, so
\* that the pages of the forum reach every topic.
CountersAgree ==
  (\A x \in DOMAIN running : x.k \notin {"create", "reply"}) => \A f \in ForumNames :
    /\ \A t \in TopicsIn(f) : \E page \in 1 .. Len(topics) : t \in Range(ForumPage(f, page))
    /\ \A p \in DOMAIN posts : topics[posts[p].topic].forum = f =>
         forums[f].activity >= posts[p].at

\* A thread shows the posts of the topic it says, whole and in order, as they stood at
\* some time: a reply that began earlier may come in between them later.
AsItStood(s, t) == \E n \in 0 .. Len(posts) : s = ByTime({p \in PostsIn(t) : p <= n})
ThreadOfOneTopic ==
  board.mode = "thread" /\ board.topic # Nil => AsItStood(board.posts, board.topic)

\* What the boards show is what was asked for, whole and in place.
BoardFaithful == LandsWhereAsked /\ ThreadOfOneTopic /\ CountersAgree
-----------------------------------------------------------------------------
(* What the comments of the code say, and the code does not do. *)

\* navSeq: no slow response will "yank them back into a thread they Esc'd out
\* of". What a mode draws is there to be drawn.
NothingDrawnFromNil ==
  /\ board.mode = "topics" => ShowsForum
  /\ board.mode = "thread" => ShowsForum /\ board.topic # Nil

\* navSeq "is bumped on every view-changing transition (drill-in and Esc-back)": a
\* box that is open is shown. A thread that was asked for before closes it, or takes
\* the user who has left it by esc away from the topics.
DraftIsShown == board.stage # "none" => board.mode = "compose"

\* CreateTopic adds topic and post "in a single transaction so the forum list never
\* sees a topic with zero posts".
NoEmptyTopic == \A t \in DOMAIN topics : PostsIn(t) # {}

\* PostsPage "lets the web thread view page through long threads": every post is
\* on some page of its thread.
EveryPostHasAPage ==
  \A p \in DOMAIN posts : \E page \in 1 .. Len(posts) : p \in Range(TopicPage(posts[p].topic, page))
=============================================================================
