----------------------------- MODULE MCCommunity -----------------------------
(***************************************************************************)
(* What the users of one community do to each other and to their accounts: *)
(* small instances of the chat screen and of the chat page over the chat   *)
(* service, of the forums, of the logins, of the OAuth links, of the       *)
(* profile's places and of the account pages.  They share nothing here but *)
(* the two chats their service, so a behaviour is about one part, and the  *)
(* others have empty scripts and stay where they start.                    *)
(***************************************************************************)
EXTENDS ChatScreen, WebChat, Forums, Login, Linking, Places, Account

CONSTANT Parts   (* the parts this run is about                             *)

VARIABLE part

\* A plan is a bag: who does what, in any order.
BagOf(plan) == [d \in Range(plan) |-> Cardinality({n \in DOMAIN plan : plan[n] = d})]

A(op, arg) == <<"ann", op, arg>>
M(op, arg) == <<"me", op, arg>>
ScreenPlans == {BagOf(p) : p \in {
  <<A("send", "hi"), A("edit", "pic"), M("send", "hi")>>,
  <<A("send", "hi"), A("edit", "pic"), A("edit", "hi")>>,
  <<A("send", "hi"), A("delete", ""), M("react", "+")>>,
  <<M("send", "hi"), M("pin", ""), A("unpin", "")>>,
  <<M("join", den), M("leave", "")>>,
  <<M("dm", "ann"), A("dm", "me")>>,
  <<M("esc", ""), M("open", ""), A("send", "hi")>>,
  <<M("finger", ""), M("open", ""), A("send", "hi")>>,
  <<M("topic", "t"), A("typing", "")>>,
  <<A("send", "hi"), M("notice", ""), M("notice", ""), M("notice", "")>>,
  <<M("send", "hi"), M("reply", "hi"), M("thread", ""), M("esc", "")>>,
  <<A("send", "pic"), M("scroll", ""), M("resize", "")>>,
  <<M("join", den), M("switch", "")>>}}
PagePlans == {BagOf(p) : p \in {
  <<M("visit", lobby), A("send", "hi"), A("react", "+")>>,
  <<M("visit", den), M("send", "hi"), M("delete", "")>>,
  <<M("visit", lobby), M("send", "hi"), M("edit", "pic"), M("edit", "hi")>>,
  <<M("visit", lobby), A("send", "hi"), A("edit", "pic"), A("delete", "")>>,
  <<M("visit", lobby), M("send", "hi"), M("react", "+"), M("unreact", "+")>>,
  <<M("visit", lobby), A("send", "hi"), M("drop", ""), A("send", "pic")>>,
  <<M("dm", "ann"), A("send", "hi"), M("visit", lobby)>>,
  <<A("dm", "me"), A("send", "hi"), M("visit", DMChannelName("ann", "me"))>>,
  <<M("webjoin", den), A("send", "hi"), A("topic", "t")>>,
  <<M("visit", lobby), A("send", "hi"), M("pin", ""), M("unpin", "")>>}}
AllPlans == {EmptyBag} \cup ScreenPlans \cup PagePlans
HomeChannels == {lobby}

My(d) == <<"me", d>>
Her(d) == <<"ann", d>>
BoardPlans == {BagOf(p) : p \in {
  <<>>,
  <<My("enter"), My("enter"), My("esc"), My("esc"), My("enter")>>,
  <<My("enter"), My("down"), My("enter"), Her("create")>>,
  <<My("enter"), My("enter"), My("new"), My("esc")>>,
  <<My("enter"), My("enter"), Her("reply"), My("esc")>>,
  <<My("enter"), My("enter"), Her("reply"), Her("reply")>>,
  <<My("enter"), My("new"), My("submit"), My("esc")>>,
  <<My("enter"), My("enter"), My("reply"), My("submit")>>,
  <<Her("create"), Her("create"), Her("view")>>,
  <<Her("reply"), Her("view"), Her("view")>>}}
-----------------------------------------------------------------------------
Person(pw) == [pw |-> pw, stale |-> FALSE, banned |-> FALSE, keyOnly |-> FALSE,
               sysop |-> FALSE, keys |-> {}]
People == "ann" :> [Person("right") EXCEPT !.stale = TRUE, !.keys = {"k1"}]
       @@ "bob" :> [Person("b") EXCEPT !.banned = TRUE]
       @@ "kim" :> [Person("kk") EXCEPT !.keyOnly = TRUE, !.keys = {"k2"}]
Pass(h, p)     == [by |-> "password", handle |-> h, pw |-> p]
WithKey(h, k)  == [by |-> "key", handle |-> h, key |-> k]
Form(h, p, a)  == [by |-> "submit", handle |-> h, pw |-> p, adopt |-> a]
NewPassword(p) == [by |-> "change", pw |-> p]
Wrong == Pass("ann", "wrong")
Right == Pass("ann", "right")
From(addrs, does) == [from |-> addrs, does |-> does]
Logins ==
  {From(<<>>, <<>>),
   \* one and two guessers of a handle; a guesser of many from one address
   From(<<"x">>, << <<Wrong, Wrong, Wrong, Right>> >>),
   From(<<"x", "y">>, << <<Wrong, Wrong>>, <<Wrong, Wrong, Right>> >>),
   From(<<"x">>, << <<Wrong, Pass("bob", "z"), Pass("kim", "kk"), Pass("root", "z")>> >>),
   \* two who register the same handles; a change of password beside a rehash
   From(<<"x", "y">>,
        << <<Pass("new", "p"), Form("new", "p", TRUE), Form("neu", "p", TRUE)>>,
           <<WithKey("new", "k3"), Form("new", "q", TRUE), Form("neu", "q", FALSE), [by |-> "esc"]>> >>),
   From(<<"x", "y">>,
        << <<WithKey("ann", "k9"), Right, NewPassword("next")>>,
           <<WithKey("ann", "k1"), WithKey("new", "k2"), Form("new", "q", TRUE), Form("new", "q", FALSE)>> >>)}

Start(p)    == [do |-> "begin", provider |-> p]
Consent(a)  == [do |-> "consent", account |-> a]
GoBack      == [do |-> "esc"]
Unlink1(w)   == [do |-> "unlink", web |-> w]
Withdraw    == [do |-> "revoke"]
OnWeb(p, a) == [do |-> "callback", provider |-> p, account |-> a]
LinkedBy(us, does) == [of |-> us, does |-> does]
Links ==
  {LinkedBy(<<>>, <<>>),
   LinkedBy(<<1, 2>>, << <<Start("Google"), Consent("a"), Unlink1(FALSE)>>,
                         <<OnWeb("Google", "a"), Unlink1(TRUE)>> >>),
   LinkedBy(<<1>>, << <<OnWeb("Google", "a"), Withdraw, OnWeb("Google", "a")>> >>),
   LinkedBy(<<1>>, << <<Start("Google"), Consent("a"), GoBack, Start("Microsoft")>> >>),
   LinkedBy(<<1>>, << <<Start("Google"), GoBack, Start("Google"), Consent("denied")>> >>)}
-----------------------------------------------------------------------------
Press1(d)  == [do |-> d]
Typed(q, a) == [do |-> "type", text |-> q, alias |-> a]
Pick(n)    == [do |-> "pick", nr |-> n]
Found(n, p) == [name |-> n, place |-> p]
Atlas == "rome" :> <<Found("rome", "Rome")>> @@ "oslo" :> <<Found("oslo", "Oslo")>>
      @@ "spring" :> <<Found("spring", "S1"), Found("spring", "S2")>> @@ "void" :> <<>>
Before == {Found("home", "Rome")}
AddOne(q, a) == <<Press1("add"), Typed(q, a), Press1("enter")>>
ListTour ==
  <<Press1("open")>> \o AddOne("rome", "") \o AddOne("spring", "a") \o <<Pick(2)>>
  \o AddOne("void", "")
  \o <<Press1("esc"), Press1("down"), Press1("swapUp"), Press1("rename"), Typed("", "b"),
       Press1("enter"), Press1("delete"), Press1("yes"), Press1("esc")>>
FormTour ==
  <<Typed("rome", ""), Press1("save"), Typed("spring", ""), Press1("save"), Pick(1),
    Typed("", ""), Press1("save"), Press1("yes"), Typed("oslo", ""), Press1("save"),
    Typed("rome", ""), Press1("save")>>
Waiting(terminals) == [hasty |-> 0, keys |-> terminals]
Trips ==
  {Waiting(<<>>), Waiting(<<ListTour>>), Waiting(<<FormTour>>),
   Waiting(<<FormTour, <<Press1("open"), Press1("delete"), Press1("yes")>> >>)}

NewKeyLine(k) == [do |-> "key", key |-> k]
ChangeTo(c, n) == [do |-> "password", current |-> c, next |-> n]
Request(d) == [do |-> d, next |-> "", current |-> "", key |-> "", handle |-> "", image |-> 0]
LogIn(p)   == [Request("login") EXCEPT !.current = p]
Upload(i)  == [Request("picture") EXCEPT !.image = i]
TwoKeys == {[id |-> 1, key |-> "a"], [id |-> 2, key |-> "b"]}
DropKey == <<Press1("delete"), Press1("yes")>>
LockTour ==
  <<Press1("settings"), Press1("require"), Press1("yes"), Press1("save"), Press1("settings"),
    Press1("keys")>> \o DropKey \o DropKey
  \o <<Press1("esc"), Press1("settings"), Press1("require"), Press1("save"), Press1("settings"),
       Press1("keys")>> \o DropKey
KeyTour ==
  <<Press1("keys")>> \o DropKey \o DropKey
  \o <<Press1("esc"), Press1("openPassword"), ChangeTo("", "x"), ChangeTo("", "longer"),
       Press1("keys"), Press1("add"), NewKeyLine("a"), NewKeyLine("c"), Press1("down")>>
  \o DropKey \o DropKey
OneAccount(pw, held, terminals, does, cuts) ==
  [user |-> [handle |-> "me", password |-> pw, requireSsh |-> FALSE, picture |-> FALSE],
   creds |-> held, terminals |-> terminals, todo |-> does, hasty |-> 0, crashes |-> cuts]
Owners ==
  {OneAccount("pw", {}, {}, <<>>, 0),
   OneAccount("pw", TwoKeys, {1}, <<LockTour>>, 0), OneAccount("", TwoKeys, {1}, <<KeyTour>>, 0),
   OneAccount("pw", {}, {}, << <<LogIn("pw"), Request("logoutAll"), Request("list")>>,
                          <<LogIn("pw"), Request("list"), Request("logout")>> >>, 0),
   OneAccount("pw", TwoKeys, {},
         << <<LogIn("pw"), Request("revoke"), Request("list")>>,
            <<LogIn("pw"), [Request("password") EXCEPT !.current = "pw", !.next = "longer"],
              [Request("rename") EXCEPT !.handle = "you"], Request("logout")>> >>, 1),
   OneAccount("pw", TwoKeys, {}, << <<LogIn("pw"), Upload(1), Upload(2), Request("clearPicture"), Upload(1)>> >>, 2)}
-----------------------------------------------------------------------------
allVars == <<part, chatScreenVars, webVars, forumVars, loginVars, linkVars, placeVars, accountVars>>

\* A component that is not the behaviour's part has nothing to do.
CommunityInit ==
  /\ part \in Parts
  /\ ChatScreenInit
  /\ chatTodo \in CASE part = "screen" -> ScreenPlans [] part = "page" -> PagePlans
                    [] OTHER -> {EmptyBag}
  /\ WebInit
  /\ ForumsInit  /\ (part = "forums" <=> fplan # EmptyBag)
  /\ LoginInit   /\ (part = "login" <=> froms # <<>>)
  /\ LinkInit    /\ (part = "linking" <=> users # <<>>)
  /\ PlacesInit  /\ (part = "places" <=> keys # <<>>)
  /\ AccountInit /\ (part = "account" <=> todo # <<>>)

CommunityNext ==
  \/ part = "screen"  /\ ChatScreenNext
     /\ UNCHANGED <<part, webVars, forumVars, loginVars, linkVars, placeVars, accountVars>>
  \/ part = "page"    /\ WebNext
     /\ UNCHANGED <<part, screenVars, forumVars, loginVars, linkVars, placeVars, accountVars>>
  \/ part = "forums"  /\ ForumsNext
     /\ UNCHANGED <<part, chatScreenVars, webVars, loginVars, linkVars, placeVars, accountVars>>
  \/ part = "login"   /\ LoginNext
     /\ UNCHANGED <<part, chatScreenVars, webVars, forumVars, linkVars, placeVars, accountVars>>
  \/ part = "linking" /\ LinkNext
     /\ UNCHANGED <<part, chatScreenVars, webVars, forumVars, loginVars, placeVars, accountVars>>
  \/ part = "places"  /\ PlacesNext
     /\ UNCHANGED <<part, chatScreenVars, webVars, forumVars, loginVars, linkVars, accountVars>>
  \/ part = "account" /\ AccountNext
     /\ UNCHANGED <<part, chatScreenVars, webVars, forumVars, loginVars, linkVars, placeVars>>

CommunitySpec == CommunityInit /\ [][CommunityNext]_allVars
=============================================================================
