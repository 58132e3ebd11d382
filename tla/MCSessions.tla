------------------------------ MODULE MCSessions ------------------------------
(***************************************************************************)
(* What runs as long as sessions do: small instances of the sessions with  *)
(* their counter, registry and presence, of the sysop console over the     *)
(* replicas' caches, of the full browser's launches, and of the root model *)
(* with the wall's dispatcher.  They share nothing here, so a behaviour is *)
(* about one of them, and the others stay where they start, with nothing   *)
(* under way and no action that fairness asks for.                         *)
(***************************************************************************)
EXTENDS Sessions, Console, Carbonyl, Root

CONSTANT Parts   (* the parts this run is about                             *)

VARIABLE part

OneUser == [b \in Browsers |-> 1]
TwoCaps == {[global |-> 2, handle |-> 1], [global |-> 2, handle |-> 2]}

Replicas == 1 :> "h1" @@ 2 :> "h2"
People ==
  LET person == [sysop |-> FALSE, banned |-> FALSE, keyOnly |-> FALSE, keys |-> 0, posts |-> 0]
  IN  1 :> [person EXCEPT !.sysop = TRUE] @@ 2 :> [person EXCEPT !.sysop = TRUE, !.keys = 1]
      @@ 3 :> [person EXCEPT !.keyOnly = TRUE, !.keys = 1, !.posts = 1]
FirstEvents == <<"ban", "wall", "kick">>

\* What the two sysops type: one changes a setting, bans an address or takes a ban
\* back that is not there; both work on the users; one reads the events.
Key(k)  == [do |-> "key", arg |-> k]
Tab(t)  == [do |-> "tab", arg |-> t]
Nav(k)  == [do |-> "nav", arg |-> k]
Line(verb, target, value) ==
  [do |-> "line", arg |-> [verb |-> verb, target |-> target, value |-> value]]
Plan(one, two, written, fresh) ==
  [of |-> 1 :> one @@ 2 :> two, tables |-> written, fresh |-> fresh]
NoPlan == Plan(<<>>, <<>>, {}, {})
Plans ==
  {NoPlan,
   Plan(<<Tab("settings"), Line("set", "cap", "a")>>, <<>>, {"settings"}, {}),
   Plan(<<Tab("bans"), Line("ban-ip", "x", "")>>, <<>>, {"bans"}, {}),
   Plan(<<Tab("bans"), Line("unban-ip", "x", "")>>, <<>>, {"bans"}, {}),
   Plan(<<Tab("users"), Line("unsysop", 2, ""), Line("clear-passwordless", 3, "")>>,
        <<Tab("users"), Line("delete-user", 3, ""), Key("y")>>, {}, {}),
   Plan(<<Tab("users"), Line("remove-keys", 3, ""), Key("enter"), Line("wall", 0, ""), Key("n")>>,
        <<Tab("users"), Line("ban", 3, ""), Key("esc")>>, {}, {}),
   Plan(<<Nav("pgdown"), Nav("down"), Nav("open"), Key("esc"), Nav("end"), Nav("up"), Key("esc")>>,
        <<>>, {}, {1})}

allVars == <<part, vars, consoleVars, carbonylVars, rootVars>>

PartsInit ==
  /\ part \in Parts
  /\ Init /\ ConsoleInit /\ CarbonylInit /\ RootInit
  /\ part = "console" <=> script # NoPlan.of
  /\ part # "browser" => limits.handle = 1

\* Keys are typed where there can be one launch at a time.
Launched ==
  /\ CarbonylNext \/ \E b \in Browsers : Launch(b) \/ TakeAnswer(b)
  /\ limits.handle = 2 => keyed' = keyed

\* Time is let pass where a ban may run out.
Steered == ConsoleNext /\ ("bans" \notin tables => clock' = clock)

PartsNext ==
  \/ part = "sessions" /\ Next        /\ UNCHANGED <<part, consoleVars, carbonylVars, rootVars>>
  \/ part = "console"  /\ Steered     /\ UNCHANGED <<part, vars, carbonylVars, rootVars>>
  \/ part = "browser"  /\ Launched    /\ UNCHANGED <<part, vars, consoleVars, rootVars>>
  \/ part = "root"     /\ RootNext    /\ UNCHANGED <<part, vars, consoleVars, carbonylVars>>

PartsSpec == PartsInit /\ [][PartsNext]_allVars
FairParts == PartsSpec /\ SessionFair /\ ConsoleFair /\ CarbonylFairness /\ RootFair
=============================================================================
