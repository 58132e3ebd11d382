-------------------------------- MODULE Places --------------------------------
(* A user's saved locations: the service (realtime/locations.go) and its SQL, *)
(* the locations window and the location field of the profile page            *)
(* (tui/screens/profile_locations.go, profile.go), and the session's cached   *)
(* primary location. One user, who may be signed in more than once; the       *)
(* statements of a call interleave with those of every other call.            *)
EXTENDS Integers, Sequences, FiniteSets, SequencesExt

CONSTANTS
  Geocode,       \* what a query finds: query -> sequence of [name, place]
  Legacy,        \* users.location_* of an earlier deploy: a set of at most one [name, place]
  NoPlace,
  MaxSaved,      \* MaxSavedLocationsPerUser
  PlaceScripts   \* bound: [keys: terminal -> its keys, hasty: how many of its last keys it presses
                 \* without waiting for the answers to the ones before]

\* The terminals of a script are finitely many, and their keys a sequence.
ASSUME PlaceAssumption ==
  /\ MaxSaved \in Nat
  /\ \A a, b \in Legacy : a = b
  /\ \A s \in PlaceScripts :
       IsFiniteSet(DOMAIN s.keys) /\ \A t \in DOMAIN s.keys : s.keys[t] \in Seq(Range(s.keys[t]))

VARIABLES
  rows,      \* user_saved_locations: [id, label, place, order]
  nextId,
  mirror,    \* users.location
  calls,     \* service calls under way: [nr, by, op, step, seen, ...]
  pages,     \* terminal -> its profile page
  keys,      \* terminal -> the keys its user still presses
  unwaited

placeVars == <<rows, nextId, mirror, calls, pages, keys, unwaited>>
Seats == DOMAIN pages
NoRow == [id |-> 0, label |-> "", place |-> NoPlace, order |-> 0]
\* ORDER BY sort_order, id.
Precedes(a, b) == a.order < b.order \/ (a.order = b.order /\ a.id < b.id)
Standing(saved, r) == 1 + Cardinality({q \in saved : Precedes(q, r)})
InOrder(saved) == [i \in 1..Cardinality(saved) |-> CHOOSE r \in saved : Standing(saved, r) = i]
FirstOf(saved) == IF saved = {} THEN NoRow ELSE InOrder(saved)[1]
Listed == InOrder(rows)
Primary == FirstOf(rows)
Within(i, n) == IF n = 0 THEN 1 ELSE IF i > n THEN n ELSE i
-----------------------------------------------------------------------------
(* The service. A call is at a step, one statement each.                      *)
NewCall(t, op, step) ==
  [nr |-> CHOOSE n \in 0..Cardinality(calls) : \A c \in calls : c.nr # n, by |-> t, op |-> op, step |-> step,
   seen |-> <<>>, next |-> 0, a |-> NoRow, b |-> NoRow, id |-> 0, label |-> "", place |-> NoPlace, query |-> ""]
PlaceGoes(c, d) == calls' = (calls \ {c}) \cup {d} /\ UNCHANGED pages
Answers(c, msg) ==
  /\ calls' = calls \ {c}
  /\ pages' = [pages EXCEPT ![c.by].inbox = Append(@, msg)]
Msg(kind, err) == [kind |-> kind, err |-> err, list |-> <<>>, results |-> <<>>, text |-> ""]
Kind(c) == IF c.op \in {"set", "clear", "noop"} THEN "saved" ELSE "mutated"
Fails(c, err) == Answers(c, Msg(Kind(c), err))

\* List, at the start of Add, SetPrimaryFromGeocode, SeedFromProfile and of a reload.
ListPlaces(c) ==
  /\ c.step = "list"
  /\ CASE c.op = "reload" -> Answers(c, [Msg("list", "") EXCEPT !.list = Listed])
       [] c.op = "seed" -> IF rows # {} THEN Answers(c, Msg("seeded", ""))
                           ELSE PlaceGoes(c, [c EXCEPT !.op = "seedadd"])
       [] Len(Listed) >= MaxSaved /\ c.op \in {"add", "seedadd"} -> Fails(c, "limit")
       [] Len(Listed) < MaxSaved /\ c.op \in {"add", "seedadd"} -> PlaceGoes(c, [c EXCEPT !.step = "next", !.seen = Listed])
       [] OTHER -> PlaceGoes(c, [c EXCEPT !.step = "promote", !.seen = Listed])
  /\ UNCHANGED <<rows, nextId, mirror, keys, unwaited>>

NextSortOrder(c) ==
  /\ c.step = "next"
  /\ PlaceGoes(c, [c EXCEPT !.step = "insert",
                !.next = IF rows = {} THEN 0 ELSE 1 + Max({r.order : r \in rows})])
  /\ UNCHANGED <<rows, nextId, mirror, keys, unwaited>>

\* The unique index on the user's labels.
Taken(label, id) == \E r \in rows : r.label = label /\ r.id # id
Insert(label, place, order) ==
  /\ rows' = rows \cup {[id |-> nextId, label |-> label, place |-> place, order |-> order]}
  /\ nextId' = nextId + 1
Add(c) ==
  /\ c.step = "insert"
  /\ IF Taken(c.label, 0) THEN Fails(c, "duplicate") /\ UNCHANGED <<rows, nextId>>
     ELSE /\ Insert(c.label, c.place, c.next)
          /\ IF c.seen = <<>> THEN PlaceGoes(c, [c EXCEPT !.step = "mirror"]) ELSE Fails(c, "")
  /\ UNCHANGED <<mirror, keys, unwaited>>

SetSortOrder(id, order) == rows' = {IF r.id = id THEN [r EXCEPT !.order = order] ELSE r : r \in rows}
SetPrimaryFromGeocode(c) ==
  /\ c.step = "promote"
  /\ LET matches == {i \in DOMAIN c.seen : c.seen[i].place = c.place}
         match == IF matches = {} THEN 0 ELSE Min(matches)
         head == IF c.seen = <<>> THEN 0 ELSE c.seen[1].order - 1 IN
     IF match # 0
     THEN /\ IF match = 1 THEN UNCHANGED rows ELSE SetSortOrder(c.seen[match].id, head)
          /\ PlaceGoes(c, [c EXCEPT !.step = "mirror", !.label = c.seen[match].label])
          /\ UNCHANGED nextId
     ELSE IF Len(c.seen) >= MaxSaved THEN Fails(c, "limit") /\ UNCHANGED <<rows, nextId>>
     ELSE IF Taken(c.label, 0) THEN Fails(c, "duplicate") /\ UNCHANGED <<rows, nextId>>
     ELSE Insert(c.label, c.place, head) /\ PlaceGoes(c, [c EXCEPT !.step = "mirror"])
  /\ UNCHANGED <<mirror, keys, unwaited>>

ClearPrimary(c) ==
  /\ c.step = "primary"
  /\ PlaceGoes(c, IF rows = {} THEN [c EXCEPT !.step = "read"] ELSE [c EXCEPT !.step = "delete", !.id = Primary.id])
  /\ UNCHANGED <<rows, nextId, mirror, keys, unwaited>>
\* Mutant: the mirror is not refreshed.
DeleteOnly(c) ==
  /\ c.step = "delete"
  /\ rows' = {r \in rows : r.id # c.id}
  /\ Fails(c, "")
  /\ UNCHANGED <<nextId, mirror, keys, unwaited>>

Delete(c) ==
  /\ c.step = "delete"
  /\ rows' = {r \in rows : r.id # c.id}
  /\ PlaceGoes(c, [c EXCEPT !.step = "read"])
  /\ UNCHANGED <<nextId, mirror, keys, unwaited>>
Rename(c) ==
  /\ c.step = "rename"
  /\ IF Taken(c.label, c.id) /\ \E r \in rows : r.id = c.id THEN Fails(c, "duplicate") /\ UNCHANGED rows
     ELSE /\ rows' = {IF r.id = c.id THEN [r EXCEPT !.label = c.label] ELSE r : r \in rows}
          /\ PlaceGoes(c, [c EXCEPT !.step = "read"])
  /\ UNCHANGED <<nextId, mirror, keys, unwaited>>
SwapFirst(c) ==
  /\ c.step = "swap" /\ SetSortOrder(c.a.id, c.b.order)
  /\ PlaceGoes(c, [c EXCEPT !.step = "swapped"])
  /\ UNCHANGED <<nextId, mirror, keys, unwaited>>
SwapSecond(c) ==
  /\ c.step = "swapped" /\ SetSortOrder(c.b.id, c.a.order)
  /\ PlaceGoes(c, [c EXCEPT !.step = "read"])
  /\ UNCHANGED <<nextId, mirror, keys, unwaited>>

\* refreshMirror: the primary is read and its label written.
RefreshMirror(c) ==
  /\ c.step = "read"
  /\ PlaceGoes(c, [c EXCEPT !.step = "mirror", !.label = Primary.label])
  /\ UNCHANGED <<rows, nextId, mirror, keys, unwaited>>
SetUserLocationLabel(c) ==
  /\ c.step = "mirror" /\ mirror' = c.label
  /\ IF Kind(c) = "saved" THEN PlaceGoes(c, [c EXCEPT !.step = "update"]) ELSE Fails(c, "")
  /\ UNCHANGED <<rows, nextId, keys, unwaited>>
\* UpdateProfile writes the other columns of the row.
UpdateOthers(c) ==
  /\ c.step = "update" /\ Fails(c, "")
  /\ UNCHANGED <<rows, nextId, mirror, keys, unwaited>>
Search(c) ==
  /\ c.step = "geocode"
  /\ Answers(c, [Msg(c.op, "") EXCEPT !.results = Geocode[c.query]])
  /\ UNCHANGED <<rows, nextId, mirror, keys, unwaited>>
\* loadSelf reads the user's own row.
LoadOwnRow(c) ==
  /\ c.step = "self"
  /\ Answers(c, [Msg("self", "") EXCEPT !.text = mirror])
  /\ UNCHANGED <<rows, nextId, mirror, keys, unwaited>>
-----------------------------------------------------------------------------
(* The page. A handler is a page and the calls it starts.                     *)
AutoAccept(query, results) ==
  /\ results # <<>> /\ results[1].name = query
  /\ \A i \in 2..Len(results) : results[i].name # query
Starts(p, c) == [page |-> p, call |-> {c}]
Quiet(p) == [page |-> p, call |-> {}]
Reload(t) == NewCall(t, "reload", "list")
Save(t, p, act, label, place) ==   \* dispatchProfileSave
  Starts([p EXCEPT !.working = TRUE],
         [NewCall(t, act, CASE act = "set" -> "list" [] act = "clear" -> "primary" [] OTHER -> "update")
            EXCEPT !.label = label, !.place = place])
CommitGeocoded(t, p, result) ==
  Starts([p EXCEPT !.working = TRUE],
         [NewCall(t, "add", "list") EXCEPT !.label = IF p.alias = "" THEN result.name ELSE p.alias,
                                           !.place = result.place])

LocationsLoaded(t, p, msg) == Quiet([p EXCEPT !.list = msg.list, !.cursor = Within(@, Len(msg.list))])
Mutated(t, p, msg) ==
  IF msg.err # "" THEN Quiet([p EXCEPT !.working = FALSE])
  ELSE Starts([p EXCEPT !.working = FALSE, !.form = "", !.renaming = 0, !.primary = Primary], Reload(t))
Searched(t, p, msg) ==
  IF msg.results = <<>> THEN Quiet([p EXCEPT !.searching = FALSE, !.found = <<>>])
  ELSE IF AutoAccept(p.typed, msg.results)
       THEN CommitGeocoded(t, [p EXCEPT !.searching = FALSE, !.found = <<>>], msg.results[1])
  ELSE Quiet([p EXCEPT !.searching = FALSE, !.found = msg.results])
Geocoded(t, p, msg) ==
  IF msg.results = <<>> THEN Quiet([p EXCEPT !.working = FALSE, !.query = ""])
  ELSE IF AutoAccept(p.query, msg.results) THEN Save(t, [p EXCEPT !.picks = <<>>], "set", p.query, msg.results[1].place)
  ELSE Quiet([p EXCEPT !.working = FALSE, !.picks = msg.results, !.mode = "picker"])
\* A save refreshes the session's primary and starts loadSelf, whose answer hydrates
\* the field: from the primary, or from the row that was read.
Saved(t, p, msg) ==
  IF msg.err # "" THEN Quiet([p EXCEPT !.working = FALSE])
  ELSE Starts([p EXCEPT !.working = FALSE, !.primary = Primary], NewCall(t, "self", "self"))
ProfileLoaded(t, p, msg) ==
  LET text == IF p.primary # NoRow THEN p.primary.label ELSE msg.text IN
  Quiet([p EXCEPT !.field = text, !.snapshot = text])

UpdatePlaces(t, p, msg) ==
  CASE msg.kind = "list" -> LocationsLoaded(t, p, msg)
    [] msg.kind = "mutated" -> Mutated(t, p, msg)
    [] msg.kind = "search" -> Searched(t, p, msg)
    [] msg.kind = "locate" -> Geocoded(t, p, msg)
    [] msg.kind = "saved" -> Saved(t, p, msg)
    [] msg.kind = "self" -> ProfileLoaded(t, p, msg)
    [] OTHER -> Quiet([p EXCEPT !.primary = Primary])   \* seeded

SubmitPlace(t, p) ==
  IF p.working THEN Quiet(p)
  ELSE
  CASE p.field = p.snapshot \/ (p.field = "" /\ p.primary = NoRow) -> Save(t, p, "noop", "", NoPlace)
    [] p.field # p.snapshot /\ p.field = "" /\ p.primary # NoRow -> Quiet([p EXCEPT !.mode = "confirmClear"])
    [] OTHER -> Starts([p EXCEPT !.working = TRUE, !.query = p.field],
                       [NewCall(t, "locate", "geocode") EXCEPT !.query = p.field])
Swap(t, p, to) ==
  IF p.cursor \notin DOMAIN p.list \/ to \notin DOMAIN p.list THEN Quiet(p)
  ELSE Starts([p EXCEPT !.working = TRUE, !.cursor = to],
              [NewCall(t, "swap", "swap") EXCEPT !.a = p.list[p.cursor], !.b = p.list[to]])

TabKey(t, p, k) ==
  CASE k.do = "save" -> SubmitPlace(t, p)
    [] k.do = "type" -> Quiet([p EXCEPT !.field = k.text])
    [] k.do = "open" -> Starts([p EXCEPT !.mode = "places", !.cursor = 1, !.form = "", !.found = <<>>,
                                         !.typed = "", !.alias = ""], Reload(t))
    [] OTHER -> Quiet(p)
ListKey(t, p, k) ==
  CASE k.do = "esc" -> Quiet([p EXCEPT !.mode = "tab"])
    [] k.do = "down" -> Quiet([p EXCEPT !.cursor = IF @ < Len(p.list) THEN @ + 1 ELSE @])
    [] k.do = "swapUp" -> Swap(t, p, p.cursor - 1)
    [] k.do = "swapDown" -> Swap(t, p, p.cursor + 1)
    [] k.do = "add" -> Quiet(IF Len(p.list) >= MaxSaved THEN p
                             ELSE [p EXCEPT !.form = "add", !.typed = "", !.alias = "", !.found = <<>>])
    [] k.do = "rename" -> Quiet(IF p.cursor \notin DOMAIN p.list THEN p
                                ELSE [p EXCEPT !.form = "rename", !.renaming = p.list[p.cursor].id,
                                               !.alias = p.list[p.cursor].label, !.found = <<>>])
    [] k.do = "delete" -> Quiet(IF p.cursor \notin DOMAIN p.list THEN p
                                ELSE [p EXCEPT !.mode = "confirmDelete", !.target = p.list[p.cursor].id])
    [] OTHER -> Quiet(p)
AddFormKey(t, p, k) ==
  CASE k.do = "pick" /\ k.nr \in DOMAIN p.found -> CommitGeocoded(t, p, p.found[k.nr])
    [] k.do = "enter" /\ p.found # <<>> -> CommitGeocoded(t, p, p.found[1])
    [] k.do = "esc" -> Quiet(IF p.found # <<>> \/ p.searching THEN [p EXCEPT !.found = <<>>, !.searching = FALSE]
                             ELSE [p EXCEPT !.form = ""])
    [] k.do = "enter" /\ p.found = <<>> /\ p.typed # "" -> Starts([p EXCEPT !.searching = TRUE],
                                                [NewCall(t, "search", "geocode") EXCEPT !.query = p.typed])
    [] k.do = "type" -> Quiet([p EXCEPT !.typed = k.text, !.alias = k.alias])
    [] OTHER -> Quiet(p)
RenameFormKey(t, p, k) ==
  CASE k.do = "esc" -> Quiet([p EXCEPT !.form = "", !.renaming = 0])
    [] k.do = "enter" /\ p.alias # "" -> Starts([p EXCEPT !.working = TRUE],
                            [NewCall(t, "rename", "rename") EXCEPT !.id = p.renaming, !.label = p.alias])
    [] k.do = "type" -> Quiet([p EXCEPT !.alias = k.alias])
    [] OTHER -> Quiet(p)
PickerKey(t, p, k) ==
  LET n == IF k.do = "enter" THEN 1 ELSE IF k.do = "pick" THEN k.nr ELSE 0 IN
  CASE n \in DOMAIN p.picks -> Save(t, [p EXCEPT !.picks = <<>>, !.mode = "tab"], "set", p.query, p.picks[n].place)
    [] k.do = "esc" -> Quiet([p EXCEPT !.picks = <<>>, !.query = "", !.mode = "tab"])
    [] OTHER -> Quiet(p)
AnswerPlaceQuestion(t, p, k) ==
  LET back == [p EXCEPT !.mode = IF p.mode = "confirmClear" THEN "tab" ELSE "places"] IN
  CASE k.do \in {"no", "esc"} -> Quiet(back)
    [] k.do = "yes" /\ p.mode = "confirmClear" -> Save(t, back, "clear", "", NoPlace)
    [] k.do = "yes" /\ p.mode # "confirmClear" -> Starts([back EXCEPT !.working = TRUE],
                              [NewCall(t, "delete", "delete") EXCEPT !.id = p.target])
    [] OTHER -> Quiet(p)
HandleKey(t, p, k) ==
  CASE p.mode = "tab" -> TabKey(t, p, k)
    [] p.mode = "picker" -> PickerKey(t, p, k)
    [] p.mode \in {"confirmClear", "confirmDelete"} -> AnswerPlaceQuestion(t, p, k)
    [] p.mode = "places" /\ p.form = "add" -> AddFormKey(t, p, k)
    [] p.mode = "places" /\ p.form = "rename" -> RenameFormKey(t, p, k)
    [] OTHER -> ListKey(t, p, k)

Does(t, effect) == pages' = [pages EXCEPT ![t] = effect.page] /\ calls' = calls \cup effect.call
Deliver(t) ==
  /\ \E i \in DOMAIN pages[t].inbox :
        Does(t, UpdatePlaces(t, [pages[t] EXCEPT !.inbox = RemoveAt(@, i)], pages[t].inbox[i]))
  /\ UNCHANGED <<rows, nextId, mirror, keys, unwaited>>
Idle(t) == pages[t].inbox = <<>> /\ \A c \in calls : c.by # t
Press(t) ==
  /\ keys[t] # <<>> /\ (Len(keys[t]) > unwaited => Idle(t))
  /\ keys' = [keys EXCEPT ![t] = Tail(@)]
  /\ Does(t, HandleKey(t, pages[t], Head(keys[t])))
  /\ UNCHANGED <<rows, nextId, mirror, unwaited>>
-----------------------------------------------------------------------------
NewPage == [mode |-> "tab", form |-> "", list |-> <<>>, cursor |-> 1, renaming |-> 0, target |-> 0, found |-> <<>>,
            searching |-> FALSE, working |-> FALSE, typed |-> "", alias |-> "", field |-> "", snapshot |-> "",
            query |-> "", picks |-> <<>>, primary |-> NoRow, inbox |-> <<>>]
\* A sign-in seeds the list from the columns of an earlier deploy.
SeedCall(t, l) ==
  [nr |-> t, by |-> t, op |-> "seed", step |-> "list", seen |-> <<>>, next |-> 0, a |-> NoRow, b |-> NoRow,
   id |-> 0, label |-> l.name, place |-> l.place, query |-> ""]
OpensWith(s) ==
  /\ keys = s.keys /\ unwaited = s.hasty
  /\ pages = [t \in DOMAIN s.keys |-> NewPage]
  /\ calls = {SeedCall(t, l) : t \in DOMAIN s.keys, l \in Legacy}
PlacesInit ==
  /\ rows = {} /\ nextId = 1 /\ mirror = ""
  /\ \E s \in PlaceScripts : OpensWith(s)
Service(c) ==
  \/ ListPlaces(c) \/ NextSortOrder(c) \/ Add(c) \/ SetPrimaryFromGeocode(c) \/ ClearPrimary(c) \/ Delete(c)
  \/ Rename(c) \/ SwapFirst(c) \/ SwapSecond(c) \/ RefreshMirror(c) \/ SetUserLocationLabel(c)
  \/ UpdateOthers(c) \/ Search(c) \/ LoadOwnRow(c)
PlacesNext == (\E t \in Seats : Press(t) \/ Deliver(t)) \/ (\E c \in calls : Service(c))
PlacesSpec == PlacesInit /\ [][PlacesNext]_placeVars
-----------------------------------------------------------------------------
(* When every call is over, a user who waits for each answer sees the truth:  *)
(* users.location and the cached primary are the first row's, the open list   *)
(* is the table's, and no two rows share a position.                          *)
PlacesSettle ==
  (unwaited = 0 /\ Cardinality(Seats) = 1 /\ \A t \in Seats : Idle(t)) =>
     /\ mirror = Primary.label
     /\ \A r, s \in rows : r # s => r.order # s.order
     /\ \A t \in Seats : /\ pages[t].primary = Primary
                         /\ pages[t].mode = "places" => pages[t].list = Listed

(* The list holds at most MaxSaved rows, and each label once.                 *)
PlacesBounded == /\ unwaited = 0 /\ Cardinality(Seats) = 1 => Cardinality(rows) <= MaxSaved
                 /\ \A r, s \in rows : r.label = s.label => r = s

(* The list settles within its bounds.                                        *)
PlacesSound == PlacesSettle /\ PlacesBounded
-----------------------------------------------------------------------------
(* What the comments of the code say, and the code does not do.               *)

(* swapWithPrev: "Cursor follows the row so the user can chain ↑↑ to push     *)
(* something all the way to the top": the positions of the rows stay distinct.*)
ChainMovesRow ==
  (\A t \in Seats : Idle(t)) => \A r, s \in rows : r # s => r.order # s.order

(* Esc while searching drops the search: no row is added afterwards for a     *)
(* form that was closed.                                                      *)
ClosedFormAddsNothing ==
  [][\A c \in calls' \ calls : c.op = "add" => pages[c.by].form = "add"]_placeVars
=============================================================================
