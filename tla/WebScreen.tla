----------------------------- MODULE WebScreen -----------------------------
(***************************************************************************)
(* The Web screen (screens/web.go, web_lists.go, web_editor.go) with its   *)
(* rows (data/gen/web_browsing.sql.go) over the full browser of Carbonyl:  *)
(* the address line, the bookmarks and the history, the editor of a        *)
(* bookmark's title, the question before a deletion, and the commands that *)
(* run meanwhile.  The sessions are one user's.  A title is a number; an   *)
(* address has passed ValidateURL and has its scheme.                      *)
(***************************************************************************)
EXTENDS Carbonyl, SequencesExt

CONSTANTS
  Urls,        (* addresses                                                 *)
  Titles,      (* titles a person types                                     *)
  Kept,        (* the addresses bookmarked before, newest first             *)
  Seen,        (* the addresses visited before, latest first                *)
  RecentLimit, (* recentHistoryLimit; in the code 25                        *)
  MaxJobs,     (* bound: commands of a screen under way                     *)
  MaxEdits,    (* bound: changes asked for                                  *)
  RowErrors,    (* may a statement fail?                                     *)
  Waits        (* may the user wait until nothing is under way, or not?     *)

\* The rows that were there before are a list, and the limit of a SELECT counts rows.
ASSUME WebAssumption ==
  Kept \in Seq(Range(Kept)) /\ Seen \in Seq(Range(Seen)) /\ RecentLimit \in Nat

VARIABLES
  bookmarks,   (* web_bookmarks, newest first: [id, url, title]             *)
  visited,      (* web_history, latest first: [id, url, count]               *)
  web,         (* the screens                                               *)
  nextRow, edits

webVars == <<bookmarks, visited, web, nextRow, edits, carbonylVars>>

Nothing == "nothing"
NoEditor == [id |-> 0, url |-> Nothing]
NoQuestion == [kind |-> "none", id |-> 0, url |-> Nothing]
Regions == <<"url", "bookmarks", "history">>

\* marks and recent are <<>> when not loaded, a list in a sequence of one when loaded.
NewWeb(waits) ==
  [marks |-> <<>>, recent |-> <<>>, focus |-> "url", typing |-> TRUE, line |-> Nothing,
   bm |-> 1, hs |-> 1, last |-> Nothing, editor |-> NoEditor, confirm |-> NoQuestion,
   rich |-> FALSE, todo |-> <<>>, waits |-> waits]

WebCmd(kind) == [kind |-> kind, id |-> 0, url |-> Nothing, title |-> 0, rows |-> <<>>, done |-> FALSE, ok |-> TRUE]
Marks(w)  == IF w.marks = <<>> THEN <<>> ELSE w.marks[1]
Recent(w) == IF w.recent = <<>> THEN <<>> ELSE w.recent[1]
Within(c, list) == IF list = <<>> THEN 1 ELSE IF c > Len(list) THEN Len(list) ELSE c

Does(w, c) == [w EXCEPT !.todo = Append(@, c)]
ReloadBookmarks(w) == Does(w, WebCmd("bookmarks"))
ReloadHistory(w)   == Does(w, WebCmd("visits"))

SaveEditor(w, t) ==
  Does(w, [WebCmd("save") EXCEPT !.id = w.editor.id, !.url = w.editor.url, !.title = t])
DeleteBookmark(w, id, url) == Does(w, [WebCmd("deleteBookmark") EXCEPT !.id = id, !.url = url])
DeleteHistoryRow(w, row)   == Does(w, [WebCmd("deleteVisit") EXCEPT !.id = row.id, !.url = row.url])
ClearHistory(w)            == Does(w, WebCmd("clearHistory"))

-----------------------------------------------------------------------------
(* Keys.                                                                   *)
\* handleBrowseKey takes a key when neither a launch, a question nor the editor does.
CanKey(b) ==
  b \in attached /\ ~web[b].rich /\ Len(web[b].todo) < MaxJobs /\ (web[b].waits => web[b].todo = <<>>)
Browsing(b) == CanKey(b) /\ web[b].confirm = NoQuestion /\ web[b].editor = NoEditor

Typed(b, w) == web' = [web EXCEPT ![b] = w] /\ UNCHANGED <<bookmarks, visited, nextRow, edits, carbonylVars>>

OpenEditor(w, id, url) == [w EXCEPT !.editor = [id |-> id, url |-> url], !.typing = FALSE]

\* cycleFocus skips the empty lists; coming to the address line it focuses the
\* line and leaves the region as it was.
Order(dir, focus) ==
  LET at == CHOOSE i \in 1 .. 3 : Regions[i] = focus
  IN  [n \in 1 .. 3 |-> Regions[((at - 1 + dir * n + 6) % 3) + 1]]

CycleFocus(w, dir) ==
  LET stops(r) == r = "url" \/ (r = "bookmarks" /\ Marks(w) # <<>>) \/ (r = "history" /\ Recent(w) # <<>>)
      next     == SelectSeq(Order(dir, w.focus), stops)
  IN  IF Head(next) = "url" THEN [w EXCEPT !.typing = TRUE]
      ELSE [w EXCEPT !.focus = Head(next), !.typing = FALSE]

Tab(b, dir) == Browsing(b) /\ Typed(b, CycleFocus(web[b], dir))

\* Ctrl+B takes the line, or the address visited last.
CtrlB(b) ==
  LET target == IF web[b].line # Nothing THEN web[b].line ELSE web[b].last
  IN  Browsing(b) /\ target # Nothing /\ Typed(b, OpenEditor(web[b], 0, target))

\* A screen with a launch under way.
Launches(b, url) ==
  /\ Launch(b)
  /\ web' = [web EXCEPT ![b] = Does([web[b] EXCEPT !.rich = TRUE], [WebCmd("browse") EXCEPT !.url = url])]
  /\ UNCHANGED <<bookmarks, visited, nextRow, edits>>

UrlKey(b) ==
  /\ Browsing(b) /\ web[b].focus = "url"
  /\ \/ web[b].typing /\ \E u \in Urls : Typed(b, [web[b] EXCEPT !.line = u])
     \/ web[b].line # Nothing /\ Launches(b, web[b].line)
     \/ /\ Marks(web[b]) # <<>> \/ Recent(web[b]) # <<>>
        /\ Typed(b, [web[b] EXCEPT !.focus = IF Marks(web[b]) # <<>> THEN "bookmarks" ELSE "history"])

Asks(w, kind, id, url) == [w EXCEPT !.confirm = [kind |-> kind, id |-> id, url |-> url]]

BookmarksKey(b) ==
  LET w == web[b] IN
  /\ Browsing(b) /\ w.focus = "bookmarks"
  /\ \/ w.bm > 1 /\ Typed(b, [w EXCEPT !.bm = @ - 1])
     \/ w.bm < Len(Marks(w)) /\ Typed(b, [w EXCEPT !.bm = @ + 1])
     \/ w.bm >= Len(Marks(w)) /\ Recent(w) # <<>> /\ Typed(b, [w EXCEPT !.focus = "history", !.hs = 1])
     \/ w.line # Nothing /\ Typed(b, OpenEditor(w, 0, w.line))
     \/ /\ w.bm <= Len(Marks(w))
        /\ LET row == Marks(w)[w.bm] IN
           \/ Launches(b, row.url)
           \/ Typed(b, OpenEditor(w, row.id, row.url))
           \/ Typed(b, Asks(w, "deleteBookmark", row.id, row.url))

Change(b, w) ==
  /\ edits < MaxEdits /\ edits' = edits + 1
  /\ web' = [web EXCEPT ![b] = w]
  /\ UNCHANGED <<bookmarks, visited, nextRow, carbonylVars>>

HistoryKey(b) ==
  LET w == web[b] IN
  /\ Browsing(b) /\ w.focus = "history"
  /\ \/ w.hs > 1 /\ Typed(b, [w EXCEPT !.hs = @ - 1])
     \/ /\ w.hs = 1
        /\ Typed(b, IF Marks(w) # <<>> THEN [w EXCEPT !.focus = "bookmarks", !.bm = Len(Marks(w))]
                    ELSE [w EXCEPT !.focus = "url", !.typing = TRUE])
     \/ w.hs < Len(Recent(w)) /\ Typed(b, [w EXCEPT !.hs = @ + 1])
     \/ Recent(w) # <<>> /\ Typed(b, Asks(w, "clearHistory", 0, Nothing))
     \/ /\ w.hs <= Len(Recent(w))
        /\ LET row == Recent(w)[w.hs] IN
           \/ Launches(b, row.url)
           \/ Typed(b, OpenEditor(w, 0, row.url))
           \/ Change(b, DeleteHistoryRow(w, row))

\* Esc closes the editor; Enter saves, and the editor stays until the answer.
EditorKey(b) ==
  /\ CanKey(b) /\ web[b].confirm = NoQuestion /\ web[b].editor # NoEditor
  /\ \/ Typed(b, [web[b] EXCEPT !.editor = NoEditor, !.typing = @ \/ web[b].focus = "url"])
     \/ \E t \in Titles : Change(b, SaveEditor(web[b], t))

\* Mutant: the row under the cursor now.
ApplyConfirmHere(w) ==
  LET v == [w EXCEPT !.confirm = NoQuestion]
  IN  IF w.confirm.kind = "clearHistory" THEN ClearHistory(v)
      ELSE DeleteBookmark(v, (IF Marks(w) = <<>> THEN w.confirm ELSE Marks(w)[w.bm]).id, w.confirm.url)

\* applyConfirm: the row the question named.
ApplyConfirm(w) ==
  LET c == w.confirm
  IN  IF c.kind = "clearHistory" THEN ClearHistory([w EXCEPT !.confirm = NoQuestion])
      ELSE DeleteBookmark([w EXCEPT !.confirm = NoQuestion], c.id, c.url)

ConfirmKey(b) ==
  /\ CanKey(b) /\ web[b].confirm # NoQuestion
  /\ Typed(b, [web[b] EXCEPT !.confirm = NoQuestion]) \/ Change(b, ApplyConfirm(web[b]))

-----------------------------------------------------------------------------
(* Commands and their answers.                                             *)
Less(s, i) == RemoveAt(s, i)
Todo(b, i)    == i \in DOMAIN web[b].todo
Ran(b, i, c)  == web' = [web EXCEPT ![b].todo[i] = [c EXCEPT !.done = TRUE]]

\* AddWebBookmark: a row of its own, or a new title for the one the address has.
AddWebBookmark(url, title) ==
  IF \E i \in DOMAIN bookmarks : bookmarks[i].url = url
  THEN /\ bookmarks' = [i \in DOMAIN bookmarks |->
                          IF bookmarks[i].url = url THEN [bookmarks[i] EXCEPT !.title = title] ELSE bookmarks[i]]
       /\ UNCHANGED nextRow
  ELSE /\ bookmarks' = <<[id |-> nextRow, url |-> url, title |-> title]>> \o bookmarks
       /\ nextRow' = nextRow + 1

RenameWebBookmark(id, title) ==
  bookmarks' = [i \in DOMAIN bookmarks |->
                  IF bookmarks[i].id = id THEN [bookmarks[i] EXCEPT !.title = title] ELSE bookmarks[i]]

\* The list without the row that a unique key has found, if there is one.
Without(list, found) == IF found = {} THEN list ELSE RemoveAt(list, CHOOSE i \in found : TRUE)
DeleteWebBookmark(id)     == bookmarks' = Without(bookmarks, {i \in DOMAIN bookmarks : bookmarks[i].id = id})
DeleteWebHistoryEntry(id) == visited' = Without(visited, {i \in DOMAIN visited : visited[i].id = id})
ClearWebHistory           == visited' = <<>>
ListWebBookmarks == bookmarks
RecentWebHistory == SubSeq(visited, 1, IF Len(visited) < RecentLimit THEN Len(visited) ELSE RecentLimit)

\* RecordWebVisit: the address comes first, counted once more.
RecordWebVisit(url) ==
  LET old == {i \in DOMAIN visited : visited[i].url = url}
      new == IF old = {} THEN [id |-> nextRow, url |-> url, count |-> 1]
             ELSE [visited[CHOOSE i \in old : TRUE] EXCEPT !.count = @ + 1]
  IN  /\ visited' = <<new>> \o Without(visited, old)
      /\ nextRow' = IF old = {} THEN nextRow + 1 ELSE nextRow

RunCmd(b, i) ==
  LET c == web[b].todo[i] IN
  /\ ~c.done /\ c.kind # "browse"
  /\ CASE c.kind = "bookmarks" -> Ran(b, i, [c EXCEPT !.rows = ListWebBookmarks]) /\ UNCHANGED <<bookmarks, visited, nextRow>>
       [] c.kind = "visits"    -> Ran(b, i, [c EXCEPT !.rows = RecentWebHistory]) /\ UNCHANGED <<bookmarks, visited, nextRow>>
       [] c.kind = "save" /\ c.id = 0 -> AddWebBookmark(c.url, c.title) /\ Ran(b, i, c) /\ UNCHANGED visited
       [] c.kind = "save" /\ c.id # 0 -> RenameWebBookmark(c.id, c.title) /\ Ran(b, i, c) /\ UNCHANGED <<visited, nextRow>>
       [] c.kind = "deleteBookmark" -> DeleteWebBookmark(c.id) /\ Ran(b, i, c) /\ UNCHANGED <<visited, nextRow>>
       [] c.kind = "deleteVisit"    -> DeleteWebHistoryEntry(c.id) /\ Ran(b, i, c) /\ UNCHANGED <<bookmarks, nextRow>>
       [] c.kind = "clearHistory"   -> ClearWebHistory /\ Ran(b, i, c) /\ UNCHANGED <<bookmarks, nextRow>>
  /\ UNCHANGED <<edits, carbonylVars>>

CmdFails(b, i) ==
  /\ RowErrors /\ ~web[b].todo[i].done /\ web[b].todo[i].kind # "browse"
  /\ Ran(b, i, [web[b].todo[i] EXCEPT !.ok = FALSE])
  /\ UNCHANGED <<bookmarks, visited, nextRow, edits, carbonylVars>>

\* The launch is answered: a visit is recorded only when the child ended well.
Browsed(b, i) ==
  LET c == web[b].todo[i] IN
  /\ c.kind = "browse" /\ ~c.done /\ TakeAnswer(b)
  /\ IF launch[b].ok THEN RecordWebVisit(c.url) ELSE UNCHANGED <<visited, nextRow>>
  /\ Ran(b, i, [c EXCEPT !.ok = launch[b].ok])
  /\ UNCHANGED <<bookmarks, edits>>

\* Update, one answer each.
Exited(w, c) ==
  ReloadHistory([w EXCEPT !.rich = FALSE, !.typing = TRUE, !.last = IF c.ok THEN c.url ELSE @])

BookmarksLoaded(w, c) ==
  IF ~c.ok THEN [w EXCEPT !.marks = IF @ = <<>> THEN <<(<<>>)>> ELSE @]
  ELSE [w EXCEPT !.marks = <<c.rows>>, !.bm = Within(@, c.rows)]

HistoryLoaded(w, c) ==
  IF ~c.ok THEN [w EXCEPT !.recent = IF @ = <<>> THEN <<(<<>>)>> ELSE @]
  ELSE [w EXCEPT !.recent = <<c.rows>>, !.hs = Within(@, c.rows)]

BookmarkSaved(w, c) ==
  LET v == [w EXCEPT !.editor = NoEditor, !.typing = @ \/ w.focus = "url"]
  IN  IF c.ok THEN ReloadBookmarks(v) ELSE v

BookmarkDeleted(w, c) == IF c.ok THEN ReloadBookmarks(w) ELSE w
\* Mutant: the list is left as it was.
HistoryDeletedOnly(w, c) == w
HistoryDeleted(w, c)  == IF c.ok THEN ReloadHistory(w) ELSE w
HistoryCleared(w, c)  == IF c.ok THEN ReloadHistory([w EXCEPT !.hs = 1]) ELSE w

AfterCmd(w, c) ==
  CASE c.kind = "browse"         -> Exited(w, c)
    [] c.kind = "bookmarks"      -> BookmarksLoaded(w, c)
    [] c.kind = "visits"         -> HistoryLoaded(w, c)
    [] c.kind = "save"           -> BookmarkSaved(w, c)
    [] c.kind = "deleteBookmark" -> BookmarkDeleted(w, c)
    [] c.kind = "deleteVisit"    -> HistoryDeleted(w, c)
    [] c.kind = "clearHistory"   -> HistoryCleared(w, c)

GotCmd(b, i) ==
  /\ b \in attached /\ web[b].todo[i].done
  /\ Typed(b, AfterCmd([web[b] EXCEPT !.todo = Less(@, i)], web[b].todo[i]))

-----------------------------------------------------------------------------
WebInit ==
  /\ CarbonylInit
  /\ bookmarks = [i \in DOMAIN Kept |-> [id |-> i, url |-> Kept[i], title |-> 1]]
  /\ visited = [i \in DOMAIN Seen |-> [id |-> i, url |-> Seen[i], count |-> 1]]
  /\ \E waits \in Waits : web = [b \in Browsers |-> ReloadHistory(ReloadBookmarks(NewWeb(waits)))]
  /\ nextRow = Len(Kept) + Len(Seen) + 1 /\ edits = 0

Keyed(b) ==
  \/ \E dir \in {1, -1} : Tab(b, dir)
  \/ CtrlB(b) \/ UrlKey(b) \/ BookmarksKey(b) \/ HistoryKey(b) \/ EditorKey(b) \/ ConfirmKey(b)

Commands(b) == \E i \in DOMAIN web[b].todo : RunCmd(b, i) \/ CmdFails(b, i) \/ Browsed(b, i) \/ GotCmd(b, i)

WebNext ==
  \/ CarbonylNext /\ UNCHANGED <<bookmarks, visited, web, nextRow, edits>>
  \/ \E b \in Browsers : Keyed(b) \/ Commands(b)
WebSpec == WebInit /\ [][WebNext]_webVars

-----------------------------------------------------------------------------
(* Properties.                                                             *)
\* A bookmark goes only when its own question was answered, although the list
\* may have been reloaded under the question (web.go applyConfirm).
DeletesWhatWasNamed ==
  [][\A r \in ToSet(bookmarks) : r.id \notin {s.id : s \in ToSet(bookmarks')} =>
       \E b \in Browsers : \E c \in ToSet(web[b].todo) : c.kind = "deleteBookmark" /\ c.url = r.url]_webVars

\* A screen of a user who waits, and is the only one, shows the rows as they are
\* when nothing is under way (web.go Update, the reload after each change).
ListsAgree ==
  \A b \in Browsers : Browsers = {b} /\ web[b].waits /\ web[b].todo = <<>> =>
    /\ RowErrors \/ (web[b].marks = <<bookmarks>> /\ web[b].recent = <<RecentWebHistory>>)
    /\ web[b].focus = "history" => web[b].hs <= Len(Recent(web[b])) \/ Recent(web[b]) = <<>>

\* web.go:29 "Tab cycles through these in order": three times Tab with all regions
\* filled comes back.  Said of one step: from the last region to the first.
TabCycles ==
  [][\A b \in Browsers : web[b].focus = "history" /\ web[b].typing = FALSE /\ web'[b].typing =>
       web'[b].focus = "url"]_webVars
=============================================================================
