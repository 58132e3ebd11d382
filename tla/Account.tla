------------------------------- MODULE Account -------------------------------
(* One user's account: the password, the SSH keys and the passwordless switch *)
(* of the profile page (tui/screens/profile*.go, realtime/profile.go), and    *)
(* the same on the web with the browser sessions, the handle and the picture  *)
(* (web/sessions.go, handlers.go, handlers_profile.go, handlers_rename.go,    *)
(* profilepic.go). Terminals and browsers of the user are served at the same  *)
(* time: a call is a row of steps, one statement, Redis command or file       *)
(* operation each, which interleave with those of every other call.           *)
EXTENDS Integers, Sequences, FiniteSets, SequencesExt

CONSTANTS
  NoPassword,      \* the password of an account created with a key
  MinLengthOf,     \* the passwords long enough to be set
  OthersHandles,   \* handles of other users
  OthersKeys,      \* keys on file for other users
  AccountScripts   \* bound: the account at the start, what each terminal presses and each browser
                   \* requests, how many steps a terminal may take without waiting, and the crashes

VARIABLES
  user,      \* [handle, password, requireSsh, picture]: the users row
  creds,     \* the user's SSH credentials: [id, key], ids in the order of created_at
  nextCred,
  store,     \* Redis: [rows: sid -> the uid is there, index: the user's set of sids]
  nextSid,
  files,     \* [tmp, final: inode or 0, data: inode -> what each half holds]
  work,      \* calls under way
  screens,   \* terminal -> its profile page
  cookies,   \* browser -> the sid it sends, 0 for none
  todo,      \* terminal or browser -> what its user still does
  hasty,     \* how many of the last keys of a terminal are pressed without waiting
  crashes    \* bound: calls that may still be cut off

accountVars == <<user, creds, nextCred, store, nextSid, files, work, screens, cookies, todo, hasty, crashes>>
UserRow == <<user, creds, nextCred>>
Web == <<store, nextSid, cookies>>
\* The credentials, oldest first.
KeyList == [n \in 1..Cardinality(creds) |-> CHOOSE k \in creds : Cardinality({j \in creds : j.id <= k.id}) = n]
Authentic(sid) == sid \in DOMAIN store.rows /\ store.rows[sid]
Clamped(i, n) == IF n = 0 THEN 1 ELSE IF i > n THEN n ELSE i
-----------------------------------------------------------------------------
(* Calls.                                                                     *)
FreshCall(by, op, step) ==
  [nr |-> CHOOSE n \in 0..Cardinality(work) : \A w \in work : w.nr # n, by |-> by, op |-> op, step |-> step,
   ident |-> FALSE, seen |-> {}, password |-> NoPassword, current |-> NoPassword, hash |-> NoPassword,
   id |-> 0, sid |-> 0, key |-> "", handle |-> "", image |-> 0, inode |-> 0, require |-> FALSE, snap |-> user]
Steps(w, v) == work' = (work \ {w}) \cup {v} /\ UNCHANGED screens
To(w, step) == Steps(w, [w EXCEPT !.step = step])
Over(w) == work' = work \ {w} /\ UNCHANGED screens
Note(kind, err) == [kind |-> kind, err |-> err, snap |-> user, keys |-> <<>>]
Tells(w, note) ==
  /\ work' = work \ {w}
  /\ screens' = [screens EXCEPT ![w.by].inbox = Append(@, note)]
Idling == UNCHANGED <<todo, hasty, crashes>>

(* The statements both surfaces use.                                          *)
InsertSshCredential(key) ==
  IF key \in OthersKeys \/ \E k \in creds : k.key = key THEN UNCHANGED <<creds, nextCred>>
  ELSE creds' = creds \cup {[id |-> nextCred, key |-> key]} /\ nextCred' = nextCred + 1
Duplicate(key) == key \in OthersKeys \/ \E k \in creds : k.key = key
DeleteCredentialByID(id) == creds' = {k \in creds : k.id # id}
UpdateUserPassword(password) == user' = [user EXCEPT !.password = password]
UpdateUserProfile(require) == user' = [user EXCEPT !.requireSsh = require]
-----------------------------------------------------------------------------
(* A terminal's calls.                                                        *)
LoadSnapshot(w) ==   \* GetByID
  /\ w.step = "snapshot" /\ Steps(w, [w EXCEPT !.step = "keys", !.snap = user])
  /\ UNCHANGED <<UserRow, Web, files>> /\ Idling
ListSshCredentials(w) ==
  /\ w.step = "keys"
  /\ Tells(w, [kind |-> w.op, err |-> "", snap |-> w.snap, keys |-> KeyList])
  /\ UNCHANGED <<UserRow, Web, files>> /\ Idling
AddKey(w) ==
  /\ w.step = "insertKey" /\ w.by \in DOMAIN screens /\ InsertSshCredential(w.key)
  /\ Tells(w, Note("keyAdded", IF Duplicate(w.key) THEN "duplicate" ELSE ""))
  /\ UNCHANGED <<user, Web, files>> /\ Idling
DeleteKey(w) ==
  /\ w.step = "deleteKey" /\ w.by \in DOMAIN screens /\ DeleteCredentialByID(w.id)
  /\ Tells(w, Note("keyRemoved", ""))
  /\ UNCHANGED <<user, nextCred, Web, files>> /\ Idling
CountKeys(w) ==   \* UpdateProfile's guard
  /\ w.step = "count"
  /\ IF w.require /\ creds = {} THEN Tells(w, Note("saved", "needs a key")) ELSE To(w, "update")
  /\ UNCHANGED <<UserRow, Web, files>> /\ Idling
UpdateProfile(w) ==
  /\ w.step = "update" /\ UpdateUserProfile(w.require) /\ Tells(w, Note("saved", ""))
  /\ UNCHANGED <<creds, nextCred, Web, files>> /\ Idling
\* The stored hash was read when the form was sent.
ChangePassword(w) ==
  /\ w.step = "password"
  /\ IF w.hash # NoPassword /\ w.current # w.hash
     THEN Tells(w, Note("passwordChanged", "wrong")) /\ UNCHANGED user
     ELSE UpdateUserPassword(w.password) /\ Tells(w, Note("passwordChanged", ""))
  /\ UNCHANGED <<creds, nextCred, Web, files>> /\ Idling
-----------------------------------------------------------------------------
(* A terminal's page: a handler is the page it leaves and the calls it starts. *)
Effect(p, w) == [page |-> p, starts |-> {w}]
Still(p) == [page |-> p, starts |-> {}]
LoadSelf(t) == FreshCall(t, "loaded", "snapshot")
ReloadKeys(t) == FreshCall(t, "keysReloaded", "keys")

OnMessage(t, p, m) ==
  CASE m.kind = "loaded" -> Still([p EXCEPT !.snap = m.snap, !.known = TRUE, !.keys = m.keys, !.require = m.snap.requireSsh])
    [] m.kind = "keysReloaded" -> Still([p EXCEPT !.working = FALSE, !.keys = m.keys, !.cursor = Clamped(@, Len(m.keys))])
    [] m.kind \in {"saved", "passwordChanged"} /\ m.err # "" -> Still([p EXCEPT !.working = FALSE])
    [] m.kind = "saved" /\ m.err = "" -> Effect([p EXCEPT !.working = FALSE], LoadSelf(t))
    [] m.kind = "passwordChanged" /\ m.err = "" -> Effect([p EXCEPT !.working = FALSE, !.mode = "tab"], LoadSelf(t))
    [] m.kind = "keyAdded" /\ m.err # "" -> Still([p EXCEPT !.busy = FALSE])
    [] m.kind = "keyAdded" /\ m.err = "" -> Effect([p EXCEPT !.busy = FALSE, !.mode = "keys"], ReloadKeys(t))
    [] OTHER -> Effect([p EXCEPT !.working = FALSE], ReloadKeys(t))   \* keyRemoved

SubmitProfile(t, p) ==
  IF ~p.known \/ p.working THEN Still(p)
  ELSE Effect([p EXCEPT !.working = TRUE], [FreshCall(t, "save", "count") EXCEPT !.require = p.require])
HandleRequireSshToggle(p) ==
  IF p.require THEN [p EXCEPT !.require = FALSE]
  ELSE
  CASE Len(p.keys) = 0 -> p
    [] Len(p.keys) = 1 -> [p EXCEPT !.mode = "confirmRequire"]
    [] OTHER -> [p EXCEPT !.require = TRUE]
\* Mutant: only an account that requires a key is guarded.
RequestAnyDelete(p) ==
  IF p.cursor \notin DOMAIN p.keys \/ (Len(p.keys) = 1 /\ p.known /\ p.snap.requireSsh)
  THEN p ELSE [p EXCEPT !.mode = "confirmKey", !.target = p.keys[p.cursor].id]

RequestKeyDelete(p) ==
  IF p.cursor \notin DOMAIN p.keys \/ (Len(p.keys) = 1 /\ p.known /\ (p.snap.requireSsh \/ p.snap.password = NoPassword))
  THEN p ELSE [p EXCEPT !.mode = "confirmKey", !.target = p.keys[p.cursor].id]
SubmitPassword(t, p, k) ==
  IF ~p.known \/ p.working \/ k.next \notin MinLengthOf THEN Still(p)
  ELSE Effect([p EXCEPT !.working = TRUE],
              [FreshCall(t, "changePassword", "password") EXCEPT !.password = k.next, !.current = k.current,
                 !.hash = IF p.snap.password = NoPassword THEN NoPassword ELSE user.password])
ProfileTabKey(t, p, k) ==
  CASE k.do = "settings" -> Still([p EXCEPT !.mode = "settings"])
    [] k.do = "save" -> SubmitProfile(t, p)
    [] k.do = "keys" -> Effect([p EXCEPT !.mode = "keys", !.cursor = 1], ReloadKeys(t))
    [] k.do = "openPassword" -> Still([p EXCEPT !.mode = "password"])
    [] OTHER -> Still(p)
SettingsTabKey(t, p, k) ==
  CASE k.do = "settings" -> Still([p EXCEPT !.mode = "tab"])
    [] k.do = "save" -> SubmitProfile(t, p)
    [] k.do = "require" -> Still(HandleRequireSshToggle(p))
    [] OTHER -> Still(p)
KeysKey(p, k) ==
  CASE k.do = "down" -> [p EXCEPT !.cursor = IF @ < Len(p.keys) THEN @ + 1 ELSE @]
    [] k.do = "add" -> [p EXCEPT !.mode = "addKey", !.busy = FALSE]
    [] k.do = "delete" -> RequestKeyDelete(p)
    [] k.do = "esc" -> [p EXCEPT !.mode = "tab"]
    [] OTHER -> p
AddKeyKey(t, p, k) ==
  IF p.busy THEN Still(p)
  ELSE
  CASE k.do = "key" -> Effect([p EXCEPT !.busy = TRUE], [FreshCall(t, "addKey", "insertKey") EXCEPT !.key = k.key])
    [] k.do = "esc" -> Still([p EXCEPT !.mode = "keys"])
    [] OTHER -> Still(p)
PasswordKey(t, p, k) ==
  CASE k.do = "password" -> SubmitPassword(t, p, k)
    [] k.do = "esc" -> Still([p EXCEPT !.mode = "tab"])
    [] OTHER -> Still(p)
\* The question closes on either answer; only a yes does something.
ConfirmKey(t, p, k) ==
  LET back == [p EXCEPT !.mode = IF p.mode = "confirmKey" THEN "keys" ELSE "settings"] IN
  CASE k.do \notin {"yes", "esc"} -> Still(p)
    [] k.do = "esc" -> Still(back)
    [] k.do = "yes" /\ p.mode = "confirmRequire" -> Still([back EXCEPT !.require = ~@])
    [] OTHER -> Effect([back EXCEPT !.working = TRUE], [FreshCall(t, "removeKey", "deleteKey") EXCEPT !.id = p.target])
OnKey(t, p, k) ==
  CASE p.mode = "tab" -> ProfileTabKey(t, p, k)
    [] p.mode = "settings" -> SettingsTabKey(t, p, k)
    [] p.mode = "keys" -> Still(KeysKey(p, k))
    [] p.mode = "addKey" -> AddKeyKey(t, p, k)
    [] p.mode = "password" -> PasswordKey(t, p, k)
    [] OTHER -> ConfirmKey(t, p, k)

Shows(t, e) == screens' = [screens EXCEPT ![t] = e.page] /\ work' = work \cup e.starts
Quiescent(t) == screens[t].inbox = <<>> /\ \A w \in work : w.by # t
ReceiveMsg(t) ==
  /\ \E i \in DOMAIN screens[t].inbox :
       Shows(t, OnMessage(t, [screens[t] EXCEPT !.inbox = RemoveAt(@, i)], screens[t].inbox[i]))
  /\ UNCHANGED <<UserRow, Web, files>> /\ Idling
PressKey(t) ==
  /\ todo[t] # <<>> /\ (Len(todo[t]) > hasty => Quiescent(t))
  /\ todo' = [todo EXCEPT ![t] = Tail(@)]
  /\ Shows(t, OnKey(t, screens[t], Head(todo[t])))
  /\ UNCHANGED <<UserRow, Web, files, hasty, crashes>>
-----------------------------------------------------------------------------
(* A browser's request. attachIdentity reads the session, then touches it.    *)
HasCookie(b) == cookies[b] # 0
Handlers == [logout |-> "clear", logoutAll |-> "members", password |-> "verify", list |-> "members",
             revoke |-> "owner", keysAdd |-> "insertKey", keysDelete |-> "deleteKey", rename |-> "lookup",
             picture |-> "create", clearPicture |-> "remove", login |-> "skip"]
FirstStep(w) ==
  IF w.ident THEN Handlers[w.op]
  ELSE IF w.op = "login" THEN "byPassword" ELSE IF w.op = "logout" THEN "clear" ELSE "skip"
Send(b) ==
  /\ todo[b] # <<>> /\ todo' = [todo EXCEPT ![b] = Tail(@)]
  /\ \A w \in work : w.by # b
  /\ LET r == Head(todo[b]) IN
     \E sid \in IF r.do = "revoke" THEN 1..(nextSid - 1) ELSE {0} :
     \E id \in IF r.do = "keysDelete" THEN {k.id : k \in creds} ELSE {0} :
       work' = work \cup {[FreshCall(b, r.do, "read") EXCEPT !.sid = sid, !.id = id, !.password = r.next,
                             !.current = r.current, !.key = r.key, !.handle = r.handle, !.image = r.image]}
  /\ UNCHANGED <<UserRow, Web, files, screens, hasty, crashes>>
ReadSession(w) ==
  /\ w.step = "read"
  /\ IF Authentic(cookies[w.by]) THEN To(w, "touch") ELSE To(w, FirstStep(w))
  /\ UNCHANGED <<UserRow, Web, files>> /\ Idling
\* Mutant: the whole row is written again.
TouchedWhole(sid) == [s \in DOMAIN store.rows \cup {sid} |-> s = sid \/ store.rows[s]]

\* HSET of the seen field: a row that is gone comes back, without its uid.
Touched(sid) == [s \in DOMAIN store.rows \cup {sid} |-> IF s \in DOMAIN store.rows THEN store.rows[s] ELSE FALSE]
TouchSession(w) ==
  /\ w.step = "touch"
  /\ store' = [store EXCEPT !.rows = Touched(cookies[w.by])]
  /\ Steps(w, LET v == [w EXCEPT !.ident = TRUE] IN [v EXCEPT !.step = FirstStep(v)])
  /\ UNCHANGED <<UserRow, nextSid, cookies, files>> /\ Idling
Redirect(w) == w.step = "skip" /\ Over(w) /\ UNCHANGED <<UserRow, Web, files>> /\ Idling

LoginPost(w) ==   \* Lookup.ByPassword; the limiter is in Login
  /\ w.step = "byPassword"
  /\ IF user.password # NoPassword /\ w.current = user.password /\ ~user.requireSsh THEN To(w, "mint") ELSE Over(w)
  /\ UNCHANGED <<UserRow, Web, files>> /\ Idling
Set(w) ==
  /\ w.step = "mint"
  /\ store' = [rows |-> [s \in DOMAIN store.rows \cup {nextSid} |-> s = nextSid \/ store.rows[s]],
               index |-> store.index \cup {nextSid}]
  /\ cookies' = [cookies EXCEPT ![w.by] = nextSid] /\ nextSid' = nextSid + 1
  /\ Over(w) /\ UNCHANGED <<UserRow, files>> /\ Idling

Without(sids) == [s \in DOMAIN store.rows \ sids |-> store.rows[s]]
\* Clear looks the uid up; without one it deletes the row blindly.
Clear(w) ==
  /\ w.step = "clear"
  /\ IF HasCookie(w.by) THEN Steps(w, [w EXCEPT !.step = "drop", !.ident = Authentic(cookies[w.by])]) ELSE Over(w)
  /\ UNCHANGED <<UserRow, Web, files>> /\ Idling
DropSession(w) ==
  /\ w.step = "drop"
  /\ store' = [rows |-> Without({cookies[w.by]}),
               index |-> IF w.ident THEN store.index \ {cookies[w.by]} ELSE store.index]
  /\ cookies' = [cookies EXCEPT ![w.by] = 0]
  /\ Over(w) /\ UNCHANGED <<UserRow, nextSid, files>> /\ Idling

\* SMEMBERS, at the start of ClearAllForUser and of List.
Members(w) ==
  /\ w.step = "members"
  /\ Steps(w, [w EXCEPT !.seen = store.index,
                 !.step = IF w.op = "list" THEN "show" ELSE IF store.index = {} THEN "dropIndex" ELSE "dropAll"])
  /\ UNCHANGED <<UserRow, Web, files>> /\ Idling
DropAll(w) ==
  /\ w.step = "dropAll" /\ store' = [store EXCEPT !.rows = Without(w.seen)] /\ To(w, "dropIndex")
  /\ UNCHANGED <<UserRow, nextSid, cookies, files>> /\ Idling
DropIndex(w) ==
  /\ w.step = "dropIndex" /\ store' = [store EXCEPT !.index = {}]
  /\ To(w, IF w.op = "password" THEN "mint" ELSE "clear")
  /\ UNCHANGED <<UserRow, nextSid, cookies, files>> /\ Idling
\* List drops the index entries whose row is gone.
ListSessions(w) ==
  /\ w.step = "show"
  /\ IF w.seen = {} THEN Over(w) /\ UNCHANGED store
     ELSE \E sid \in w.seen :
            /\ Steps(w, [w EXCEPT !.seen = @ \ {sid}])
            /\ store' = IF sid \in DOMAIN store.rows THEN store ELSE [store EXCEPT !.index = @ \ {sid}]
  /\ UNCHANGED <<UserRow, nextSid, cookies, files>> /\ Idling
RevokeOwner(w) ==
  /\ w.step = "owner" /\ Steps(w, [w EXCEPT !.step = "revoke", !.ident = Authentic(w.sid)])
  /\ UNCHANGED <<UserRow, Web, files>> /\ Idling
Revoke(w) ==
  /\ w.step = "revoke"
  /\ store' = [rows |-> IF w.ident THEN Without({w.sid}) ELSE store.rows, index |-> store.index \ {w.sid}]
  /\ IF w.sid = cookies[w.by] THEN To(w, "clear") ELSE Over(w)
  /\ UNCHANGED <<UserRow, nextSid, cookies, files>> /\ Idling

PasswordPost(w) ==
  /\ w.step = "verify"
  /\ IF w.password \in MinLengthOf /\ user.password # NoPassword /\ w.current = user.password
     THEN To(w, "write") ELSE Over(w)
  /\ UNCHANGED <<UserRow, Web, files>> /\ Idling
WritePassword(w) ==
  /\ w.step = "write" /\ UpdateUserPassword(w.password) /\ To(w, "members")
  /\ UNCHANGED <<creds, nextCred, Web, files>> /\ Idling
KeysAdd(w) ==
  /\ w.step = "insertKey" /\ w.by \in DOMAIN cookies /\ InsertSshCredential(w.key) /\ Over(w)
  /\ UNCHANGED <<user, Web, files>> /\ Idling
KeysDelete(w) ==
  /\ w.step = "deleteKey" /\ w.by \in DOMAIN cookies /\ DeleteCredentialByID(w.id) /\ Over(w)
  /\ UNCHANGED <<user, nextCred, Web, files>> /\ Idling
RenamePost(w) ==
  /\ w.step = "lookup"
  /\ IF w.handle = user.handle \/ w.handle \in OthersHandles THEN Over(w) ELSE To(w, "rename")
  /\ UNCHANGED <<UserRow, Web, files>> /\ Idling
RenameUserHandle(w) ==
  /\ w.step = "rename" /\ user' = [user EXCEPT !.handle = w.handle] /\ Over(w)
  /\ UNCHANGED <<creds, nextCred, Web, files>> /\ Idling
-----------------------------------------------------------------------------
(* SaveProfilePicture: the temporary file is created, or truncated when it is *)
(* there, written in halves, renamed over the picture, and the row stamped.   *)
CreateTmp(w) ==
  /\ w.step = "create"
  /\ LET inode == IF files.tmp # 0 THEN files.tmp ELSE Len(files.data) + 1 IN
     /\ files' = [files EXCEPT !.tmp = inode,
                    !.data = IF inode \in DOMAIN @ THEN [@ EXCEPT ![inode] = <<0, 0>>] ELSE Append(@, <<0, 0>>)]
     /\ Steps(w, [w EXCEPT !.inode = inode, !.step = "head"])
  /\ UNCHANGED <<UserRow, Web>> /\ Idling
Encode(w) ==
  /\ w.step \in {"head", "tail"}
  /\ files' = [files EXCEPT !.data[w.inode] = [@ EXCEPT ![IF w.step = "head" THEN 1 ELSE 2] = w.image]]
  /\ To(w, IF w.step = "head" THEN "tail" ELSE "move")
  /\ UNCHANGED <<UserRow, Web>> /\ Idling
MovePicture(w) ==
  /\ w.step = "move"
  /\ IF files.tmp = 0 THEN UNCHANGED files /\ Over(w)
     ELSE files' = [files EXCEPT !.final = files.tmp, !.tmp = 0] /\ To(w, "stamp")
  /\ UNCHANGED <<UserRow, Web>> /\ Idling
StampPicture(w) ==
  /\ w.step \in {"stamp", "unstamp"} /\ user' = [user EXCEPT !.picture = w.step = "stamp"] /\ Over(w)
  /\ UNCHANGED <<creds, nextCred, Web, files>> /\ Idling
ClearProfilePicture(w) ==
  /\ w.step = "remove" /\ files' = [files EXCEPT !.final = 0] /\ To(w, "unstamp")
  /\ UNCHANGED <<UserRow, Web>> /\ Idling

\* A request is cut off, with the process it runs in.
CutOff(w) ==
  /\ crashes > 0 /\ crashes' = crashes - 1 /\ w.by \in DOMAIN cookies
  /\ Over(w) /\ UNCHANGED <<UserRow, Web, files, todo, hasty>>
-----------------------------------------------------------------------------
NewScreen(t) == [mode |-> "tab", known |-> FALSE, snap |-> user, keys |-> <<>>, cursor |-> 1, require |-> FALSE,
                 working |-> FALSE, busy |-> FALSE, target |-> 0, inbox |-> <<>>]
AccountInit ==
  \E s \in AccountScripts :
    /\ user = s.user /\ creds = s.creds /\ nextCred = Cardinality(s.creds) + 1
    /\ store = [rows |-> <<>>, index |-> {}] /\ nextSid = 1
    /\ files = [tmp |-> 0, final |-> 0, data |-> <<>>]
    /\ screens = [t \in s.terminals |-> NewScreen(t)]
    /\ cookies = [b \in DOMAIN s.todo \ s.terminals |-> 0]
    /\ work = {[nr |-> 0, by |-> t, op |-> "loaded", step |-> "snapshot", ident |-> FALSE, seen |-> {},
                password |-> NoPassword, current |-> NoPassword, hash |-> NoPassword, id |-> 0, sid |-> 0, key |-> "",
                handle |-> "", image |-> 0, inode |-> 0, require |-> FALSE, snap |-> user] : t \in s.terminals}
    /\ todo = s.todo /\ hasty = s.hasty /\ crashes = s.crashes
\* What a script may hold: an account that can be logged in to, with its keys
\* numbered in their order, and requests there are.
Browsers(s) == DOMAIN s.todo \ s.terminals
ASSUME AccountAssumption ==
  /\ NoPassword \notin MinLengthOf
  /\ \A s \in AccountScripts :
       /\ DOMAIN s.user = {"handle", "password", "requireSsh", "picture"}
       /\ IsFiniteSet(s.creds)
       /\ \A k \in s.creds : k.id \in 1..Cardinality(s.creds) /\ \A j \in s.creds : j.id = k.id => j = k
       /\ (s.user.requireSsh \/ s.user.password = NoPassword) => s.creds # {}
       /\ IsFiniteSet(s.terminals) /\ s.terminals \subseteq DOMAIN s.todo
       /\ \A a \in DOMAIN s.todo : s.todo[a] \in Seq(Range(s.todo[a]))
       /\ \A b \in Browsers(s) : \A r \in Range(s.todo[b]) :
            r.do \in DOMAIN Handlers /\ r.image \in Nat /\ (r.do = "picture" => r.image # 0)
Call(w) ==
  \/ LoadSnapshot(w) \/ ListSshCredentials(w) \/ AddKey(w) \/ DeleteKey(w) \/ CountKeys(w) \/ UpdateProfile(w)
  \/ ChangePassword(w) \/ ReadSession(w) \/ TouchSession(w) \/ Redirect(w) \/ LoginPost(w) \/ Set(w) \/ Clear(w)
  \/ DropSession(w) \/ Members(w) \/ DropAll(w) \/ DropIndex(w) \/ ListSessions(w) \/ RevokeOwner(w) \/ Revoke(w)
  \/ PasswordPost(w) \/ WritePassword(w) \/ KeysAdd(w) \/ KeysDelete(w) \/ RenamePost(w) \/ RenameUserHandle(w) \/ CreateTmp(w) \/ Encode(w)
  \/ MovePicture(w) \/ StampPicture(w) \/ ClearProfilePicture(w) \/ CutOff(w)
AccountNext ==
  \/ \E t \in DOMAIN screens : PressKey(t) \/ ReceiveMsg(t)
  \/ \E b \in DOMAIN cookies : Send(b)
  \/ \E w \in work : Call(w)
AccountSpec == AccountInit /\ [][AccountNext]_accountVars
-----------------------------------------------------------------------------
(* requestKeyDelete "enforces the lockout guards": the last key stays while   *)
(* the account is passwordless or has no password, so a way to log in is left. *)
NeverLockedOut == (user.requireSsh \/ user.password = NoPassword) => creds # {}

(* The same for a user with one terminal who waits for each answer, and no    *)
(* browser: neither the guards of the page, which look at what it loaded, nor *)
(* UpdateProfile's count let the account lose its last way in.                *)
PatientNeverLockedOut == (hasty = 0 /\ Cardinality(DOMAIN screens) = 1 /\ DOMAIN cookies = {}) => NeverLockedOut

(* SaveProfilePicture: "a half-written upload can never poison the existing   *)
(* avatar on a crash mid-write": the file in place is one image, whole.       *)
PictureWhole == files.final # 0 => LET d == files.data[files.final] IN d[1] = d[2] /\ d[1] # 0

(* The uploads of two browsers beside each other share the temporary file.    *)
Uploads(t, b) == \E i \in DOMAIN t[b] : t[b][i].do = "picture"
OneUploader ==
  \A s \in AccountScripts : \A b, c \in Browsers(s) : Uploads(s.todo, b) /\ Uploads(s.todo, c) => b = c

(* What an account must not lose: its last way in, and its picture.           *)
NothingLost == PatientNeverLockedOut /\ PictureWhole

(* A session that was revoked, by its owner, by "log out everywhere" or by a  *)
(* password change, never authenticates again, whatever request was still     *)
(* touching its row.                                                          *)
RevokedStaysRevoked == [][\A sid \in 1..(nextSid - 1) : ~Authentic(sid) => ~Authentic(sid)']_accountVars
-----------------------------------------------------------------------------
(* What the comments of the code say, and the code does not do.               *)

(* sessionStore.List: "List returns every active session for userID": when no *)
(* request is under way, each session that authenticates is in the index.     *)
ListsEverySession ==
  (\A w \in work : w.by \notin DOMAIN cookies) => \A sid \in DOMAIN store.rows : store.rows[sid] => sid \in store.index
=============================================================================
