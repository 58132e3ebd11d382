-------------------------------- MODULE Login --------------------------------
(* How a connection becomes a session: auth.Lookup's decision for a password  *)
(* or a key (auth/lookup.go), the failure counters and locks in Redis         *)
(* (auth/ratelimit_redis.go), the SSH callbacks and dispatchAuth              *)
(* (transport/server.go), and the sign-up form that registers a new handle    *)
(* (tui/screens/register.go, auth/register.go). Attempts of different         *)
(* connections interleave between any two round trips to Redis or Postgres.   *)
EXTENDS Integers, Sequences, FiniteSets

CONSTANTS
  Handles, Addrs,          \* addresses are what normalizeIP leaves of them
  Denied,                  \* the handles of the UsernameDenylist
  Registered,              \* handle -> its row when the server starts
  SysopHandle,             \* NIGHTMS_BOOTSTRAP_SYSOP_HANDLE
  HandleThreshold, IPThreshold, PersistentBanThreshold,
  BackoffMax, LockcountWindow,   \* durations in units of LockDuration, the window's too
  SessionLimit,            \* max_total_sessions
  LoginScripts,            \* bound: [from: connection -> address,
                           \* does: connection -> its attempts and form submits]
  LoginFaults,             \* bound: Redis commands that fail
  LastHour                 \* bound on the clock

ASSUME LoginAssumption ==
  /\ HandleThreshold \in Nat \ {0} /\ IPThreshold \in Nat \ {0}
  /\ PersistentBanThreshold \in Nat /\ BackoffMax \in Nat /\ LockcountWindow \in Nat \ {0}
  /\ SessionLimit \in Nat /\ LoginFaults \in Nat /\ LastHour \in Nat
  /\ Handles \cap Addrs = {}
ASSUME BackoffAssumption == \A n \in 0 .. BackoffMax : 2 ^ n > 0   \* of arithmetic

(* The rows the server starts with obey the unique index of the keys.         *)
RowFields == {"pw", "stale", "banned", "keyOnly", "sysop", "keys"}
IsRow(u) == u = [f \in RowFields |-> u[f]]
ASSUME RegisteredAssumption ==
  /\ \A h \in DOMAIN Registered : IsRow(Registered[h])
  /\ \A g, h \in DOMAIN Registered : g # h => Registered[g].keys \cap Registered[h].keys = {}

(* A script is finite, and the passwords in it are for handles.               *)
LoginDeeds ==
  UNION {UNION {{s.does[c][n] : n \in DOMAIN s.does[c]} : c \in DOMAIN s.does} : s \in LoginScripts}
ASSUME ScriptAssumption ==
  /\ \A s \in LoginScripts :
       /\ IsFiniteSet(DOMAIN s.does) /\ DOMAIN s.from = DOMAIN s.does
       /\ \A c \in DOMAIN s.does : s.from[c] \in Addrs /\ s.does[c] \in Seq(LoginDeeds)
  /\ \A d \in LoginDeeds : d.by = "password" => d.handle \in Handles

VARIABLES
  accounts,   \* handle -> [pw, stale, banned, keyOnly, sysop, keys]; pw "" is none
  redis,      \* handle or address -> [fails, until, lock, count, forget]
  ipBans,     \* addresses in the BanCache
  conns,      \* connection -> [at, step, key, seen, as]
  deeds,      \* connection -> what its client still does
  froms,      \* connection -> its address
  rehashes,   \* rehashAsync under way: [handle, pw]
  hour,
  glitches,   \* failed Redis commands so far
  guesses,    \* history: handle -> [wrong, forgiven] since the last unlock: wrong
              \* passwords compared, and counted failures that a late DEL removed
  lockouts,   \* history: address -> times it went from unlocked to locked
  proofs      \* history: connection -> what it was admitted on

loginVars == <<accounts, redis, ipBans, conns, deeds, froms, rehashes, hour, glitches, guesses, lockouts, proofs>>
Clients == DOMAIN conns
Deed(c) == Head(deeds[c])
Exists(h) == h \in DOMAIN accounts
-----------------------------------------------------------------------------
(* Redis. until, lock and forget are the hours at which the failures, the     *)
(* lock and the lockcount lapse; Forever is a counter whose EXPIRE failed.    *)
Forever == LastHour + 1
NoGuess == [wrong |-> 0, forgiven |-> 0]
NoKey == [fails |-> 0, until |-> 0, lock |-> 0, count |-> 0, forget |-> 0]
Locked(k) == redis[k].lock > hour
Shift(n) == IF n < 1 THEN 0 ELSE IF n - 1 > BackoffMax THEN BackoffMax ELSE n - 1
LockDuration(n) == 2 ^ Shift(n)

Glitch == glitches < LoginFaults /\ glitches' = glitches + 1

HourPasses ==
  /\ hour < LastHour /\ hour' = hour + 1
  /\ redis' = [k \in DOMAIN redis |->
       LET r == redis[k] IN
       [r EXCEPT !.fails = IF r.until = hour' THEN 0 ELSE @,
                 !.count = IF r.forget = hour' THEN 0 ELSE @]]
  /\ guesses' = [h \in Handles |-> IF redis[h].lock = hour' \/ redis[h].until = hour' THEN NoGuess ELSE guesses[h]]
  /\ UNCHANGED <<accounts, ipBans, conns, deeds, froms, rehashes, glitches, lockouts, proofs>>
-----------------------------------------------------------------------------
(* A decision. An attempt is at a step; a refusal that counts goes through    *)
(* RecordFailure for the handle and then for the address.                     *)
ToStep(c, step) == conns' = [conns EXCEPT ![c].step = step]
Decides(c, seen) == conns' = [conns EXCEPT ![c].step = "decided", ![c].seen = seen]
Counts(c, seen, first) == conns' = [conns EXCEPT ![c].step = "incr", ![c].seen = seen, ![c].key = first]
AtStep(c, step) == conns[c].at = "handshake" /\ conns[c].step = step
Trying(c, step, method) == AtStep(c, step) /\ Deed(c).by = method
dataVars == <<accounts, redis, ipBans, froms, rehashes, hour, glitches, guesses, lockouts, proofs>>

\* The client sends a password or a key: the gates before any lookup.
BeginAttempt(c) ==
  /\ AtStep(c, "idle") /\ deeds[c] # <<>> /\ Deed(c).by \in {"password", "key"}
  /\ IF froms[c] \in ipBans THEN Decides(c, "banned")
     ELSE IF Deed(c).handle \in Denied THEN Counts(c, "refused", froms[c])
     ELSE ToStep(c, IF Deed(c).by = "key" THEN "lookup" ELSE "check")
  /\ UNCHANGED <<dataVars, deeds>>

\* Mutant: a lock of the address only is looked at.
CheckAddress(c) ==
  /\ Trying(c, "check", "password")
  /\ IF Locked(froms[c]) THEN Decides(c, "limited") ELSE ToStep(c, "lookup")
  /\ UNCHANGED <<dataVars, deeds>>

\* Limiter.Check; when Redis does not answer the attempt goes on.
Check(c) ==
  /\ Trying(c, "check", "password")
  /\ IF Locked(Deed(c).handle) \/ Locked(froms[c]) THEN Decides(c, "limited") ELSE ToStep(c, "lookup")
  /\ UNCHANGED <<dataVars, deeds>>
CheckFails(c) ==
  /\ Trying(c, "check", "password") /\ Glitch
  /\ ToStep(c, "lookup")
  /\ UNCHANGED <<accounts, redis, ipBans, deeds, froms, rehashes, hour, guesses, lockouts, proofs>>

\* Hasher.Verify: a legacy hash, or one with other parameters, is to be redone.
Verify(pw, u) == [ok |-> u.pw # "" /\ u.pw = pw, needsRehash |-> u.pw # "" /\ u.pw = pw /\ u.stale]

ByPassword(c) ==
  /\ Trying(c, "lookup", "password")
  /\ LET h == Deed(c).handle
         pw == Deed(c).pw IN
     IF ~Exists(h) THEN Counts(c, "signup", h) /\ UNCHANGED guesses
     ELSE IF accounts[h].banned THEN Decides(c, "banned") /\ UNCHANGED guesses
     ELSE LET res == Verify(pw, accounts[h]) IN
          IF ~res.ok THEN /\ Counts(c, "refused", h)
                          /\ guesses' = [guesses EXCEPT ![h].wrong = @ + 1]
          ELSE IF accounts[h].keyOnly THEN Counts(c, "refused", h) /\ UNCHANGED guesses
          ELSE conns' = [conns EXCEPT ![c].step = "clear", ![c].as = h,
                                      ![c].seen = IF res.needsRehash THEN "rehash" ELSE "known"]
               /\ UNCHANGED guesses
  /\ UNCHANGED <<accounts, redis, ipBans, deeds, froms, rehashes, hour, glitches, lockouts, proofs>>

\* Limiter.Clear lifts the handle's lock; the answer is the same if it fails.
ClearFailures(c) ==
  /\ AtStep(c, "clear")
  /\ LET h == conns[c].as IN
     \/ /\ redis' = [redis EXCEPT ![h].fails = 0, ![h].until = 0, ![h].lock = 0]
        /\ guesses' = [guesses EXCEPT ![h] = NoGuess]
        /\ UNCHANGED glitches
     \/ Glitch /\ UNCHANGED <<redis, guesses>>
  /\ rehashes' = IF conns[c].seen = "rehash"
                 THEN rehashes \cup {[handle |-> conns[c].as, pw |-> Deed(c).pw]} ELSE rehashes
  /\ Decides(c, "known")
  /\ UNCHANGED <<accounts, ipBans, deeds, froms, hour, lockouts, proofs>>

RehashAsync(r) ==
  /\ r \in rehashes /\ rehashes' = rehashes \ {r}
  /\ accounts' = [accounts EXCEPT ![r.handle].pw = r.pw, ![r.handle].stale = FALSE]
  /\ UNCHANGED <<redis, ipBans, conns, deeds, froms, hour, glitches, guesses, lockouts, proofs>>

Owner(key) == {h \in DOMAIN accounts : key \in accounts[h].keys}
ByPublicKey(c) ==
  /\ Trying(c, "lookup", "key")
  /\ LET h == Deed(c).handle IN
     IF ~Exists(h) THEN Decides(c, "signup")
     ELSE IF accounts[h].banned THEN Decides(c, "banned")
     ELSE IF h \in Owner(Deed(c).key)
     THEN conns' = [conns EXCEPT ![c].step = "decided", ![c].seen = "known", ![c].as = h]
     ELSE Decides(c, "refused")
  /\ UNCHANGED <<dataVars, deeds>>

(* RecordFailure: INCR and EXPIRE; at the threshold the lockcount, the lock   *)
(* and the DEL of the failures; for an address at the last threshold the ban. *)
Threshold(k) == IF k \in Addrs THEN IPThreshold ELSE HandleThreshold
AfterKey(c, k) ==
  IF k \in Handles THEN conns' = [conns EXCEPT ![c].step = "incr", ![c].key = froms[c]]
  ELSE conns' = [conns EXCEPT ![c].step = "decided"]

IncrFails(c) ==
  /\ AtStep(c, "incr")
  /\ LET k == conns[c].key
         n == redis[k].fails + 1 IN
     /\ redis' = [redis EXCEPT ![k].fails = n, ![k].until = hour + 1]
     /\ IF n >= Threshold(k) THEN ToStep(c, "count") ELSE AfterKey(c, k)
  /\ UNCHANGED <<accounts, ipBans, deeds, froms, rehashes, hour, glitches, guesses, lockouts, proofs>>
\* The INCR or its EXPIRE fails: RecordFailure gives up, the address included.
IncrGlitch(c) ==
  /\ AtStep(c, "incr") /\ Glitch
  /\ LET k == conns[c].key IN
     \/ UNCHANGED redis
     \/ redis' = [redis EXCEPT ![k].fails = @ + 1, ![k].until = IF redis[k].fails = 0 THEN Forever ELSE @]
  /\ ToStep(c, "decided")
  /\ UNCHANGED <<accounts, ipBans, deeds, froms, rehashes, hour, guesses, lockouts, proofs>>

IncrLockcount(c) ==
  /\ AtStep(c, "count")
  /\ LET k == conns[c].key IN
     /\ redis' = [redis EXCEPT ![k].count = @ + 1, ![k].forget = hour + LockcountWindow]
     /\ conns' = [conns EXCEPT ![c].step = "lock", ![c].tally = redis[k].count + 1]
  /\ UNCHANGED <<accounts, ipBans, deeds, froms, rehashes, hour, glitches, guesses, lockouts, proofs>>

SetLock(c) ==
  /\ AtStep(c, "lock")
  /\ LET k == conns[c].key IN
     /\ redis' = [redis EXCEPT ![k].lock = hour + LockDuration(conns[c].tally)]
     /\ lockouts' = IF k \in Addrs /\ ~Locked(k) THEN [lockouts EXCEPT ![k] = @ + 1] ELSE lockouts
     /\ ToStep(c, "del")
  /\ UNCHANGED <<accounts, ipBans, deeds, froms, rehashes, hour, glitches, guesses, proofs>>
\* The lockcount or the lock fails.
LockGlitch(c) ==
  /\ AtStep(c, "count") \/ AtStep(c, "lock")
  /\ Glitch /\ ToStep(c, "decided")
  /\ UNCHANGED <<accounts, redis, ipBans, deeds, froms, rehashes, hour, guesses, lockouts, proofs>>

\* The DEL may come when the lock is over and new failures are counted.
DelFails(c) ==
  /\ AtStep(c, "del")
  /\ LET k == conns[c].key IN
     /\ \/ /\ redis' = [redis EXCEPT ![k].fails = 0, ![k].until = 0]
           /\ guesses' = IF k \in Handles /\ ~Locked(k)
                         THEN [guesses EXCEPT ![k].forgiven = @ + redis[k].fails] ELSE guesses
           /\ UNCHANGED glitches
        \/ Glitch /\ UNCHANGED <<redis, guesses>>
     /\ ipBans' = IF k \in Addrs /\ PersistentBanThreshold > 0 /\ conns[c].tally >= PersistentBanThreshold
                  THEN ipBans \cup {k} ELSE ipBans
     /\ AfterKey(c, k)
  /\ UNCHANGED <<accounts, deeds, froms, rehashes, hour, lockouts, proofs>>
-----------------------------------------------------------------------------
(* The SSH callbacks let a known client or one who is to sign up through, and *)
(* dispatchAuth gives it a session if there is room.                          *)
Sessions == {c \in Clients : conns[c].at \in {"lobby", "form"}}
Rejected(c) == conns' = [conns EXCEPT ![c].step = "idle", ![c].seen = ""]
\* The kick hook is registered when the program is built, for known users.
ProgramHandler(conn) == [conn EXCEPT !.seen = IF conn.at = "lobby" THEN "kickable" ELSE @]
DispatchAuth(c) ==
  /\ AtStep(c, "decided")
  /\ LET d == Deed(c) IN
     IF conns[c].seen \notin {"known", "signup"} THEN Rejected(c) /\ UNCHANGED proofs
     ELSE IF SessionLimit > 0 /\ Cardinality(Sessions) >= SessionLimit
     THEN conns' = [conns EXCEPT ![c].at = "full"] /\ UNCHANGED proofs
     ELSE IF conns[c].seen = "known"
     THEN /\ conns' = [conns EXCEPT ![c] = ProgramHandler([@ EXCEPT !.at = "lobby"])]
          /\ proofs' = [proofs EXCEPT ![c] = d.by]
     ELSE /\ conns' = [conns EXCEPT ![c] = ProgramHandler([@ EXCEPT !.at = "form", !.step = "idle",
                                                             !.seen = IF d.by = "key" THEN d.key ELSE ""])]
          /\ UNCHANGED proofs
  /\ deeds' = [deeds EXCEPT ![c] = Tail(@)]
  /\ UNCHANGED <<accounts, redis, ipBans, froms, rehashes, hour, glitches, guesses, lockouts>>

(* The form. Enter submits unless a submit is under way; CreateAccount is one *)
(* transaction, which may be done after the client has gone.                  *)
InForm(c, step) == conns[c].at = "form" /\ conns[c].step = step
SubmitCmd(c) ==
  /\ InForm(c, "idle") /\ deeds[c] # <<>> /\ Deed(c).by = "submit"
  /\ conns' = [conns EXCEPT ![c].step = "working", ![c].as = Deed(c).handle, ![c].adopt = Deed(c).adopt,
                            ![c].pw = Deed(c).pw]
  /\ deeds' = [deeds EXCEPT ![c] = Tail(@)]
  /\ UNCHANGED dataVars
EnterWhileWorking(c) ==
  /\ InForm(c, "working") /\ deeds[c] # <<>> /\ Deed(c).by = "submit"
  /\ deeds' = [deeds EXCEPT ![c] = Tail(@)]
  /\ UNCHANGED <<dataVars, conns>>
Quit(c) ==
  /\ conns[c].at = "form" /\ deeds[c] # <<>> /\ Deed(c).by = "esc"
  /\ conns' = [conns EXCEPT ![c].at = "gone"]
  /\ deeds' = [deeds EXCEPT ![c] = <<>>]
  /\ UNCHANGED dataVars

NewAccount(c) ==
  [pw |-> conns[c].pw, stale |-> FALSE, banned |-> FALSE, keyOnly |-> FALSE,
   sysop |-> conns[c].as = SysopHandle,
   keys |-> IF conns[c].adopt /\ conns[c].seen # "" THEN {conns[c].seen} ELSE {}]
\* classifyInsertError: ix_users_handle, ix_identity_credentials_provider_subject.
Refusal(c) ==
  IF Exists(conns[c].as) THEN "handle-taken"
  ELSE IF \E key \in NewAccount(c).keys : Owner(key) # {} THEN "key-already-used" ELSE ""
CreateAccount(c) ==
  /\ conns[c].at \in {"form", "gone"} /\ conns[c].step = "working"
  /\ accounts' = IF Refusal(c) = ""
                 THEN [h \in DOMAIN accounts \cup {conns[c].as} |->
                         IF Exists(h) THEN accounts[h] ELSE NewAccount(c)]
                 ELSE accounts
  /\ ToStep(c, IF Refusal(c) = "" THEN "created" ELSE "idle")
  /\ UNCHANGED <<redis, ipBans, deeds, froms, rehashes, hour, glitches, guesses, lockouts, proofs>>

\* SignupRoot takes the new identity; the kick hook was decided before it.
RegisterCompleted(c) ==
  /\ InForm(c, "created")
  /\ conns' = [conns EXCEPT ![c].at = "lobby"]
  /\ proofs' = [proofs EXCEPT ![c] = "registered"]
  /\ UNCHANGED <<accounts, redis, ipBans, deeds, froms, rehashes, hour, glitches, guesses, lockouts>>

\* A signed-in user sets a new password (the profile page).
SetNewPassword(c) ==
  /\ conns[c].at = "lobby" /\ deeds[c] # <<>> /\ Deed(c).by = "change"
  /\ accounts' = [accounts EXCEPT ![conns[c].as].pw = Deed(c).pw, ![conns[c].as].stale = FALSE]
  /\ deeds' = [deeds EXCEPT ![c] = Tail(@)]
  /\ UNCHANGED <<redis, ipBans, conns, froms, rehashes, hour, glitches, guesses, lockouts, proofs>>
-----------------------------------------------------------------------------
LoginInit ==
  /\ accounts = Registered
  /\ redis = [k \in Handles \cup Addrs |-> NoKey]
  /\ ipBans = {} /\ rehashes = {} /\ hour = 0 /\ glitches = 0
  /\ \E s \in LoginScripts :
       /\ deeds = s.does /\ froms = s.from
       /\ conns = [c \in DOMAIN s.does |->
                     [at |-> "handshake", step |-> "idle", key |-> "", seen |-> "", as |-> "",
                      tally |-> 0, adopt |-> FALSE, pw |-> ""]]
       /\ proofs = [c \in DOMAIN s.does |-> ""]
  /\ guesses = [h \in Handles |-> NoGuess] /\ lockouts = [a \in Addrs |-> 0]

Decision(c) ==
  \/ BeginAttempt(c) \/ Check(c) \/ CheckFails(c) \/ ByPassword(c) \/ ByPublicKey(c) \/ ClearFailures(c)
  \/ IncrFails(c) \/ IncrGlitch(c) \/ IncrLockcount(c) \/ SetLock(c) \/ LockGlitch(c) \/ DelFails(c)
Signup(c) ==
  \/ DispatchAuth(c) \/ SubmitCmd(c) \/ EnterWhileWorking(c) \/ Quit(c)
  \/ CreateAccount(c) \/ RegisterCompleted(c) \/ SetNewPassword(c)
LoginNext ==
  \/ \E c \in Clients : Decision(c) \/ Signup(c)
  \/ \E r \in rehashes : RehashAsync(r)
  \/ HourPasses
LoginSpec == LoginInit /\ [][LoginNext]_loginVars
-----------------------------------------------------------------------------
(* No more than HandleThreshold - 1 wrong passwords of a handle are compared  *)
(* between two unlocks, plus the attempts that were past the check when the   *)
(* lock was set, those a failing Redis did not count, and those whose count   *)
(* the DEL of an earlier, already lifted lock removed.                        *)
GuessesBounded ==
  \A h \in Handles :
     guesses[h].wrong <= HandleThreshold - 1 + Cardinality(Clients) + glitches + guesses[h].forgiven

(* Whoever is in the lobby under a handle registered it there or gave its     *)
(* password or key, and one connection at most registered a handle.           *)
OneFounder ==
  \A c, d \in Clients :
     /\ conns[c].at = "lobby" => Exists(conns[c].as) /\ proofs[c] # ""
     /\ (c # d /\ proofs[c] = "registered" /\ proofs[d] = "registered") => conns[c].as # conns[d].as

(* A key opens one account.                                                   *)
KeyOfOne == \A g, h \in DOMAIN accounts : g # h => accounts[g].keys \cap accounts[h].keys = {}

(* The limiter slows guessing down, and nobody is let in under a name or with *)
(* a key that is not his.                                                     *)
AdmittedRightly == GuessesBounded /\ OneFounder /\ KeyOfOne
-----------------------------------------------------------------------------
(* What a comment of the code says, and the code does not do.                 *)

(* ratelimit_redis.go: "After PersistentBanThreshold lockouts within 24h the  *)
(* IP becomes eligible for a [...] persistent ban."                           *)
BanEarned == \A a \in ipBans : lockouts[a] >= PersistentBanThreshold
=============================================================================
