---------------------------- MODULE AccountsProofs ----------------------------
(***************************************************************************)
(* Theorems of Login, Linking and Account: for any number of connections,  *)
(* addresses, terminals and browsers, whatever the thresholds and however  *)
(* attempts, sign-ups, polls, unlinks, requests and Redis' expiries        *)
(* interleave, AdmittedRightly, LinksSound, RevokedStaysRevoked and        *)
(* NothingLost hold.                                                       *)
(*                                                                         *)
(* Login.  LoginBase says what the steps of a connection find in their     *)
(* records; GuessInv, FounderInv and KeyInv carry the three parts of the   *)
(* property.                                                               *)
(*                                                                         *)
(* Linking.  PollingInv: a page that awaits consent has a timer, a message *)
(* or a poll that will answer.  GrantInv: a grant is held by one poll or   *)
(* by one credential.                                                      *)
(*                                                                         *)
(* Account.  PatientInv: a user who waits has one thing under way, and his *)
(* page knows the account or is about to.  PictureInv: the one upload      *)
(* under way owns the temporary file, which holds as much as it has drawn. *)
(***************************************************************************)
EXTENDS Login, Linking, Account, FiniteSetTheorems, SequenceTheorems, TLAPS

ConnFields == {"at", "step", "key", "seen", "as", "tally", "adopt", "pw"}
IsConn(r) == r = [f \in ConnFields |-> r[f]]

Counters == [fails : Nat, until : Nat, lock : Nat, count : Nat, forget : Nat]
Counting == {"incr", "count", "lock", "del"}

ConnBase(c) ==
  /\ IsConn(conns[c])
  /\ conns[c].tally \in Nat
  /\ froms[c] \in Addrs
  /\ deeds[c] \in Seq(LoginDeeds)
  /\ conns[c].step \in Counting => conns[c].key \in Handles \cup Addrs
  /\ conns[c].step = "clear" => conns[c].as \in Handles
  /\ conns[c].at = "handshake" /\ conns[c].step # "idle"
       => deeds[c] # <<>> /\ Deed(c).by \in {"password", "key"}

LoginBase ==
  /\ IsFiniteSet(Clients)
  /\ DOMAIN deeds = Clients
  /\ redis \in [Handles \cup Addrs -> Counters]
  /\ guesses \in [Handles -> [wrong : Nat, forgiven : Nat]]
  /\ hour \in Nat /\ glitches \in Nat
  /\ \A c \in Clients : ConnBase(c)

\* A step of connection c leaves the others where they are.
Only(c) ==
  /\ DOMAIN conns' = DOMAIN conns /\ DOMAIN deeds' = DOMAIN deeds
  /\ \A d \in Clients : d # c => conns'[d] = conns[d] /\ deeds'[d] = deeds[d]

-----------------------------------------------------------------------------
LEMMA LockDurationPositive ==
  ASSUME NEW n \in Nat
  PROVE  LockDuration(n) \in Nat \ {0}
<1>1. BackoffMax \in Nat
  BY LoginAssumption
<1>2. Shift(n) \in 0 .. BackoffMax
  BY <1>1 DEF Shift
<1>3. 2 ^ Shift(n) \in Int
  BY <1>2
<1> QED
  BY <1>2, <1>3, BackoffAssumption DEF LockDuration

LEMMA LoginBaseInit == LoginInit => LoginBase
<1> SUFFICES ASSUME LoginInit PROVE LoginBase
  OBVIOUS
<1>1. PICK s \in LoginScripts :
        /\ deeds = s.does /\ froms = s.from
        /\ conns = [c \in DOMAIN s.does |->
                      [at |-> "handshake", step |-> "idle", key |-> "", seen |-> "", as |-> "",
                       tally |-> 0, adopt |-> FALSE, pw |-> ""]]
  BY DEF LoginInit
<1>2. /\ IsFiniteSet(DOMAIN s.does)
      /\ \A c \in DOMAIN s.does : s.from[c] \in Addrs /\ s.does[c] \in Seq(LoginDeeds)
  BY ScriptAssumption
<1>3. /\ redis = [k \in Handles \cup Addrs |-> NoKey]
      /\ guesses = [h \in Handles |-> NoGuess]
      /\ hour = 0 /\ glitches = 0
  BY DEF LoginInit
<1>4. NoKey \in Counters /\ NoGuess \in [wrong : Nat, forgiven : Nat]
  BY DEF NoKey, NoGuess, Counters
<1>5. \A c \in Clients : ConnBase(c)
  BY <1>1, <1>2 DEF ConnBase, IsConn, ConnFields, Counting, Clients
<1> QED
  BY <1>1, <1>2, <1>3, <1>4, <1>5 DEF LoginBase, Clients

\* Whatever a step does to the connection's record, it is an update of it.
LEMMA DecisionOnly ==
  ASSUME LoginBase, NEW c \in Clients, Decision(c)
  PROVE  Only(c) /\ IsConn(conns'[c]) /\ conns'[c].at = conns[c].at /\ deeds' = deeds
<1>1. IsConn(conns[c])
  BY DEF LoginBase, ConnBase
<1>2. deeds' = deeds
  BY DEF Decision, BeginAttempt, Check, CheckFails, ByPassword, ByPublicKey, ClearFailures,
         IncrFails, IncrGlitch, IncrLockcount, SetLock, LockGlitch, DelFails, dataVars
<1>3. \/ \E x : conns' = [conns EXCEPT ![c].step = x]
      \/ \E x, y : conns' = [conns EXCEPT ![c].step = x, ![c].seen = y]
      \/ \E x, y : conns' = [conns EXCEPT ![c].step = x, ![c].key = y]
      \/ \E x, y : conns' = [conns EXCEPT ![c].step = x, ![c].tally = y]
      \/ \E x, y, z : conns' = [conns EXCEPT ![c].step = x, ![c].seen = y, ![c].key = z]
      \/ \E x, y, z : conns' = [conns EXCEPT ![c].step = x, ![c].as = y, ![c].seen = z]
      \/ \E x, y, z : conns' = [conns EXCEPT ![c].step = x, ![c].seen = y, ![c].as = z]
  BY DEF Decision, BeginAttempt, Check, CheckFails, ByPassword, ByPublicKey, ClearFailures,
         IncrFails, IncrGlitch, IncrLockcount, SetLock, LockGlitch, DelFails, dataVars,
         ToStep, Decides, Counts, AfterKey
<1>4. Only(c)
  BY <1>2, <1>3 DEF Only, Clients
<1>5. /\ IsConn(conns'[c]) /\ conns'[c].at = conns[c].at
  <2>1. CASE \E x : conns' = [conns EXCEPT ![c].step = x]
    BY <1>1, <2>1 DEF IsConn, ConnFields, Clients
  <2>2. CASE \E x, y : conns' = [conns EXCEPT ![c].step = x, ![c].seen = y]
    BY <1>1, <2>2 DEF IsConn, ConnFields, Clients
  <2>3. CASE \E x, y : conns' = [conns EXCEPT ![c].step = x, ![c].key = y]
    BY <1>1, <2>3 DEF IsConn, ConnFields, Clients
  <2>4. CASE \E x, y : conns' = [conns EXCEPT ![c].step = x, ![c].tally = y]
    BY <1>1, <2>4 DEF IsConn, ConnFields, Clients
  <2>5. CASE \E x, y, z : conns' = [conns EXCEPT ![c].step = x, ![c].seen = y, ![c].key = z]
    BY <1>1, <2>5 DEF IsConn, ConnFields, Clients
  <2>6. CASE \E x, y, z : conns' = [conns EXCEPT ![c].step = x, ![c].as = y, ![c].seen = z]
    BY <1>1, <2>6 DEF IsConn, ConnFields, Clients
  <2>7. CASE \E x, y, z : conns' = [conns EXCEPT ![c].step = x, ![c].seen = y, ![c].as = z]
    BY <1>1, <2>7 DEF IsConn, ConnFields, Clients
  <2> QED
    BY <1>3, <2>1, <2>2, <2>3, <2>4, <2>5, <2>6, <2>7
<1> QED
  BY <1>2, <1>4, <1>5

-----------------------------------------------------------------------------
(* What each step of a decision leaves in the connection's record.          *)

LEMMA BeginAttemptMoves ==
  ASSUME NEW c \in Clients, IsConn(conns[c]), BeginAttempt(c)
  PROVE  LET o == conns[c]
             n == conns'[c]
         IN  /\ o.at = "handshake" /\ o.step = "idle"
             /\ n.as = o.as /\ n.tally = o.tally
             /\ \/ n.step = "decided" /\ n.seen = "banned" /\ n.key = o.key
                \/ n.step = "incr" /\ n.seen = "refused" /\ n.key = froms[c]
                \/ /\ n.seen = o.seen /\ n.key = o.key
                   /\ \/ n.step = "lookup" /\ Deed(c).by = "key"
                      \/ n.step = "check" /\ Deed(c).by = "password"
             /\ deeds[c] # <<>> /\ Deed(c).by \in {"password", "key"}
<1>1. /\ conns[c].at = "handshake" /\ conns[c].step = "idle"
      /\ deeds[c] # <<>> /\ Deed(c).by \in {"password", "key"}
  BY DEF BeginAttempt, AtStep
<1>2. CASE Decides(c, "banned")
  BY <1>1, <1>2 DEF Decides, IsConn, ConnFields, Clients
<1>3. CASE Counts(c, "refused", froms[c])
  BY <1>1, <1>3 DEF Counts, IsConn, ConnFields, Clients
<1>4. CASE ToStep(c, IF Deed(c).by = "key" THEN "lookup" ELSE "check")
  <2>1. CASE Deed(c).by = "key"
    BY <1>1, <1>4, <2>1 DEF ToStep, IsConn, ConnFields, Clients
  <2>2. CASE Deed(c).by = "password"
    BY <1>1, <1>4, <2>2 DEF ToStep, IsConn, ConnFields, Clients
  <2> QED
    BY <1>1, <2>1, <2>2
<1> QED
  BY <1>2, <1>3, <1>4 DEF BeginAttempt

LEMMA CheckMoves ==
  ASSUME NEW c \in Clients, IsConn(conns[c]), Check(c)
  PROVE  LET o == conns[c]
             n == conns'[c]
         IN  /\ o.at = "handshake" /\ o.step = "check" /\ Deed(c).by = "password"
             /\ n.as = o.as /\ n.key = o.key /\ n.tally = o.tally
             /\ \/ n.step = "decided" /\ n.seen = "limited"
                \/ n.step = "lookup" /\ ~Locked(Deed(c).handle)
BY DEF Check, Trying, AtStep, Decides, ToStep, IsConn, ConnFields, Clients

LEMMA CheckFailsMoves ==
  ASSUME NEW c \in Clients, IsConn(conns[c]), CheckFails(c)
  PROVE  LET o == conns[c]
             n == conns'[c]
         IN  /\ o.at = "handshake" /\ o.step = "check" /\ Deed(c).by = "password"
             /\ n.as = o.as /\ n.key = o.key /\ n.tally = o.tally /\ n.step = "lookup"
BY DEF CheckFails, Trying, AtStep, ToStep, IsConn, ConnFields, Clients

LEMMA ByPasswordMoves ==
  ASSUME NEW c \in Clients, IsConn(conns[c]), ByPassword(c)
  PROVE  LET o == conns[c]
             n == conns'[c]
         IN  /\ o.at = "handshake" /\ o.step = "lookup" /\ Deed(c).by = "password"
             /\ n.tally = o.tally
             /\ \/ n.step = "decided" /\ n.seen = "banned" /\ n.key = o.key /\ n.as = o.as
                \/ /\ n.step = "incr" /\ n.seen \in {"signup", "refused"}
                   /\ n.key = Deed(c).handle /\ n.as = o.as
                \/ n.step = "clear" /\ n.as = Deed(c).handle /\ Exists(n.as) /\ n.key = o.key
             /\ \/ guesses' = guesses
                \/ /\ n.step = "incr"
                   /\ guesses' = [guesses EXCEPT ![Deed(c).handle].wrong = @ + 1]
<1> DEFINE h == Deed(c).handle
           res == Verify(Deed(c).pw, accounts[h])
<1>1. conns[c].at = "handshake" /\ conns[c].step = "lookup" /\ Deed(c).by = "password"
  BY DEF ByPassword, Trying, AtStep
<1>2. \/ Counts(c, "signup", h) /\ guesses' = guesses
      \/ Decides(c, "banned") /\ guesses' = guesses
      \/ Counts(c, "refused", h) /\ guesses' = [guesses EXCEPT ![h].wrong = @ + 1]
      \/ Counts(c, "refused", h) /\ guesses' = guesses
      \/ /\ Exists(h) /\ guesses' = guesses
         /\ conns' = [conns EXCEPT ![c].step = "clear", ![c].as = h,
                                   ![c].seen = IF res.needsRehash THEN "rehash" ELSE "known"]
  BY DEF ByPassword
<1> HIDE DEF h, res
<1>3. CASE Counts(c, "signup", h) /\ guesses' = guesses
  BY <1>1, <1>3 DEF Counts, IsConn, ConnFields, Clients, h
<1>4. CASE Decides(c, "banned") /\ guesses' = guesses
  BY <1>1, <1>4 DEF Decides, IsConn, ConnFields, Clients
<1>5. CASE Counts(c, "refused", h) /\ guesses' = [guesses EXCEPT ![h].wrong = @ + 1]
  BY <1>1, <1>5 DEF Counts, IsConn, ConnFields, Clients, h
<1>6. CASE Counts(c, "refused", h) /\ guesses' = guesses
  BY <1>1, <1>6 DEF Counts, IsConn, ConnFields, Clients, h
<1>7. CASE /\ Exists(h) /\ guesses' = guesses
           /\ conns' = [conns EXCEPT ![c].step = "clear", ![c].as = h,
                                     ![c].seen = IF res.needsRehash THEN "rehash" ELSE "known"]
  BY <1>1, <1>7 DEF IsConn, ConnFields, Clients, h
<1> QED
  BY <1>2, <1>3, <1>4, <1>5, <1>6, <1>7

LEMMA ByPublicKeyMoves ==
  ASSUME NEW c \in Clients, IsConn(conns[c]), ByPublicKey(c)
  PROVE  LET o == conns[c]
             n == conns'[c]
         IN  /\ o.at = "handshake" /\ o.step = "lookup" /\ Deed(c).by = "key"
             /\ n.tally = o.tally /\ n.key = o.key /\ n.step = "decided"
             /\ \/ n.seen \in {"signup", "banned", "refused"} /\ n.as = o.as
                \/ n.seen = "known" /\ n.as = Deed(c).handle /\ Exists(n.as)
<1> DEFINE h == Deed(c).handle
<1>1. conns[c].at = "handshake" /\ conns[c].step = "lookup" /\ Deed(c).by = "key"
  BY DEF ByPublicKey, Trying, AtStep
<1>2. \/ Decides(c, "signup") \/ Decides(c, "banned") \/ Decides(c, "refused")
      \/ /\ Exists(h)
         /\ conns' = [conns EXCEPT ![c].step = "decided", ![c].seen = "known", ![c].as = h]
  BY DEF ByPublicKey
<1> HIDE DEF h
<1>3. CASE Decides(c, "signup") \/ Decides(c, "banned") \/ Decides(c, "refused")
  <2>1. PICK x \in {"signup", "banned", "refused"} : Decides(c, x)
    BY <1>3
  <2> QED
    BY <1>1, <2>1 DEF Decides, IsConn, ConnFields, Clients
<1>4. CASE /\ Exists(h)
           /\ conns' = [conns EXCEPT ![c].step = "decided", ![c].seen = "known", ![c].as = h]
  BY <1>1, <1>4 DEF IsConn, ConnFields, Clients, h
<1> QED
  BY <1>2, <1>3, <1>4

LEMMA ClearFailuresMoves ==
  ASSUME NEW c \in Clients, IsConn(conns[c]), ClearFailures(c)
  PROVE  LET o == conns[c]
             n == conns'[c]
         IN  /\ o.at = "handshake" /\ o.step = "clear"
             /\ n.tally = o.tally /\ n.key = o.key /\ n.as = o.as
             /\ n.step = "decided" /\ n.seen = "known"
BY DEF ClearFailures, AtStep, Decides, IsConn, ConnFields, Clients

LEMMA IncrFailsMoves ==
  ASSUME NEW c \in Clients, IsConn(conns[c]), IncrFails(c)
  PROVE  LET o == conns[c]
             n == conns'[c]
         IN  /\ o.at = "handshake" /\ o.step = "incr"
             /\ n.tally = o.tally /\ n.as = o.as /\ n.seen = o.seen
             /\ \/ /\ n.step = "count" /\ n.key = o.key
                   /\ redis[o.key].fails + 1 >= Threshold(o.key)
                \/ /\ ~(redis[o.key].fails + 1 >= Threshold(o.key))
                   /\ \/ o.key \in Handles /\ n.step = "incr" /\ n.key = froms[c]
                      \/ o.key \notin Handles /\ n.step = "decided" /\ n.key = o.key
BY DEF IncrFails, AtStep, ToStep, AfterKey, IsConn, ConnFields, Clients

LEMMA IncrGlitchMoves ==
  ASSUME NEW c \in Clients, IsConn(conns[c]), IncrGlitch(c)
  PROVE  LET o == conns[c]
             n == conns'[c]
         IN  /\ o.at = "handshake" /\ o.step = "incr"
             /\ n.tally = o.tally /\ n.as = o.as /\ n.seen = o.seen /\ n.key = o.key
             /\ n.step = "decided"
BY DEF IncrGlitch, AtStep, ToStep, IsConn, ConnFields, Clients

LEMMA IncrLockcountMoves ==
  ASSUME NEW c \in Clients, IsConn(conns[c]), IncrLockcount(c)
  PROVE  LET o == conns[c]
             n == conns'[c]
         IN  /\ o.at = "handshake" /\ o.step = "count"
             /\ n.tally = redis[o.key].count + 1
             /\ n.as = o.as /\ n.seen = o.seen /\ n.key = o.key
             /\ n.step = "lock"
BY DEF IncrLockcount, AtStep, IsConn, ConnFields, Clients

LEMMA SetLockMoves ==
  ASSUME NEW c \in Clients, IsConn(conns[c]), SetLock(c)
  PROVE  LET o == conns[c]
             n == conns'[c]
         IN  /\ o.at = "handshake" /\ o.step = "lock"
             /\ n.tally = o.tally /\ n.as = o.as /\ n.seen = o.seen /\ n.key = o.key
             /\ n.step = "del"
BY DEF SetLock, AtStep, ToStep, IsConn, ConnFields, Clients

LEMMA LockGlitchMoves ==
  ASSUME NEW c \in Clients, IsConn(conns[c]), LockGlitch(c)
  PROVE  LET o == conns[c]
             n == conns'[c]
         IN  /\ o.at = "handshake" /\ o.step \in {"count", "lock"}
             /\ n.tally = o.tally /\ n.as = o.as /\ n.seen = o.seen /\ n.key = o.key
             /\ n.step = "decided"
BY DEF LockGlitch, AtStep, ToStep, IsConn, ConnFields, Clients

LEMMA DelFailsMoves ==
  ASSUME NEW c \in Clients, IsConn(conns[c]), DelFails(c)
  PROVE  LET o == conns[c]
             n == conns'[c]
         IN  /\ o.at = "handshake" /\ o.step = "del"
             /\ n.tally = o.tally /\ n.as = o.as /\ n.seen = o.seen
             /\ \/ o.key \in Handles /\ n.step = "incr" /\ n.key = froms[c]
                \/ o.key \notin Handles /\ n.step = "decided" /\ n.key = o.key
BY DEF DelFails, AtStep, ToStep, AfterKey, IsConn, ConnFields, Clients

-----------------------------------------------------------------------------
(* LoginBase is preserved.                                                  *)

LEMMA DecisionConn ==
  ASSUME LoginBase, NEW c \in Clients, Decision(c)
  PROVE  ConnBase(c)'
<1>1. /\ IsConn(conns'[c]) /\ deeds' = deeds /\ froms' = froms
      /\ conns'[c].at = conns[c].at
  BY DecisionOnly DEF Decision, BeginAttempt, Check, CheckFails, ByPassword, ByPublicKey,
     ClearFailures, IncrFails, IncrGlitch, IncrLockcount, SetLock, LockGlitch, DelFails, dataVars
<1>2. ConnBase(c)
  BY DEF LoginBase
<1>3. \A d \in LoginDeeds : d.by = "password" => d.handle \in Handles
  BY ScriptAssumption
<1>4. deeds[c] # <<>> => Deed(c) \in LoginDeeds
  BY <1>2, HeadTailProperties DEF ConnBase, Deed
<1>5. IsConn(conns[c])
  BY <1>2 DEF ConnBase
<1> SUFFICES /\ conns'[c].tally \in Nat
             /\ conns'[c].step \in Counting => conns'[c].key \in Handles \cup Addrs
             /\ conns'[c].step = "clear" => conns'[c].as \in Handles
             /\ conns'[c].at = "handshake" /\ conns'[c].step # "idle"
                  => deeds[c] # <<>> /\ Deed(c).by \in {"password", "key"}
  BY <1>1, <1>2 DEF ConnBase, Deed
<1> USE DEF ConnBase, Counting
<1>6. CASE BeginAttempt(c)
  BY <1>2, <1>5, <1>6, BeginAttemptMoves
<1>7. CASE Check(c)
  BY <1>2, <1>5, <1>7, CheckMoves
<1>8. CASE CheckFails(c)
  BY <1>2, <1>5, <1>8, CheckFailsMoves
<1>9. CASE ByPassword(c)
  BY <1>2, <1>3, <1>4, <1>5, <1>9, ByPasswordMoves
<1>10. CASE ByPublicKey(c)
  BY <1>2, <1>5, <1>10, ByPublicKeyMoves
<1>11. CASE ClearFailures(c)
  BY <1>2, <1>5, <1>11, ClearFailuresMoves
<1>12. CASE IncrFails(c)
  BY <1>2, <1>5, <1>12, IncrFailsMoves
<1>13. CASE IncrGlitch(c)
  BY <1>2, <1>5, <1>13, IncrGlitchMoves
<1>14. CASE IncrLockcount(c)
  <2>1. redis[conns[c].key].count \in Nat
    BY <1>2, <1>5, <1>14, IncrLockcountMoves DEF LoginBase, Counters
  <2> QED
    BY <1>2, <1>5, <1>14, <2>1, IncrLockcountMoves
<1>15. CASE SetLock(c)
  BY <1>2, <1>5, <1>15, SetLockMoves
<1>16. CASE LockGlitch(c)
  BY <1>2, <1>5, <1>16, LockGlitchMoves
<1>17. CASE DelFails(c)
  BY <1>2, <1>5, <1>17, DelFailsMoves
<1> QED
  BY <1>6, <1>7, <1>8, <1>9, <1>10, <1>11, <1>12, <1>13, <1>14, <1>15, <1>16, <1>17
     DEF Decision

\* What a decision does to Redis: one key's counters change.
LEMMA DecisionRedis ==
  ASSUME LoginBase, NEW c \in Clients, Decision(c)
  PROVE  /\ redis' \in [Handles \cup Addrs -> Counters]
         /\ guesses' \in [Handles -> [wrong : Nat, forgiven : Nat]]
         /\ hour' = hour /\ glitches' \in Nat /\ glitches' >= glitches
<1>1. ConnBase(c) /\ IsConn(conns[c])
  BY DEF LoginBase, ConnBase
<1>2. /\ redis \in [Handles \cup Addrs -> Counters]
      /\ guesses \in [Handles -> [wrong : Nat, forgiven : Nat]]
      /\ hour \in Nat /\ glitches \in Nat
  BY DEF LoginBase
<1>3. ASSUME NEW k \in Handles \cup Addrs, NEW r \in Counters,
             redis' = [redis EXCEPT ![k] = r]
      PROVE  redis' \in [Handles \cup Addrs -> Counters]
  BY <1>2, <1>3
<1>4. ASSUME NEW k \in Handles \cup Addrs
      PROVE  redis[k] \in Counters
  BY <1>2
<1>5. CASE \/ BeginAttempt(c) \/ Check(c) \/ CheckFails(c) \/ ByPublicKey(c) \/ LockGlitch(c)
  BY <1>2, <1>5 DEF BeginAttempt, Check, CheckFails, ByPublicKey, LockGlitch, dataVars, Glitch
<1>6. CASE ByPassword(c)
  <2>1. redis' = redis /\ hour' = hour /\ glitches' = glitches
    BY <1>6 DEF ByPassword
  <2>2. \/ guesses' = guesses
        \/ guesses' = [guesses EXCEPT ![Deed(c).handle].wrong = @ + 1]
    BY <1>1, <1>6, ByPasswordMoves
  <2> QED
    BY <1>2, <2>1, <2>2
<1>7. CASE ClearFailures(c)
  <2>1. conns[c].as \in Handles
    BY <1>1, <1>7, ClearFailuresMoves DEF ConnBase
  <2>2. CASE redis' = redis /\ guesses' = guesses /\ Glitch
    BY <1>2, <1>7, <2>2 DEF ClearFailures, Glitch
  <2>3. CASE /\ redis' = [redis EXCEPT ![conns[c].as].fails = 0, ![conns[c].as].until = 0,
                                       ![conns[c].as].lock = 0]
             /\ guesses' = [guesses EXCEPT ![conns[c].as] = NoGuess]
             /\ glitches' = glitches
    <3>1. redis' \in [Handles \cup Addrs -> Counters]
      BY <1>2, <2>1, <2>3 DEF Counters
    <3> QED
      BY <1>2, <1>7, <2>1, <2>3, <3>1 DEF ClearFailures, NoGuess
  <2> QED
    BY <1>7, <2>2, <2>3 DEF ClearFailures
<1>8. CASE IncrFails(c)
  <2>1. conns[c].key \in Handles \cup Addrs
    BY <1>1, <1>8, IncrFailsMoves DEF ConnBase, Counting
  <2>2. redis' = [redis EXCEPT ![conns[c].key].fails = redis[conns[c].key].fails + 1,
                               ![conns[c].key].until = hour + 1]
    BY <1>8 DEF IncrFails
  <2>3. redis' \in [Handles \cup Addrs -> Counters]
    BY <1>2, <1>4, <2>1, <2>2 DEF Counters
  <2> QED
    BY <1>2, <1>8, <2>3 DEF IncrFails
<1>9. CASE IncrGlitch(c)
  <2>1. conns[c].key \in Handles \cup Addrs
    BY <1>1, <1>9, IncrGlitchMoves DEF ConnBase, Counting
  <2>2. \/ redis' = redis
        \/ redis' = [redis EXCEPT ![conns[c].key].fails = @ + 1,
                        ![conns[c].key].until = IF redis[conns[c].key].fails = 0 THEN Forever ELSE @]
    BY <1>9 DEF IncrGlitch
  <2>3. Forever \in Nat
    BY LoginAssumption DEF Forever
  <2>4. redis' \in [Handles \cup Addrs -> Counters]
    BY <1>2, <1>4, <2>1, <2>2, <2>3 DEF Counters
  <2> QED
    BY <1>2, <1>9, <2>4 DEF IncrGlitch, Glitch
<1>10. CASE IncrLockcount(c)
  <2>1. conns[c].key \in Handles \cup Addrs
    BY <1>1, <1>10, IncrLockcountMoves DEF ConnBase, Counting
  <2>2. redis' = [redis EXCEPT ![conns[c].key].count = @ + 1,
                               ![conns[c].key].forget = hour + LockcountWindow]
    BY <1>10 DEF IncrLockcount
  <2>3. LockcountWindow \in Nat
    BY LoginAssumption
  <2>4. redis' \in [Handles \cup Addrs -> Counters]
    BY <1>2, <1>4, <2>1, <2>2, <2>3 DEF Counters
  <2> QED
    BY <1>2, <1>10, <2>4 DEF IncrLockcount
<1>11. CASE SetLock(c)
  <2>1. conns[c].key \in Handles \cup Addrs /\ conns[c].tally \in Nat
    BY <1>1, <1>11, SetLockMoves DEF ConnBase, Counting
  <2>2. redis' = [redis EXCEPT ![conns[c].key].lock = hour + LockDuration(conns[c].tally)]
    BY <1>11 DEF SetLock
  <2>3. LockDuration(conns[c].tally) \in Nat
    BY <2>1, LockDurationPositive
  <2>4. redis' \in [Handles \cup Addrs -> Counters]
    BY <1>2, <1>4, <2>1, <2>2, <2>3 DEF Counters
  <2> QED
    BY <1>2, <1>11, <2>4 DEF SetLock
<1>12. CASE DelFails(c)
  <2>1. conns[c].key \in Handles \cup Addrs
    BY <1>1, <1>12, DelFailsMoves DEF ConnBase, Counting
  <2>2. CASE Glitch /\ redis' = redis /\ guesses' = guesses
    BY <1>2, <1>12, <2>2 DEF DelFails, Glitch
  <2>3. CASE /\ redis' = [redis EXCEPT ![conns[c].key].fails = 0, ![conns[c].key].until = 0]
             /\ guesses' = IF conns[c].key \in Handles /\ ~Locked(conns[c].key)
                           THEN [guesses EXCEPT ![conns[c].key].forgiven = @ + redis[conns[c].key].fails]
                           ELSE guesses
             /\ glitches' = glitches
    <3>1. redis' \in [Handles \cup Addrs -> Counters]
      BY <1>2, <1>4, <2>1, <2>3 DEF Counters
    <3>2. redis[conns[c].key].fails \in Nat
      BY <1>4, <2>1 DEF Counters
    <3>3. guesses' \in [Handles -> [wrong : Nat, forgiven : Nat]]
      BY <1>2, <2>3, <3>2
    <3> QED
      BY <1>2, <1>12, <2>3, <3>1, <3>3 DEF DelFails
  <2> QED
    BY <1>12, <2>2, <2>3 DEF DelFails
<1> QED
  BY <1>5, <1>6, <1>7, <1>8, <1>9, <1>10, <1>11, <1>12 DEF Decision

LEMMA DecisionBase ==
  ASSUME LoginBase, NEW c \in Clients, Decision(c)
  PROVE  LoginBase'
<1>1. Only(c) /\ deeds' = deeds
  BY DecisionOnly
<1>2. froms' = froms
  BY DEF Decision, BeginAttempt, Check, CheckFails, ByPassword, ByPublicKey, ClearFailures,
         IncrFails, IncrGlitch, IncrLockcount, SetLock, LockGlitch, DelFails, dataVars
<1>3. ASSUME NEW d \in Clients PROVE ConnBase(d)'
  <2>1. CASE d = c
    BY <2>1, DecisionConn
  <2>2. CASE d # c
    <3>1. ConnBase(d) /\ conns'[d] = conns[d] /\ deeds'[d] = deeds[d]
      BY <1>1, <2>2 DEF LoginBase, Only
    <3> QED
      BY <1>2, <3>1 DEF ConnBase, Deed
  <2> QED
    BY <2>1, <2>2
<1>4. Clients' = Clients /\ DOMAIN deeds' = DOMAIN deeds
  BY <1>1 DEF Only, Clients
<1> QED
  BY <1>3, <1>4, DecisionRedis DEF LoginBase

(* The steps after a decision.                                              *)

LEMMA DispatchAuthMoves ==
  ASSUME NEW c \in Clients, IsConn(conns[c]), DispatchAuth(c)
  PROVE  LET o == conns[c]
             n == conns'[c]
         IN  /\ IsConn(n)
             /\ o.at = "handshake" /\ o.step = "decided"
             /\ n.tally = o.tally /\ n.key = o.key /\ n.as = o.as
             /\ \/ n.at = "handshake" /\ n.step = "idle" /\ proofs' = proofs
                \/ n.at = "full" /\ n.step = o.step /\ proofs' = proofs
                \/ /\ o.seen = "known" /\ n.at = "lobby" /\ n.step = o.step
                   /\ proofs' = [proofs EXCEPT ![c] = Deed(c).by]
                \/ n.at = "form" /\ n.step = "idle" /\ proofs' = proofs
             /\ \A d \in Clients : d # c => conns'[d] = conns[d]
             /\ DOMAIN conns' = DOMAIN conns
             /\ deeds' = [deeds EXCEPT ![c] = Tail(@)]
<1> DEFINE d == Deed(c)
           form == [conns[c] EXCEPT !.at = "form", !.step = "idle",
                                    !.seen = IF d.by = "key" THEN d.key ELSE ""]
           lobby == [conns[c] EXCEPT !.at = "lobby"]
<1>1. /\ conns[c].at = "handshake" /\ conns[c].step = "decided"
      /\ deeds' = [deeds EXCEPT ![c] = Tail(@)]
  BY DEF DispatchAuth, AtStep
<1>2. \/ conns' = [conns EXCEPT ![c].step = "idle", ![c].seen = ""] /\ proofs' = proofs
      \/ conns' = [conns EXCEPT ![c].at = "full"] /\ proofs' = proofs
      \/ /\ conns' = [conns EXCEPT ![c] = ProgramHandler(lobby)]
         /\ proofs' = [proofs EXCEPT ![c] = d.by] /\ conns[c].seen = "known"
      \/ conns' = [conns EXCEPT ![c] = ProgramHandler(form)] /\ proofs' = proofs
  BY DEF DispatchAuth, Rejected
<1>3. CASE conns' = [conns EXCEPT ![c].step = "idle", ![c].seen = ""] /\ proofs' = proofs
  BY <1>1, <1>3 DEF IsConn, ConnFields, Clients
<1>4. CASE conns' = [conns EXCEPT ![c].at = "full"] /\ proofs' = proofs
  BY <1>1, <1>4 DEF IsConn, ConnFields, Clients
<1>5. CASE /\ conns' = [conns EXCEPT ![c] = ProgramHandler(lobby)]
           /\ proofs' = [proofs EXCEPT ![c] = d.by] /\ conns[c].seen = "known"
  <2>1. IsConn(lobby) /\ lobby.at = "lobby" /\ \A f \in ConnFields \ {"at"} : lobby[f] = conns[c][f]
    BY DEF IsConn, ConnFields
  <2>2. ProgramHandler(lobby) = [lobby EXCEPT !.seen = "kickable"]
    BY <2>1 DEF ProgramHandler
  <2>3. /\ IsConn(ProgramHandler(lobby)) /\ ProgramHandler(lobby).at = "lobby"
        /\ \A f \in ConnFields \ {"at", "seen"} : ProgramHandler(lobby)[f] = conns[c][f]
    BY <2>1, <2>2 DEF IsConn, ConnFields
  <2>4. /\ conns'[c] = ProgramHandler(lobby) /\ DOMAIN conns' = DOMAIN conns
        /\ \A e \in Clients : e # c => conns'[e] = conns[e]
    BY <1>5 DEF Clients
  <2> HIDE DEF lobby
  <2> QED
    BY <1>1, <1>5, <2>3, <2>4 DEF ConnFields
<1>6. CASE conns' = [conns EXCEPT ![c] = ProgramHandler(form)] /\ proofs' = proofs
  <2>1. /\ IsConn(form) /\ form.at = "form" /\ form.step = "idle"
        /\ \A f \in ConnFields \ {"at", "step", "seen"} : form[f] = conns[c][f]
    BY DEF IsConn, ConnFields
  <2>2. ProgramHandler(form) = [form EXCEPT !.seen = form.seen]
    BY <2>1 DEF ProgramHandler
  <2>3. ProgramHandler(form) = form
    BY <2>1, <2>2 DEF IsConn, ConnFields
  <2>4. /\ conns'[c] = form /\ DOMAIN conns' = DOMAIN conns
        /\ \A e \in Clients : e # c => conns'[e] = conns[e]
    BY <1>6, <2>3 DEF Clients
  <2> HIDE DEF form
  <2> QED
    BY <1>1, <1>6, <2>1, <2>4 DEF ConnFields
<1> QED
  BY <1>2, <1>3, <1>4, <1>5, <1>6

LEMMA SubmitCmdMoves ==
  ASSUME NEW c \in Clients, IsConn(conns[c]), SubmitCmd(c)
  PROVE  LET o == conns[c]
             n == conns'[c]
         IN  /\ IsConn(n)
             /\ o.at = "form" /\ o.step = "idle"
             /\ n.at = "form" /\ n.step = "working"
             /\ n.tally = o.tally /\ n.key = o.key
             /\ deeds[c] # <<>> /\ deeds' = [deeds EXCEPT ![c] = Tail(@)]
<1>1. /\ conns[c].at = "form" /\ conns[c].step = "idle"
      /\ deeds[c] # <<>> /\ deeds' = [deeds EXCEPT ![c] = Tail(@)]
  BY DEF SubmitCmd, InForm
<1>2. PICK x, y, z : conns' = [conns EXCEPT ![c].step = "working", ![c].as = x,
                                           ![c].adopt = y, ![c].pw = z]
  BY DEF SubmitCmd
<1>3. conns'[c] = [conns[c] EXCEPT !.step = "working", !.as = x, !.adopt = y, !.pw = z]
  BY <1>2 DEF Clients
<1> QED
  BY <1>1, <1>3 DEF IsConn, ConnFields

LEMMA QuitMoves ==
  ASSUME NEW c \in Clients, IsConn(conns[c]), Quit(c)
  PROVE  LET o == conns[c]
             n == conns'[c]
         IN  /\ IsConn(n)
             /\ o.at = "form" /\ n.at = "gone"
             /\ n.step = o.step /\ n.as = o.as
             /\ n.tally = o.tally /\ n.key = o.key
             /\ deeds' = [deeds EXCEPT ![c] = <<>>]
BY DEF Quit, IsConn, ConnFields, Clients

LEMMA CreateAccountMoves ==
  ASSUME NEW c \in Clients, IsConn(conns[c]), CreateAccount(c)
  PROVE  LET o == conns[c]
             n == conns'[c]
         IN  /\ IsConn(n)
             /\ o.at \in {"form", "gone"} /\ o.step = "working"
             /\ n.at = o.at /\ n.as = o.as
             /\ n.tally = o.tally /\ n.key = o.key
             /\ \/ n.step = "created" /\ Refusal(c) = ""
                \/ n.step = "idle" /\ Refusal(c) # ""
             /\ deeds' = deeds
BY DEF CreateAccount, ToStep, IsConn, ConnFields, Clients

LEMMA RegisterCompletedMoves ==
  ASSUME NEW c \in Clients, IsConn(conns[c]), RegisterCompleted(c)
  PROVE  LET o == conns[c]
             n == conns'[c]
         IN  /\ IsConn(n)
             /\ o.at = "form" /\ o.step = "created"
             /\ n.at = "lobby" /\ n.step = "created" /\ n.as = o.as
             /\ n.tally = o.tally /\ n.key = o.key
             /\ deeds' = deeds
BY DEF RegisterCompleted, InForm, IsConn, ConnFields, Clients

\* A connection that only takes the next thing its client does.
LEMMA TakesDeed ==
  ASSUME NEW c \in Clients, EnterWhileWorking(c) \/ SetNewPassword(c)
  PROVE  /\ conns' = conns /\ conns[c].at \in {"form", "lobby"}
         /\ deeds[c] # <<>> /\ deeds' = [deeds EXCEPT ![c] = Tail(@)]
BY DEF EnterWhileWorking, SetNewPassword, InForm

LEMMA SignupOnly ==
  ASSUME LoginBase, NEW c \in Clients, Signup(c)
  PROVE  Only(c)
<1>1. IsConn(conns[c]) /\ DOMAIN deeds = Clients
  BY DEF LoginBase, ConnBase
<1>2. CASE DispatchAuth(c)
  BY <1>1, <1>2, DispatchAuthMoves DEF Only
<1>3. CASE SubmitCmd(c)
  <2>1. \E x, y, z : conns' = [conns EXCEPT ![c].step = "working", ![c].as = x,
                                            ![c].adopt = y, ![c].pw = z]
    BY <1>3 DEF SubmitCmd
  <2> QED
    BY <1>1, <1>3, <2>1, SubmitCmdMoves DEF Only, Clients
<1>4. CASE Quit(c)
  BY <1>4 DEF Quit, Only, Clients
<1>5. CASE CreateAccount(c)
  BY <1>5 DEF CreateAccount, ToStep, Only, Clients
<1>6. CASE RegisterCompleted(c)
  BY <1>6 DEF RegisterCompleted, Only, Clients
<1>7. CASE EnterWhileWorking(c) \/ SetNewPassword(c)
  BY <1>1, <1>7, TakesDeed DEF Only
<1> QED
  BY <1>2, <1>3, <1>4, <1>5, <1>6, <1>7 DEF Signup

LEMMA SignupConn ==
  ASSUME LoginBase, NEW c \in Clients, Signup(c)
  PROVE  ConnBase(c)'
<1>1. ConnBase(c) /\ IsConn(conns[c]) /\ froms' = froms /\ c \in DOMAIN deeds
  BY DEF LoginBase, ConnBase, Signup, DispatchAuth, SubmitCmd, EnterWhileWorking, Quit,
         CreateAccount, RegisterCompleted, SetNewPassword, dataVars
<1>2. deeds[c] # <<>> => Tail(deeds[c]) \in Seq(LoginDeeds)
  BY <1>1, HeadTailProperties DEF ConnBase
<1> USE DEF ConnBase, Counting
<1>3. CASE DispatchAuth(c)
  <2>1. deeds[c] # <<>> /\ deeds'[c] = Tail(deeds[c])
    BY <1>1, <1>3, DispatchAuthMoves
  <2> QED
    BY <1>1, <1>2, <1>3, <2>1, DispatchAuthMoves
<1>4. CASE SubmitCmd(c)
  BY <1>1, <1>2, <1>4, SubmitCmdMoves
<1>5. CASE Quit(c)
  <2>1. deeds'[c] = <<>>
    BY <1>1, <1>5, QuitMoves
  <2> QED
    BY <1>1, <1>5, <2>1, QuitMoves, EmptySeq
<1>6. CASE CreateAccount(c)
  BY <1>1, <1>6, CreateAccountMoves
<1>7. CASE RegisterCompleted(c)
  BY <1>1, <1>7, RegisterCompletedMoves
<1>8. CASE EnterWhileWorking(c) \/ SetNewPassword(c)
  BY <1>1, <1>2, <1>8, TakesDeed
<1> QED
  BY <1>3, <1>4, <1>5, <1>6, <1>7, <1>8 DEF Signup

LEMMA SignupQuiet ==
  ASSUME NEW c \in Clients, Signup(c)
  PROVE  UNCHANGED <<redis, guesses, hour, glitches, froms>>
BY DEF Signup, DispatchAuth, SubmitCmd, EnterWhileWorking, Quit,
       CreateAccount, RegisterCompleted, SetNewPassword, dataVars

LEMMA SignupBase ==
  ASSUME LoginBase, NEW c \in Clients, Signup(c)
  PROVE  LoginBase'
<1>1. Only(c)
  BY SignupOnly
<1>2. ASSUME NEW d \in Clients PROVE ConnBase(d)'
  <2>1. CASE d = c
    BY <2>1, SignupConn
  <2>2. CASE d # c
    <3>1. ConnBase(d) /\ conns'[d] = conns[d] /\ deeds'[d] = deeds[d]
      BY <1>1, <2>2 DEF LoginBase, Only
    <3> QED
      BY <3>1, SignupQuiet DEF ConnBase, Deed
  <2> QED
    BY <2>1, <2>2
<1>3. Clients' = Clients /\ DOMAIN deeds' = DOMAIN deeds
  BY <1>1 DEF Only, Clients
<1> QED
  BY <1>2, <1>3, SignupQuiet DEF LoginBase

LEMMA HourBase ==
  ASSUME LoginBase, HourPasses
  PROVE  LoginBase'
<1>1. ASSUME NEW k \in Handles \cup Addrs
      PROVE  [redis[k] EXCEPT !.fails = IF redis[k].until = hour' THEN 0 ELSE @,
                              !.count = IF redis[k].forget = hour' THEN 0 ELSE @] \in Counters
  BY DEF LoginBase, Counters
<1>2. redis' = [k \in Handles \cup Addrs |->
                  [redis[k] EXCEPT !.fails = IF redis[k].until = hour' THEN 0 ELSE @,
                                   !.count = IF redis[k].forget = hour' THEN 0 ELSE @]]
  BY DEF HourPasses, LoginBase
<1>3. redis' \in [Handles \cup Addrs -> Counters]
  BY <1>1, <1>2
<1>4. guesses' \in [Handles -> [wrong : Nat, forgiven : Nat]]
  BY DEF HourPasses, LoginBase, NoGuess
<1>5. hour' \in Nat /\ glitches' \in Nat
  <2>1. hour' = hour + 1 /\ glitches' = glitches
    BY DEF HourPasses
  <2> QED
    BY <2>1 DEF LoginBase
<1>6. UNCHANGED <<conns, deeds, froms>>
  BY DEF HourPasses
<1> QED
  BY <1>3, <1>4, <1>5, <1>6 DEF LoginBase, ConnBase, Clients, Deed

LEMMA LoginBaseNext == LoginBase /\ [LoginNext]_loginVars => LoginBase'
<1> SUFFICES ASSUME LoginBase, [LoginNext]_loginVars PROVE LoginBase'
  OBVIOUS
<1>1. ASSUME NEW c \in Clients, Decision(c) PROVE LoginBase'
  BY <1>1, DecisionBase
<1>2. ASSUME NEW c \in Clients, Signup(c) PROVE LoginBase'
  BY <1>2, SignupBase
<1>3. ASSUME NEW r \in rehashes, RehashAsync(r) PROVE LoginBase'
  BY <1>3 DEF RehashAsync, LoginBase, ConnBase, Clients, Deed
<1>4. CASE HourPasses
  BY <1>4, HourBase
<1>5. CASE UNCHANGED loginVars
  BY <1>5 DEF loginVars, LoginBase, ConnBase, Clients, Deed
<1> QED
  BY <1>1, <1>2, <1>3, <1>4, <1>5 DEF LoginNext

-----------------------------------------------------------------------------
(* The guesses.  While a handle is not locked, every wrong password of it   *)
(* is in its counter, about to be counted, lost to a failing Redis, or      *)
(* forgiven by a late DEL; while it is locked, what can still come is an    *)
(* attempt that was past the check.                                         *)

Asking(h) ==
  {c \in Clients : /\ conns[c].at = "handshake" /\ conns[c].step = "lookup"
                   /\ Deed(c).by = "password" /\ Deed(c).handle = h}
Uncounted(h) ==
  {c \in Clients : conns[c].step \in {"incr", "count", "lock"} /\ conns[c].key = h}
Slack(h) == glitches + guesses[h].forgiven
Counted(h) == IF redis[h].fails < HandleThreshold THEN redis[h].fails ELSE HandleThreshold - 1

GuessInv(h) ==
  /\ Locked(h) =>
       guesses[h].wrong + Cardinality(Asking(h)) <= HandleThreshold - 1 + Cardinality(Clients) + Slack(h)
  /\ ~Locked(h) => guesses[h].wrong <= Counted(h) + Cardinality(Uncounted(h)) + Slack(h)

GuessInvs == \A h \in Handles : GuessInv(h)

\* Subsets of a finite set that differ in one element at most.
LEMMA OneApart ==
  ASSUME NEW C, IsFiniteSet(C), NEW S, S \subseteq C, NEW T, T \subseteq C,
         NEW c \in C, \A d \in C : d # c => (d \in S <=> d \in T)
  PROVE  /\ Cardinality(S) \in Nat /\ Cardinality(T) \in Nat
         /\ (c \in S <=> c \in T) => Cardinality(T) = Cardinality(S)
         /\ c \in S /\ c \notin T => Cardinality(T) = Cardinality(S) - 1
         /\ c \notin S /\ c \in T => Cardinality(T) = Cardinality(S) + 1
<1>1. /\ IsFiniteSet(S) /\ Cardinality(S) \in Nat
      /\ IsFiniteSet(T) /\ Cardinality(T) \in Nat
  BY FS_Subset, FS_CardinalityType
<1>2. ASSUME c \in S <=> c \in T PROVE Cardinality(T) = Cardinality(S)
  <2>1. S = T
    BY <1>2
  <2> QED
    BY <2>1
<1>3. ASSUME c \in S, c \notin T PROVE Cardinality(T) = Cardinality(S) - 1
  <2>1. T = S \ {c}
    BY <1>3
  <2> QED
    BY <1>1, <1>3, <2>1, FS_RemoveElement
<1>4. ASSUME c \notin S, c \in T PROVE Cardinality(T) = Cardinality(S) + 1
  <2>1. T = S \cup {c}
    BY <1>4
  <2> QED
    BY <1>1, <1>4, <2>1, FS_AddElement
<1> QED
  BY <1>1, <1>2, <1>3, <1>4

\* A step of c changes nobody else's place in Asking and Uncounted.
LEMMA AskingOneApart ==
  ASSUME LoginBase, NEW c \in Clients, Only(c), NEW h
  PROVE  LET A == Asking(h)
             B == Asking(h)'
         IN  /\ Cardinality(A) \in Nat /\ Cardinality(B) \in Nat
             /\ (c \in A <=> c \in B) => Cardinality(B) = Cardinality(A)
             /\ c \in A /\ c \notin B => Cardinality(B) = Cardinality(A) - 1
             /\ c \notin A /\ c \in B => Cardinality(B) = Cardinality(A) + 1
<1>1. Clients' = Clients
  BY DEF Only, Clients
<1>2. Asking(h) \subseteq Clients /\ Asking(h)' \subseteq Clients
  BY <1>1 DEF Asking
<1>3. \A d \in Clients : d # c => (d \in Asking(h) <=> d \in Asking(h)')
  BY <1>1 DEF Only, Asking, Deed
<1>4. IsFiniteSet(Clients)
  BY DEF LoginBase
<1> QED
  BY <1>2, <1>3, <1>4, OneApart

LEMMA UncountedOneApart ==
  ASSUME LoginBase, NEW c \in Clients, Only(c), NEW h
  PROVE  LET A == Uncounted(h)
             B == Uncounted(h)'
         IN  /\ Cardinality(A) \in Nat /\ Cardinality(B) \in Nat
             /\ (c \in A <=> c \in B) => Cardinality(B) = Cardinality(A)
             /\ c \in A /\ c \notin B => Cardinality(B) = Cardinality(A) - 1
             /\ c \notin A /\ c \in B => Cardinality(B) = Cardinality(A) + 1
<1>1. Clients' = Clients
  BY DEF Only, Clients
<1>2. Uncounted(h) \subseteq Clients /\ Uncounted(h)' \subseteq Clients
  BY <1>1 DEF Uncounted
<1>3. \A d \in Clients : d # c => (d \in Uncounted(h) <=> d \in Uncounted(h)')
  BY <1>1 DEF Only, Uncounted
<1>4. IsFiniteSet(Clients)
  BY DEF LoginBase
<1> QED
  BY <1>2, <1>3, <1>4, OneApart

\* Asking and Uncounted together are no more than the clients.
LEMMA PlacesFit ==
  ASSUME LoginBase, NEW h
  PROVE  /\ Cardinality(Asking(h)) \in Nat /\ Cardinality(Uncounted(h)) \in Nat
         /\ Cardinality(Clients) \in Nat
         /\ Cardinality(Asking(h)) + Cardinality(Uncounted(h)) <= Cardinality(Clients)
<1>1. IsFiniteSet(Clients)
  BY DEF LoginBase
<1>2. Asking(h) \subseteq Clients /\ Uncounted(h) \subseteq Clients
  BY DEF Asking, Uncounted
<1>3. Asking(h) \cap Uncounted(h) = {}
  BY DEF Asking, Uncounted
<1>4. IsFiniteSet(Asking(h)) /\ IsFiniteSet(Uncounted(h))
  BY <1>1, <1>2, FS_Subset
<1>5. Cardinality(Asking(h) \cup Uncounted(h)) = Cardinality(Asking(h)) + Cardinality(Uncounted(h))
  <2>1. Cardinality(Asking(h) \cup Uncounted(h))
          = Cardinality(Asking(h)) + Cardinality(Uncounted(h)) - Cardinality(Asking(h) \cap Uncounted(h))
    BY <1>4, FS_Union
  <2>2. Cardinality(Asking(h) \cap Uncounted(h)) = 0
    BY <1>3, FS_EmptySet
  <2>3. Cardinality(Asking(h)) \in Nat /\ Cardinality(Uncounted(h)) \in Nat
    BY <1>4, FS_CardinalityType
  <2> QED
    BY <2>1, <2>2, <2>3
<1>6. Asking(h) \cup Uncounted(h) \subseteq Clients
  BY <1>2
<1>7. Cardinality(Asking(h) \cup Uncounted(h)) <= Cardinality(Clients)
  BY <1>1, <1>6, FS_Subset
<1> QED
  BY <1>1, <1>4, <1>5, <1>7, FS_CardinalityType

\* The numbers of a handle are naturals.
LEMMA GuessNumbers ==
  ASSUME LoginBase, NEW h \in Handles
  PROVE  /\ guesses[h].wrong \in Nat /\ guesses[h].forgiven \in Nat
         /\ redis[h].fails \in Nat /\ redis[h].lock \in Nat
         /\ hour \in Nat /\ glitches \in Nat /\ Slack(h) \in Nat
         /\ HandleThreshold \in Nat \ {0} /\ Counted(h) \in 0 .. HandleThreshold - 1
<1>1. /\ guesses[h].wrong \in Nat /\ guesses[h].forgiven \in Nat
      /\ redis[h].fails \in Nat /\ redis[h].lock \in Nat
      /\ hour \in Nat /\ glitches \in Nat
  BY DEF LoginBase, Counters
<1>2. HandleThreshold \in Nat \ {0}
  BY LoginAssumption
<1> QED
  BY <1>1, <1>2 DEF Slack, Counted

\* No guess, no lock and no unlocking: a client that leaves Uncounted uncounted
\* or joins Asking past a lock does so by a glitch.
LEMMA QuietGuess ==
  ASSUME LoginBase, LoginBase', NEW h \in Handles, GuessInv(h),
         Clients' = Clients,
         redis'[h].lock = redis[h].lock, hour' = hour,
         redis'[h].fails >= redis[h].fails,
         guesses'[h] = guesses[h],
         Locked(h) => Cardinality(Asking(h)') + glitches <= Cardinality(Asking(h)) + glitches',
         Counted(h) + Cardinality(Uncounted(h)) + glitches
           <= Counted(h)' + Cardinality(Uncounted(h)') + glitches'
  PROVE  GuessInv(h)'
<1>1. Locked(h)' <=> Locked(h)
  BY DEF Locked
<1>2. Slack(h)' - Slack(h) = glitches' - glitches
  BY GuessNumbers DEF Slack, LoginBase
<1>3. /\ guesses[h].wrong \in Nat /\ glitches \in Nat /\ Slack(h) \in Nat
      /\ HandleThreshold \in Nat /\ Counted(h) \in Int
  BY GuessNumbers
<1>4. glitches' \in Nat /\ Slack(h)' \in Nat /\ Counted(h)' \in Int
  <2>1. glitches' \in Nat /\ guesses[h].forgiven \in Nat /\ redis'[h].fails \in Nat
    BY GuessNumbers DEF LoginBase, Counters
  <2>2. HandleThreshold \in Nat
    BY LoginAssumption
  <2> QED
    BY <2>1, <2>2 DEF Slack, Counted
<1>5. /\ Cardinality(Asking(h)) \in Nat /\ Cardinality(Uncounted(h)) \in Nat
      /\ Cardinality(Clients) \in Nat
  BY PlacesFit
<1>6. Cardinality(Asking(h)') \in Nat /\ Cardinality(Uncounted(h)') \in Nat
  <2>1. IsFiniteSet(Clients)
    BY DEF LoginBase
  <2>2. Asking(h)' \subseteq Clients /\ Uncounted(h)' \subseteq Clients
    BY DEF Asking, Uncounted
  <2> QED
    BY <2>1, <2>2, FS_Subset, FS_CardinalityType
<1>7. CASE Locked(h)
  BY <1>1, <1>2, <1>3, <1>4, <1>5, <1>6, <1>7 DEF GuessInv
<1>8. CASE ~Locked(h)
  BY <1>1, <1>2, <1>3, <1>4, <1>5, <1>6, <1>8 DEF GuessInv
<1> QED
  BY <1>7, <1>8

\* Nothing guessed since the unlock: both bounds hold.
LEMMA FreshGuess ==
  ASSUME LoginBase', NEW h \in Handles, guesses'[h].wrong = 0
  PROVE  GuessInv(h)'
<1>1. /\ Cardinality(Asking(h)') \in Nat /\ Cardinality(Uncounted(h)') \in Nat
      /\ Cardinality(Clients') \in Nat /\ Cardinality(Asking(h)') <= Cardinality(Clients')
  <2>1. IsFiniteSet(Clients')
    BY DEF LoginBase
  <2>2. Asking(h)' \subseteq Clients' /\ Uncounted(h)' \subseteq Clients'
    BY DEF Asking, Uncounted
  <2> QED
    BY <2>1, <2>2, FS_Subset, FS_CardinalityType
<1>2. glitches' \in Nat /\ guesses'[h].forgiven \in Nat /\ redis'[h].fails \in Nat
  BY DEF LoginBase, Counters
<1>3. HandleThreshold \in Nat \ {0}
  BY LoginAssumption
<1>4. Slack(h)' \in Nat /\ Counted(h)' \in Nat
  BY <1>2, <1>3 DEF Slack, Counted
<1> QED
  BY <1>1, <1>3, <1>4 DEF GuessInv

\* One lemma per step that matters to the counts.
LEMMA WrongGuess ==
  ASSUME LoginBase, LoginBase', NEW c \in Clients, Only(c), NEW h \in Handles, GuessInv(h),
         UNCHANGED <<redis, hour, glitches>>,
         c \in Asking(h), c \notin Asking(h)', c \notin Uncounted(h), c \in Uncounted(h)',
         guesses' = [guesses EXCEPT ![h].wrong = @ + 1]
  PROVE  GuessInv(h)'
<1>1. /\ Cardinality(Asking(h)') = Cardinality(Asking(h)) - 1
      /\ Cardinality(Uncounted(h)') = Cardinality(Uncounted(h)) + 1
  BY AskingOneApart, UncountedOneApart
<1>2. /\ Locked(h)' <=> Locked(h)
      /\ guesses'[h].wrong = guesses[h].wrong + 1 /\ guesses'[h].forgiven = guesses[h].forgiven
      /\ Counted(h)' = Counted(h) /\ Clients' = Clients
  BY DEF Locked, Counted, Only, Clients, LoginBase
<1>3. Slack(h)' = Slack(h)
  BY <1>2 DEF Slack
<1>4. /\ guesses[h].wrong \in Nat /\ Slack(h) \in Nat /\ HandleThreshold \in Nat
      /\ Counted(h) \in Int
  BY GuessNumbers
<1>5. /\ Cardinality(Asking(h)) \in Nat /\ Cardinality(Uncounted(h)) \in Nat
      /\ Cardinality(Clients) \in Nat
  BY PlacesFit
<1> QED
  BY <1>1, <1>2, <1>3, <1>4, <1>5 DEF GuessInv

LEMMA Locks ==
  ASSUME LoginBase, LoginBase', NEW c \in Clients, Only(c), NEW h \in Handles, GuessInv(h),
         Locked(h)', UNCHANGED <<hour, glitches, guesses>>,
         c \notin Asking(h), c \notin Asking(h)'
  PROVE  GuessInv(h)'
<1>1. Cardinality(Asking(h)') = Cardinality(Asking(h)) /\ Clients' = Clients
  BY AskingOneApart DEF Only, Clients
<1>2. Slack(h)' = Slack(h)
  BY DEF Slack
<1>3. /\ guesses[h].wrong \in Nat /\ Slack(h) \in Nat /\ HandleThreshold \in Nat \ {0}
      /\ Counted(h) \in 0 .. HandleThreshold - 1
  BY GuessNumbers
<1>4. /\ Cardinality(Asking(h)) \in Nat /\ Cardinality(Uncounted(h)) \in Nat
      /\ Cardinality(Clients) \in Nat
      /\ Cardinality(Asking(h)) + Cardinality(Uncounted(h)) <= Cardinality(Clients)
  BY PlacesFit
<1>5. guesses[h].wrong + Cardinality(Asking(h)) <= HandleThreshold - 1 + Cardinality(Clients) + Slack(h)
  <2>1. CASE Locked(h)
    BY <2>1 DEF GuessInv
  <2>2. CASE ~Locked(h)
    BY <1>3, <1>4, <2>2 DEF GuessInv
  <2> QED
    BY <2>1, <2>2
<1> QED
  BY <1>1, <1>2, <1>5 DEF GuessInv

LEMMA LateDel ==
  ASSUME LoginBase, LoginBase', NEW c \in Clients, Only(c), NEW h \in Handles, GuessInv(h),
         ~Locked(h), UNCHANGED <<hour, glitches>>, redis'[h].lock = redis[h].lock,
         redis'[h].fails = 0,
         guesses' = [guesses EXCEPT ![h].forgiven = @ + redis[h].fails],
         c \notin Uncounted(h), c \notin Uncounted(h)'
  PROVE  GuessInv(h)'
<1>1. Cardinality(Uncounted(h)') = Cardinality(Uncounted(h)) /\ Clients' = Clients
  BY UncountedOneApart DEF Only, Clients
<1>2. /\ ~Locked(h)'
      /\ guesses'[h].wrong = guesses[h].wrong
      /\ guesses'[h].forgiven = guesses[h].forgiven + redis[h].fails
  BY DEF Locked, LoginBase
<1>3. /\ guesses[h].wrong \in Nat /\ guesses[h].forgiven \in Nat /\ glitches \in Nat
      /\ redis[h].fails \in Nat /\ HandleThreshold \in Nat \ {0}
  BY GuessNumbers
<1>4. Counted(h) <= redis[h].fails /\ Counted(h) \in Nat /\ Counted(h)' = 0
  BY <1>3 DEF Counted
<1>5. Slack(h)' = Slack(h) + redis[h].fails /\ Slack(h) \in Nat
  BY <1>2, <1>3 DEF Slack
<1>6. Cardinality(Uncounted(h)) \in Nat
  BY PlacesFit
<1>7. guesses[h].wrong <= Counted(h) + Cardinality(Uncounted(h)) + Slack(h)
  BY DEF GuessInv
<1>8. guesses[h].wrong <= Counted(h)' + Cardinality(Uncounted(h)') + Slack(h)'
  BY <1>1, <1>3, <1>4, <1>5, <1>6, <1>7
<1> QED
  BY <1>2, <1>8 DEF GuessInv

LEMMA QuietMove ==
  ASSUME LoginBase, LoginBase', NEW c \in Clients, Only(c), NEW h \in Handles, GuessInv(h),
         redis'[h].lock = redis[h].lock, hour' = hour,
         redis'[h].fails >= redis[h].fails,
         guesses'[h] = guesses[h], glitches' >= glitches,
         Locked(h) /\ c \notin Asking(h) /\ c \in Asking(h)' => glitches' = glitches + 1,
         c \in Uncounted(h) /\ c \notin Uncounted(h)'
           => glitches' = glitches + 1 \/ Counted(h)' = Counted(h) + 1
  PROVE  GuessInv(h)'
<1>1. /\ Cardinality(Asking(h)) \in Nat /\ Cardinality(Asking(h)') \in Nat
      /\ Cardinality(Uncounted(h)) \in Nat /\ Cardinality(Uncounted(h)') \in Nat
  BY AskingOneApart, UncountedOneApart
<1>2. glitches \in Nat /\ glitches' \in Nat /\ Clients' = Clients
  BY DEF LoginBase, Only, Clients
<1>3. Counted(h)' >= Counted(h) /\ Counted(h) \in Nat /\ Counted(h)' \in Nat
  <2>1. redis[h].fails \in Nat /\ redis'[h].fails \in Nat
    BY DEF LoginBase, Counters
  <2>2. HandleThreshold \in Nat \ {0}
    BY LoginAssumption
  <2> QED
    BY <2>1, <2>2 DEF Counted
<1>4. Locked(h) => Cardinality(Asking(h)') + glitches <= Cardinality(Asking(h)) + glitches'
  <2>1. CASE c \notin Asking(h) /\ c \in Asking(h)'
    BY <1>1, <1>2, <2>1, AskingOneApart
  <2>2. CASE c \in Asking(h) \/ c \notin Asking(h)'
    <3>1. Cardinality(Asking(h)') <= Cardinality(Asking(h))
      BY <1>1, <2>2, AskingOneApart
    <3> QED
      BY <1>1, <1>2, <3>1
  <2> QED
    BY <2>1, <2>2
<1>5. Counted(h) + Cardinality(Uncounted(h)) + glitches
        <= Counted(h)' + Cardinality(Uncounted(h)') + glitches'
  <2>1. CASE c \in Uncounted(h) /\ c \notin Uncounted(h)'
    <3>1. Cardinality(Uncounted(h)') = Cardinality(Uncounted(h)) - 1
      BY <2>1, UncountedOneApart
    <3> QED
      BY <1>1, <1>2, <1>3, <2>1, <3>1
  <2>2. CASE c \notin Uncounted(h) \/ c \in Uncounted(h)'
    <3>1. Cardinality(Uncounted(h)') >= Cardinality(Uncounted(h))
      BY <1>1, <2>2, UncountedOneApart
    <3> QED
      BY <1>1, <1>2, <1>3, <3>1
  <2> QED
    BY <2>1, <2>2
<1> QED
  BY <1>2, <1>4, <1>5, QuietGuess

LEMMA DecisionGuess ==
  ASSUME LoginBase, NEW c \in Clients, Decision(c), NEW h \in Handles, GuessInv(h)
  PROVE  GuessInv(h)'
<1>1. LoginBase' /\ Only(c) /\ deeds' = deeds /\ hour' = hour
  BY DecisionBase, DecisionOnly, DecisionRedis
<1>2. ConnBase(c) /\ IsConn(conns[c]) /\ froms[c] \notin Handles /\ Clients' = Clients
  BY <1>1, LoginAssumption DEF LoginBase, ConnBase, Only, Clients
<1>3. /\ redis \in [Handles \cup Addrs -> Counters] /\ redis[h].fails \in Nat
      /\ guesses \in [Handles -> [wrong : Nat, forgiven : Nat]] /\ glitches \in Nat
  BY DEF LoginBase, Counters
<1>4. CASE BeginAttempt(c)
  <2>1. /\ c \notin Asking(h) /\ c \notin Asking(h)'
        /\ c \notin Uncounted(h) /\ c \notin Uncounted(h)'
    BY <1>1, <1>2, <1>4, BeginAttemptMoves DEF Asking, Uncounted, Deed
  <2>2. UNCHANGED <<redis, guesses, glitches>>
    BY <1>4 DEF BeginAttempt, dataVars
  <2> QED
    BY <1>1, <1>3, <2>1, <2>2, QuietMove
<1>5. CASE Check(c)
  <2>1. /\ c \notin Asking(h) /\ (c \in Asking(h)' => ~Locked(h))
        /\ c \notin Uncounted(h) /\ c \notin Uncounted(h)'
    BY <1>1, <1>2, <1>5, CheckMoves DEF Asking, Uncounted, Deed
  <2>2. UNCHANGED <<redis, guesses, glitches>>
    BY <1>5 DEF Check, dataVars
  <2> QED
    BY <1>1, <1>3, <2>1, <2>2, QuietMove
<1>6. CASE CheckFails(c)
  <2>1. c \notin Uncounted(h) /\ c \notin Uncounted(h)'
    BY <1>1, <1>2, <1>6, CheckFailsMoves DEF Asking, Uncounted, Deed
  <2>2. UNCHANGED <<redis, guesses>> /\ glitches' = glitches + 1
    BY <1>6 DEF CheckFails, Glitch
  <2> QED
    BY <1>1, <1>3, <2>1, <2>2, QuietMove
<1>7. CASE ByPassword(c)
  <2>1. UNCHANGED <<redis, glitches>>
    BY <1>7 DEF ByPassword
  <2>2. c \notin Asking(h)' /\ c \notin Uncounted(h)
    BY <1>1, <1>2, <1>7, ByPasswordMoves DEF Asking, Uncounted, Deed
  <2>3. CASE guesses' = guesses
    BY <1>1, <1>3, <2>1, <2>2, <2>3, QuietMove
  <2>4. CASE /\ conns'[c].step = "incr" /\ Deed(c).handle # h
             /\ guesses' = [guesses EXCEPT ![Deed(c).handle].wrong = @ + 1]
    <3>1. guesses'[h] = guesses[h]
      BY <1>3, <2>4
    <3> QED
      BY <1>1, <1>3, <2>1, <2>2, <3>1, QuietMove
  <2>5. CASE /\ conns'[c].step = "incr" /\ Deed(c).handle = h
             /\ guesses' = [guesses EXCEPT ![Deed(c).handle].wrong = @ + 1]
    <3>1. c \in Asking(h) /\ c \in Uncounted(h)'
      BY <1>1, <1>2, <1>7, <2>5, ByPasswordMoves DEF Asking, Uncounted, Deed
    <3> QED
      BY <1>1, <2>1, <2>2, <2>5, <3>1, WrongGuess
  <2> QED
    BY <1>2, <1>7, <2>3, <2>4, <2>5, ByPasswordMoves
<1>8. CASE ByPublicKey(c)
  <2>1. /\ c \notin Asking(h) /\ c \notin Asking(h)'
        /\ c \notin Uncounted(h) /\ c \notin Uncounted(h)'
    BY <1>1, <1>2, <1>8, ByPublicKeyMoves DEF Asking, Uncounted, Deed
  <2>2. UNCHANGED <<redis, guesses, glitches>>
    BY <1>8 DEF ByPublicKey, dataVars
  <2> QED
    BY <1>1, <1>3, <2>1, <2>2, QuietMove
<1>9. CASE ClearFailures(c)
  <2>1. /\ c \notin Asking(h) /\ c \notin Asking(h)'
        /\ c \notin Uncounted(h) /\ c \notin Uncounted(h)'
    BY <1>1, <1>2, <1>9, ClearFailuresMoves DEF Asking, Uncounted, Deed
  <2>2. conns[c].as \in Handles
    BY <1>2, <1>9, ClearFailuresMoves DEF ConnBase
  <2>3. CASE UNCHANGED <<redis, guesses>> /\ Glitch
    <3>1. glitches' = glitches + 1
      BY <2>3 DEF Glitch
    <3> QED
      BY <1>1, <1>3, <2>1, <2>3, <3>1, QuietMove
  <2>4. CASE /\ redis' = [redis EXCEPT ![conns[c].as].fails = 0, ![conns[c].as].until = 0,
                                       ![conns[c].as].lock = 0]
             /\ guesses' = [guesses EXCEPT ![conns[c].as] = NoGuess]
             /\ UNCHANGED glitches
    <3>1. CASE conns[c].as = h
      <4>1. guesses'[h].wrong = 0
        BY <1>3, <2>4, <3>1 DEF NoGuess
      <4> QED
        BY <1>1, <4>1, FreshGuess
    <3>2. CASE conns[c].as # h
      <4>1. redis'[h] = redis[h] /\ guesses'[h] = guesses[h]
        BY <1>3, <2>4, <3>2
      <4>2. glitches' = glitches
        BY <2>4
      <4>3. redis'[h].fails >= redis[h].fails /\ glitches' >= glitches
        BY <1>3, <4>1, <4>2
      <4> QED
        BY <1>1, <2>1, <4>1, <4>3, QuietMove
    <3> QED
      BY <3>1, <3>2
  <2> QED
    BY <1>9, <2>3, <2>4 DEF ClearFailures
<1>10. CASE IncrFails(c)
  <2>1. /\ redis' = [redis EXCEPT ![conns[c].key].fails = redis[conns[c].key].fails + 1,
                                  ![conns[c].key].until = hour + 1]
        /\ UNCHANGED <<guesses, glitches>>
    BY <1>10 DEF IncrFails
  <2>2. c \notin Asking(h) /\ c \notin Asking(h)'
    BY <1>1, <1>2, <1>10, IncrFailsMoves DEF Asking, Uncounted, Deed
  <2>3. CASE conns[c].key = h
    <3>1. redis'[h].fails = redis[h].fails + 1 /\ redis'[h].lock = redis[h].lock
      BY <1>3, <2>1, <2>3 DEF Counters
    <3>2. Threshold(h) = HandleThreshold
      BY LoginAssumption DEF Threshold
    <3>3. c \in Uncounted(h)' \/ ~(redis[h].fails + 1 >= HandleThreshold)
      BY <1>1, <1>2, <1>10, <2>3, <3>2, IncrFailsMoves DEF Asking, Uncounted, Deed
    <3>4. ~(redis[h].fails + 1 >= HandleThreshold) => Counted(h)' = Counted(h) + 1
      BY <1>3, <3>1, LoginAssumption DEF Counted
    <3>5. redis'[h].fails >= redis[h].fails
      BY <1>3, <3>1
    <3>6. c \in Uncounted(h) /\ c \notin Uncounted(h)' => Counted(h)' = Counted(h) + 1
      BY <3>3, <3>4
    <3>7. guesses'[h] = guesses[h] /\ glitches' >= glitches
      BY <1>3, <2>1
    <3> QED
      BY <1>1, <2>2, <3>1, <3>5, <3>6, <3>7, QuietMove
  <2>4. CASE conns[c].key # h
    <3>1. redis'[h] = redis[h]
      BY <1>3, <2>1, <2>4
    <3>2. c \notin Uncounted(h)
      BY <2>4 DEF Uncounted
    <3>3. /\ redis'[h].fails >= redis[h].fails /\ glitches' >= glitches
          /\ guesses'[h] = guesses[h]
      BY <1>3, <2>1, <3>1
    <3> QED
      BY <1>1, <2>2, <3>1, <3>2, <3>3, QuietMove
  <2> QED
    BY <2>3, <2>4
<1>11. CASE IncrGlitch(c)
  <2>1. /\ \/ redis' = redis
           \/ redis' = [redis EXCEPT ![conns[c].key].fails = @ + 1,
                 ![conns[c].key].until = IF redis[conns[c].key].fails = 0 THEN Forever ELSE @]
        /\ UNCHANGED guesses /\ glitches' = glitches + 1
    BY <1>11 DEF IncrGlitch, Glitch
  <2>2. redis'[h].fails >= redis[h].fails /\ redis'[h].lock = redis[h].lock
    BY <1>3, <2>1 DEF Counters
  <2> QED
    BY <1>1, <1>3, <2>1, <2>2, QuietMove
<1>12. CASE IncrLockcount(c)
  <2>1. /\ redis' = [redis EXCEPT ![conns[c].key].count = @ + 1,
                                  ![conns[c].key].forget = hour + LockcountWindow]
        /\ UNCHANGED <<guesses, glitches>>
    BY <1>12 DEF IncrLockcount
  <2>2. redis'[h].fails = redis[h].fails /\ redis'[h].lock = redis[h].lock
    BY <1>3, <2>1 DEF Counters
  <2>3. /\ c \notin Asking(h) /\ c \notin Asking(h)'
        /\ c \in Uncounted(h) => c \in Uncounted(h)'
    BY <1>1, <1>2, <1>12, IncrLockcountMoves DEF Asking, Uncounted, Deed
  <2> QED
    BY <1>1, <1>3, <2>1, <2>2, <2>3, QuietMove
<1>13. CASE SetLock(c)
  <2>1. /\ redis' = [redis EXCEPT ![conns[c].key].lock = hour + LockDuration(conns[c].tally)]
        /\ UNCHANGED <<guesses, glitches>>
    BY <1>13 DEF SetLock
  <2>2. c \notin Asking(h) /\ c \notin Asking(h)'
    BY <1>1, <1>2, <1>13, SetLockMoves DEF Asking, Uncounted, Deed
  <2>3. CASE conns[c].key = h
    <3>1. LockDuration(conns[c].tally) \in Nat \ {0} /\ hour \in Nat
      BY <1>2, LockDurationPositive DEF ConnBase, LoginBase
    <3>2. redis'[h].lock = hour + LockDuration(conns[c].tally)
      BY <1>3, <2>1, <2>3 DEF Counters
    <3>3. Locked(h)'
      BY <1>1, <3>1, <3>2 DEF Locked
    <3> QED
      BY <1>1, <2>1, <2>2, <3>3, Locks
  <2>4. CASE conns[c].key # h
    <3>1. redis'[h] = redis[h] /\ c \notin Uncounted(h)
      BY <1>3, <2>1, <2>4 DEF Uncounted
    <3>2. /\ redis'[h].fails >= redis[h].fails /\ glitches' >= glitches
          /\ guesses'[h] = guesses[h]
      BY <1>3, <2>1, <3>1
    <3> QED
      BY <1>1, <2>2, <3>1, <3>2, QuietMove
  <2> QED
    BY <2>3, <2>4
<1>14. CASE LockGlitch(c)
  <2>1. UNCHANGED <<redis, guesses>> /\ glitches' = glitches + 1
    BY <1>14 DEF LockGlitch, Glitch
  <2> QED
    BY <1>1, <1>3, <2>1, QuietMove
<1>15. CASE DelFails(c)
  <2>1. /\ c \notin Asking(h) /\ c \notin Asking(h)'
        /\ c \notin Uncounted(h) /\ c \notin Uncounted(h)'
    BY <1>1, <1>2, <1>15, DelFailsMoves DEF Asking, Uncounted, Deed
  <2>2. CASE UNCHANGED <<redis, guesses>> /\ Glitch
    <3>1. glitches' = glitches + 1
      BY <2>2 DEF Glitch
    <3> QED
      BY <1>1, <1>3, <2>1, <2>2, <3>1, QuietMove
  <2>3. CASE /\ redis' = [redis EXCEPT ![conns[c].key].fails = 0, ![conns[c].key].until = 0]
             /\ guesses' = IF conns[c].key \in Handles /\ ~Locked(conns[c].key)
                           THEN [guesses EXCEPT ![conns[c].key].forgiven = @ + redis[conns[c].key].fails]
                           ELSE guesses
             /\ UNCHANGED glitches
    <3>1. CASE conns[c].key # h
      <4>1. redis'[h] = redis[h] /\ guesses'[h] = guesses[h]
        BY <1>3, <2>3, <3>1
      <4>2. glitches' = glitches
        BY <2>3
      <4>3. redis'[h].fails >= redis[h].fails /\ glitches' >= glitches
        BY <1>3, <4>1, <4>2
      <4> QED
        BY <1>1, <2>1, <4>1, <4>3, QuietMove
    <3>2. CASE conns[c].key = h /\ Locked(h)
      <4>1. redis'[h].lock = redis[h].lock /\ UNCHANGED guesses
        BY <1>3, <2>3, <3>2 DEF Counters
      <4>2. Locked(h)'
        BY <1>1, <3>2, <4>1 DEF Locked
      <4> QED
        BY <1>1, <2>1, <2>3, <4>1, <4>2, Locks
    <3>3. CASE conns[c].key = h /\ ~Locked(h)
      <4>1. redis'[h].lock = redis[h].lock /\ redis'[h].fails = 0
        BY <1>3, <2>3, <3>3 DEF Counters
      <4>2. guesses' = [guesses EXCEPT ![h].forgiven = @ + redis[h].fails]
        BY <2>3, <3>3
      <4> QED
        BY <1>1, <2>1, <2>3, <3>3, <4>1, <4>2, LateDel
    <3> QED
      BY <3>1, <3>2, <3>3
  <2> QED
    BY <1>15, <2>2, <2>3 DEF DelFails
<1> QED
  BY <1>4, <1>5, <1>6, <1>7, <1>8, <1>9, <1>10, <1>11, <1>12, <1>13, <1>14, <1>15
     DEF Decision

LEMMA SignupGuess ==
  ASSUME LoginBase, NEW c \in Clients, Signup(c), NEW h \in Handles, GuessInv(h)
  PROVE  GuessInv(h)'
<1>1. LoginBase' /\ Only(c) /\ UNCHANGED <<redis, guesses, hour, glitches>>
  BY SignupBase, SignupOnly, SignupQuiet
<1>2. IsConn(conns[c]) /\ redis[h].fails \in Nat /\ glitches \in Nat /\ Clients' = Clients
  BY <1>1 DEF LoginBase, ConnBase, Counters, Only, Clients
<1> USE DEF Asking, Uncounted
<1>3. CASE DispatchAuth(c)
  <2>1. c \notin Uncounted(h) /\ c \notin Asking(h)'
    BY <1>2, <1>3, DispatchAuthMoves
  <2> QED
    BY <1>1, <1>2, <2>1, QuietMove
<1>4. CASE SubmitCmd(c)
  <2>1. c \notin Uncounted(h) /\ c \notin Asking(h)'
    BY <1>2, <1>4, SubmitCmdMoves
  <2> QED
    BY <1>1, <1>2, <2>1, QuietMove
<1>5. CASE Quit(c)
  <2>1. (c \in Uncounted(h) => c \in Uncounted(h)') /\ c \notin Asking(h)'
    BY <1>2, <1>5, QuitMoves
  <2> QED
    BY <1>1, <1>2, <2>1, QuietMove
<1>6. CASE CreateAccount(c)
  <2>1. c \notin Uncounted(h) /\ c \notin Asking(h)'
    BY <1>2, <1>6, CreateAccountMoves
  <2> QED
    BY <1>1, <1>2, <2>1, QuietMove
<1>7. CASE RegisterCompleted(c)
  <2>1. c \notin Uncounted(h) /\ c \notin Asking(h)'
    BY <1>2, <1>7, RegisterCompletedMoves
  <2> QED
    BY <1>1, <1>2, <2>1, QuietMove
<1>8. CASE EnterWhileWorking(c) \/ SetNewPassword(c)
  <2>1. (c \in Uncounted(h) => c \in Uncounted(h)') /\ c \notin Asking(h)'
    BY <1>2, <1>8, TakesDeed
  <2> QED
    BY <1>1, <1>2, <2>1, QuietMove
<1> QED
  BY <1>3, <1>4, <1>5, <1>6, <1>7, <1>8 DEF Signup

LEMMA HourGuess ==
  ASSUME LoginBase, HourPasses, NEW h \in Handles, GuessInv(h)
  PROVE  GuessInv(h)'
<1>1. LoginBase'
  BY HourBase
<1>2. /\ UNCHANGED <<conns, deeds, glitches>> /\ hour' = hour + 1
      /\ guesses' = [k \in Handles |-> IF redis[k].lock = hour' \/ redis[k].until = hour'
                                        THEN NoGuess ELSE guesses[k]]
      /\ redis' = [k \in DOMAIN redis |->
                      [redis[k] EXCEPT !.fails = IF redis[k].until = hour' THEN 0 ELSE @,
                                       !.count = IF redis[k].forget = hour' THEN 0 ELSE @]]
  BY DEF HourPasses
<1>3. CASE redis[h].lock = hour' \/ redis[h].until = hour'
  <2>1. guesses'[h].wrong = 0
    BY <1>2, <1>3 DEF NoGuess
  <2> QED
    BY <1>1, <2>1, FreshGuess
<1>4. CASE redis[h].lock # hour' /\ redis[h].until # hour'
  <2>1. h \in DOMAIN redis /\ redis[h] \in Counters
    BY DEF LoginBase
  <2>2. redis'[h].lock = redis[h].lock /\ redis'[h].fails = redis[h].fails
    BY <1>2, <1>4, <2>1 DEF Counters
  <2>3. guesses'[h] = guesses[h]
    BY <1>2, <1>4
  <2>4. Locked(h)' <=> Locked(h)
    <3>1. redis[h].lock \in Nat /\ hour \in Nat /\ redis[h].lock # hour + 1
      BY <1>2, <1>4, GuessNumbers
    <3>2. redis[h].lock > hour + 1 <=> redis[h].lock > hour
      BY <3>1
    <3>3. hour' = hour + 1 /\ redis'[h].lock = redis[h].lock
      BY <1>2, <2>2
    <3> QED
      BY <3>2, <3>3 DEF Locked
  <2>5. Slack(h)' = Slack(h) /\ Counted(h)' = Counted(h)
    BY <1>2, <2>2, <2>3 DEF Slack, Counted
  <2>6. Clients' = Clients /\ Asking(h)' = Asking(h) /\ Uncounted(h)' = Uncounted(h)
    BY <1>2 DEF Clients, Asking, Uncounted, Deed
  <2> QED
    BY <2>3, <2>4, <2>5, <2>6 DEF GuessInv
<1> QED
  BY <1>3, <1>4

LEMMA GuessInit == LoginInit => GuessInvs
<1> SUFFICES ASSUME LoginInit, NEW h \in Handles PROVE GuessInv(h)
  BY DEF GuessInvs
<1>1. LoginBase
  BY LoginBaseInit
<1>2. guesses[h].wrong = 0 /\ ~Locked(h)
  <2>1. guesses = [k \in Handles |-> NoGuess] /\ redis = [k \in Handles \cup Addrs |-> NoKey] /\ hour = 0
    BY DEF LoginInit
  <2>2. guesses[h] = NoGuess /\ redis[h] = NoKey
    BY <2>1
  <2> QED
    BY <2>1, <2>2 DEF NoGuess, NoKey, Locked
<1>3. Counted(h) \in Nat /\ Slack(h) \in Nat /\ Cardinality(Uncounted(h)) \in Nat
  BY <1>1, GuessNumbers, PlacesFit
<1> QED
  BY <1>2, <1>3 DEF GuessInv

LEMMA GuessNext == LoginBase /\ GuessInvs /\ [LoginNext]_loginVars => GuessInvs'
<1> SUFFICES ASSUME LoginBase, GuessInvs, [LoginNext]_loginVars, NEW h \in Handles
             PROVE  GuessInv(h)'
  BY DEF GuessInvs
<1>1. GuessInv(h)
  BY DEF GuessInvs
<1>2. ASSUME NEW c \in Clients, Decision(c) PROVE GuessInv(h)'
  BY <1>1, <1>2, DecisionGuess
<1>3. ASSUME NEW c \in Clients, Signup(c) PROVE GuessInv(h)'
  BY <1>1, <1>3, SignupGuess
<1>4. CASE HourPasses
  BY <1>1, <1>4, HourGuess
<1>5. ASSUME NEW r \in rehashes, RehashAsync(r) PROVE GuessInv(h)'
  BY <1>1, <1>5 DEF RehashAsync, GuessInv, Locked, Asking, Uncounted, Slack, Counted, Clients, Deed
<1>6. CASE UNCHANGED loginVars
  BY <1>1, <1>6 DEF loginVars, GuessInv, Locked, Asking, Uncounted, Slack, Counted, Clients, Deed
<1> QED
  BY <1>2, <1>3, <1>4, <1>5, <1>6 DEF LoginNext

LEMMA GuessesWithin == LoginBase /\ GuessInvs => GuessesBounded
<1> SUFFICES ASSUME LoginBase, GuessInvs, NEW h \in Handles
             PROVE  guesses[h].wrong <= HandleThreshold - 1 + Cardinality(Clients)
                                          + glitches + guesses[h].forgiven
  BY DEF GuessesBounded
<1>1. GuessInv(h)
  BY DEF GuessInvs
<1>2. /\ guesses[h].wrong \in Nat /\ guesses[h].forgiven \in Nat /\ glitches \in Nat
      /\ Slack(h) = glitches + guesses[h].forgiven
      /\ HandleThreshold \in Nat \ {0} /\ Counted(h) \in 0 .. HandleThreshold - 1
  BY GuessNumbers DEF Slack
<1>3. /\ Cardinality(Asking(h)) \in Nat /\ Cardinality(Uncounted(h)) \in Nat
      /\ Cardinality(Clients) \in Nat /\ Cardinality(Uncounted(h)) <= Cardinality(Clients)
  BY PlacesFit
<1> QED
  BY <1>1, <1>2, <1>3 DEF GuessInv

-----------------------------------------------------------------------------
(* Founders: who is let in as a known user has an account by that name, and *)
(* the account of a registration was not there before.                      *)

Founded(c) ==
  /\ conns[c].step \in {"clear", "created"} => Exists(conns[c].as)
  /\ conns[c].step = "decided" /\ conns[c].seen = "known" => Exists(conns[c].as)
  /\ conns[c].step \in Counting => conns[c].seen # "known"
  /\ conns[c].at = "lobby" => Exists(conns[c].as) /\ proofs[c] # ""
  /\ proofs[c] = "registered" => conns[c].step = "created"

FounderInv ==
  /\ DOMAIN proofs = Clients
  /\ \A c \in Clients : Founded(c)
  /\ \A c, d \in Clients :
       c # d /\ conns[c].step = "created" /\ conns[d].step = "created" => conns[c].as # conns[d].as

LEMMA FounderInit == LoginInit => FounderInv
<1> SUFFICES ASSUME LoginInit PROVE FounderInv
  OBVIOUS
<1>1. PICK s \in LoginScripts :
        /\ conns = [c \in DOMAIN s.does |->
                      [at |-> "handshake", step |-> "idle", key |-> "", seen |-> "", as |-> "",
                       tally |-> 0, adopt |-> FALSE, pw |-> ""]]
        /\ proofs = [c \in DOMAIN s.does |-> ""]
  BY DEF LoginInit
<1>2. \A c \in Clients : conns[c].at = "handshake" /\ conns[c].step = "idle" /\ proofs[c] = ""
  BY <1>1 DEF Clients
<1> QED
  BY <1>1, <1>2 DEF FounderInv, Founded, Clients, Counting

\* A step of c that registers nobody.
LEMMA FounderStep ==
  ASSUME FounderInv, NEW c \in Clients, Only(c),
         DOMAIN accounts' = DOMAIN accounts, DOMAIN proofs' = DOMAIN proofs,
         \A d \in Clients : d # c => proofs'[d] = proofs[d],
         Founded(c)',
         conns'[c].step = "created" => conns[c].step = "created" /\ conns'[c].as = conns[c].as
  PROVE  FounderInv'
<1>1. Clients' = Clients
  BY DEF Only, Clients
<1>2. ASSUME NEW d \in Clients PROVE Founded(d)'
  <2>1. CASE d = c
    BY <2>1
  <2>2. CASE d # c
    <3>1. Founded(d) /\ conns'[d] = conns[d] /\ proofs'[d] = proofs[d]
      BY <2>2 DEF FounderInv, Only
    <3> QED
      BY <3>1 DEF Founded, Exists
  <2> QED
    BY <2>1, <2>2
<1>3. \A d, e \in Clients :
        d # e /\ conns'[d].step = "created" /\ conns'[e].step = "created" => conns'[d].as # conns'[e].as
  BY DEF FounderInv, Only
<1> QED
  BY <1>1, <1>2, <1>3 DEF FounderInv

LEMMA DecisionFounder ==
  ASSUME LoginBase, FounderInv, NEW c \in Clients, Decision(c)
  PROVE  FounderInv'
<1>1. /\ Only(c) /\ UNCHANGED <<accounts, proofs>> /\ conns'[c].at = conns[c].at
  BY DecisionOnly DEF Decision, BeginAttempt, Check, CheckFails, ByPassword, ByPublicKey,
     ClearFailures, IncrFails, IncrGlitch, IncrLockcount, SetLock, LockGlitch, DelFails, dataVars
<1>2. IsConn(conns[c]) /\ Founded(c)
  BY DEF LoginBase, ConnBase, FounderInv
<1> DEFINE Settles ==
  /\ conns'[c].step \in {"clear", "created"} => Exists(conns'[c].as)
  /\ conns'[c].step = "decided" /\ conns'[c].seen = "known" => Exists(conns'[c].as)
  /\ conns'[c].step \in Counting => conns'[c].seen # "known"
  /\ conns[c].at = "handshake" /\ conns[c].step # "created" /\ conns'[c].step # "created"
<1> USE DEF Founded, Counting
<1>3. CASE BeginAttempt(c)
  <2>1. Settles
    BY <1>2, <1>3, BeginAttemptMoves
  <2> QED
    BY <1>1, <1>2, <2>1, FounderStep DEF Exists
<1>4. CASE Check(c)
  <2>1. Settles
    BY <1>2, <1>4, CheckMoves
  <2> QED
    BY <1>1, <1>2, <2>1, FounderStep DEF Exists
<1>5. CASE CheckFails(c)
  <2>1. Settles
    BY <1>2, <1>5, CheckFailsMoves
  <2> QED
    BY <1>1, <1>2, <2>1, FounderStep DEF Exists
<1>6. CASE ByPassword(c)
  <2>1. Settles
    BY <1>2, <1>6, ByPasswordMoves
  <2> QED
    BY <1>1, <1>2, <2>1, FounderStep DEF Exists
<1>7. CASE ByPublicKey(c)
  <2>1. Settles
    BY <1>2, <1>7, ByPublicKeyMoves
  <2> QED
    BY <1>1, <1>2, <2>1, FounderStep DEF Exists
<1>8. CASE ClearFailures(c)
  <2>1. Settles
    BY <1>2, <1>8, ClearFailuresMoves
  <2> QED
    BY <1>1, <1>2, <2>1, FounderStep DEF Exists
<1>9. CASE IncrFails(c)
  <2>1. Settles
    BY <1>2, <1>9, IncrFailsMoves
  <2> QED
    BY <1>1, <1>2, <2>1, FounderStep DEF Exists
<1>10. CASE IncrGlitch(c)
  <2>1. Settles
    BY <1>2, <1>10, IncrGlitchMoves
  <2> QED
    BY <1>1, <1>2, <2>1, FounderStep DEF Exists
<1>11. CASE IncrLockcount(c)
  <2>1. Settles
    BY <1>2, <1>11, IncrLockcountMoves
  <2> QED
    BY <1>1, <1>2, <2>1, FounderStep DEF Exists
<1>12. CASE SetLock(c)
  <2>1. Settles
    BY <1>2, <1>12, SetLockMoves
  <2> QED
    BY <1>1, <1>2, <2>1, FounderStep DEF Exists
<1>13. CASE LockGlitch(c)
  <2>1. Settles
    BY <1>2, <1>13, LockGlitchMoves
  <2> QED
    BY <1>1, <1>2, <2>1, FounderStep DEF Exists
<1>14. CASE DelFails(c)
  <2>1. Settles
    BY <1>2, <1>14, DelFailsMoves
  <2> QED
    BY <1>1, <1>2, <2>1, FounderStep DEF Exists
<1> QED
  BY <1>3, <1>4, <1>5, <1>6, <1>7, <1>8, <1>9, <1>10, <1>11, <1>12, <1>13, <1>14 DEF Decision

LEMMA SignupFounder ==
  ASSUME LoginBase, FounderInv, NEW c \in Clients, Signup(c)
  PROVE  FounderInv'
<1>1. Only(c)
  BY SignupOnly
<1>2. IsConn(conns[c]) /\ Founded(c) /\ ConnBase(c) /\ c \in DOMAIN proofs
  BY DEF LoginBase, ConnBase, FounderInv
<1> USE DEF Founded, Counting
<1>3. CASE DispatchAuth(c)
  <2>1. accounts' = accounts
    BY <1>3 DEF DispatchAuth
  <2>2. Deed(c).by # "" /\ Deed(c).by # "registered"
    BY <1>2, <1>3, DispatchAuthMoves DEF ConnBase
  <2>3. proofs' = proofs \/ proofs' = [proofs EXCEPT ![c] = Deed(c).by]
    BY <1>2, <1>3, DispatchAuthMoves
  <2>4. DOMAIN proofs' = DOMAIN proofs /\ \A d \in Clients : d # c => proofs'[d] = proofs[d]
    BY <2>3 DEF FounderInv
  <2>5. proofs' = [proofs EXCEPT ![c] = Deed(c).by] => proofs'[c] = Deed(c).by
    BY <1>2
  <2>6. /\ conns[c].at = "handshake" /\ conns[c].step = "decided" /\ conns'[c].as = conns[c].as
        /\ \/ conns'[c].at = "handshake" /\ conns'[c].step = "idle" /\ proofs' = proofs
           \/ conns'[c].at = "full" /\ conns'[c].step = "decided" /\ proofs' = proofs
           \/ /\ conns[c].seen = "known" /\ conns'[c].at = "lobby" /\ conns'[c].step = "decided"
              /\ proofs' = [proofs EXCEPT ![c] = Deed(c).by]
           \/ conns'[c].at = "form" /\ conns'[c].step = "idle" /\ proofs' = proofs
    BY <1>2, <1>3, DispatchAuthMoves
  <2>7. conns'[c].at = "full" => conns'[c].seen = conns[c].seen
    BY <1>2, <1>3, <2>6 DEF DispatchAuth, Rejected, ProgramHandler, IsConn, ConnFields, Clients
  <2>8. Founded(c)' /\ conns'[c].step # "created"
    BY <1>2, <2>1, <2>2, <2>5, <2>6, <2>7 DEF Exists
  <2> QED
    BY <1>1, <2>1, <2>4, <2>8, FounderStep
<1>4. CASE SubmitCmd(c)
  <2>1. UNCHANGED <<accounts, proofs>>
    BY <1>4 DEF SubmitCmd, dataVars
  <2> QED
    BY <1>1, <1>2, <1>4, <2>1, SubmitCmdMoves, FounderStep DEF Exists
<1>5. CASE Quit(c)
  <2>1. UNCHANGED <<accounts, proofs>>
    BY <1>5 DEF Quit, dataVars
  <2>2. conns'[c].seen = conns[c].seen
    BY <1>2, <1>5 DEF Quit, IsConn, ConnFields, Clients
  <2> QED
    BY <1>1, <1>2, <1>5, <2>1, <2>2, QuitMoves, FounderStep DEF Exists
<1>6. CASE CreateAccount(c)
  <2>1. proofs' = proofs
    BY <1>6 DEF CreateAccount
  <2>2. CASE Refusal(c) # ""
    <3>1. accounts' = accounts
      BY <1>6, <2>2 DEF CreateAccount
    <3> QED
      BY <1>1, <1>2, <1>6, <2>1, <2>2, <3>1, CreateAccountMoves, FounderStep DEF Exists
  <2>3. CASE Refusal(c) = ""
    <3>1. /\ ~Exists(conns[c].as)
          /\ DOMAIN accounts' = DOMAIN accounts \cup {conns[c].as}
      BY <1>6, <2>3 DEF CreateAccount, Refusal
    <3>2. /\ conns'[c].step = "created" /\ conns'[c].as = conns[c].as
          /\ conns[c].at # "lobby" /\ conns'[c].at = conns[c].at
      BY <1>2, <1>6, <2>3, CreateAccountMoves
    <3>3. Clients' = Clients
      BY <1>1 DEF Only, Clients
    <3>4. ASSUME NEW d \in Clients PROVE Founded(d)'
      <4>1. CASE d = c
        BY <1>2, <2>1, <3>1, <3>2, <4>1 DEF Exists
      <4>2. CASE d # c
        <5>1. Founded(d) /\ conns'[d] = conns[d]
          BY <1>1, <4>2 DEF FounderInv, Only
        <5> QED
          BY <2>1, <3>1, <5>1 DEF Exists
      <4> QED
        BY <4>1, <4>2
    <3>5. \A d \in Clients : d # c /\ conns'[d].step = "created" => conns'[d].as # conns[c].as
      BY <1>1, <3>1 DEF FounderInv, Only
    <3>6. \A d, e \in Clients :
            d # e /\ conns'[d].step = "created" /\ conns'[e].step = "created" => conns'[d].as # conns'[e].as
      <4> SUFFICES ASSUME NEW d \in Clients, NEW e \in Clients, d # e,
                          conns'[d].step = "created", conns'[e].step = "created"
                   PROVE  conns'[d].as # conns'[e].as
        OBVIOUS
      <4>1. CASE d = c
        BY <3>2, <3>5, <4>1
      <4>2. CASE e = c
        BY <3>2, <3>5, <4>2
      <4>3. CASE d # c /\ e # c
        <5>1. conns'[d] = conns[d] /\ conns'[e] = conns[e]
          BY <1>1, <4>3 DEF Only
        <5>2. conns[d].step = "created" /\ conns[e].step = "created" => conns[d].as # conns[e].as
          BY DEF FounderInv
        <5> QED
          BY <5>1, <5>2
      <4> QED
        BY <4>1, <4>2, <4>3
    <3> QED
      BY <2>1, <3>3, <3>4, <3>6 DEF FounderInv
  <2> QED
    BY <2>2, <2>3
<1>7. CASE RegisterCompleted(c)
  <2>1. accounts' = accounts /\ proofs' = [proofs EXCEPT ![c] = "registered"]
    BY <1>7 DEF RegisterCompleted
  <2>2. DOMAIN proofs' = DOMAIN proofs /\ \A d \in Clients : d # c => proofs'[d] = proofs[d]
    BY <2>1 DEF FounderInv
  <2>3. proofs'[c] = "registered"
    BY <1>2, <2>1
  <2>4. /\ Founded(c)' /\ conns[c].step = "created" /\ conns'[c].as = conns[c].as
    BY <1>2, <1>7, <2>1, <2>3, RegisterCompletedMoves DEF Exists
  <2> QED
    BY <1>1, <2>1, <2>2, <2>4, FounderStep
<1>8. CASE EnterWhileWorking(c) \/ SetNewPassword(c)
  <2>1. proofs' = proofs /\ DOMAIN accounts' = DOMAIN accounts
    BY <1>8 DEF EnterWhileWorking, SetNewPassword, dataVars
  <2>2. conns' = conns
    BY <1>8, TakesDeed
  <2> QED
    BY <1>1, <1>2, <2>1, <2>2, FounderStep DEF Exists
<1> QED
  BY <1>3, <1>4, <1>5, <1>6, <1>7, <1>8 DEF Signup

LEMMA FounderNext == LoginBase /\ FounderInv /\ [LoginNext]_loginVars => FounderInv'
<1> SUFFICES ASSUME LoginBase, FounderInv, [LoginNext]_loginVars PROVE FounderInv'
  OBVIOUS
<1>1. ASSUME NEW c \in Clients, Decision(c) PROVE FounderInv'
  BY <1>1, DecisionFounder
<1>2. ASSUME NEW c \in Clients, Signup(c) PROVE FounderInv'
  BY <1>2, SignupFounder
<1>3. ASSUME NEW r \in rehashes, RehashAsync(r) PROVE FounderInv'
  <2>1. UNCHANGED <<conns, proofs>> /\ DOMAIN accounts' = DOMAIN accounts
    BY <1>3 DEF RehashAsync
  <2> QED
    BY <2>1 DEF FounderInv, Founded, Exists, Clients
<1>4. CASE HourPasses
  BY <1>4 DEF HourPasses, FounderInv, Founded, Exists, Clients
<1>5. CASE UNCHANGED loginVars
  BY <1>5 DEF loginVars, FounderInv, Founded, Exists, Clients
<1> QED
  BY <1>1, <1>2, <1>3, <1>4, <1>5 DEF LoginNext

-----------------------------------------------------------------------------
(* Keys: no two rows share one, as ix_identity_credentials_provider_subject *)
(* wants it; a registration adopts only a key that nobody has.              *)

KeyInv ==
  /\ \A h \in DOMAIN accounts : IsRow(accounts[h])
  /\ KeyOfOne

LEMMA KeyInit == LoginInit => KeyInv
BY RegisteredAssumption DEF LoginInit, KeyInv, KeyOfOne

\* A new password for an account changes no keys.
LEMMA PasswordKeepsKeys ==
  ASSUME KeyInv, NEW h, NEW x, accounts' = [accounts EXCEPT ![h].pw = x, ![h].stale = FALSE]
  PROVE  KeyInv'
<1>1. DOMAIN accounts' = DOMAIN accounts
  OBVIOUS
<1>2. ASSUME NEW g \in DOMAIN accounts
      PROVE  IsRow(accounts'[g]) /\ accounts'[g].keys = accounts[g].keys
  <2>1. IsRow(accounts[g])
    BY DEF KeyInv
  <2>2. CASE g = h
    <3>1. accounts'[g] = [accounts[g] EXCEPT !.pw = x, !.stale = FALSE]
      BY <2>2
    <3> QED
      BY <2>1, <3>1 DEF IsRow, RowFields
  <2>3. CASE g # h
    BY <2>1, <2>3
  <2> QED
    BY <2>2, <2>3
<1> QED
  BY <1>1, <1>2 DEF KeyInv, KeyOfOne

LEMMA RegistrationKeepsKeys ==
  ASSUME KeyInv, NEW c \in Clients, CreateAccount(c)
  PROVE  KeyInv'
<1>1. CASE Refusal(c) # ""
  <2>1. accounts' = accounts
    BY <1>1 DEF CreateAccount
  <2> QED
    BY <2>1 DEF KeyInv, KeyOfOne
<1>2. CASE Refusal(c) = ""
  <2> DEFINE new == NewAccount(c)
             name == conns[c].as
  <2>1. /\ accounts' = [h \in DOMAIN accounts \cup {name} |-> IF Exists(h) THEN accounts[h] ELSE new]
        /\ ~Exists(name)
        /\ \A key \in new.keys : Owner(key) = {}
    BY <1>2 DEF CreateAccount, Refusal
  <2>2. IsRow(new)
    BY DEF NewAccount, IsRow, RowFields
  <2> HIDE DEF new, name
  <2>3. \A g \in DOMAIN accounts : accounts'[g] = accounts[g]
    BY <2>1 DEF Exists
  <2>4. accounts'[name] = new /\ DOMAIN accounts' = DOMAIN accounts \cup {name}
    BY <2>1 DEF Exists
  <2>5. \A g \in DOMAIN accounts : accounts[g].keys \cap new.keys = {}
    BY <2>1 DEF Owner
  <2>6. \A g \in DOMAIN accounts' : IsRow(accounts'[g])
    BY <2>2, <2>3, <2>4 DEF KeyInv
  <2>7. KeyOfOne'
    <3> SUFFICES ASSUME NEW g \in DOMAIN accounts', NEW h \in DOMAIN accounts', g # h
                 PROVE  accounts'[g].keys \cap accounts'[h].keys = {}
      BY DEF KeyOfOne
    <3>1. CASE g \in DOMAIN accounts /\ h \in DOMAIN accounts
      BY <2>3, <3>1 DEF KeyInv, KeyOfOne
    <3>2. CASE g \in DOMAIN accounts /\ h = name
      BY <2>3, <2>4, <2>5, <3>2
    <3>3. CASE g = name /\ h \in DOMAIN accounts
      BY <2>3, <2>4, <2>5, <3>3
    <3> QED
      BY <2>4, <3>1, <3>2, <3>3
  <2> QED
    BY <2>6, <2>7 DEF KeyInv
<1> QED
  BY <1>1, <1>2

LEMMA KeyNext == KeyInv /\ [LoginNext]_loginVars => KeyInv'
<1> SUFFICES ASSUME KeyInv, [LoginNext]_loginVars PROVE KeyInv'
  OBVIOUS
<1>1. ASSUME accounts' = accounts PROVE KeyInv'
  BY <1>1 DEF KeyInv, KeyOfOne
<1>2. ASSUME NEW c \in Clients, Decision(c) PROVE KeyInv'
  BY <1>1, <1>2 DEF Decision, BeginAttempt, Check, CheckFails, ByPassword, ByPublicKey,
     ClearFailures, IncrFails, IncrGlitch, IncrLockcount, SetLock, LockGlitch, DelFails, dataVars
<1>3. ASSUME NEW c \in Clients, Signup(c) PROVE KeyInv'
  <2>1. CASE \/ DispatchAuth(c) \/ SubmitCmd(c) \/ EnterWhileWorking(c) \/ Quit(c)
             \/ RegisterCompleted(c)
    BY <1>1, <2>1 DEF DispatchAuth, SubmitCmd, EnterWhileWorking, Quit, RegisterCompleted, dataVars
  <2>2. CASE CreateAccount(c)
    BY <2>2, RegistrationKeepsKeys
  <2>3. CASE SetNewPassword(c)
    BY <2>3, PasswordKeepsKeys DEF SetNewPassword
  <2> QED
    BY <1>3, <2>1, <2>2, <2>3 DEF Signup
<1>4. ASSUME NEW r \in rehashes, RehashAsync(r) PROVE KeyInv'
  BY <1>4, PasswordKeepsKeys DEF RehashAsync
<1>5. CASE HourPasses
  BY <1>1, <1>5 DEF HourPasses
<1>6. CASE UNCHANGED loginVars
  BY <1>1, <1>6 DEF loginVars
<1> QED
  BY <1>2, <1>3, <1>4, <1>5, <1>6 DEF LoginNext

-----------------------------------------------------------------------------
LoginInv == LoginBase /\ GuessInvs /\ FounderInv /\ KeyInv

\* Whatever attempts, sign-ups, expiries and failures of Redis interleave
\* (lookup.go, ratelimit_redis.go, register.go): wrong passwords of a handle are
\* compared at most HandleThreshold - 1 times between two unlocks, plus once per
\* connection, per lost Redis command and per failure a late DEL forgot; nobody
\* is in the lobby without an account and a proof; no two connections registered
\* the same handle; and a key opens one account.
THEOREM LoginIsSound == LoginSpec => []AdmittedRightly
<1>1. LoginInit => LoginInv
  BY LoginBaseInit, GuessInit, FounderInit, KeyInit DEF LoginInv
<1>2. LoginInv /\ [LoginNext]_loginVars => LoginInv'
  BY LoginBaseNext, GuessNext, FounderNext, KeyNext DEF LoginInv
<1>3. LoginInv => AdmittedRightly
  <2>1. FounderInv => OneFounder
    <3> SUFFICES ASSUME FounderInv PROVE OneFounder
      OBVIOUS
    <3>1. \A c \in Clients : Founded(c)
      BY DEF FounderInv
    <3>2. \A c, d \in Clients :
            c # d /\ conns[c].step = "created" /\ conns[d].step = "created" => conns[c].as # conns[d].as
      BY DEF FounderInv
    <3> QED
      BY <3>1, <3>2 DEF OneFounder, Founded
  <2> QED
    BY <2>1, GuessesWithin DEF LoginInv, KeyInv, AdmittedRightly
<1> QED
  BY <1>1, <1>2, <1>3, PTL DEF LoginSpec

-----------------------------------------------------------------------------
(***************************************************************************)
(* Linking.  Keeps says what a screen, its inbox and the polls look like,  *)
(* and PollingInv who will wake a screen that waits; GrantInv that a grant *)
(* is held by one poll or by the one credential that was inserted for it,  *)
(* so that ids are never used twice.                                       *)
(***************************************************************************)
\* Sequences of whatever elements.
IsSeq(s) == \E S : s \in Seq(S)

LEMMA AppendSeq ==
  ASSUME NEW s, IsSeq(s), NEW e
  PROVE  /\ IsSeq(Append(s, e))
         /\ DOMAIN Append(s, e) = 1 .. Len(s) + 1
         /\ DOMAIN s = 1 .. Len(s) /\ Len(s) \in Nat
         /\ \A i \in DOMAIN s : i \in DOMAIN Append(s, e) /\ Append(s, e)[i] = s[i]
         /\ Append(s, e)[Len(s) + 1] = e
<1>1. PICK S : s \in Seq(S)
  BY DEF IsSeq
<1> DEFINE T == S \cup {e}
<1>2. s \in Seq(T) /\ e \in T
  BY <1>1
<1>3. Append(s, e) \in Seq(T)
  BY <1>2
<1> QED
  BY <1>2, <1>3 DEF IsSeq

LEMMA ExceptSeqAt ==
  ASSUME NEW s, IsSeq(s), NEW i, NEW e
  PROVE  IsSeq([s EXCEPT ![i] = e]) /\ DOMAIN [s EXCEPT ![i] = e] = DOMAIN s
<1>1. PICK S : s \in Seq(S)
  BY DEF IsSeq
<1> DEFINE T == S \cup {e}
           x == [s EXCEPT ![i] = e]
<1>2. s \in Seq(T) /\ e \in T
  BY <1>1
<1>3. DOMAIN s = 1 .. Len(s) /\ Len(s) \in Nat
  BY <1>2
<1>4. s \in [1 .. Len(s) -> T]
  BY <1>2, LenProperties
<1>5. x \in [1 .. Len(s) -> T]
  BY <1>2, <1>4
<1>6. x \in Seq(T)
  <2>1. CASE i \in 1 .. Len(s)
    BY <1>2, <2>1, ExceptSeq
  <2>2. CASE i \notin 1 .. Len(s)
    <3>1. x = s
      BY <1>4, <2>2
    <3> QED
      BY <1>2, <3>1
  <2> QED
    BY <2>1, <2>2
<1> QED
  BY <1>3, <1>5, <1>6 DEF IsSeq

LEMMA RemoveSeq ==
  ASSUME NEW s, IsSeq(s), NEW i \in DOMAIN s
  PROVE  /\ IsSeq(RemoveAt(s, i))
         /\ \A j \in DOMAIN RemoveAt(s, i) : \E k \in DOMAIN s : RemoveAt(s, i)[j] = s[k]
         /\ \A k \in DOMAIN s : k # i => \E j \in DOMAIN RemoveAt(s, i) : RemoveAt(s, i)[j] = s[k]
<1>1. PICK S : s \in Seq(S)
  BY DEF IsSeq
<1> DEFINE a == SubSeq(s, 1, i - 1)
           b == SubSeq(s, i + 1, Len(s))
           r == RemoveAt(s, i)
<1>2. DOMAIN s = 1 .. Len(s) /\ Len(s) \in Nat /\ i \in 1 .. Len(s)
  BY <1>1
<1>3. /\ a \in Seq(S) /\ Len(a) = i - 1
      /\ \A j \in 1 .. i - 1 : a[j] = s[j]
  <2>1. i - 1 \in 0 .. Len(s)
    BY <1>2
  <2> QED
    BY <1>1, <1>2, <2>1, SubSeqProperties
<1>4. /\ b \in Seq(S) /\ Len(b) = Len(s) - i
      /\ \A j \in 1 .. Len(s) - i : b[j] = s[i + j]
  <2>1. i + 1 \in 1 .. Len(s) + 1 /\ Len(s) \in i .. Len(s)
    BY <1>2
  <2> QED
    BY <1>1, <1>2, <2>1, SubSeqProperties
<1>5. r = a \o b
  BY DEF RemoveAt
<1>6. /\ r \in Seq(S) /\ Len(r) = Len(a) + Len(b) /\ DOMAIN r = 1 .. Len(s) - 1
      /\ \A j \in 1 .. Len(r) : r[j] = IF j <= Len(a) THEN a[j] ELSE b[j - Len(a)]
  BY <1>2, <1>3, <1>4, <1>5, ConcatProperties
<1> HIDE DEF a, b, r
<1>7. \A j \in 1 .. Len(s) - 1 : r[j] = IF j < i THEN s[j] ELSE s[j + 1]
  <2> SUFFICES ASSUME NEW j \in 1 .. Len(s) - 1 PROVE r[j] = IF j < i THEN s[j] ELSE s[j + 1]
    OBVIOUS
  <2>0. Len(r) = Len(s) - 1 /\ j \in 1 .. Len(r) /\ Len(a) = i - 1
    BY <1>2, <1>3, <1>4, <1>6
  <2>1. CASE j < i
    <3>1. j \in 1 .. i - 1 /\ j <= Len(a)
      BY <1>2, <2>0, <2>1
    <3> QED
      BY <1>3, <1>6, <2>0, <2>1, <3>1
  <2>2. CASE ~(j < i)
    <3>1. ~(j <= Len(a)) /\ j - Len(a) \in 1 .. Len(s) - i /\ i + (j - Len(a)) = j + 1
      BY <1>2, <2>0, <2>2
    <3>2. r[j] = b[j - Len(a)]
      BY <1>6, <2>0, <3>1
    <3>3. b[j - Len(a)] = s[i + (j - Len(a))]
      BY <1>4, <3>1
    <3> QED
      BY <2>2, <3>1, <3>2, <3>3
  <2> QED
    BY <2>1, <2>2
<1>8. \A j \in DOMAIN r : \E k \in DOMAIN s : r[j] = s[k]
  <2> SUFFICES ASSUME NEW j \in 1 .. Len(s) - 1 PROVE \E k \in 1 .. Len(s) : r[j] = s[k]
    BY <1>2, <1>6
  <2>1. j \in 1 .. Len(s) /\ j + 1 \in 1 .. Len(s)
    BY <1>2
  <2> QED
    BY <1>7, <2>1
<1>9. ASSUME NEW k \in DOMAIN s, k # i PROVE \E j \in DOMAIN r : r[j] = s[k]
  <2>1. CASE k < i
    <3>1. k \in 1 .. Len(s) - 1
      BY <1>2, <1>9, <2>1
    <3>2. r[k] = s[k]
      BY <1>7, <2>1, <3>1
    <3> QED
      BY <1>6, <3>1, <3>2
  <2>2. CASE k > i
    <3>1. k - 1 \in 1 .. Len(s) - 1 /\ ~(k - 1 < i) /\ (k - 1) + 1 = k
      BY <1>2, <1>9, <2>2
    <3>2. r[k - 1] = s[k]
      BY <1>7, <3>1
    <3> QED
      BY <1>6, <3>1, <3>2
  <2> QED
    BY <1>2, <1>9, <2>1, <2>2
<1> QED
  BY <1>6, <1>8, <1>9 DEF IsSeq, r
-----------------------------------------------------------------------------
ScreenFields == {"mode", "flow", "provider", "status", "notice", "ticks", "inbox"}
PollFields == {"by", "flow", "step", "nth", "state", "account", "grant", "found"}
IsScreen(s) == s = [f \in ScreenFields |-> s[f]]
IsPoll(p) == p = [f \in PollFields |-> p[f]]
IsBegin(b) == b = [f \in {"step", "provider", "flow"} |-> b[f]]

\* What a screen is told: the flow of a Begin that went well is one, and no poll
\* answers that it waits.
GoodMessage(m) ==
  /\ m.kind \in {"started", "result", "tick"}
  /\ m.kind = "started" /\ m.result # "error" => m.flow # 0
  /\ m.kind = "result" => m.result # "waiting"

ScreenBase(s) ==
  /\ IsScreen(s) /\ s.ticks \in Nat
  /\ IsSeq(s.inbox) /\ \A i \in DOMAIN s.inbox : GoodMessage(s.inbox[i])
  /\ s.mode = "device" => s.flow # 0

LinkBase ==
  /\ DOMAIN oauthScreens = Terminals /\ DOMAIN begins = Terminals
  /\ granted \in Nat /\ IsSeq(consents)
  /\ \A t \in Terminals :
       /\ ScreenBase(oauthScreens[t])
       /\ IsBegin(begins[t]) /\ (begins[t].step \in {"flow", "user"} => begins[t].flow # 0)
  /\ \A p \in polls : IsPoll(p) /\ p.by \in Terminals

(* A screen that waits has a timer, a message that sets one or is the tick of *)
(* the flow it shows, or a poll under way that will answer.                   *)
AwaitsConsent(s) == s.mode = "device" /\ s.status = "waiting"
Telling(s, m) == m.kind \in {"started", "result"} \/ (m.kind = "tick" /\ m.flow = s.flow)
Promised(s) == s.ticks > 0 \/ \E i \in DOMAIN s.inbox : Telling(s, s.inbox[i])
UnderWay(t) == \E p \in polls : p.by = t /\ p.step # "web"
PollingInv == \A t \in Terminals : AwaitsConsent(oauthScreens[t]) => Promised(oauthScreens[t]) \/ UnderWay(t)

LEMMA SentScreen ==
  ASSUME NEW s, ScreenBase(s), NEW m, GoodMessage(m)
  PROVE  LET r == [s EXCEPT !.inbox = Append(@, m)]
         IN  /\ ScreenBase(r) /\ (AwaitsConsent(r) => AwaitsConsent(s)) /\ (Promised(s) => Promised(r))
             /\ Telling(s, m) => Promised(r)
<1> DEFINE r == [s EXCEPT !.inbox = Append(@, m)]
<1>1. /\ IsScreen(r) /\ r.inbox = Append(s.inbox, m) /\ r.ticks = s.ticks /\ r.flow = s.flow
      /\ r.mode = s.mode /\ r.status = s.status
  BY DEF ScreenBase, IsScreen, ScreenFields
<1> HIDE DEF r
<1>2. /\ IsSeq(r.inbox) /\ DOMAIN r.inbox = 1 .. Len(s.inbox) + 1
      /\ DOMAIN s.inbox = 1 .. Len(s.inbox) /\ Len(s.inbox) \in Nat
      /\ \A i \in DOMAIN s.inbox : i \in DOMAIN r.inbox /\ r.inbox[i] = s.inbox[i]
      /\ r.inbox[Len(s.inbox) + 1] = m
  BY <1>1, AppendSeq DEF ScreenBase
<1>3. \A i \in DOMAIN r.inbox : GoodMessage(r.inbox[i])
  <2> SUFFICES ASSUME NEW i \in DOMAIN r.inbox PROVE GoodMessage(r.inbox[i])
    OBVIOUS
  <2>1. i \in DOMAIN s.inbox \/ i = Len(s.inbox) + 1
    BY <1>2
  <2> QED
    BY <1>2, <2>1 DEF ScreenBase
<1>4. ScreenBase(r)
  BY <1>1, <1>2, <1>3 DEF ScreenBase
<1>5. Promised(s) => Promised(r)
  BY <1>1, <1>2 DEF Promised, Telling
<1>6. ASSUME Telling(s, m) PROVE Promised(r)
  <2>1. Len(s.inbox) + 1 \in DOMAIN r.inbox
    BY <1>2
  <2> QED
    BY <1>1, <1>2, <1>6, <2>1 DEF Promised, Telling
<1> QED
  BY <1>1, <1>4, <1>5, <1>6 DEF r, AwaitsConsent

\* One screen changes, and at the other terminals no poll is lost.
LEMMA OneScreen ==
  ASSUME LinkBase, PollingInv, users' = users, NEW t \in Terminals, NEW s,
         oauthScreens' = [oauthScreens EXCEPT ![t] = s],
         ScreenBase(s), AwaitsConsent(s) => Promised(s) \/ UnderWay(t)',
         \A p \in polls : p.by # t /\ p.step # "web" => \E q \in polls' : q.by = p.by /\ q.step # "web"
  PROVE  /\ DOMAIN oauthScreens' = Terminals'
         /\ \A u \in Terminals' : ScreenBase(oauthScreens'[u])
         /\ PollingInv'
<1>1. Terminals' = Terminals
  BY DEF Terminals
<1>2. /\ DOMAIN oauthScreens' = Terminals /\ oauthScreens'[t] = s
      /\ \A u \in Terminals : u # t => oauthScreens'[u] = oauthScreens[u]
  BY DEF LinkBase
<1>3. \A u \in Terminals : u # t /\ UnderWay(u) => UnderWay(u)'
  BY DEF UnderWay
<1> QED
  BY <1>1, <1>2, <1>3 DEF LinkBase, PollingInv

\* A poll ends, and its terminal is told.
LEMMA PollEnded ==
  ASSUME LinkBase, PollingInv, users' = users, NEW p \in polls, NEW result,
         PollEnds(p, result), result # "waiting"
  PROVE  /\ DOMAIN oauthScreens' = Terminals'
         /\ \A u \in Terminals' : ScreenBase(oauthScreens'[u])
         /\ PollingInv'
         /\ polls' \subseteq polls
<1> DEFINE t == p.by
           m == [kind |-> "result", flow |-> p.flow, provider |-> p.state.provider, result |-> result]
           s == [oauthScreens[t] EXCEPT !.inbox = Append(@, m)]
<1>1. t \in Terminals /\ ScreenBase(oauthScreens[t])
  BY DEF LinkBase
<1>2. GoodMessage(m)
  BY DEF GoodMessage
<1>3. ScreenBase(s) /\ Promised(s)
  <2>1. Telling(oauthScreens[t], m)
    BY DEF Telling
  <2> HIDE DEF m
  <2> QED
    BY <1>1, <1>2, <2>1, SentScreen
<1>4. oauthScreens' = [oauthScreens EXCEPT ![t] = s] /\ polls' = polls \ {p}
  BY DEF PollEnds, Sent
<1> HIDE DEF m, s
<1> QED
  BY <1>1, <1>3, <1>4, OneScreen
-----------------------------------------------------------------------------
Keeps == LinkBase /\ PollingInv

\* What LinkBase says of the begins.
BeginsBase == /\ DOMAIN begins = Terminals
              /\ \A t \in Terminals : IsBegin(begins[t]) /\ (begins[t].step \in {"flow", "user"} => begins[t].flow # 0)

LEMMA BeginMoves ==
  ASSUME LinkBase, users' = users, NEW t \in Terminals, NEW b, IsBegin(b),
         b.step \in {"flow", "user"} => b.flow # 0,
         begins' = [begins EXCEPT ![t] = b]
  PROVE  BeginsBase'
<1>1. Terminals' = Terminals
  BY DEF Terminals
<1> QED
  BY <1>1 DEF LinkBase, BeginsBase

LEMMA BeginEnded ==
  ASSUME Keeps, users' = users, polls' = polls, NEW t \in Terminals, NEW flow, NEW err,
         BeginEnds(t, flow, err), err # "error" => flow # 0
  PROVE  /\ BeginsBase'
         /\ DOMAIN oauthScreens' = Terminals'
         /\ \A u \in Terminals' : ScreenBase(oauthScreens'[u])
         /\ PollingInv'
<1> DEFINE m == [kind |-> "started", flow |-> flow, provider |-> begins[t].provider, result |-> err]
           s == [oauthScreens[t] EXCEPT !.inbox = Append(@, m)]
           b == [begins[t] EXCEPT !.step = "idle"]
<1>1. ScreenBase(oauthScreens[t]) /\ IsBegin(begins[t])
  BY DEF Keeps, LinkBase
<1>2. GoodMessage(m) /\ Telling(oauthScreens[t], m)
  BY DEF GoodMessage, Telling
<1>3. oauthScreens' = [oauthScreens EXCEPT ![t] = s] /\ begins' = [begins EXCEPT ![t] = b]
  BY DEF BeginEnds, Sent
<1>4. IsBegin(b) /\ b.step = "idle"
  BY <1>1 DEF IsBegin
<1> HIDE DEF m, b
<1>5. ScreenBase(s) /\ Promised(s)
  BY <1>1, <1>2, SentScreen
<1> HIDE DEF s
<1>6. BeginsBase'
  BY <1>3, <1>4, BeginMoves DEF Keeps
<1> QED
  BY <1>3, <1>5, <1>6, OneScreen DEF Keeps

\* Nothing but what a Begin keeps changes.
LEMMA OnlyBegins ==
  ASSUME Keeps, users' = users, polls' = polls, oauthScreens' = oauthScreens, granted' = granted,
         IsSeq(consents'), BeginsBase'
  PROVE  Keeps'
<1>1. Terminals' = Terminals
  BY DEF Terminals
<1> QED
  BY <1>1 DEF Keeps, LinkBase, BeginsBase, PollingInv, UnderWay

LEMMA BeginningKeeps ==
  ASSUME Keeps, NEW t \in Terminals, Beginning(t)
  PROVE  Keeps'
<1>0. /\ IsBegin(begins[t]) /\ (begins[t].step \in {"flow", "user"} => begins[t].flow # 0)
      /\ IsSeq(consents) /\ granted \in Nat
      /\ \A p \in polls : IsPoll(p) /\ p.by \in Terminals
  BY DEF Keeps, LinkBase
<1>1. users' = users /\ polls' = polls /\ granted' = granted
  BY DEF Beginning, BeginOAuthDevice, EnforceBeginRate, DropOldFlow, RequestDeviceCode,
     SetFlowKey, SetUserKey, boundVars, tokenVars
<1>2. Terminals' = Terminals
  BY <1>1 DEF Terminals
<1>3. ASSUME NEW b, IsBegin(b), b.step \in {"flow", "user"} => b.flow # 0,
             begins' = [begins EXCEPT ![t] = b], oauthScreens' = oauthScreens, IsSeq(consents')
      PROVE  Keeps'
  <2>1. BeginsBase'
    BY <1>1, <1>3, BeginMoves DEF Keeps
  <2> QED
    BY <1>1, <1>3, <2>1, OnlyBegins
<1>4. ASSUME NEW flow, NEW err, BeginEnds(t, flow, err), err # "error" => flow # 0, IsSeq(consents')
      PROVE  Keeps'
  <2>1. /\ BeginsBase' /\ DOMAIN oauthScreens' = Terminals'
        /\ \A u \in Terminals' : ScreenBase(oauthScreens'[u])
        /\ PollingInv'
    BY <1>1, <1>4, BeginEnded
  <2> QED
    BY <1>0, <1>1, <1>2, <1>4, <2>1 DEF Keeps, LinkBase, BeginsBase
<1>5. ASSUME NEW x, x \in {"drop", "request"} \/ begins[t].flow # 0
      PROVE  LET b == [begins[t] EXCEPT !.step = x]
             IN  IsBegin(b) /\ (b.step \in {"flow", "user"} => b.flow # 0)
  BY <1>0, <1>5 DEF IsBegin
<1>6. CASE BeginOAuthDevice(t)
  <2> DEFINE b == [step |-> "rate", provider |-> Head(oauthTodo[t]).provider, flow |-> 0]
  <2>1. IsBegin(b) /\ b.step = "rate"
    BY DEF IsBegin
  <2>2. begins' = [begins EXCEPT ![t] = b] /\ oauthScreens' = oauthScreens /\ consents' = consents
    BY <1>6 DEF BeginOAuthDevice
  <2> HIDE DEF b
  <2> QED
    BY <1>0, <1>3, <2>1, <2>2
<1>7. CASE EnforceBeginRate(t)
  <2>1. consents' = consents
    BY <1>7 DEF EnforceBeginRate
  <2>2. CASE BeginEnds(t, 0, "error")
    BY <1>0, <1>4, <2>1, <2>2
  <2>3. CASE begins' = [begins EXCEPT ![t].step = "drop"] /\ UNCHANGED oauthScreens
    BY <1>0, <1>3, <1>5, <2>1, <2>3
  <2> QED
    BY <1>7, <2>2, <2>3 DEF EnforceBeginRate
<1>8. CASE DropOldFlow(t)
  <2>1. consents' = consents /\ oauthScreens' = oauthScreens /\ begins' = [begins EXCEPT ![t].step = "request"]
    BY <1>8 DEF DropOldFlow
  <2> QED
    BY <1>0, <1>3, <1>5, <2>1
<1>9. CASE RequestDeviceCode(t)
  <2>1. CASE consents' = Append(consents, "waiting")
             /\ begins' = [begins EXCEPT ![t].step = "flow", ![t].flow = Len(consents) + 1]
             /\ UNCHANGED oauthScreens
    <3> DEFINE b == [begins[t] EXCEPT !.step = "flow", !.flow = Len(consents) + 1]
    <3>1. IsSeq(consents') /\ Len(consents) \in Nat
      BY <1>0, <2>1, AppendSeq
    <3>2. IsBegin(b) /\ b.flow # 0
      <4>1. b.flow = Len(consents) + 1
        BY <1>0 DEF IsBegin
      <4>2. Len(consents) + 1 # 0
        BY <3>1
      <4>3. IsBegin(b)
        BY <1>0 DEF IsBegin
      <4> QED
        BY <4>1, <4>2, <4>3
    <3>3. begins' = [begins EXCEPT ![t] = b]
      BY <1>0, <2>1 DEF IsBegin
    <3> HIDE DEF b
    <3> QED
      BY <1>3, <2>1, <3>1, <3>2, <3>3
  <2>2. CASE BeginEnds(t, 0, "error") /\ UNCHANGED consents
    BY <1>0, <1>4, <2>2
  <2> QED
    BY <1>9, <2>1, <2>2 DEF RequestDeviceCode
<1>10. CASE SetFlowKey(t)
  <2>1. /\ consents' = consents /\ oauthScreens' = oauthScreens /\ begins' = [begins EXCEPT ![t].step = "user"]
        /\ begins[t].flow # 0
    BY <1>0, <1>10 DEF SetFlowKey
  <2> QED
    BY <1>0, <1>3, <1>5, <2>1
<1>11. CASE SetUserKey(t)
  <2>1. consents' = consents /\ BeginEnds(t, begins[t].flow, "") /\ begins[t].flow # 0
    BY <1>0, <1>11 DEF SetUserKey
  <2> QED
    BY <1>0, <1>4, <2>1
<1> QED
  BY <1>6, <1>7, <1>8, <1>9, <1>10, <1>11 DEF Beginning
-----------------------------------------------------------------------------
\* The polls under way stay, or one goes on or is new.
PollsBase == \A p \in polls : IsPoll(p) /\ p.by \in Terminals

LEMMA OnlyPolls ==
  ASSUME Keeps, users' = users, begins' = begins, oauthScreens' = oauthScreens, granted' \in Nat,
         IsSeq(consents'), PollsBase',
         \A p \in polls : p.step # "web" => \E q \in polls' : q.by = p.by /\ q.step # "web"
  PROVE  Keeps'
<1>1. Terminals' = Terminals
  BY DEF Terminals
<1> QED
  BY <1>1 DEF Keeps, LinkBase, PollsBase, PollingInv, UnderWay

LEMMA PollGone ==
  ASSUME Keeps, users' = users, begins' = begins, granted' = granted, IsSeq(consents'),
         NEW p \in polls, NEW result, PollEnds(p, result), result # "waiting"
  PROVE  Keeps'
<1>1. Terminals' = Terminals
  BY DEF Terminals
<1>2. /\ DOMAIN oauthScreens' = Terminals'
      /\ \A u \in Terminals' : ScreenBase(oauthScreens'[u])
      /\ PollingInv'
      /\ polls' \subseteq polls
  BY PollEnded DEF Keeps
<1> QED
  BY <1>1, <1>2 DEF Keeps, LinkBase

LEMMA PollGoesOn ==
  ASSUME Keeps, users' = users, begins' = begins, oauthScreens' = oauthScreens, granted' \in Nat,
         IsSeq(consents'), NEW p \in polls, NEW q, PollGoes(p, q),
         IsPoll(q), q.by = p.by, q.step # "web"
  PROVE  Keeps'
<1>1. p.by \in Terminals /\ Terminals' = Terminals
  BY DEF Keeps, LinkBase, Terminals
<1>2. polls' = (polls \ {p}) \cup {q}
  BY DEF PollGoes
<1>3. PollsBase'
  BY <1>1, <1>2 DEF Keeps, LinkBase, PollsBase
<1> QED
  BY <1>2, <1>3, OnlyPolls

LEMMA PollKeeps ==
  ASSUME Keeps, NEW p \in polls, Poll(p)
  PROVE  Keeps'
<1>0. IsPoll(p) /\ granted \in Nat /\ IsSeq(consents)
  BY DEF Keeps, LinkBase
<1>1. users' = users /\ begins' = begins
  BY DEF Poll, LoadFlow, ExchangeDeviceCode, PollFails, PersistFlow, ResolveExistingLink, CommitApproved,
     Approve, LinkOAuthCredential, boundVars
<1>2. ASSUME NEW result, PollEnds(p, result), result # "waiting", granted' = granted, consents' = consents
      PROVE  Keeps'
  BY <1>0, <1>1, <1>2, PollGone
<1>3. ASSUME NEW q, PollGoes(p, q), IsPoll(q), q.by = p.by, q.step # "web", oauthScreens' = oauthScreens,
             granted' \in Nat, IsSeq(consents')
      PROVE  Keeps'
  BY <1>1, <1>3, PollGoesOn
<1>4. ASSUME NEW x \in {"persist", "cleanup"}, PollGoes(p, [p EXCEPT !.step = x]), oauthScreens' = oauthScreens,
             granted' = granted, consents' = consents
      PROVE  Keeps'
  <2> DEFINE q == [p EXCEPT !.step = x]
  <2>1. IsPoll(q) /\ q.by = p.by /\ q.step # "web"
    BY <1>0 DEF IsPoll, PollFields
  <2> HIDE DEF q
  <2>2. PollGoes(p, q)
    BY <1>4 DEF q
  <2> QED
    BY <1>0, <1>3, <1>4, <2>1, <2>2
<1>5. CASE LoadFlow(p)
  <2>1. granted' = granted /\ consents' = consents
    BY <1>5 DEF LoadFlow, tokenVars
  <2>2. CASE PollEnds(p, "expired") \/ PollEnds(p, "pending")
    BY <1>2, <2>1, <2>2
  <2>3. CASE PollGoes(p, [p EXCEPT !.step = "exchange", !.state = flowKeys[p.flow]]) /\ UNCHANGED oauthScreens
    <3> DEFINE q == [p EXCEPT !.step = "exchange", !.state = flowKeys[p.flow]]
    <3>1. IsPoll(q) /\ q.by = p.by /\ q.step # "web"
      BY <1>0 DEF IsPoll, PollFields
    <3>2. PollGoes(p, q)
      BY <2>3
    <3> HIDE DEF q
    <3> QED
      BY <1>0, <1>3, <2>1, <2>3, <3>1, <3>2
  <2> QED
    BY <1>5, <2>2, <2>3 DEF LoadFlow
<1>6. CASE ExchangeDeviceCode(p)
  <2> DEFINE answer == consents[p.flow]
             q == [p EXCEPT !.step = "resolve", !.account = answer, !.grant = granted']
  <2>1. CASE answer = "waiting"
    <3>1. PollGoes(p, [p EXCEPT !.step = "persist"]) /\ oauthScreens' = oauthScreens /\ consents' = consents
          /\ granted' = granted
      BY <1>6, <2>1 DEF ExchangeDeviceCode
    <3> QED
      BY <1>4, <3>1
  <2>2. CASE answer \in {"denied", "spent", "expired"}
    <3>1. PollEnds(p, IF answer = "expired" THEN answer ELSE "denied") /\ consents' = consents /\ granted' = granted
      BY <1>6, <2>2 DEF ExchangeDeviceCode
    <3> QED
      BY <1>2, <3>1
  <2>3. CASE answer \notin {"waiting", "denied", "spent", "expired"}
    <3>1. /\ PollGoes(p, q) /\ oauthScreens' = oauthScreens /\ granted' = granted + 1
          /\ consents' = [consents EXCEPT ![p.flow] = "spent"]
      BY <1>6, <2>3 DEF ExchangeDeviceCode
    <3>2. IsPoll(q) /\ q.by = p.by /\ q.step # "web"
      BY <1>0 DEF IsPoll, PollFields
    <3>3. IsSeq(consents')
      BY <1>0, <3>1, ExceptSeqAt
    <3>4. granted' \in Nat
      BY <1>0, <3>1
    <3> QED
      BY <1>3, <3>1, <3>2, <3>3, <3>4
  <2> QED
    BY <2>1, <2>2, <2>3
<1>7. CASE PollFails(p)
  BY <1>2, <1>7 DEF PollFails, tokenVars
<1>8. CASE PersistFlow(p)
  BY <1>2, <1>8 DEF PersistFlow, tokenVars
<1>9. CASE ResolveExistingLink(p)
  <2> DEFINE found == Holder(p.state.provider, p.account)
             q == [p EXCEPT !.step = "commit", !.found = {c.id : c \in found}]
  <2>1. consents' = consents /\ granted' = granted
    BY <1>9 DEF ResolveExistingLink, tokenVars
  <2>2. CASE PollEnds(p, "duplicate")
    BY <1>2, <2>1, <2>2
  <2>3. CASE PollGoes(p, q) /\ oauthScreens' = oauthScreens
    <3>1. IsPoll(q) /\ q.by = p.by /\ q.step # "web"
      BY <1>0 DEF IsPoll, PollFields
    <3> HIDE DEF q
    <3> QED
      BY <1>0, <1>3, <2>1, <2>3, <3>1
  <2> QED
    BY <1>9, <2>2, <2>3 DEF ResolveExistingLink
<1>10. CASE CommitApproved(p)
  <2>1. consents' = consents /\ granted' = granted
    BY <1>10 DEF CommitApproved
  <2>2. \/ PollEnds(p, "error")
        \/ PollGoes(p, [p EXCEPT !.step = "cleanup"]) /\ oauthScreens' = oauthScreens
    BY <1>10 DEF CommitApproved
  <2> QED
    BY <1>2, <1>4, <2>1, <2>2
<1>11. CASE Approve(p)
  BY <1>2, <1>11 DEF Approve, tokenVars
<1>12. CASE LinkOAuthCredential(p)
  <2>1. /\ p.step = "web" /\ polls' = polls \ {p} /\ oauthScreens' = oauthScreens
        /\ granted' = granted /\ consents' = consents
    BY <1>12 DEF LinkOAuthCredential
  <2>2. Terminals' = Terminals
    BY <1>1 DEF Terminals
  <2>3. PollsBase'
    BY <2>1, <2>2 DEF Keeps, LinkBase, PollsBase
  <2> QED
    BY <1>0, <1>1, <2>1, <2>3, OnlyPolls
<1> QED
  BY <1>5, <1>6, <1>7, <1>8, <1>9, <1>10, <1>11, <1>12 DEF Poll
-----------------------------------------------------------------------------
\* A step of a screen: what it makes of itself, and the polls it adds.
LEMMA ScreenMoves ==
  ASSUME Keeps, users' = users, begins' = begins, granted' = granted, consents' = consents,
         NEW t \in Terminals, NEW s, oauthScreens' = [oauthScreens EXCEPT ![t] = s], ScreenBase(s),
         polls \subseteq polls', PollsBase',
         AwaitsConsent(s) => Promised(s) \/ UnderWay(t)'
  PROVE  Keeps'
<1>1. /\ DOMAIN oauthScreens' = Terminals' /\ PollingInv'
      /\ \A u \in Terminals' : ScreenBase(oauthScreens'[u])
  BY OneScreen DEF Keeps
<1>2. Terminals' = Terminals
  BY DEF Terminals
<1> QED
  BY <1>1, <1>2 DEF Keeps, LinkBase, PollsBase

LEMMA TickKeeps ==
  ASSUME Keeps, NEW t \in Terminals, TickFires(t)
  PROVE  Keeps'
<1> DEFINE old == oauthScreens[t]
           less == [old EXCEPT !.ticks = @ - 1]
           m == [kind |-> "tick", flow |-> old.flow, provider |-> "", result |-> ""]
           s == [old EXCEPT !.ticks = @ - 1, !.inbox = IF old.flow = 0 THEN @ ELSE Append(@, m)]
<1>1. /\ users' = users /\ begins' = begins /\ granted' = granted /\ consents' = consents
      /\ polls' = polls /\ oauthScreens' = [oauthScreens EXCEPT ![t] = s] /\ old.ticks > 0
  BY DEF TickFires, Shown, boundVars, tokenVars
<1>2. Terminals' = Terminals /\ PollsBase'
  BY <1>1 DEF Keeps, LinkBase, PollsBase, Terminals
<1>3. ScreenBase(old)
  BY DEF Keeps, LinkBase
<1>4. old.ticks - 1 \in Nat
  BY <1>1, <1>3 DEF ScreenBase
<1>5. /\ IsScreen(less) /\ less.ticks = old.ticks - 1 /\ less.inbox = old.inbox /\ less.flow = old.flow
      /\ less.mode = old.mode /\ less.status = old.status
  BY <1>3 DEF ScreenBase, IsScreen, ScreenFields
<1>6. ScreenBase(less)
  BY <1>3, <1>4, <1>5 DEF ScreenBase
<1>7. CASE old.flow = 0
  <2>1. s = less
    BY <1>3, <1>7 DEF ScreenBase, IsScreen, ScreenFields
  <2>2. ~AwaitsConsent(less)
    BY <1>3, <1>5, <1>7 DEF ScreenBase, AwaitsConsent
  <2> HIDE DEF s, less
  <2> QED
    BY <1>1, <1>2, <1>6, <2>1, <2>2, ScreenMoves
<1>8. CASE old.flow # 0
  <2>1. s = [less EXCEPT !.inbox = Append(@, m)]
    BY <1>3, <1>8 DEF ScreenBase, IsScreen, ScreenFields
  <2>2. GoodMessage(m) /\ Telling(less, m)
    BY <1>5 DEF GoodMessage, Telling
  <2> HIDE DEF s, less, m
  <2>3. ScreenBase(s) /\ Promised(s)
    BY <1>6, <2>1, <2>2, SentScreen
  <2> QED
    BY <1>1, <1>2, <2>3, ScreenMoves
<1> QED
  BY <1>7, <1>8

\* A message is taken; what else is promised stays so.
LEMMA TakenScreen ==
  ASSUME NEW old, ScreenBase(old), NEW i \in DOMAIN old.inbox
  PROVE  LET s == [old EXCEPT !.inbox = RemoveAt(@, i)]
         IN  /\ ScreenBase(s)
             /\ s.ticks = old.ticks /\ s.flow = old.flow /\ s.mode = old.mode /\ s.status = old.status
             /\ Promised(old) => Promised(s) \/ Telling(old, old.inbox[i])
<1> DEFINE s == [old EXCEPT !.inbox = RemoveAt(@, i)]
<1>1. /\ IsScreen(s) /\ s.inbox = RemoveAt(old.inbox, i) /\ s.ticks = old.ticks /\ s.flow = old.flow
      /\ s.mode = old.mode /\ s.status = old.status
  BY DEF ScreenBase, IsScreen, ScreenFields
<1> HIDE DEF s
<1>2. /\ IsSeq(s.inbox)
      /\ \A j \in DOMAIN s.inbox : \E k \in DOMAIN old.inbox : s.inbox[j] = old.inbox[k]
      /\ \A k \in DOMAIN old.inbox : k # i => \E j \in DOMAIN s.inbox : s.inbox[j] = old.inbox[k]
  BY <1>1, RemoveSeq DEF ScreenBase
<1>3. ScreenBase(s)
  BY <1>1, <1>2 DEF ScreenBase
<1>4. Promised(old) => Promised(s) \/ Telling(old, old.inbox[i])
  BY <1>1, <1>2 DEF Promised, Telling
<1> QED
  BY <1>1, <1>3, <1>4 DEF s

LEMMA StartedScreen ==
  ASSUME NEW s, ScreenBase(s), NEW msg, GoodMessage(msg), msg.kind = "started"
  PROVE  LET r == FlowStarted(s, msg) IN ScreenBase(r) /\ (AwaitsConsent(r) => Promised(r))
<1>1. CASE msg.result = "error"
  <2> DEFINE r == [s EXCEPT !.mode = "add"]
  <2>1. IsScreen(r) /\ r.ticks = s.ticks /\ r.inbox = s.inbox /\ r.mode = "add"
    BY DEF ScreenBase, IsScreen, ScreenFields
  <2>2. ScreenBase(r) /\ ~AwaitsConsent(r)
    BY <2>1 DEF ScreenBase, AwaitsConsent
  <2> QED
    BY <1>1, <2>2 DEF FlowStarted
<1>2. CASE msg.result # "error"
  <2> DEFINE r == [s EXCEPT !.flow = msg.flow, !.provider = msg.provider, !.status = "waiting",
                            !.mode = "device", !.ticks = @ + 1]
  <2>1. IsScreen(r) /\ r.ticks = s.ticks + 1 /\ r.inbox = s.inbox /\ r.flow = msg.flow
    BY DEF ScreenBase, IsScreen, ScreenFields
  <2>2. s.ticks + 1 \in Nat /\ s.ticks + 1 > 0
    BY DEF ScreenBase
  <2>3. msg.flow # 0
    BY <1>2 DEF GoodMessage
  <2> HIDE DEF r
  <2>4. ScreenBase(r) /\ Promised(r)
    BY <2>1, <2>2, <2>3 DEF ScreenBase, Promised
  <2> QED
    BY <1>2, <2>4 DEF FlowStarted, r
<1> QED
  BY <1>1, <1>2

LEMMA AnsweredScreen ==
  ASSUME NEW s, ScreenBase(s), NEW msg, GoodMessage(msg), msg.kind = "result"
  PROVE  LET r == PollResult(s, msg) IN ScreenBase(r) /\ (AwaitsConsent(r) => Promised(r))
<1>0. s.ticks + 1 \in Nat /\ s.ticks + 1 > 0
  BY DEF ScreenBase
<1>1. CASE msg.result = "error"
  <2> DEFINE r == [s EXCEPT !.ticks = @ + 1]
  <2>1. IsScreen(r) /\ r.ticks = s.ticks + 1 /\ r.inbox = s.inbox /\ r.flow = s.flow /\ r.mode = s.mode
    BY DEF ScreenBase, IsScreen, ScreenFields
  <2> HIDE DEF r
  <2>2. ScreenBase(r) /\ Promised(r)
    BY <1>0, <2>1 DEF ScreenBase, Promised
  <2> QED
    BY <1>1, <2>2 DEF PollResult, r
<1>2. CASE msg.result = "approved"
  <2> DEFINE r == [s EXCEPT !.notice = <<s.provider, msg.provider>>, !.flow = 0, !.mode = "list"]
  <2>1. IsScreen(r) /\ r.ticks = s.ticks /\ r.inbox = s.inbox /\ r.mode = "list"
    BY DEF ScreenBase, IsScreen, ScreenFields
  <2> HIDE DEF r
  <2>2. ScreenBase(r) /\ ~AwaitsConsent(r)
    BY <2>1 DEF ScreenBase, AwaitsConsent
  <2> QED
    BY <1>2, <2>2 DEF PollResult, r
<1>3. CASE msg.result = "pending"
  <2> DEFINE r == [s EXCEPT !.status = "waiting", !.ticks = @ + 1]
  <2>1. IsScreen(r) /\ r.ticks = s.ticks + 1 /\ r.inbox = s.inbox /\ r.flow = s.flow /\ r.mode = s.mode
    BY DEF ScreenBase, IsScreen, ScreenFields
  <2> HIDE DEF r
  <2>2. ScreenBase(r) /\ Promised(r)
    BY <1>0, <2>1 DEF ScreenBase, Promised
  <2> QED
    BY <1>3, <2>2 DEF PollResult, r
<1>4. CASE msg.result \notin {"error", "approved", "pending"}
  <2> DEFINE r == [s EXCEPT !.status = msg.result]
  <2>1. /\ IsScreen(r) /\ r.ticks = s.ticks /\ r.inbox = s.inbox /\ r.flow = s.flow /\ r.mode = s.mode
        /\ r.status = msg.result
    BY DEF ScreenBase, IsScreen, ScreenFields
  <2> HIDE DEF r
  <2>2. ScreenBase(r) /\ ~AwaitsConsent(r)
    BY <2>1 DEF ScreenBase, GoodMessage, AwaitsConsent
  <2> QED
    BY <1>4, <2>2 DEF PollResult, r
<1> QED
  BY <1>1, <1>2, <1>3, <1>4

LEMMA UpdateKeeps ==
  ASSUME Keeps, NEW t \in Terminals, UpdateOAuth(t)
  PROVE  Keeps'
<1>1. PICK i \in DOMAIN oauthScreens[t].inbox :
        LET msg == oauthScreens[t].inbox[i]
            s == [oauthScreens[t] EXCEPT !.inbox = RemoveAt(@, i)]
        IN  /\ Shown(t, CASE msg.kind = "started" -> FlowStarted(s, msg)
                           [] msg.kind = "result" -> PollResult(s, msg)
                           [] OTHER -> s)
            /\ IF msg.kind = "tick" /\ s.flow # 0 /\ s.flow = msg.flow THEN PollOAuthFlow(t, msg.flow)
               ELSE UNCHANGED polls
  BY DEF UpdateOAuth
<1> DEFINE old == oauthScreens[t]
           msg == old.inbox[i]
           s == [old EXCEPT !.inbox = RemoveAt(@, i)]
<1>2. users' = users /\ begins' = begins /\ granted' = granted /\ consents' = consents
  BY DEF UpdateOAuth, boundVars, tokenVars
<1>3. ScreenBase(old) /\ (AwaitsConsent(old) => Promised(old) \/ UnderWay(t))
  BY DEF Keeps, LinkBase, PollingInv
<1>4. /\ ScreenBase(s)
      /\ s.ticks = old.ticks /\ s.flow = old.flow /\ s.mode = old.mode /\ s.status = old.status
      /\ Promised(old) => Promised(s) \/ Telling(old, msg)
  BY <1>3, TakenScreen
<1>5. GoodMessage(msg)
  BY <1>3 DEF ScreenBase
<1>6. Terminals' = Terminals
  BY <1>2 DEF Terminals
<1>7. /\ polls \subseteq polls' /\ PollsBase'
      /\ msg.kind = "tick" /\ s.flow # 0 /\ s.flow = msg.flow => UnderWay(t)'
  <2>1. \A p \in polls : IsPoll(p) /\ p.by \in Terminals
    BY DEF Keeps, LinkBase
  <2>2. CASE polls' = polls /\ ~(msg.kind = "tick" /\ s.flow # 0 /\ s.flow = msg.flow)
    BY <1>6, <2>1, <2>2 DEF PollsBase
  <2>3. CASE PollOAuthFlow(t, msg.flow)
    <3> DEFINE nth == CHOOSE n \in 0..Cardinality(polls) : \A p \in polls : p.nth # n
               q == [by |-> t, flow |-> msg.flow, step |-> "load", nth |-> nth,
                     state |-> [user |-> 0, provider |-> ""], account |-> "", grant |-> 0, found |-> {}]
    <3>1. polls' = polls \cup {q}
      BY <2>3 DEF PollOAuthFlow
    <3> HIDE DEF nth
    <3>2. IsPoll(q) /\ q.by = t /\ q.step # "web"
      BY DEF IsPoll, PollFields
    <3> HIDE DEF q
    <3>3. PollsBase'
      BY <1>6, <2>1, <3>1, <3>2 DEF PollsBase
    <3>4. UnderWay(t)'
      BY <3>1, <3>2 DEF UnderWay
    <3> QED
      BY <3>1, <3>3, <3>4
  <2> QED
    BY <1>1, <2>2, <2>3
<1>8. UnderWay(t) => UnderWay(t)'
  BY <1>7 DEF UnderWay
<1>9. CASE msg.kind = "started"
  <2>1. oauthScreens' = [oauthScreens EXCEPT ![t] = FlowStarted(s, msg)]
    BY <1>1, <1>9 DEF Shown
  <2>2. ScreenBase(FlowStarted(s, msg)) /\ (AwaitsConsent(FlowStarted(s, msg)) => Promised(FlowStarted(s, msg)))
    BY <1>4, <1>5, <1>9, StartedScreen
  <2> HIDE DEF s, msg
  <2> QED
    BY <1>2, <1>7, <2>1, <2>2, ScreenMoves
<1>10. CASE msg.kind = "result"
  <2>1. oauthScreens' = [oauthScreens EXCEPT ![t] = PollResult(s, msg)]
    BY <1>1, <1>10 DEF Shown
  <2>2. ScreenBase(PollResult(s, msg)) /\ (AwaitsConsent(PollResult(s, msg)) => Promised(PollResult(s, msg)))
    BY <1>4, <1>5, <1>10, AnsweredScreen
  <2> HIDE DEF s, msg
  <2> QED
    BY <1>2, <1>7, <2>1, <2>2, ScreenMoves
<1>11. CASE msg.kind = "tick"
  <2>1. oauthScreens' = [oauthScreens EXCEPT ![t] = s]
    BY <1>1, <1>11 DEF Shown
  <2>2. AwaitsConsent(s) => Promised(s) \/ UnderWay(t)'
    <3> SUFFICES ASSUME AwaitsConsent(s), ~Promised(s) PROVE UnderWay(t)'
      OBVIOUS
    <3>1. AwaitsConsent(old) /\ s.flow # 0
      BY <1>4 DEF AwaitsConsent, ScreenBase
    <3>2. CASE UnderWay(t)
      BY <1>8, <3>2
    <3>3. CASE Telling(old, msg)
      BY <1>4, <1>7, <1>11, <3>1, <3>3 DEF Telling
    <3> QED
      BY <1>3, <1>4, <3>1, <3>2, <3>3
  <2> HIDE DEF s, msg
  <2> QED
    BY <1>2, <1>4, <1>7, <2>1, <2>2, ScreenMoves
<1> QED
  BY <1>5, <1>9, <1>10, <1>11 DEF GoodMessage
-----------------------------------------------------------------------------
LEMMA EscKeeps ==
  ASSUME Keeps, NEW t \in Terminals, HandleOAuthDeviceKey(t)
  PROVE  Keeps'
<1> DEFINE old == oauthScreens[t]
           given == [old EXCEPT !.flow = 0, !.status = "", !.mode = "list"]
           back == [old EXCEPT !.mode = "list"]
<1>1. /\ users' = users /\ begins' = begins /\ granted' = granted /\ consents' = consents /\ polls' = polls
      /\ \/ oauthScreens' = [oauthScreens EXCEPT ![t] = given]
         \/ oauthScreens' = [oauthScreens EXCEPT ![t] = back]
  BY DEF HandleOAuthDeviceKey, Shown, boundVars, tokenVars
<1>2. ScreenBase(old)
  BY DEF Keeps, LinkBase
<1>3. Terminals' = Terminals /\ PollsBase'
  BY <1>1 DEF Keeps, LinkBase, PollsBase, Terminals
<1>4. /\ IsScreen(given) /\ given.ticks = old.ticks /\ given.inbox = old.inbox /\ given.mode = "list"
      /\ IsScreen(back) /\ back.ticks = old.ticks /\ back.inbox = old.inbox /\ back.mode = "list"
  BY <1>2 DEF ScreenBase, IsScreen, ScreenFields
<1> HIDE DEF given, back
<1>5. ScreenBase(given) /\ ~AwaitsConsent(given) /\ ScreenBase(back) /\ ~AwaitsConsent(back)
  BY <1>2, <1>4 DEF ScreenBase, AwaitsConsent
<1> QED
  BY <1>1, <1>3, <1>5, ScreenMoves

\* Nothing but consents, grants and the browser's polls change.
LEMMA ElsewhereKeeps ==
  ASSUME Keeps, users' = users, begins' = begins, oauthScreens' = oauthScreens, granted' \in Nat,
         IsSeq(consents'), polls \subseteq polls',
         \A p \in polls' \ polls : IsPoll(p) /\ p.by \in Terminals
  PROVE  Keeps'
<1>1. Terminals' = Terminals
  BY DEF Terminals
<1>2. PollsBase'
  BY <1>1 DEF Keeps, LinkBase, PollsBase
<1> QED
  BY <1>2, OnlyPolls

LEMMA KeepsInit == LinkInit => Keeps
<1> SUFFICES ASSUME LinkInit PROVE Keeps
  OBVIOUS
<1>1. PICK s \in LinkScripts :
        /\ users = s.of
        /\ begins = [t \in DOMAIN s.of |-> [step |-> "idle", provider |-> "", flow |-> 0]]
        /\ oauthScreens = [t \in DOMAIN s.of |-> NoScreen]
  BY DEF LinkInit
<1>2. IsSeq(<<>>) /\ DOMAIN <<>> = {}
  <2>1. <<>> \in Seq({})
    OBVIOUS
  <2> QED
    BY <2>1 DEF IsSeq
<1>3. ScreenBase(NoScreen) /\ ~AwaitsConsent(NoScreen)
  BY <1>2 DEF NoScreen, ScreenBase, IsScreen, ScreenFields, AwaitsConsent
<1>4. IsBegin([step |-> "idle", provider |-> "", flow |-> 0])
  BY DEF IsBegin
<1> QED
  BY <1>1, <1>2, <1>3, <1>4 DEF LinkInit, Keeps, LinkBase, PollingInv, Terminals

LEMMA KeepsNext == Keeps /\ [LinkNext]_linkVars => Keeps'
<1> SUFFICES ASSUME Keeps, [LinkNext]_linkVars PROVE Keeps'
  OBVIOUS
<1>0. IsSeq(consents) /\ granted \in Nat
  BY DEF Keeps, LinkBase
<1>1. ASSUME NEW t \in Terminals, Beginning(t) PROVE Keeps'
  BY <1>1, BeginningKeeps
<1>2. ASSUME NEW p \in polls, Poll(p) PROVE Keeps'
  BY <1>2, PollKeeps
<1>3. ASSUME NEW t \in Terminals, TickFires(t) \/ UpdateOAuth(t) \/ HandleOAuthDeviceKey(t) PROVE Keeps'
  BY <1>3, TickKeeps, UpdateKeeps, EscKeeps
<1>4. ASSUME users' = users, begins' = begins, oauthScreens' = oauthScreens, granted' = granted,
             polls' = polls, IsSeq(consents')
      PROVE  Keeps'
  BY <1>0, <1>4, ElsewhereKeeps
<1>5. ASSUME NEW t \in Terminals, Consents(t) PROVE Keeps'
  <2>1. IsSeq(consents')
    BY <1>0, <1>5, ExceptSeqAt DEF Consents
  <2> QED
    BY <1>4, <1>5, <2>1 DEF Consents, tokenVars, boundVars
<1>6. ASSUME NEW t \in Terminals, Unlink(t) \/ ConnectionsUnlink(t) \/ Revokes(t) PROVE Keeps'
  BY <1>0, <1>4, <1>6 DEF Unlink, ConnectionsUnlink, Revokes, tokenVars, boundVars
<1>7. ASSUME NEW t \in Terminals, OauthCallback(t) PROVE Keeps'
  <2> DEFINE found == Holder(Head(oauthTodo[t]).provider, Head(oauthTodo[t]).account)
             q == [by |-> t, flow |-> 0, step |-> "web", nth |-> 0,
                   state |-> [user |-> users[t], provider |-> Head(oauthTodo[t]).provider],
                   account |-> Head(oauthTodo[t]).account, grant |-> granted', found |-> {c.id : c \in found}]
  <2>1. /\ users' = users /\ begins' = begins /\ oauthScreens' = oauthScreens /\ consents' = consents
        /\ granted' = granted + 1
        /\ polls' = polls \/ polls' = polls \cup {q}
    BY <1>7 DEF OauthCallback, boundVars
  <2>2. IsPoll(q) /\ q.by = t
    BY DEF IsPoll, PollFields
  <2> HIDE DEF q
  <2>3. granted' \in Nat
    BY <1>0, <2>1
  <2> QED
    BY <1>0, <2>1, <2>2, <2>3, ElsewhereKeeps
<1>8. CASE FlowExpires
  <2>1. PICK f \in DOMAIN flowKeys : consents' = [consents EXCEPT ![f] = "expired"]
    BY <1>8 DEF FlowExpires
  <2>2. IsSeq(consents')
    BY <1>0, <2>1, ExceptSeqAt
  <2> QED
    BY <1>4, <1>8, <2>2 DEF FlowExpires, tokenVars, boundVars
<1>9. CASE BucketExpires \/ Expires
  BY <1>0, <1>4, <1>9 DEF BucketExpires, Expires, tokenVars, boundVars
<1>10. ASSUME NEW r \in Replicas, Refresher(r) PROVE Keeps'
  BY <1>0, <1>4, <1>10 DEF Refresher, RefreshTick, RefreshToken, RefreshOne, tokenVars, boundVars
<1>11. CASE UNCHANGED linkVars
  BY <1>0, <1>4, <1>11 DEF linkVars
<1> QED
  BY <1>1, <1>2, <1>3, <1>5, <1>6, <1>7, <1>8, <1>9, <1>10, <1>11 DEF LinkNext

-----------------------------------------------------------------------------
(* A grant is held by one poll or by one credential, whose id it gave.        *)
Holding == {p \in polls : p.step \in {"resolve", "commit", "web"}}
GrantInv ==
  /\ granted \in Nat
  /\ \A c \in links : c.id \in 1 .. granted
  /\ \A p \in Holding : p.grant \in 1 .. granted /\ \A c \in links : c.id # p.grant
  /\ \A p, q \in Holding : p.grant = q.grant => p = q
  /\ LinkedWithToken

LEMMA LinkLaterHolders ==
  ASSUME GrantInv, granted' = granted, links' = links, DOMAIN tokens' = DOMAIN tokens,
         \A q \in Holding' : \E p \in Holding : p.grant = q.grant,
         \A p, q \in Holding' : p.grant = q.grant => p = q
  PROVE  GrantInv'
BY DEF GrantInv, LinkedWithToken

\* polls lose one, or one goes on.
LEMMA OneHolder ==
  ASSUME GrantInv, Keeps, granted' = granted, links' = links, DOMAIN tokens' = DOMAIN tokens,
         NEW p \in polls,
         \/ polls' = polls \ {p}
         \/ \E q : /\ polls' = (polls \ {p}) \cup {q}
                   /\ q.step \in {"resolve", "commit", "web"} => p \in Holding /\ q.grant = p.grant
  PROVE  GrantInv'
<1>1. CASE polls' = polls \ {p}
  <2>1. Holding' \subseteq Holding
    BY <1>1 DEF Holding
  <2> QED
    BY <2>1, LinkLaterHolders DEF GrantInv
<1>2. ASSUME NEW q, polls' = (polls \ {p}) \cup {q},
             q.step \in {"resolve", "commit", "web"} => p \in Holding /\ q.grant = p.grant
      PROVE  GrantInv'
  <2>1. \A x \in Holding' : (x = q /\ p \in Holding /\ q.grant = p.grant) \/ (x \in Holding /\ x # p)
    BY <1>2 DEF Holding
  <2>2. \A x \in Holding' : \E y \in Holding : y.grant = x.grant
    BY <2>1
  <2>3. \A x, y \in Holding' : x.grant = y.grant => x = y
    BY <2>1 DEF GrantInv
  <2> QED
    BY <2>2, <2>3, LinkLaterHolders
<1>3. ASSUME \E q : /\ polls' = (polls \ {p}) \cup {q}
                    /\ q.step \in {"resolve", "commit", "web"} => p \in Holding /\ q.grant = p.grant
      PROVE  GrantInv'
  <2>1. PICK q : /\ polls' = (polls \ {p}) \cup {q}
                 /\ q.step \in {"resolve", "commit", "web"} => p \in Holding /\ q.grant = p.grant
    BY <1>3
  <2> QED
    BY <1>2, <2>1
<1> QED
  BY <1>1, <1>3

\* One more grant, for one poll.
LEMMA OneMoreGrant ==
  ASSUME GrantInv, granted' = granted + 1, links' = links, DOMAIN tokens' = DOMAIN tokens,
         \E q : q.grant = granted' /\ \A x \in Holding' : x = q \/ x \in Holding
  PROVE  GrantInv'
<1>1. PICK q : q.grant = granted' /\ \A x \in Holding' : x = q \/ x \in Holding
  OBVIOUS
<1>2. granted \in Nat /\ granted' \in Nat /\ granted' \in 1 .. granted' /\ granted' \notin 1 .. granted
      /\ 1 .. granted \subseteq 1 .. granted'
  BY DEF GrantInv
<1>3. /\ \A c \in links : c.id \in 1 .. granted' /\ c.id # granted'
      /\ \A x \in Holding : x.grant \in 1 .. granted' /\ x.grant # granted'
  BY <1>2 DEF GrantInv
<1>4. \A x \in Holding' : x.grant \in 1 .. granted' /\ \A c \in links : c.id # x.grant
  BY <1>1, <1>2, <1>3 DEF GrantInv
<1>5. \A x, y \in Holding' : x.grant = y.grant => x = y
  BY <1>1, <1>3 DEF GrantInv
<1> QED
  BY <1>2, <1>3, <1>4, <1>5 DEF GrantInv, LinkedWithToken

\* A credential is inserted for a grant its poll held.
LEMMA OneMoreLink ==
  ASSUME GrantInv, NEW p \in Holding, granted' = granted,
         NEW owner, NEW provider, NEW subject,
         Holder(provider, subject) = {}, InsertLink(owner, provider, subject, p.grant),
         \A x \in Holding' : x \in Holding /\ x # p
  PROVE  GrantInv'
<1> DEFINE new == [id |-> p.grant, user |-> owner, provider |-> provider, subject |-> subject]
<1>1. links' = links \cup {new} /\ DOMAIN tokens' = DOMAIN tokens \cup {p.grant}
  BY DEF InsertLink, With
<1>2. /\ \A c \in links : ~(c.provider = provider /\ c.subject = subject)
      /\ \A c \in links : c.id # p.grant
      /\ p.grant \in 1 .. granted
  BY DEF Holder, GrantInv
<1>3. new.id = p.grant /\ new.provider = provider /\ new.subject = subject
  OBVIOUS
<1> HIDE DEF new
<1>4. {c.id : c \in links'} = DOMAIN tokens'
  BY <1>1, <1>3 DEF GrantInv, LinkedWithToken
<1>5. \A c, d \in links' : c.id = d.id \/ (c.provider = d.provider /\ c.subject = d.subject) => c = d
  BY <1>1, <1>2, <1>3 DEF GrantInv, LinkedWithToken
<1>6. \A x \in Holding' : x.grant \in 1 .. granted /\ \A c \in links' : c.id # x.grant
  BY <1>1, <1>3 DEF GrantInv
<1>7. \A x, y \in Holding' : x.grant = y.grant => x = y
  BY DEF GrantInv
<1> QED
  BY <1>1, <1>2, <1>3, <1>4, <1>5, <1>6, <1>7 DEF GrantInv, LinkedWithToken

LEMMA GrantPoll ==
  ASSUME Keeps, GrantInv, NEW p \in polls, Poll(p)
  PROVE  GrantInv'
<1>0. IsPoll(p)
  BY DEF Keeps, LinkBase
<1>1. ASSUME granted' = granted, links' = links, DOMAIN tokens' = DOMAIN tokens, NEW result, PollEnds(p, result)
      PROVE  GrantInv'
  BY <1>1, OneHolder DEF PollEnds
<1>2. ASSUME granted' = granted, links' = links, DOMAIN tokens' = DOMAIN tokens, NEW q, PollGoes(p, q),
             q.step \in {"resolve", "commit", "web"} => p \in Holding /\ q.grant = p.grant
      PROVE  GrantInv'
  BY <1>2, OneHolder DEF PollGoes
<1>3. ASSUME NEW x PROVE [p EXCEPT !.step = x].step = x
  BY <1>0 DEF IsPoll, PollFields
<1>4. CASE LoadFlow(p)
  <2>1. granted' = granted /\ links' = links /\ DOMAIN tokens' = DOMAIN tokens
    BY <1>4 DEF LoadFlow, tokenVars
  <2>2. CASE PollGoes(p, [p EXCEPT !.step = "exchange", !.state = flowKeys[p.flow]])
    <3> DEFINE q == [p EXCEPT !.step = "exchange", !.state = flowKeys[p.flow]]
    <3>1. q.step = "exchange"
      BY <1>0 DEF IsPoll, PollFields
    <3>2. PollGoes(p, q)
      BY <2>2
    <3> HIDE DEF q
    <3> QED
      BY <1>2, <2>1, <3>1, <3>2
  <2> QED
    BY <1>1, <1>4, <2>1, <2>2 DEF LoadFlow
<1>5. CASE ExchangeDeviceCode(p)
  <2> DEFINE answer == consents[p.flow]
             q == [p EXCEPT !.step = "resolve", !.account = answer, !.grant = granted']
  <2>1. links' = links /\ DOMAIN tokens' = DOMAIN tokens
    BY <1>5 DEF ExchangeDeviceCode
  <2>2. CASE answer = "waiting"
    <3>1. PollGoes(p, [p EXCEPT !.step = "persist"]) /\ granted' = granted
      BY <1>5, <2>2 DEF ExchangeDeviceCode
    <3> QED
      BY <1>2, <1>3, <2>1, <3>1
  <2>3. CASE answer \in {"denied", "spent", "expired"}
    <3>1. PollEnds(p, IF answer = "expired" THEN answer ELSE "denied") /\ granted' = granted
      BY <1>5, <2>3 DEF ExchangeDeviceCode
    <3> QED
      BY <1>1, <2>1, <3>1
  <2>4. CASE answer \notin {"waiting", "denied", "spent", "expired"}
    <3>1. PollGoes(p, q) /\ granted' = granted + 1
      BY <1>5, <2>4 DEF ExchangeDeviceCode
    <3>2. q.grant = granted'
      BY <1>0 DEF IsPoll, PollFields
    <3> HIDE DEF q
    <3>3. \A x \in Holding' : x = q \/ x \in Holding
      BY <3>1 DEF PollGoes, Holding
    <3> QED
      BY <2>1, <3>1, <3>2, <3>3, OneMoreGrant
  <2> QED
    BY <2>2, <2>3, <2>4
<1>6. CASE PollFails(p)
  BY <1>1, <1>6 DEF PollFails, tokenVars
<1>7. CASE PersistFlow(p)
  BY <1>1, <1>7 DEF PersistFlow, tokenVars
<1>8. CASE ResolveExistingLink(p)
  <2> DEFINE found == Holder(p.state.provider, p.account)
             q == [p EXCEPT !.step = "commit", !.found = {c.id : c \in found}]
  <2>1. granted' = granted /\ links' = links /\ DOMAIN tokens' = DOMAIN tokens /\ p \in Holding
    BY <1>8 DEF ResolveExistingLink, tokenVars, Holding
  <2>2. CASE PollGoes(p, q)
    <3>1. q.grant = p.grant
      BY <1>0 DEF IsPoll, PollFields
    <3> HIDE DEF q
    <3> QED
      BY <1>2, <2>1, <2>2, <3>1
  <2> QED
    BY <1>1, <1>8, <2>1, <2>2 DEF ResolveExistingLink
<1>9. CASE CommitApproved(p)
  <2>1. granted' = granted /\ p \in Holding
    BY <1>9 DEF CommitApproved, Holding
  <2>2. \/ PollEnds(p, "error")
        \/ PollGoes(p, [p EXCEPT !.step = "cleanup"])
    BY <1>9 DEF CommitApproved
  <2>3. CASE links' = links /\ DOMAIN tokens' = DOMAIN tokens
    BY <1>1, <1>2, <1>3, <2>1, <2>2, <2>3
  <2>4. CASE /\ Holder(p.state.provider, p.account) = {}
             /\ InsertLink(p.state.user, p.state.provider, p.account, p.grant)
             /\ PollGoes(p, [p EXCEPT !.step = "cleanup"])
    <3>1. \A x \in Holding' : x \in Holding /\ x # p
      BY <1>3, <2>1, <2>4 DEF PollGoes, Holding
    <3> QED
      BY <2>1, <2>4, <3>1, OneMoreLink
  <2>5. \/ links' = links /\ DOMAIN tokens' = DOMAIN tokens
        \/ /\ Holder(p.state.provider, p.account) = {}
           /\ InsertLink(p.state.user, p.state.provider, p.account, p.grant)
           /\ PollGoes(p, [p EXCEPT !.step = "cleanup"])
    BY <1>9 DEF CommitApproved, UpsertTokens
  <2> QED
    BY <2>3, <2>4, <2>5
<1>10. CASE Approve(p)
  BY <1>1, <1>10 DEF Approve, tokenVars
<1>11. CASE LinkOAuthCredential(p)
  <2>1. granted' = granted /\ p \in Holding /\ polls' = polls \ {p}
    BY <1>11 DEF LinkOAuthCredential, Holding
  <2>2. CASE links' = links /\ DOMAIN tokens' = DOMAIN tokens
    BY <2>1, <2>2, OneHolder
  <2>3. CASE /\ Holder(p.state.provider, p.account) = {}
             /\ InsertLink(p.state.user, p.state.provider, p.account, p.grant)
    <3>1. \A x \in Holding' : x \in Holding /\ x # p
      BY <2>1 DEF Holding
    <3> QED
      BY <2>1, <2>3, <3>1, OneMoreLink
  <2>4. \/ links' = links /\ DOMAIN tokens' = DOMAIN tokens
        \/ /\ Holder(p.state.provider, p.account) = {}
           /\ InsertLink(p.state.user, p.state.provider, p.account, p.grant)
    BY <1>11 DEF LinkOAuthCredential, UpsertTokens
  <2> QED
    BY <2>2, <2>3, <2>4
<1> QED
  BY <1>4, <1>5, <1>6, <1>7, <1>8, <1>9, <1>10, <1>11 DEF Poll

LEMMA GrantNext == Keeps /\ GrantInv /\ [LinkNext]_linkVars => GrantInv'
<1> SUFFICES ASSUME Keeps, GrantInv, [LinkNext]_linkVars PROVE GrantInv'
  OBVIOUS
<1>1. ASSUME granted' = granted, links' = links, DOMAIN tokens' = DOMAIN tokens, polls' = polls PROVE GrantInv'
  BY <1>1 DEF GrantInv, LinkedWithToken, Holding
<1>2. ASSUME NEW t \in Terminals, Beginning(t) \/ Consents(t) \/ TickFires(t) \/ HandleOAuthDeviceKey(t) \/ Revokes(t)
      PROVE  GrantInv'
  BY <1>1, <1>2 DEF Beginning, BeginOAuthDevice, EnforceBeginRate, DropOldFlow, RequestDeviceCode,
     SetFlowKey, SetUserKey, Consents, TickFires, HandleOAuthDeviceKey, Revokes, tokenVars
<1>3. ASSUME NEW t \in Terminals, UpdateOAuth(t) PROVE GrantInv'
  <2>1. granted' = granted /\ links' = links /\ DOMAIN tokens' = DOMAIN tokens
    BY <1>3 DEF UpdateOAuth, tokenVars
  <2>2. Holding' \subseteq Holding
    <3>1. \E flow : polls' = polls \/ PollOAuthFlow(t, flow)
      BY <1>3 DEF UpdateOAuth
    <3>2. ASSUME NEW flow, PollOAuthFlow(t, flow) PROVE Holding' \subseteq Holding
      <4> DEFINE q == [by |-> t, flow |-> flow, step |-> "load",
                       nth |-> CHOOSE n \in 0..Cardinality(polls) : \A p \in polls : p.nth # n,
                       state |-> [user |-> 0, provider |-> ""], account |-> "", grant |-> 0, found |-> {}]
      <4>1. polls' = polls \cup {q} /\ q.step = "load"
        BY <3>2 DEF PollOAuthFlow
      <4> HIDE DEF q
      <4> QED
        BY <4>1 DEF Holding
    <3>3. CASE polls' = polls
      BY <3>3 DEF Holding
    <3> QED
      BY <3>1, <3>2, <3>3
  <2> QED
    BY <2>1, <2>2, LinkLaterHolders DEF GrantInv
<1>4. ASSUME NEW t \in Terminals, Unlink(t) \/ ConnectionsUnlink(t) PROVE GrantInv'
  <2>1. PICK c \in links : DeleteLink(c.id, users[t])
    BY <1>4 DEF Unlink, ConnectionsUnlink
  <2>2. links' \subseteq links /\ DOMAIN tokens' = {x.id : x \in links'}
    BY <2>1 DEF DeleteLink
  <2>3. granted' = granted /\ Holding' = Holding
    BY <1>4 DEF Unlink, ConnectionsUnlink, Holding
  <2> QED
    BY <2>2, <2>3 DEF GrantInv, LinkedWithToken
<1>5. ASSUME NEW t \in Terminals, OauthCallback(t) PROVE GrantInv'
  <2>1. granted' = granted + 1 /\ links' = links /\ DOMAIN tokens' = DOMAIN tokens
    BY <1>5 DEF OauthCallback
  <2>2. \E q : q.grant = granted' /\ \A x \in Holding' : x = q \/ x \in Holding
    <3> DEFINE q == [by |-> t, flow |-> 0, step |-> "web", nth |-> 0,
                     state |-> [user |-> users[t], provider |-> Head(oauthTodo[t]).provider],
                     account |-> Head(oauthTodo[t]).account, grant |-> granted',
                     found |-> {c.id : c \in Holder(Head(oauthTodo[t]).provider, Head(oauthTodo[t]).account)}]
    <3>1. q.grant = granted' /\ (polls' = polls \/ polls' = polls \cup {q})
      BY <1>5 DEF OauthCallback
    <3> HIDE DEF q
    <3> QED
      BY <3>1 DEF Holding
  <2> QED
    BY <2>1, <2>2, OneMoreGrant
<1>6. ASSUME NEW p \in polls, Poll(p) PROVE GrantInv'
  BY <1>6, GrantPoll
<1>7. ASSUME NEW r \in Replicas, Refresher(r) PROVE GrantInv'
  BY <1>1, <1>7 DEF Refresher, RefreshTick, RefreshToken, RefreshOne, PersistRefreshed, MarkTokenRefreshFailed,
     tokenVars
<1>8. CASE FlowExpires \/ BucketExpires \/ Expires
  BY <1>1, <1>8 DEF FlowExpires, BucketExpires, Expires, tokenVars
<1>9. CASE UNCHANGED linkVars
  BY <1>1, <1>9 DEF linkVars
<1> QED
  BY <1>2, <1>3, <1>4, <1>5, <1>6, <1>7, <1>8, <1>9 DEF LinkNext

\* Whatever terminals, browsers, unlinks, expiries and refreshers interleave
\* (devicecode.go, profile_oauth.go, handlers_oauth.go, refresher.go): a
\* credential has its own token and an account one user, and a terminal that
\* shows a code and says it is waiting goes on asking.
THEOREM LinkingIsSound == LinkSpec => []LinksSound
<1>1. LinkInit => Keeps /\ GrantInv
  <2>1. DOMAIN <<>> = {}
    OBVIOUS
  <2> QED
    <3>1. LinkInit => links = {} /\ tokens = <<>> /\ polls = {} /\ granted = 0
      BY DEF LinkInit
    <3>2. links = {} /\ tokens = <<>> /\ polls = {} /\ granted = 0 => GrantInv
      BY <2>1 DEF GrantInv, Holding, LinkedWithToken
    <3> QED
      BY <3>1, <3>2, KeepsInit
<1>2. Keeps /\ GrantInv /\ [LinkNext]_linkVars => (Keeps /\ GrantInv)'
  BY KeepsNext, GrantNext
<1>3. Keeps /\ GrantInv => LinksSound
  <2> SUFFICES ASSUME Keeps, GrantInv PROVE LinksSound
    OBVIOUS
  <2>1. ASSUME NEW t \in Terminals, Promised(oauthScreens[t]), oauthScreens[t].ticks <= 0
        PROVE  oauthScreens[t].inbox # <<>>
    BY <2>1 DEF Promised, Keeps, LinkBase, ScreenBase
  <2>2. KeepsPolling
    BY <2>1 DEF KeepsPolling, Keeps, LinkBase, ScreenBase, PollingInv, AwaitsConsent, Promised, UnderWay
  <2> QED
    BY <2>2 DEF LinksSound, GrantInv
<1> QED
  BY <1>1, <1>2, <1>3, PTL DEF LinkSpec
-----------------------------------------------------------------------------
(* Account.                                                                 *)
PageFields == {"mode", "known", "snap", "keys", "cursor", "require", "working", "busy", "target", "inbox"}
Modes == {"tab", "settings", "keys", "addKey", "password", "confirmKey", "confirmRequire"}
IsPage(p) == p = [f \in PageFields |-> p[f]] /\ p.mode \in Modes
WorkFields == {"nr", "by", "op", "step", "ident", "seen", "password", "current", "hash", "id", "sid", "key",
               "handle", "image", "inode", "require", "snap"}
IsWork(w) == w = [f \in WorkFields |-> w[f]]

\* The sessions in Redis.
IsStore == store = [rows |-> store.rows, index |-> store.index]
StoreInv == nextSid \in Nat /\ IsStore

\* The keys on file: an id names one of them, and the next id none.
KeysInv ==
  /\ {"password", "requireSsh"} \subseteq DOMAIN user
  /\ IsFiniteSet(creds) /\ nextCred \in Nat
  /\ \A k \in creds : k.id \in Nat /\ k.id < nextCred /\ \A j \in creds : j.id = k.id => j = k

\* The account cannot do without a key; it can do without this one.
NeedsKey == user.requireSsh \/ user.password = NoPassword
Spare(id) == NeedsKey => \E k \in creds : k.id # id

\* What the page of a user who waits knows when nothing is under way, and what
\* the call or the message that is under way will let it know again.
Knows(p) == p.known /\ p.snap = user
KnowsAll(p) == Knows(p) /\ p.keys = KeyList
LoadSteps == {"snapshot", "keys"}
WriteSteps == {"insertKey", "deleteKey", "count", "update", "password"}
WaitsForCall(p, w) ==
  /\ w.step \in LoadSteps \cup WriteSteps
  /\ w.step = "snapshot" => w.op = "loaded"
  /\ w.step = "keys" => \/ w.op = "loaded" /\ w.snap = user
                        \/ w.op = "keysReloaded" /\ Knows(p)
  /\ w.step \in WriteSteps => KnowsAll(p)
  /\ w.step = "deleteKey" => Spare(w.id)
  /\ w.step = "update" /\ w.require => creds # {}
  /\ w.step = "password" => w.password # NoPassword
WaitsForMsg(p, m) ==
  \/ m.kind = "loaded" /\ m.snap = user /\ m.keys = KeyList
  \/ m.kind = "keysReloaded" /\ m.keys = KeyList /\ Knows(p)
  \/ m.kind \in {"saved", "passwordChanged"} /\ (m.err # "" => KnowsAll(p))
  \/ m.kind = "keyAdded" /\ Knows(p) /\ (m.err # "" => KnowsAll(p))
  \/ m.kind = "keyRemoved" /\ m.err = "" /\ Knows(p)

OneThing(t, p) ==
  \/ /\ work = {} /\ p.inbox = <<>> /\ KnowsAll(p)
     /\ p.mode = "confirmKey" => Spare(p.target)
  \/ /\ p.mode # "confirmKey" /\ p.inbox = <<>>
     /\ \E w \in work : work = {w} /\ IsWork(w) /\ w.by = t /\ WaitsForCall(p, w)
  \/ /\ p.mode # "confirmKey" /\ work = {}
     /\ \E m \in Range(p.inbox) : p.inbox = <<m>> /\ WaitsForMsg(p, m)
Waits(t) ==
  /\ DOMAIN screens = {t} /\ IsPage(screens[t])
  /\ KeysInv /\ (NeedsKey => creds # {})
  /\ OneThing(t, screens[t])
Patient == hasty = 0 /\ Cardinality(DOMAIN screens) = 1 /\ DOMAIN cookies = {}
ScriptsInv == DOMAIN screens \subseteq DOMAIN todo /\ \A a \in DOMAIN todo : todo[a] \in Seq(Range(todo[a]))
PatientInv == IsFiniteSet(DOMAIN screens) /\ (Patient => \E t \in DOMAIN screens : Waits(t))

\* The requests of the browsers, at most one of whom uploads pictures.
Drawing == {"create", "head", "tail", "move"}
Asks(q) ==
  /\ q \in Seq(Range(q))
  /\ \A r \in Range(q) : r.do \in DOMAIN Handlers /\ r.image \in Nat /\ (r.do = "picture" => r.image # 0)
ServedOk(w) ==
  /\ IsWork(w) /\ w.image \in Nat
  /\ w.by \in DOMAIN cookies => w.op \in DOMAIN Handlers /\ (w.op = "picture" => w.image # 0)
  /\ w.step \in Drawing => w.by \in DOMAIN cookies /\ w.op = "picture"
  /\ w.step \in {"read", "touch"} => w.by \in DOMAIN cookies
Draws(b) == Uploads(todo, b) \/ \E w \in work : w.by = b /\ w.op = "picture"
RequestsInv ==
  /\ DOMAIN cookies \cap DOMAIN screens = {} /\ DOMAIN cookies \subseteq DOMAIN todo
  /\ \A b \in DOMAIN cookies : Asks(todo[b])
  /\ \A w \in work : ServedOk(w)
  /\ \A v, w \in work : v.by = w.by /\ w.by \in DOMAIN cookies => v = w
  /\ \A b, c \in DOMAIN cookies : Draws(b) /\ Draws(c) => b = c

\* The files: the one in place is whole, and a temporary one is as far as the
\* upload that writes it.
Inodes == 1..Len(files.data)
Drawn(w) ==
  /\ w.step \in {"head", "tail", "move"} => files.tmp # 0 /\ w.inode = files.tmp
  /\ w.step = "tail" => files.data[w.inode][1] = w.image
  /\ w.step = "move" => files.data[w.inode] = <<w.image, w.image>>
FilesInv ==
  /\ files = [tmp |-> files.tmp, final |-> files.final, data |-> files.data]
  /\ files.data \in Seq(Nat \X Nat)
  /\ files.tmp \in {0} \cup Inodes /\ files.final \in {0} \cup Inodes
  /\ files.tmp = files.final => files.tmp = 0
  /\ \A w \in work : Drawn(w)
  /\ PictureWhole
PictureInv == RequestsInv /\ FilesInv

StayRevoked == \A sid \in 1..(nextSid - 1) : ~Authentic(sid) => ~Authentic(sid)'

LEMMA SessionGoes ==
  ASSUME StoreInv, NEW gone, store'.rows = Without(gone) \/ store'.rows = store.rows,
         IsStore', nextSid' = nextSid
  PROVE  StoreInv' /\ StayRevoked
BY DEF StoreInv, StayRevoked, Without, Authentic

LEMMA RevokedStep ==
  ASSUME StoreInv, [AccountNext]_accountVars
  PROVE  StoreInv' /\ StayRevoked
<1> USE DEF StoreInv
<1>1. CASE UNCHANGED <<store, nextSid>>
  BY <1>1 DEF IsStore, StayRevoked, Authentic
<1>2. ASSUME NEW w \in work, Set(w) PROVE StoreInv' /\ StayRevoked
  <2> DEFINE R == [s \in DOMAIN store.rows \cup {nextSid} |-> s = nextSid \/ store.rows[s]]
  <2>1. store' = [rows |-> R, index |-> store.index \cup {nextSid}] /\ nextSid' = nextSid + 1
    BY <1>2 DEF Set
  <2>2. \A sid \in 1..(nextSid - 1) : sid \in DOMAIN R /\ R[sid] => sid \in DOMAIN store.rows /\ store.rows[sid]
    <3> SUFFICES ASSUME NEW sid \in 1..(nextSid - 1), sid \in DOMAIN R, R[sid]
                 PROVE  sid \in DOMAIN store.rows /\ store.rows[sid]
      OBVIOUS
    <3>1. sid # nextSid
      OBVIOUS
    <3>2. sid \in DOMAIN store.rows
      BY <3>1
    <3>3. R[sid] = (sid = nextSid \/ store.rows[sid])
      BY <3>2, Zenon
    <3> HIDE DEF R
    <3> QED
      BY <3>1, <3>2, <3>3, Zenon
  <2> HIDE DEF R
  <2>3. store'.rows = R /\ IsStore'
    BY <2>1 DEF IsStore
  <2> QED
    BY <2>1, <2>2, <2>3 DEF StayRevoked, Authentic
<1>3. ASSUME NEW w \in work, TouchSession(w) PROVE StoreInv' /\ StayRevoked
  BY <1>3 DEF TouchSession, Touched, IsStore, StayRevoked, Authentic
<1>4. ASSUME NEW w \in work, DropSession(w) PROVE StoreInv' /\ StayRevoked
  BY <1>4, SessionGoes DEF DropSession, IsStore
<1>5. ASSUME NEW w \in work, DropAll(w) PROVE StoreInv' /\ StayRevoked
  BY <1>5, SessionGoes DEF DropAll, IsStore
<1>6. ASSUME NEW w \in work, DropIndex(w) PROVE StoreInv' /\ StayRevoked
  BY <1>6, SessionGoes DEF DropIndex, IsStore
<1>7. ASSUME NEW w \in work, ListSessions(w) PROVE StoreInv' /\ StayRevoked
  <2>1. store' = store \/ \E sid : store' = [store EXCEPT !.index = @ \ {sid}]
    BY <1>7 DEF ListSessions
  <2> QED
    BY <1>7, <2>1, SessionGoes DEF ListSessions, IsStore
<1>8. ASSUME NEW w \in work, Revoke(w) PROVE StoreInv' /\ StayRevoked
  BY <1>8, SessionGoes DEF Revoke, IsStore
<1>9. ASSUME NEW w \in work, Call(w) PROVE StoreInv' /\ StayRevoked
  <2>1. \/ Set(w) \/ TouchSession(w) \/ DropSession(w) \/ DropAll(w) \/ DropIndex(w)
        \/ ListSessions(w) \/ Revoke(w) \/ UNCHANGED <<store, nextSid>>
    BY <1>9 DEF Call, Web, LoadSnapshot, ListSshCredentials, AddKey, DeleteKey, CountKeys, UpdateProfile,
       ChangePassword, ReadSession, Redirect, LoginPost, Clear, Members, RevokeOwner, PasswordPost,
       WritePassword, KeysAdd, KeysDelete, RenamePost, RenameUserHandle, CreateTmp, Encode, MovePicture,
       StampPicture, ClearProfilePicture, CutOff
  <2> QED
    BY <1>1, <1>2, <1>3, <1>4, <1>5, <1>6, <1>7, <1>8, <2>1
<1> QED
  <2>1. CASE \E w \in work : Call(w)
    BY <2>1, <1>9
  <2>2. CASE \E t \in DOMAIN screens : PressKey(t) \/ ReceiveMsg(t)
    BY <2>2, <1>1 DEF PressKey, ReceiveMsg, Web
  <2>3. CASE \E b \in DOMAIN cookies : Send(b)
    BY <2>3, <1>1 DEF Send, Web
  <2>4. CASE UNCHANGED accountVars
    BY <2>4, <1>1 DEF accountVars
  <2> QED
    BY <2>1, <2>2, <2>3, <2>4 DEF AccountNext

(* A session that was revoked never authenticates again, whatever requests    *)
(* still touch its row (sessionStore.Set, touch, Clear, Revoke).              *)
THEOREM RevokedForGood == AccountSpec => RevokedStaysRevoked
<1>1. AccountInit => StoreInv
  <2> SUFFICES ASSUME AccountInit PROVE StoreInv
    OBVIOUS
  <2>1. store = [rows |-> <<>>, index |-> {}] /\ nextSid = 1
    BY Zenon DEF AccountInit
  <2> QED
    BY <2>1 DEF StoreInv, IsStore
<1>2. StoreInv /\ [AccountNext]_accountVars => StoreInv'
  BY RevokedStep
<1>3. StoreInv /\ [AccountNext]_accountVars =>
        [\A sid \in 1..(nextSid - 1) : ~Authentic(sid) => ~Authentic(sid)']_accountVars
  BY RevokedStep DEF StayRevoked
<1> QED
  BY <1>1, <1>2, <1>3, PTL DEF AccountSpec, RevokedStaysRevoked

-----------------------------------------------------------------------------
LEMMA KeyListLen ==
  ASSUME KeysInv
  PROVE  KeyList \in Seq({KeyList[n] : n \in 1..Cardinality(creds)}) /\ Len(KeyList) = Cardinality(creds)
         /\ Cardinality(creds) \in Nat
<1>1. Cardinality(creds) \in Nat
  BY FS_CardinalityType DEF KeysInv
<1>2. DOMAIN KeyList = 1..Cardinality(creds)
  BY DEF KeyList
<1>3. KeyList \in [1..Cardinality(creds) -> {KeyList[n] : n \in 1..Cardinality(creds)}]
  BY <1>2 DEF KeyList
<1> HIDE DEF KeyList
<1> QED
  BY <1>1, <1>2, <1>3

LEMMA FreshWork ==
  ASSUME NEW t, NEW op, NEW step
  PROVE  LET w == FreshCall(t, op, step)
         IN  /\ IsWork(w) /\ w.by = t /\ w.op = op /\ w.step = step /\ w.snap = user /\ w.image = 0
             /\ w.password = NoPassword
<1> DEFINE n == CHOOSE n \in 0..Cardinality(work) : \A w \in work : w.nr # n
           call(x) ==
             [nr |-> x, by |-> t, op |-> op, step |-> step,
              ident |-> FALSE, seen |-> {}, password |-> NoPassword, current |-> NoPassword, hash |-> NoPassword,
              id |-> 0, sid |-> 0, key |-> "", handle |-> "", image |-> 0, inode |-> 0, require |-> FALSE,
              snap |-> user]
<1>1. FreshCall(t, op, step) = call(n)
  BY Zenon DEF FreshCall
<1> HIDE DEF n
<1>2. /\ IsWork(call(n)) /\ call(n).by = t /\ call(n).op = op /\ call(n).step = step /\ call(n).snap = user
      /\ call(n).image = 0 /\ call(n).password = NoPassword
  BY DEF IsWork, WorkFields
<1> QED
  BY <1>1, <1>2

\* One of two keys can go.
LEMMA OneOfTwo ==
  ASSUME KeysInv, Cardinality(creds) > 1, NEW id
  PROVE  \E k \in creds : k.id # id
<1> SUFFICES ASSUME \A k \in creds : k.id = id PROVE FALSE
  OBVIOUS
<1>1. PICK k \in creds : TRUE
  BY FS_EmptySet DEF KeysInv
<1>2. creds = {k}
  BY DEF KeysInv
<1>3. Cardinality({k}) = 1
  BY FS_Singleton
<1> QED
  BY <1>2, <1>3

GoodEffect(t, e) ==
  /\ IsPage(e.page) /\ e.page.inbox = <<>>
  /\ \/ e.starts = {} /\ KnowsAll(e.page) /\ (e.page.mode = "confirmKey" => Spare(e.page.target))
     \/ e.page.mode # "confirmKey"
        /\ \E w \in e.starts : e.starts = {w} /\ IsWork(w) /\ w.by = t /\ WaitsForCall(e.page, w)

LEMMA StillGood ==
  ASSUME NEW t, NEW p, IsPage(p), p.inbox = <<>>, KnowsAll(p), p.mode = "confirmKey" => Spare(p.target)
  PROVE  GoodEffect(t, Still(p))
BY DEF GoodEffect, Still

LEMMA StartGood ==
  ASSUME NEW t, NEW p, IsPage(p), p.inbox = <<>>, p.mode # "confirmKey",
         NEW w, IsWork(w), w.by = t, WaitsForCall(p, w)
  PROVE  GoodEffect(t, Effect(p, w))
BY DEF GoodEffect, Effect

\* What a page looks like after a handler has set fields of it.
Like(q, p) ==
  IsPage(q) /\ q.inbox = p.inbox /\ q.known = p.known /\ q.snap = p.snap /\ q.keys = p.keys
LEMMA LikeKnows == ASSUME NEW p, NEW q, Like(q, p), KnowsAll(p) PROVE KnowsAll(q) /\ Knows(q)
BY DEF Like, KnowsAll, Knows

LEMMA SubmitProfileGood ==
  ASSUME NEW t, NEW p, IsPage(p), p.inbox = <<>>, KnowsAll(p), p.mode # "confirmKey"
  PROVE  GoodEffect(t, SubmitProfile(t, p))
<1>1. CASE ~p.known \/ p.working
  BY <1>1, StillGood DEF SubmitProfile
<1>2. CASE ~(~p.known \/ p.working)
  <2> DEFINE q == [p EXCEPT !.working = TRUE]
             w == [FreshCall(t, "save", "count") EXCEPT !.require = p.require]
  <2>1. Like(q, p) /\ q.mode = p.mode
    BY DEF Like, IsPage, PageFields, Modes
  <2>2. IsWork(w) /\ w.by = t /\ w.step = "count"
    BY FreshWork DEF IsWork, WorkFields
  <2>3. SubmitProfile(t, p) = Effect(q, w)
    BY <1>2 DEF SubmitProfile
  <2> HIDE DEF q, w
  <2>4. WaitsForCall(q, w)
    BY <2>1, <2>2, LikeKnows DEF WaitsForCall, LoadSteps, WriteSteps
  <2> QED
    BY <2>1, <2>2, <2>3, <2>4, StartGood DEF Like
<1> QED
  BY <1>1, <1>2

LEMMA SubmitPasswordGood ==
  ASSUME NEW t, NEW p, NEW k, IsPage(p), p.inbox = <<>>, KnowsAll(p), p.mode # "confirmKey"
  PROVE  GoodEffect(t, SubmitPassword(t, p, k))
<1>1. CASE ~p.known \/ p.working \/ k.next \notin MinLengthOf
  BY <1>1, StillGood DEF SubmitPassword
<1>2. CASE ~(~p.known \/ p.working \/ k.next \notin MinLengthOf)
  <2> DEFINE q == [p EXCEPT !.working = TRUE]
             w == [FreshCall(t, "changePassword", "password") EXCEPT !.password = k.next, !.current = k.current,
                     !.hash = IF p.snap.password = NoPassword THEN NoPassword ELSE user.password]
  <2>1. Like(q, p) /\ q.mode = p.mode
    BY DEF Like, IsPage, PageFields, Modes
  <2>2. IsWork(w) /\ w.by = t /\ w.step = "password" /\ w.password = k.next
    <3> DEFINE w0 == FreshCall(t, "changePassword", "password")
               h == IF p.snap.password = NoPassword THEN NoPassword ELSE user.password
    <3>1. IsWork(w0) /\ w0.by = t /\ w0.step = "password"
      BY FreshWork
    <3>2. w = [w0 EXCEPT !.password = k.next, !.current = k.current, !.hash = h]
      OBVIOUS
    <3> HIDE DEF w, w0, h
    <3> QED
      BY <3>1, <3>2 DEF IsWork, WorkFields
  <2>3. SubmitPassword(t, p, k) = Effect(q, w)
    BY <1>2 DEF SubmitPassword
  <2>4. k.next # NoPassword
    BY <1>2, AccountAssumption
  <2> HIDE DEF q, w
  <2>5. WaitsForCall(q, w)
    BY <2>1, <2>2, <2>4, LikeKnows DEF WaitsForCall, LoadSteps, WriteSteps
  <2> QED
    BY <2>1, <2>2, <2>3, <2>5, StartGood DEF Like
<1> QED
  BY <1>1, <1>2

\* A page that only changes what it shows.
LEMMA LikeGood ==
  ASSUME NEW t, NEW p, NEW q, Like(q, p), p.inbox = <<>>, KnowsAll(p),
         q.mode = "confirmKey" => Spare(q.target)
  PROVE  GoodEffect(t, Still(q))
BY LikeKnows, StillGood DEF Like

\* A page that starts a call which needs no more than what it knows.
LEMMA CallGood ==
  ASSUME NEW t, NEW p, NEW q, Like(q, p), p.inbox = <<>>, KnowsAll(p), q.mode # "confirmKey",
         NEW w, IsWork(w), w.by = t,
         \/ w.step \in {"insertKey", "count"}
         \/ w.step = "snapshot" /\ w.op = "loaded"
         \/ w.step = "keys" /\ w.op = "keysReloaded"
         \/ w.step = "deleteKey" /\ Spare(w.id)
  PROVE  GoodEffect(t, Effect(q, w))
<1>1. KnowsAll(q) /\ Knows(q)
  BY LikeKnows
<1>2. WaitsForCall(q, w)
  BY <1>1 DEF WaitsForCall, LoadSteps, WriteSteps
<1> QED
  BY <1>2, StartGood DEF Like

LEMMA ProfileTabGood ==
  ASSUME NEW t, NEW p, NEW k, IsPage(p), p.inbox = <<>>, KnowsAll(p), p.mode # "confirmKey"
  PROVE  GoodEffect(t, ProfileTabKey(t, p, k))
<1>1. CASE k.do = "settings"
  <2>1. Like([p EXCEPT !.mode = "settings"], p) /\ [p EXCEPT !.mode = "settings"].mode # "confirmKey"
    BY DEF Like, IsPage, PageFields, Modes
  <2> QED
    BY <1>1, <2>1, LikeGood DEF ProfileTabKey
<1>2. CASE k.do = "save"
  BY <1>2, SubmitProfileGood DEF ProfileTabKey
<1>3. CASE k.do = "keys"
  <2> DEFINE q == [p EXCEPT !.mode = "keys", !.cursor = 1]
  <2>1. Like(q, p) /\ q.mode # "confirmKey"
    BY DEF Like, IsPage, PageFields, Modes
  <2>2. ProfileTabKey(t, p, k) = Effect(q, ReloadKeys(t))
    BY <1>3 DEF ProfileTabKey
  <2> HIDE DEF q
  <2>3. IsWork(ReloadKeys(t)) /\ ReloadKeys(t).by = t /\ ReloadKeys(t).step = "keys" /\ ReloadKeys(t).op = "keysReloaded"
    BY FreshWork DEF ReloadKeys
  <2> QED
    BY <2>1, <2>2, <2>3, CallGood
<1>4. CASE k.do = "openPassword"
  <2>1. Like([p EXCEPT !.mode = "password"], p) /\ [p EXCEPT !.mode = "password"].mode # "confirmKey"
    BY DEF Like, IsPage, PageFields, Modes
  <2> QED
    BY <1>4, <2>1, LikeGood DEF ProfileTabKey
<1>5. CASE k.do \notin {"settings", "save", "keys", "openPassword"}
  BY <1>5, StillGood DEF ProfileTabKey
<1> QED
  BY <1>1, <1>2, <1>3, <1>4, <1>5

LEMMA SettingsTabGood ==
  ASSUME NEW t, NEW p, NEW k, IsPage(p), p.inbox = <<>>, KnowsAll(p), p.mode = "settings"
  PROVE  GoodEffect(t, SettingsTabKey(t, p, k))
<1>1. CASE k.do = "settings"
  <2>1. Like([p EXCEPT !.mode = "tab"], p) /\ [p EXCEPT !.mode = "tab"].mode # "confirmKey"
    BY DEF Like, IsPage, PageFields, Modes
  <2> QED
    BY <1>1, <2>1, LikeGood DEF SettingsTabKey
<1>2. CASE k.do = "save"
  BY <1>2, SubmitProfileGood DEF SettingsTabKey
<1>3. CASE k.do = "require"
  <2> DEFINE q == HandleRequireSshToggle(p)
  <2>1. Like(q, p) /\ q.mode # "confirmKey"
    <3>1. \/ q = p \/ q = [p EXCEPT !.require = FALSE] \/ q = [p EXCEPT !.mode = "confirmRequire"]
          \/ q = [p EXCEPT !.require = TRUE]
      <4> DEFINE n == Len(p.keys)
                 r(x) == CASE x = 0 -> p [] x = 1 -> [p EXCEPT !.mode = "confirmRequire"]
                           [] OTHER -> [p EXCEPT !.require = TRUE]
      <4>1. \A x : r(x) \in {p, [p EXCEPT !.mode = "confirmRequire"], [p EXCEPT !.require = TRUE]}
        OBVIOUS
      <4>2. q = IF p.require THEN [p EXCEPT !.require = FALSE] ELSE r(n)
        BY DEF HandleRequireSshToggle
      <4> HIDE DEF q, r, n
      <4> QED
        BY <4>1, <4>2, Zenon
    <3> QED
      BY <3>1 DEF Like, IsPage, PageFields, Modes
  <2> HIDE DEF q
  <2> QED
    BY <1>3, <2>1, LikeGood DEF SettingsTabKey, q
<1>4. CASE k.do \notin {"settings", "save", "require"}
  BY <1>4, StillGood DEF SettingsTabKey
<1> QED
  BY <1>1, <1>2, <1>3, <1>4

\* requestKeyDelete: the guards of the page are enough when what it shows is so.
LEMMA RequestGood ==
  ASSUME KeysInv, NEW p, IsPage(p), KnowsAll(p), p.mode = "keys"
  PROVE  LET q == RequestKeyDelete(p) IN Like(q, p) /\ (q.mode = "confirmKey" => Spare(q.target))
<1>1. CASE p.cursor \notin DOMAIN p.keys \/ (Len(p.keys) = 1 /\ p.known /\ (p.snap.requireSsh \/ p.snap.password = NoPassword))
  BY <1>1 DEF RequestKeyDelete, Like
<1>2. CASE ~(p.cursor \notin DOMAIN p.keys \/ (Len(p.keys) = 1 /\ p.known /\ (p.snap.requireSsh \/ p.snap.password = NoPassword)))
  <2> DEFINE id == p.keys[p.cursor].id
             q == [p EXCEPT !.mode = "confirmKey", !.target = id]
  <2>1. RequestKeyDelete(p) = q
    BY <1>2 DEF RequestKeyDelete
  <2>2. Like(q, p) /\ q.target = id
    BY DEF Like, IsPage, PageFields, Modes
  <2>3. ASSUME NeedsKey PROVE Cardinality(creds) > 1
    <3>1. Len(p.keys) # 1 /\ p.cursor \in DOMAIN p.keys
      BY <1>2, <2>3 DEF KnowsAll, Knows, NeedsKey
    <3>2. p.keys = KeyList
      BY DEF KnowsAll
    <3>3. DOMAIN KeyList = 1..Cardinality(creds)
      BY DEF KeyList
    <3> QED
      BY <3>1, <3>2, <3>3, KeyListLen
  <2>4. Spare(id)
    BY <2>3, OneOfTwo DEF Spare
  <2> HIDE DEF id, q
  <2> QED
    BY <2>1, <2>2, <2>4
<1> QED
  BY <1>1, <1>2

LEMMA KeysGood ==
  ASSUME KeysInv, NEW t, NEW p, NEW k, IsPage(p), p.inbox = <<>>, KnowsAll(p), p.mode = "keys"
  PROVE  GoodEffect(t, Still(KeysKey(p, k)))
<1>1. CASE k.do = "delete"
  BY <1>1, RequestGood, LikeGood DEF KeysKey
<1>2. CASE k.do # "delete"
  <2>1. Like(KeysKey(p, k), p) /\ KeysKey(p, k).mode # "confirmKey"
    BY <1>2 DEF KeysKey, Like, IsPage, PageFields, Modes
  <2> QED
    BY <2>1, LikeGood
<1> QED
  BY <1>1, <1>2

LEMMA AddKeyGood ==
  ASSUME NEW t, NEW p, NEW k, IsPage(p), p.inbox = <<>>, KnowsAll(p), p.mode = "addKey"
  PROVE  GoodEffect(t, AddKeyKey(t, p, k))
<1>1. CASE p.busy \/ k.do \notin {"key", "esc"}
  BY <1>1, StillGood DEF AddKeyKey
<1>2. CASE ~p.busy /\ k.do = "key"
  <2> DEFINE q == [p EXCEPT !.busy = TRUE]
             w == [FreshCall(t, "addKey", "insertKey") EXCEPT !.key = k.key]
  <2>1. Like(q, p) /\ q.mode # "confirmKey"
    BY DEF Like, IsPage, PageFields, Modes
  <2>2. IsWork(w) /\ w.by = t /\ w.step = "insertKey"
    BY FreshWork DEF IsWork, WorkFields
  <2>3. AddKeyKey(t, p, k) = Effect(q, w)
    BY <1>2 DEF AddKeyKey
  <2> HIDE DEF q, w
  <2> QED
    BY <2>1, <2>2, <2>3, CallGood
<1>3. CASE ~p.busy /\ k.do = "esc"
  <2>1. Like([p EXCEPT !.mode = "keys"], p) /\ [p EXCEPT !.mode = "keys"].mode # "confirmKey"
    BY DEF Like, IsPage, PageFields, Modes
  <2> QED
    BY <1>3, <2>1, LikeGood DEF AddKeyKey
<1> QED
  BY <1>1, <1>2, <1>3

LEMMA PasswordGood ==
  ASSUME NEW t, NEW p, NEW k, IsPage(p), p.inbox = <<>>, KnowsAll(p), p.mode = "password"
  PROVE  GoodEffect(t, PasswordKey(t, p, k))
<1>1. CASE k.do = "password"
  BY <1>1, SubmitPasswordGood DEF PasswordKey
<1>2. CASE k.do = "esc"
  <2>1. Like([p EXCEPT !.mode = "tab"], p) /\ [p EXCEPT !.mode = "tab"].mode # "confirmKey"
    BY DEF Like, IsPage, PageFields, Modes
  <2> QED
    BY <1>2, <2>1, LikeGood DEF PasswordKey
<1>3. CASE k.do \notin {"password", "esc"}
  BY <1>3, StillGood DEF PasswordKey
<1> QED
  BY <1>1, <1>2, <1>3

LEMMA ConfirmGood ==
  ASSUME NEW t, NEW p, NEW k, IsPage(p), p.inbox = <<>>, KnowsAll(p),
         p.mode \in {"confirmKey", "confirmRequire"}, p.mode = "confirmKey" => Spare(p.target)
  PROVE  GoodEffect(t, ConfirmKey(t, p, k))
<1> DEFINE back == [p EXCEPT !.mode = IF p.mode = "confirmKey" THEN "keys" ELSE "settings"]
<1>1. Like(back, p) /\ back.mode # "confirmKey"
  BY DEF Like, IsPage, PageFields, Modes
<1>2. CASE k.do \notin {"yes", "esc"}
  BY <1>2, StillGood DEF ConfirmKey
<1>3. CASE k.do = "esc"
  BY <1>1, <1>3, LikeGood DEF ConfirmKey
<1>4. CASE k.do = "yes" /\ p.mode = "confirmRequire"
  <2> DEFINE q == [back EXCEPT !.require = ~@]
  <2>1. Like(q, p) /\ q.mode # "confirmKey"
    BY <1>1 DEF Like, IsPage, PageFields, Modes
  <2>2. ConfirmKey(t, p, k) = Still(q)
    BY <1>4 DEF ConfirmKey
  <2> HIDE DEF q
  <2> QED
    BY <2>1, <2>2, LikeGood
<1>5. CASE k.do = "yes" /\ p.mode = "confirmKey"
  <2> DEFINE q == [back EXCEPT !.working = TRUE]
             w == [FreshCall(t, "removeKey", "deleteKey") EXCEPT !.id = p.target]
  <2>1. Like(q, p) /\ q.mode # "confirmKey"
    BY <1>1 DEF Like, IsPage, PageFields, Modes
  <2>2. IsWork(w) /\ w.by = t /\ w.step = "deleteKey" /\ w.id = p.target
    BY FreshWork DEF IsWork, WorkFields
  <2>3. ConfirmKey(t, p, k) = Effect(q, w)
    BY <1>5 DEF ConfirmKey
  <2> HIDE DEF q, w
  <2> QED
    BY <1>5, <2>1, <2>2, <2>3, CallGood
<1>6. CASE k.do = "yes" /\ p.mode \notin {"confirmKey", "confirmRequire"}
  BY <1>6
<1> QED
  BY <1>2, <1>3, <1>4, <1>5, <1>6

LEMMA OnKeyGood ==
  ASSUME KeysInv, NEW t, NEW p, NEW k, IsPage(p), p.inbox = <<>>, KnowsAll(p),
         p.mode = "confirmKey" => Spare(p.target)
  PROVE  GoodEffect(t, OnKey(t, p, k))
<1>1. CASE p.mode = "tab"
  BY <1>1, ProfileTabGood DEF OnKey
<1>2. CASE p.mode = "settings"
  BY <1>2, SettingsTabGood DEF OnKey
<1>3. CASE p.mode = "keys"
  BY <1>3, KeysGood DEF OnKey
<1>4. CASE p.mode = "addKey"
  BY <1>4, AddKeyGood DEF OnKey
<1>5. CASE p.mode = "password"
  BY <1>5, PasswordGood DEF OnKey
<1>6. CASE p.mode \in {"confirmKey", "confirmRequire"}
  BY <1>6, ConfirmGood DEF OnKey
<1> QED
  BY <1>1, <1>2, <1>3, <1>4, <1>5, <1>6 DEF IsPage, Modes

\* A page that is loaded again, whatever it knew.
LEMMA LoadGood ==
  ASSUME NEW t, NEW q, IsPage(q), q.inbox = <<>>, q.mode # "confirmKey"
  PROVE  GoodEffect(t, Effect(q, LoadSelf(t)))
<1>1. IsWork(LoadSelf(t)) /\ LoadSelf(t).by = t /\ LoadSelf(t).step = "snapshot" /\ LoadSelf(t).op = "loaded"
  BY FreshWork DEF LoadSelf
<1>2. WaitsForCall(q, LoadSelf(t))
  BY <1>1 DEF WaitsForCall, LoadSteps, WriteSteps
<1> QED
  BY <1>1, <1>2, StartGood

LEMMA ReloadGood ==
  ASSUME NEW t, NEW q, IsPage(q), q.inbox = <<>>, q.mode # "confirmKey", Knows(q)
  PROVE  GoodEffect(t, Effect(q, ReloadKeys(t)))
<1>1. IsWork(ReloadKeys(t)) /\ ReloadKeys(t).by = t /\ ReloadKeys(t).step = "keys" /\ ReloadKeys(t).op = "keysReloaded"
  BY FreshWork DEF ReloadKeys
<1>2. WaitsForCall(q, ReloadKeys(t))
  BY <1>1 DEF WaitsForCall, LoadSteps, WriteSteps
<1> QED
  BY <1>1, <1>2, StartGood

LEMMA OnMessageGood ==
  ASSUME NEW t, NEW p, NEW m, IsPage(p), p.inbox = <<>>, p.mode # "confirmKey", WaitsForMsg(p, m)
  PROVE  GoodEffect(t, OnMessage(t, p, m))
<1> USE DEF IsPage, PageFields, Modes
<1>1. CASE m.kind = "loaded"
  <2> DEFINE q == [p EXCEPT !.snap = m.snap, !.known = TRUE, !.keys = m.keys, !.require = m.snap.requireSsh]
  <2>1. IsPage(q) /\ q.inbox = <<>> /\ q.mode # "confirmKey" /\ KnowsAll(q)
    BY <1>1 DEF WaitsForMsg, KnowsAll, Knows
  <2>2. OnMessage(t, p, m) = Still(q)
    BY <1>1 DEF OnMessage
  <2> HIDE DEF q
  <2> QED
    BY <2>1, <2>2, StillGood
<1>2. CASE m.kind = "keysReloaded"
  <2> DEFINE c == Clamped(p.cursor, Len(m.keys))
             q == [p EXCEPT !.working = FALSE, !.keys = m.keys, !.cursor = c]
  <2>2. OnMessage(t, p, m) = Still(q)
    BY <1>2 DEF OnMessage
  <2> HIDE DEF c
  <2>1. IsPage(q) /\ q.inbox = <<>> /\ q.mode # "confirmKey" /\ KnowsAll(q)
    BY <1>2 DEF WaitsForMsg, KnowsAll, Knows
  <2> HIDE DEF q
  <2> QED
    BY <2>1, <2>2, StillGood
<1>3. CASE m.kind \in {"saved", "passwordChanged"} /\ m.err # ""
  <2> DEFINE q == [p EXCEPT !.working = FALSE]
  <2>1. IsPage(q) /\ q.inbox = <<>> /\ q.mode # "confirmKey" /\ KnowsAll(q)
    BY <1>3 DEF WaitsForMsg, KnowsAll, Knows
  <2>2. OnMessage(t, p, m) = Still(q)
    BY <1>3 DEF OnMessage
  <2> HIDE DEF q
  <2> QED
    BY <2>1, <2>2, StillGood
<1>4. CASE m.kind = "saved" /\ m.err = ""
  <2> DEFINE q == [p EXCEPT !.working = FALSE]
  <2>1. IsPage(q) /\ q.inbox = <<>> /\ q.mode # "confirmKey"
    OBVIOUS
  <2>2. OnMessage(t, p, m) = Effect(q, LoadSelf(t))
    BY <1>4 DEF OnMessage
  <2> HIDE DEF q
  <2> QED
    BY <2>1, <2>2, LoadGood
<1>5. CASE m.kind = "passwordChanged" /\ m.err = ""
  <2> DEFINE q == [p EXCEPT !.working = FALSE, !.mode = "tab"]
  <2>1. IsPage(q) /\ q.inbox = <<>> /\ q.mode # "confirmKey"
    OBVIOUS
  <2>2. OnMessage(t, p, m) = Effect(q, LoadSelf(t))
    BY <1>5 DEF OnMessage
  <2> HIDE DEF q
  <2> QED
    BY <2>1, <2>2, LoadGood
<1>6. CASE m.kind = "keyAdded" /\ m.err # ""
  <2> DEFINE q == [p EXCEPT !.busy = FALSE]
  <2>1. IsPage(q) /\ q.inbox = <<>> /\ q.mode # "confirmKey" /\ KnowsAll(q)
    BY <1>6 DEF WaitsForMsg, KnowsAll, Knows
  <2>2. OnMessage(t, p, m) = Still(q)
    BY <1>6 DEF OnMessage
  <2> HIDE DEF q
  <2> QED
    BY <2>1, <2>2, StillGood
<1>7. CASE m.kind = "keyAdded" /\ m.err = ""
  <2> DEFINE q == [p EXCEPT !.busy = FALSE, !.mode = "keys"]
  <2>1. IsPage(q) /\ q.inbox = <<>> /\ q.mode # "confirmKey" /\ Knows(q)
    BY <1>7 DEF WaitsForMsg, Knows
  <2>2. OnMessage(t, p, m) = Effect(q, ReloadKeys(t))
    BY <1>7 DEF OnMessage
  <2> HIDE DEF q
  <2> QED
    BY <2>1, <2>2, ReloadGood
<1>8. CASE m.kind = "keyRemoved"
  <2> DEFINE q == [p EXCEPT !.working = FALSE]
  <2>1. IsPage(q) /\ q.inbox = <<>> /\ q.mode # "confirmKey" /\ Knows(q)
    BY <1>8 DEF WaitsForMsg, Knows
  <2>2. OnMessage(t, p, m) = Effect(q, ReloadKeys(t))
    BY <1>8 DEF OnMessage
  <2> HIDE DEF q
  <2> QED
    BY <2>1, <2>2, ReloadGood
<1> QED
  BY <1>1, <1>2, <1>3, <1>4, <1>5, <1>6, <1>7, <1>8 DEF WaitsForMsg

-----------------------------------------------------------------------------
\* A handler of the page of the one terminal, with nothing else under way.
LEMMA EffectWaits ==
  ASSUME NEW t, Waits(t), work = {}, NEW e, GoodEffect(t, e), Shows(t, e), UNCHANGED UserRow
  PROVE  Waits(t)'
<1>1. DOMAIN screens' = {t} /\ screens'[t] = e.page /\ work' = e.starts
  BY DEF Shows, Waits
<1>2. IsPage(screens[t])' /\ KeysInv' /\ (NeedsKey => creds # {})'
  BY <1>1 DEF Waits, GoodEffect, UserRow, KeysInv, NeedsKey
<1>3. OneThing(t, screens[t])'
  <2>1. KeyList' = KeyList
    BY DEF UserRow, KeyList
  <2>2. CASE e.starts = {} /\ KnowsAll(e.page) /\ (e.page.mode = "confirmKey" => Spare(e.page.target))
    BY <1>1, <2>1, <2>2 DEF OneThing, GoodEffect, UserRow, KnowsAll, Knows, Spare, NeedsKey
  <2>3. CASE e.page.mode # "confirmKey" /\ \E w \in e.starts : e.starts = {w} /\ IsWork(w) /\ w.by = t /\ WaitsForCall(e.page, w)
    <3>1. PICK w \in e.starts : e.starts = {w} /\ IsWork(w) /\ w.by = t /\ WaitsForCall(e.page, w)
      BY <2>3
    <3>2. WaitsForCall(screens[t], w)'
      BY <1>1, <2>1, <3>1 DEF WaitsForCall, UserRow, KnowsAll, Knows, Spare, NeedsKey
    <3> QED
      BY <1>1, <2>3, <3>1, <3>2 DEF OneThing, GoodEffect
  <2> QED
    BY <2>2, <2>3 DEF GoodEffect
<1> QED
  BY <1>1, <1>2, <1>3 DEF Waits

LEMMA RemoveOnly == ASSUME NEW m PROVE RemoveAt(<<m>>, 1) = <<>>
BY DEF RemoveAt

LEMMA PressWaits ==
  ASSUME NEW t, Waits(t), hasty = 0, todo[t] # <<>> => Len(todo[t]) > 0, PressKey(t)
  PROVE  Waits(t)'
<1>1. Quiescent(t)
  BY DEF PressKey
<1>2. work = {} /\ screens[t].inbox = <<>> /\ KnowsAll(screens[t])
      /\ (screens[t].mode = "confirmKey" => Spare(screens[t].target))
  BY <1>1 DEF Quiescent, Waits, OneThing
<1>3. GoodEffect(t, OnKey(t, screens[t], Head(todo[t])))
  BY <1>2, OnKeyGood DEF Waits
<1> QED
  BY <1>2, <1>3, EffectWaits DEF PressKey

LEMMA ReceiveWaits ==
  ASSUME NEW t, Waits(t), ReceiveMsg(t)
  PROVE  Waits(t)'
<1> DEFINE p == screens[t]
<1>1. PICK i \in DOMAIN p.inbox :
        Shows(t, OnMessage(t, [p EXCEPT !.inbox = RemoveAt(@, i)], p.inbox[i]))
  BY DEF ReceiveMsg
<1>2. p.mode # "confirmKey" /\ work = {} /\ \E m \in Range(p.inbox) : p.inbox = <<m>> /\ WaitsForMsg(p, m)
  BY <1>1 DEF Waits, OneThing
<1>3. PICK m \in Range(p.inbox) : p.inbox = <<m>> /\ WaitsForMsg(p, m)
  BY <1>2
<1>4. i = 1 /\ p.inbox[i] = m
  BY <1>1, <1>3
<1> DEFINE q == [p EXCEPT !.inbox = <<>>]
<1>5. [p EXCEPT !.inbox = RemoveAt(@, i)] = q
  BY <1>3, <1>4, RemoveOnly
<1>6. IsPage(q) /\ q.inbox = <<>> /\ q.mode # "confirmKey" /\ WaitsForMsg(q, m)
  BY <1>2, <1>3 DEF Waits, IsPage, PageFields, WaitsForMsg, KnowsAll, Knows
<1> HIDE DEF q
<1>7. GoodEffect(t, OnMessage(t, q, m))
  BY <1>6, OnMessageGood
<1> QED
  BY <1>1, <1>2, <1>4, <1>5, <1>7, EffectWaits DEF ReceiveMsg

-----------------------------------------------------------------------------
\* The one call that is under way for the user who waits.
LEMMA TheCall ==
  ASSUME NEW t, Waits(t), NEW w \in work
  PROVE  /\ work = {w} /\ IsWork(w) /\ w.by = t /\ WaitsForCall(screens[t], w)
         /\ screens[t].inbox = <<>> /\ screens[t].mode # "confirmKey"
BY DEF Waits, OneThing

LEMMA TellsPage ==
  ASSUME NEW t, Waits(t), NEW w \in work, NEW m, Tells(w, m)
  PROVE  /\ work' = {} /\ DOMAIN screens' = {t} /\ IsPage(screens'[t]) /\ screens'[t].inbox = <<m>>
         /\ screens'[t].known = screens[t].known /\ screens'[t].snap = screens[t].snap
         /\ screens'[t].keys = screens[t].keys /\ screens'[t].mode # "confirmKey"
<1>1. work = {w} /\ w.by = t /\ screens[t].inbox = <<>> /\ screens[t].mode # "confirmKey"
  BY TheCall
<1>2. work' = {}
  BY <1>1 DEF Tells
<1>3. DOMAIN screens' = {t} /\ screens'[t] = [screens[t] EXCEPT !.inbox = Append(@, m)]
  BY <1>1 DEF Tells, Waits
<1>4. Append(screens[t].inbox, m) = <<m>>
  BY <1>1
<1>5. screens'[t] = [screens[t] EXCEPT !.inbox = <<m>>] /\ IsPage(screens[t])
  BY <1>1, <1>3, <1>4 DEF Waits, IsPage, PageFields
<1> QED
  BY <1>1, <1>2, <1>3, <1>5 DEF IsPage, PageFields

LEMMA TellsWaits ==
  ASSUME NEW t, Waits(t), NEW w \in work, NEW m, Tells(w, m),
         KeysInv', (NeedsKey => creds # {})', WaitsForMsg(screens[t], m)'
  PROVE  Waits(t)'
<1>1. /\ work' = {} /\ DOMAIN screens' = {t} /\ IsPage(screens'[t]) /\ screens'[t].inbox = <<m>>
      /\ screens'[t].mode # "confirmKey"
  BY TellsPage
<1>2. \A q, n : q = <<n>> => n \in Range(q)
  BY DEF Range
<1>3. m \in Range(screens'[t].inbox)
  BY <1>1, <1>2
<1> QED
  BY <1>1, <1>3 DEF Waits, OneThing, IsPage

\* The call goes on to its next step.
LEMMA GoesOn ==
  ASSUME NEW t, Waits(t), NEW w \in work, NEW v, Steps(w, v), IsWork(v), v.by = t, UNCHANGED UserRow,
         WaitsForCall(screens[t], v)
  PROVE  Waits(t)'
<1>1. /\ work = {w} /\ screens[t].inbox = <<>> /\ screens[t].mode # "confirmKey"
  BY TheCall
<1>2. work' = {v} /\ screens' = screens
  BY <1>1 DEF Steps
<1>3. KeyList' = KeyList
  BY DEF UserRow, KeyList
<1>4. WaitsForCall(screens[t], v)'
  BY <1>2, <1>3 DEF WaitsForCall, UserRow, KnowsAll, Knows, Spare, NeedsKey
<1>5. OneThing(t, screens[t])'
  BY <1>1, <1>2, <1>4 DEF OneThing
<1> QED
  BY <1>2, <1>5 DEF Waits, UserRow, KeysInv, NeedsKey

LEMMA SameAccount ==
  ASSUME NEW t, Waits(t), UNCHANGED UserRow
  PROVE  KeysInv' /\ (NeedsKey => creds # {})' /\ KeyList' = KeyList
BY DEF Waits, UserRow, KeysInv, NeedsKey, KeyList

LEMMA LoadWaits ==
  ASSUME NEW t, Waits(t), NEW w \in work, LoadSnapshot(w) \/ ListSshCredentials(w)
  PROVE  Waits(t)'
<1>0. IsWork(w) /\ w.by = t /\ WaitsForCall(screens[t], w)
  BY TheCall
<1>1. CASE LoadSnapshot(w)
  <2> DEFINE v == [w EXCEPT !.step = "keys", !.snap = user]
  <2>1. IsWork(v) /\ v.by = t /\ v.step = "keys" /\ v.op = "loaded" /\ v.snap = user
    BY <1>0, <1>1 DEF IsWork, WorkFields, WaitsForCall, LoadSnapshot
  <2>2. Steps(w, v) /\ UNCHANGED UserRow
    BY <1>1 DEF LoadSnapshot
  <2> HIDE DEF v
  <2>3. WaitsForCall(screens[t], v)
    BY <2>1 DEF WaitsForCall, LoadSteps, WriteSteps
  <2> QED
    BY <2>1, <2>2, <2>3, GoesOn
<1>2. CASE ListSshCredentials(w)
  <2>9. PICK m : m = [kind |-> w.op, err |-> "", snap |-> w.snap, keys |-> KeyList]
    OBVIOUS
  <2>1. Tells(w, m) /\ UNCHANGED UserRow /\ w.step = "keys"
    BY <2>9, <1>2 DEF ListSshCredentials
  <2>2. m.kind = w.op /\ m.snap = w.snap /\ m.keys = KeyList
    BY <2>9
  <2>3. (m.kind = "loaded" /\ m.snap = user) \/ (m.kind = "keysReloaded" /\ Knows(screens[t]))
    <3>1. (w.op = "loaded" /\ w.snap = user) \/ (w.op = "keysReloaded" /\ Knows(screens[t]))
      BY <1>0, <2>1 DEF WaitsForCall
    <3> QED
      BY <2>2, <3>1
  <2>4. screens'[t].known = screens[t].known /\ screens'[t].snap = screens[t].snap
    BY <2>1, TellsPage
  <2>5. WaitsForMsg(screens[t], m)'
    BY <2>1, <2>2, <2>3, <2>4, SameAccount DEF WaitsForMsg, Knows, UserRow
  <2> QED
    BY <2>1, <2>5, SameAccount, TellsWaits
<1> QED
  BY <1>1, <1>2

LEMMA AddKeyWaits ==
  ASSUME NEW t, Waits(t), NEW w \in work, AddKey(w)
  PROVE  Waits(t)'
<1>0. w.step = "insertKey" /\ KnowsAll(screens[t])
  BY TheCall DEF AddKey, WaitsForCall, WriteSteps
<1>9. PICK m : m = Note("keyAdded", IF Duplicate(w.key) THEN "duplicate" ELSE "")
  OBVIOUS
<1>1. Tells(w, m) /\ InsertSshCredential(w.key) /\ user' = user
  BY <1>9 DEF AddKey
<1>2. m.kind = "keyAdded" /\ m.err = IF Duplicate(w.key) THEN "duplicate" ELSE ""
  BY <1>9 DEF Note
<1>3. /\ screens'[t].known = screens[t].known /\ screens'[t].snap = screens[t].snap
      /\ screens'[t].keys = screens[t].keys
  BY <1>1, TellsPage
<1>4. CASE Duplicate(w.key)
  <2>1. UNCHANGED UserRow
    BY <1>1, <1>4 DEF InsertSshCredential, Duplicate, UserRow
  <2>2. WaitsForMsg(screens[t], m)'
    BY <1>0, <1>2, <1>3, <1>4, <2>1, SameAccount DEF WaitsForMsg, KnowsAll, Knows, UserRow
  <2> QED
    BY <1>1, <2>1, <2>2, SameAccount, TellsWaits
<1>5. CASE ~Duplicate(w.key)
  <2> DEFINE k == [id |-> nextCred, key |-> w.key]
  <2>1. creds' = creds \cup {k} /\ nextCred' = nextCred + 1 /\ k.id = nextCred
    BY <1>1, <1>5 DEF InsertSshCredential, Duplicate
  <2> HIDE DEF k
  <2>2. IsFiniteSet(creds')
    BY <2>1, FS_AddElement DEF Waits, KeysInv
  <2>3. KeysInv' /\ (NeedsKey => creds # {})'
    BY <1>1, <2>1, <2>2 DEF Waits, KeysInv, NeedsKey
  <2>4. WaitsForMsg(screens[t], m)'
    BY <1>0, <1>1, <1>2, <1>3, <1>5 DEF WaitsForMsg, KnowsAll, Knows
  <2> QED
    BY <1>1, <2>3, <2>4, TellsWaits
<1> QED
  BY <1>4, <1>5

LEMMA DeleteKeyWaits ==
  ASSUME NEW t, Waits(t), NEW w \in work, DeleteKey(w)
  PROVE  Waits(t)'
<1>0. w.step = "deleteKey" /\ KnowsAll(screens[t]) /\ Spare(w.id)
  BY TheCall DEF DeleteKey, WaitsForCall, WriteSteps
<1>9. PICK m : m = Note("keyRemoved", "")
  OBVIOUS
<1>1. Tells(w, m) /\ creds' = {k \in creds : k.id # w.id} /\ user' = user /\ nextCred' = nextCred
  BY <1>9 DEF DeleteKey, DeleteCredentialByID
<1>2. m.kind = "keyRemoved" /\ m.err = ""
  BY <1>9 DEF Note
<1>3. screens'[t].known = screens[t].known /\ screens'[t].snap = screens[t].snap
  BY <1>1, TellsPage
<1>4. IsFiniteSet(creds')
  BY <1>1, FS_Subset DEF Waits, KeysInv
<1>5. KeysInv'
  BY <1>1, <1>4 DEF Waits, KeysInv
<1>6. (NeedsKey => creds # {})'
  BY <1>0, <1>1 DEF Spare, NeedsKey
<1>7. WaitsForMsg(screens[t], m)'
  BY <1>0, <1>1, <1>2, <1>3 DEF WaitsForMsg, KnowsAll, Knows
<1> QED
  BY <1>1, <1>5, <1>6, <1>7, TellsWaits

LEMMA CountWaits ==
  ASSUME NEW t, Waits(t), NEW w \in work, CountKeys(w)
  PROVE  Waits(t)'
<1>0. IsWork(w) /\ w.by = t /\ w.step = "count" /\ KnowsAll(screens[t]) /\ UNCHANGED UserRow
  BY TheCall DEF CountKeys, WaitsForCall, WriteSteps
<1>1. CASE w.require /\ creds = {}
  <2>9. PICK m : m = Note("saved", "needs a key")
    OBVIOUS
  <2>1. Tells(w, m)
    BY <2>9, <1>1 DEF CountKeys
  <2>2. m.kind = "saved"
    BY <2>9 DEF Note
  <2>3. /\ screens'[t].known = screens[t].known /\ screens'[t].snap = screens[t].snap
        /\ screens'[t].keys = screens[t].keys
    BY <2>1, TellsPage
  <2>4. WaitsForMsg(screens[t], m)'
    BY <1>0, <2>2, <2>3, SameAccount DEF WaitsForMsg, KnowsAll, Knows, UserRow
  <2> QED
    BY <1>0, <2>1, <2>4, SameAccount, TellsWaits
<1>2. CASE ~(w.require /\ creds = {})
  <2> DEFINE v == [w EXCEPT !.step = "update"]
  <2>1. IsWork(v) /\ v.by = t /\ v.step = "update" /\ v.require = w.require
    BY <1>0 DEF IsWork, WorkFields
  <2>2. Steps(w, v)
    BY <1>2 DEF CountKeys, To
  <2> HIDE DEF v
  <2>3. WaitsForCall(screens[t], v)
    BY <1>0, <1>2, <2>1 DEF WaitsForCall, LoadSteps, WriteSteps
  <2> QED
    BY <1>0, <2>1, <2>2, <2>3, GoesOn
<1> QED
  BY <1>1, <1>2

LEMMA UpdateWaits ==
  ASSUME NEW t, Waits(t), NEW w \in work, UpdateProfile(w)
  PROVE  Waits(t)'
<1>0. w.step = "update" /\ (w.require => creds # {})
  BY TheCall DEF UpdateProfile, WaitsForCall
<1>9. PICK m : m = Note("saved", "")
  OBVIOUS
<1>1. Tells(w, m) /\ user' = [user EXCEPT !.requireSsh = w.require] /\ UNCHANGED <<creds, nextCred>>
  BY <1>9 DEF UpdateProfile, UpdateUserProfile
<1>2. m.kind = "saved" /\ m.err = ""
  BY <1>9 DEF Note
<1>3. KeysInv'
  BY <1>1 DEF Waits, KeysInv
<1>4. (NeedsKey => creds # {})'
  BY <1>0, <1>1 DEF Waits, KeysInv, NeedsKey
<1>5. WaitsForMsg(screens[t], m)'
  BY <1>2 DEF WaitsForMsg
<1> QED
  BY <1>1, <1>3, <1>4, <1>5, TellsWaits

LEMMA PasswordWaits ==
  ASSUME NEW t, Waits(t), NEW w \in work, ChangePassword(w)
  PROVE  Waits(t)'
<1>0. w.step = "password" /\ w.password # NoPassword /\ KnowsAll(screens[t])
  BY TheCall DEF ChangePassword, WaitsForCall, WriteSteps
<1>1. CASE w.hash # NoPassword /\ w.current # w.hash
  <2>9. PICK m : m = Note("passwordChanged", "wrong")
    OBVIOUS
  <2>1. Tells(w, m) /\ UNCHANGED UserRow
    BY <2>9, <1>1 DEF ChangePassword, UserRow
  <2>2. m.kind = "passwordChanged"
    BY <2>9 DEF Note
  <2>3. /\ screens'[t].known = screens[t].known /\ screens'[t].snap = screens[t].snap
        /\ screens'[t].keys = screens[t].keys
    BY <2>1, TellsPage
  <2>4. WaitsForMsg(screens[t], m)'
    BY <1>0, <2>1, <2>2, <2>3, SameAccount DEF WaitsForMsg, KnowsAll, Knows, UserRow
  <2> QED
    BY <2>1, <2>4, SameAccount, TellsWaits
<1>2. CASE ~(w.hash # NoPassword /\ w.current # w.hash)
  <2>9. PICK m : m = Note("passwordChanged", "")
    OBVIOUS
  <2>1. Tells(w, m) /\ user' = [user EXCEPT !.password = w.password] /\ UNCHANGED <<creds, nextCred>>
    BY <2>9, <1>2 DEF ChangePassword, UpdateUserPassword
  <2>2. m.kind = "passwordChanged" /\ m.err = ""
    BY <2>9 DEF Note
  <2>3. KeysInv'
    BY <2>1 DEF Waits, KeysInv
  <2>4. (NeedsKey => creds # {})'
    BY <1>0, <2>1 DEF Waits, KeysInv, NeedsKey
  <2>5. WaitsForMsg(screens[t], m)'
    BY <2>2 DEF WaitsForMsg
  <2> QED
    BY <2>1, <2>3, <2>4, <2>5, TellsWaits
<1> QED
  BY <1>1, <1>2

\* The other calls are of browsers, and a user who waits has none.
LEMMA CallWaits ==
  ASSUME NEW t, Waits(t), DOMAIN cookies = {}, NEW w \in work, Call(w)
  PROVE  Waits(t)'
<1>1. w.step \in LoadSteps \cup WriteSteps /\ w.by \notin DOMAIN cookies
  BY TheCall DEF WaitsForCall
<1>2. \/ LoadSnapshot(w) \/ ListSshCredentials(w) \/ AddKey(w) \/ DeleteKey(w) \/ CountKeys(w) \/ UpdateProfile(w)
      \/ ChangePassword(w)
  BY <1>1 DEF Call, LoadSteps, WriteSteps, ReadSession, TouchSession, Redirect, LoginPost, Set, Clear,
     DropSession, Members, DropAll, DropIndex, ListSessions, RevokeOwner, Revoke, PasswordPost, WritePassword,
     KeysAdd, KeysDelete, RenamePost, RenameUserHandle, CreateTmp, Encode, MovePicture, StampPicture,
     ClearProfilePicture, CutOff
<1> QED
  BY <1>2, LoadWaits, AddKeyWaits, DeleteKeyWaits, CountWaits, UpdateWaits, PasswordWaits

-----------------------------------------------------------------------------
LEMMA TailOf ==
  ASSUME NEW q, q \in Seq(Range(q)), q # <<>>
  PROVE  Len(q) > 0 /\ Tail(q) \in Seq(Range(Tail(q))) /\ Range(Tail(q)) \subseteq Range(q) /\ Head(q) \in Range(q)
<1> DEFINE S == Range(q)
<1>1. Head(q) \in S /\ Tail(q) \in Seq(S) /\ Len(q) > 0
  BY HeadTailProperties, EmptySeq, LenProperties
<1>2. \A r : r \in Seq(S) => r \in [1..Len(r) -> Range(r)] /\ Range(r) \subseteq S /\ Len(r) \in Nat
  <2> SUFFICES ASSUME NEW r \in Seq(S)
               PROVE  r \in [1..Len(r) -> Range(r)] /\ Range(r) \subseteq S /\ Len(r) \in Nat
    OBVIOUS
  <2>1. r \in [1..Len(r) -> S] /\ Len(r) \in Nat
    BY LenProperties
  <2> HIDE DEF S
  <2> QED
    BY <2>1 DEF Range
<1> HIDE DEF S
<1>3. \A r, T : \A n \in Nat : r \in [1..n -> T] => r \in Seq(T)
  BY SeqDef
<1> QED
  <2>1. Tail(q) \in [1..Len(Tail(q)) -> Range(Tail(q))] /\ Range(Tail(q)) \subseteq S /\ Len(Tail(q)) \in Nat
    BY <1>1, <1>2, Zenon
  <2>2. Tail(q) \in Seq(Range(Tail(q)))
    BY <1>3, <2>1, Zenon
  <2> QED
    BY <1>1, <2>1, <2>2, Zenon DEF S

LEMMA ScriptsStep ==
  ASSUME ScriptsInv, [AccountNext]_accountVars
  PROVE  ScriptsInv' /\ hasty' = hasty /\ DOMAIN screens' = DOMAIN screens /\ DOMAIN cookies' = DOMAIN cookies
<1>1. DOMAIN screens' = DOMAIN screens /\ DOMAIN cookies' = DOMAIN cookies /\ hasty' = hasty
  <2>1. ASSUME NEW w \in work, Call(w)
        PROVE  DOMAIN screens' = DOMAIN screens /\ DOMAIN cookies' = DOMAIN cookies /\ hasty' = hasty
    <3>1. DOMAIN screens' = DOMAIN screens
      BY <2>1 DEF Call, Steps, To, Over, Tells, LoadSnapshot, ListSshCredentials, AddKey, DeleteKey, CountKeys,
         UpdateProfile, ChangePassword, ReadSession, TouchSession, Redirect, LoginPost, Set, Clear, DropSession,
         Members, DropAll, DropIndex, ListSessions, RevokeOwner, Revoke, PasswordPost, WritePassword, KeysAdd,
         KeysDelete, RenamePost, RenameUserHandle, CreateTmp, Encode, MovePicture, StampPicture,
         ClearProfilePicture, CutOff
    <3>2. DOMAIN cookies' = DOMAIN cookies /\ hasty' = hasty
      BY <2>1 DEF Call, Web, Idling, LoadSnapshot, ListSshCredentials, AddKey, DeleteKey, CountKeys,
         UpdateProfile, ChangePassword, ReadSession, TouchSession, Redirect, LoginPost, Set, Clear, DropSession,
         Members, DropAll, DropIndex, ListSessions, RevokeOwner, Revoke, PasswordPost, WritePassword, KeysAdd,
         KeysDelete, RenamePost, RenameUserHandle, CreateTmp, Encode, MovePicture, StampPicture,
         ClearProfilePicture, CutOff
    <3> QED
      BY <3>1, <3>2
  <2> QED
    BY <2>1 DEF AccountNext, accountVars, PressKey, ReceiveMsg, Shows, Send, Web, Idling
<1>2. todo' = todo \/ \E a : todo[a] # <<>> /\ todo' = [todo EXCEPT ![a] = Tail(@)]
  <2>1. ASSUME NEW w \in work, Call(w) PROVE todo' = todo
    BY <2>1 DEF Call, Idling, LoadSnapshot, ListSshCredentials, AddKey, DeleteKey, CountKeys,
       UpdateProfile, ChangePassword, ReadSession, TouchSession, Redirect, LoginPost, Set, Clear, DropSession,
       Members, DropAll, DropIndex, ListSessions, RevokeOwner, Revoke, PasswordPost, WritePassword, KeysAdd,
       KeysDelete, RenamePost, RenameUserHandle, CreateTmp, Encode, MovePicture, StampPicture,
       ClearProfilePicture, CutOff
  <2> QED
    BY <2>1 DEF AccountNext, accountVars, PressKey, ReceiveMsg, Send, Idling
<1>3. ASSUME NEW a, todo[a] # <<>>, todo' = [todo EXCEPT ![a] = Tail(@)] PROVE ScriptsInv'
  <2>1. DOMAIN todo' = DOMAIN todo /\ \A c \in DOMAIN todo : todo'[c] = IF c = a THEN Tail(todo[c]) ELSE todo[c]
    BY <1>3
  <2> QED
    BY <1>1, <1>3, <2>1, TailOf DEF ScriptsInv
<1> QED
  BY <1>1, <1>2, <1>3 DEF ScriptsInv

LEMMA PatientStep ==
  ASSUME ScriptsInv, PatientInv, [AccountNext]_accountVars
  PROVE  PatientInv'
<1>1. hasty' = hasty /\ DOMAIN screens' = DOMAIN screens /\ DOMAIN cookies' = DOMAIN cookies
  BY ScriptsStep
<1>2. ASSUME Patient PROVE \E t \in DOMAIN screens' : Waits(t)'
  <2>1. PICK t \in DOMAIN screens : Waits(t)
    BY <1>2 DEF PatientInv
  <2>2. DOMAIN screens = {t} /\ DOMAIN cookies = {} /\ hasty = 0
    BY <1>2, <2>1 DEF Waits, Patient
  <2>3. ASSUME PressKey(t) PROVE Waits(t)'
    <3>1. todo[t] # <<>> => Len(todo[t]) > 0
      BY <2>2, TailOf DEF ScriptsInv
    <3> QED
      BY <2>1, <2>2, <2>3, <3>1, PressWaits
  <2>4. ASSUME UNCHANGED accountVars PROVE Waits(t)'
    <3> USE <2>1, <2>4 DEF accountVars
    <3>1. KeysInv' /\ (NeedsKey => creds # {})' /\ KeyList' = KeyList /\ UNCHANGED UserRow
      BY SameAccount DEF UserRow
    <3>2. OneThing(t, screens[t])'
      <4>1. OneThing(t, screens[t])
        BY DEF Waits
      <4>2. CASE work = {} /\ screens[t].inbox = <<>> /\ KnowsAll(screens[t])
                 /\ (screens[t].mode = "confirmKey" => Spare(screens[t].target))
        BY <3>1, <4>2 DEF OneThing, KnowsAll, Knows, Spare, NeedsKey
      <4>3. CASE \E w \in work : /\ screens[t].mode # "confirmKey" /\ screens[t].inbox = <<>>
                                 /\ work = {w} /\ IsWork(w) /\ w.by = t /\ WaitsForCall(screens[t], w)
        <5>1. PICK w \in work : /\ screens[t].mode # "confirmKey" /\ screens[t].inbox = <<>>
                                /\ work = {w} /\ IsWork(w) /\ w.by = t /\ WaitsForCall(screens[t], w)
          BY <4>3
        <5>2. WaitsForCall(screens[t], w)'
          BY <3>1, <5>1 DEF WaitsForCall, UserRow, KnowsAll, Knows, Spare, NeedsKey
        <5> QED
          BY <5>1, <5>2 DEF OneThing
      <4>4. CASE /\ screens[t].mode # "confirmKey" /\ work = {}
                 /\ \E m \in Range(screens[t].inbox) : screens[t].inbox = <<m>> /\ WaitsForMsg(screens[t], m)
        <5>1. PICK m \in Range(screens[t].inbox) : screens[t].inbox = <<m>> /\ WaitsForMsg(screens[t], m)
          BY <4>4
        <5>2. WaitsForMsg(screens[t], m)'
          BY <3>1, <5>1 DEF WaitsForMsg, KnowsAll, Knows
        <5> QED
          BY <4>4, <5>1, <5>2 DEF OneThing
      <4> QED
        BY <4>1, <4>2, <4>3, <4>4 DEF OneThing
    <3> QED
      BY <3>1, <3>2 DEF Waits
  <2> QED
    BY <1>1, <2>1, <2>2, <2>3, <2>4, ReceiveWaits, CallWaits DEF AccountNext
<1> QED
  BY <1>1, <1>2 DEF PatientInv, Patient

LEMMA PatientKept == PatientInv => PatientNeverLockedOut
BY DEF PatientInv, Patient, PatientNeverLockedOut, NeverLockedOut, Waits, NeedsKey

-----------------------------------------------------------------------------
\* What a terminal's page starts is a call of its own, and no request.
PageSteps == {"snapshot", "keys", "insertKey", "deleteKey", "count", "password"}
Started(t, w) == IsWork(w) /\ w.by = t /\ w.image = 0 /\ w.step \in PageSteps
LEMMA FreshStarted ==
  ASSUME NEW t, NEW op, NEW step \in PageSteps
  PROVE  /\ Started(t, FreshCall(t, op, step))
         /\ \A x : /\ Started(t, [FreshCall(t, op, step) EXCEPT !.key = x])
                   /\ Started(t, [FreshCall(t, op, step) EXCEPT !.id = x])
                   /\ Started(t, [FreshCall(t, op, step) EXCEPT !.require = x])
         /\ \A x, y, z : Started(t, [FreshCall(t, op, step) EXCEPT !.password = x, !.current = y, !.hash = z])
<1>1. PICK w0 : w0 = FreshCall(t, op, step) /\ IsWork(w0) /\ w0.by = t /\ w0.step = step /\ w0.image = 0
  BY FreshWork
<1>2. \A x : Started(t, [w0 EXCEPT !.key = x])
  BY <1>1 DEF Started, IsWork, WorkFields
<1>3. \A x : Started(t, [w0 EXCEPT !.id = x])
  BY <1>1 DEF Started, IsWork, WorkFields
<1>4. \A x : Started(t, [w0 EXCEPT !.require = x])
  BY <1>1 DEF Started, IsWork, WorkFields
<1>5. ASSUME NEW x, NEW y, NEW z
      PROVE  Started(t, [w0 EXCEPT !.password = x, !.current = y, !.hash = z])
  <2>1. PICK v : v = [w0 EXCEPT !.password = x, !.current = y, !.hash = z]
    OBVIOUS
  <2>2. IsWork(v) /\ v.by = t /\ v.step = step /\ v.image = 0
    BY <1>1, <2>1 DEF IsWork, WorkFields
  <2>3. Started(t, v)
    BY <2>2 DEF Started
  <2> QED
    BY <2>1, <2>3, Zenon
<1>6. Started(t, w0)
  BY <1>1 DEF Started
<1> QED
  BY <1>1, <1>2, <1>3, <1>4, <1>5, <1>6, Zenon

LEMMA MessageStarts ==
  ASSUME NEW t, NEW p, NEW m
  PROVE  \A w \in OnMessage(t, p, m).starts : Started(t, w)
<1>1. Started(t, LoadSelf(t)) /\ Started(t, ReloadKeys(t))
  BY FreshStarted DEF LoadSelf, ReloadKeys, PageSteps
<1>2. \A q, v : Still(q).starts = {} /\ Effect(q, v).starts = {v}
  BY DEF Still, Effect
<1>3. \/ \E q : OnMessage(t, p, m) = Still(q)
      \/ \E q : OnMessage(t, p, m) = Effect(q, LoadSelf(t))
      \/ \E q : OnMessage(t, p, m) = Effect(q, ReloadKeys(t))
  BY DEF OnMessage
<1> QED
  BY <1>1, <1>2, <1>3

LEMMA KeyStarts ==
  ASSUME NEW t, NEW p, NEW k
  PROVE  \A w \in OnKey(t, p, k).starts : Started(t, w)
<1> DEFINE Fine(e) == \A w \in e.starts : Started(t, w)
<1>1. \A q : Fine(Still(q))
  BY DEF Still
<1>2. \A q, v : Started(t, v) => Fine(Effect(q, v))
  BY DEF Effect
<1> HIDE DEF Fine
<1> USE <1>1, <1>2, FreshStarted DEF PageSteps
<1>3. Fine(SubmitProfile(t, p)) /\ Fine(SubmitPassword(t, p, k))
  BY DEF SubmitProfile, SubmitPassword
<1>4. Fine(ProfileTabKey(t, p, k))
  BY <1>3 DEF ProfileTabKey, ReloadKeys
<1>5. Fine(SettingsTabKey(t, p, k))
  BY <1>3 DEF SettingsTabKey
<1>6. Fine(AddKeyKey(t, p, k))
  BY DEF AddKeyKey
<1>7. Fine(PasswordKey(t, p, k))
  BY <1>3 DEF PasswordKey
<1>8. Fine(ConfirmKey(t, p, k))
  BY DEF ConfirmKey
<1>9. Fine(OnKey(t, p, k))
  BY <1>4, <1>5, <1>6, <1>7, <1>8 DEF OnKey
<1> QED
  BY <1>9 DEF Fine

-----------------------------------------------------------------------------
\* A call on its next step: the same request, which writes no file yet.
Same(v, w) == v.by = w.by /\ v.op = w.op
Onward(w) == \E v : /\ ServedOk(v) /\ Same(v, w) /\ v.step \notin {"head", "tail", "move"}
                    /\ work' = (work \ {w}) \cup {v}

LEMMA StepOn ==
  ASSUME NEW w, ServedOk(w), NEW step, To(w, step), step \notin {"read", "touch"} \cup Drawing
  PROVE  Onward(w)
<1>1. PICK v : v = [w EXCEPT !.step = step]
  OBVIOUS
<1>2. ServedOk(v) /\ Same(v, w) /\ v.step = step
  BY <1>1 DEF ServedOk, IsWork, WorkFields, Same
<1> QED
  BY <1>1, <1>2 DEF To, Steps, Onward, Drawing

\* What a request does first, once it is known who sent it.
LEMMA FirstStepOf ==
  ASSUME NEW w, w.op \in DOMAIN Handlers
  PROVE  /\ FirstStep(w) \notin {"read", "touch", "head", "tail", "move"}
         /\ FirstStep(w) = "create" => w.op = "picture"
BY DEF FirstStep, Handlers

LEMMA ReadOn ==
  ASSUME NEW w, ServedOk(w), ReadSession(w) \/ TouchSession(w)
  PROVE  Onward(w)
<1>1. w.by \in DOMAIN cookies /\ w.op \in DOMAIN Handlers
  BY DEF ServedOk, ReadSession, TouchSession
<1>2. CASE ReadSession(w)
  <2>1. PICK step : To(w, step) /\ step \in {"touch", FirstStep(w)}
    BY <1>2 DEF ReadSession
  <2>2. step \notin {"head", "tail", "move", "read"} /\ (step = "create" => w.op = "picture")
    BY <1>1, <2>1, FirstStepOf
  <2>3. PICK v : v = [w EXCEPT !.step = step]
    OBVIOUS
  <2>4. ServedOk(v) /\ Same(v, w) /\ v.step = step
    BY <1>1, <2>2, <2>3 DEF ServedOk, IsWork, WorkFields, Same, Drawing
  <2> QED
    BY <2>1, <2>2, <2>3, <2>4 DEF To, Steps, Onward
<1>3. CASE TouchSession(w)
  <2>1. PICK u : u = [w EXCEPT !.ident = TRUE]
    OBVIOUS
  <2>2. IsWork(u) /\ u.by = w.by /\ u.op = w.op /\ u.image = w.image
    BY <2>1 DEF ServedOk, IsWork, WorkFields
  <2>3. FirstStep(u) \notin {"head", "tail", "move", "read", "touch"} /\ (FirstStep(u) = "create" => u.op = "picture")
    BY <1>1, <2>2, FirstStepOf
  <2>4. PICK step : step = FirstStep(u)
    OBVIOUS
  <2>5. PICK v : v = [u EXCEPT !.step = step]
    OBVIOUS
  <2>6. ServedOk(v) /\ Same(v, w) /\ v.step = step
    BY <1>1, <2>2, <2>3, <2>4, <2>5 DEF ServedOk, IsWork, WorkFields, Same, Drawing
  <2>7. work' = (work \ {w}) \cup {v}
    BY <1>3, <2>1, <2>4, <2>5 DEF TouchSession, Steps
  <2> QED
    BY <2>3, <2>4, <2>6, <2>7 DEF Onward
<1> QED
  BY <1>2, <1>3

LEMMA WiderOn ==
  ASSUME NEW w, ServedOk(w),
         LoadSnapshot(w) \/ Clear(w) \/ Members(w) \/ ListSessions(w) \/ RevokeOwner(w)
  PROVE  work' = work \ {w} \/ Onward(w)
<1> DEFINE Fits(v) == ServedOk(v) /\ Same(v, w) /\ v.step \notin {"head", "tail", "move"}
<1>0. \A v : Steps(w, v) /\ Fits(v) => Onward(w)
  BY DEF Steps, Onward
<1> HIDE DEF Fits
<1>1. CASE LoadSnapshot(w)
  <2>1. PICK v : v = [w EXCEPT !.step = "keys", !.snap = user]
    OBVIOUS
  <2>2. Fits(v)
    BY <2>1 DEF Fits, ServedOk, IsWork, WorkFields, Same, Drawing
  <2> QED
    BY <1>0, <1>1, <2>1, <2>2 DEF LoadSnapshot
<1>2. CASE Clear(w)
  <2>1. PICK v : v = [w EXCEPT !.step = "drop", !.ident = Authentic(cookies[w.by])]
    OBVIOUS
  <2>2. Fits(v)
    BY <2>1 DEF Fits, ServedOk, IsWork, WorkFields, Same, Drawing
  <2> QED
    BY <1>0, <1>2, <2>1, <2>2 DEF Clear, Over
<1>3. CASE Members(w)
  <2>1. PICK step : step = IF w.op = "list" THEN "show" ELSE IF store.index = {} THEN "dropIndex" ELSE "dropAll"
    OBVIOUS
  <2>2. PICK v : v = [w EXCEPT !.seen = store.index, !.step = step]
    OBVIOUS
  <2>3. Fits(v)
    BY <2>1, <2>2 DEF Fits, ServedOk, IsWork, WorkFields, Same, Drawing
  <2> QED
    BY <1>0, <1>3, <2>1, <2>2, <2>3 DEF Members
<1>4. CASE ListSessions(w)
  <2>1. w.step = "show" /\ (work' = work \ {w} \/ \E sid : Steps(w, [w EXCEPT !.seen = @ \ {sid}]))
    BY <1>4 DEF ListSessions, Over
  <2>2. ASSUME NEW sid, Steps(w, [w EXCEPT !.seen = @ \ {sid}]) PROVE Onward(w)
    <3>1. PICK v : v = [w EXCEPT !.seen = @ \ {sid}]
      OBVIOUS
    <3>2. Fits(v)
      BY <2>1, <3>1 DEF Fits, ServedOk, IsWork, WorkFields, Same, Drawing
    <3> QED
      BY <1>0, <2>2, <3>1, <3>2
  <2> QED
    BY <2>1, <2>2
<1>5. CASE RevokeOwner(w)
  <2>1. PICK v : v = [w EXCEPT !.step = "revoke", !.ident = Authentic(w.sid)]
    OBVIOUS
  <2>2. Fits(v)
    BY <2>1 DEF Fits, ServedOk, IsWork, WorkFields, Same, Drawing
  <2> QED
    BY <1>0, <1>5, <2>1, <2>2 DEF RevokeOwner
<1> QED
  BY <1>1, <1>2, <1>3, <1>4, <1>5

LEMMA CallOn ==
  ASSUME NEW w, ServedOk(w), Call(w), ~(CreateTmp(w) \/ Encode(w) \/ MovePicture(w))
  PROVE  work' = work \ {w} \/ Onward(w)
<1>1. CASE ReadSession(w) \/ TouchSession(w)
  BY <1>1, ReadOn
<1>2. CASE LoadSnapshot(w) \/ Clear(w) \/ Members(w) \/ ListSessions(w) \/ RevokeOwner(w)
  BY <1>2, WiderOn
<1>3. CASE \/ ListSshCredentials(w) \/ AddKey(w) \/ DeleteKey(w) \/ UpdateProfile(w) \/ ChangePassword(w)
           \/ Redirect(w) \/ Set(w) \/ DropSession(w) \/ KeysAdd(w) \/ KeysDelete(w) \/ RenameUserHandle(w)
           \/ StampPicture(w) \/ CutOff(w)
  BY <1>3 DEF Over, Tells, ListSshCredentials, AddKey, DeleteKey, UpdateProfile, ChangePassword, Redirect, Set,
     DropSession, KeysAdd, KeysDelete, RenameUserHandle, StampPicture, CutOff
<1>4. CASE \/ CountKeys(w) \/ LoginPost(w) \/ DropAll(w) \/ DropIndex(w) \/ Revoke(w) \/ PasswordPost(w)
           \/ WritePassword(w) \/ RenamePost(w) \/ ClearProfilePicture(w)
  <2>1. \/ work' = work \ {w}
        \/ \E step : To(w, step) /\ step \notin {"read", "touch"} \cup Drawing
    <3>1. CASE CountKeys(w) \/ DropAll(w)
      <4>1. work' = work \ {w} \/ To(w, "update") \/ To(w, "dropIndex")
        BY <3>1 DEF CountKeys, DropAll, Tells
      <4> QED
        BY <4>1 DEF Drawing
    <3>4. CASE DropIndex(w)
      <4>1. To(w, "mint") \/ To(w, "clear")
        BY <3>4 DEF DropIndex
      <4> QED
        BY <4>1 DEF Drawing
    <3>2. CASE LoginPost(w) \/ Revoke(w) \/ PasswordPost(w)
      BY <3>2 DEF Over, Drawing, LoginPost, Revoke, PasswordPost
    <3>3. CASE WritePassword(w) \/ RenamePost(w) \/ ClearProfilePicture(w)
      BY <3>3 DEF Over, Drawing, WritePassword, RenamePost, ClearProfilePicture
    <3> QED
      BY <1>4, <3>1, <3>2, <3>3, <3>4
  <2> QED
    BY <2>1, StepOn
<1> QED
  BY <1>1, <1>2, <1>3, <1>4 DEF Call

-----------------------------------------------------------------------------
SameUsers == DOMAIN cookies' = DOMAIN cookies /\ DOMAIN screens' = DOMAIN screens

LEMMA RequestsOn ==
  ASSUME RequestsInv, SameUsers, todo' = todo, NEW w \in work, NEW v, ServedOk(v), Same(v, w),
         work' = work \ {w} \/ work' = (work \ {w}) \cup {v}
  PROVE  RequestsInv'
<1>1. \A x \in work' : ServedOk(x) /\ (x \in work \/ x = v)
  BY DEF RequestsInv
<1>2. (\A x \in work : ServedOk(x))'
  BY <1>1 DEF ServedOk, SameUsers
<1>3. \A x, y \in work' : x.by = y.by /\ y.by \in DOMAIN cookies => x = y
  BY DEF RequestsInv, Same
<1>4. \A b : Draws(b)' => Draws(b)
  BY DEF Draws, Same
<1> QED
  BY <1>2, <1>3, <1>4 DEF RequestsInv, SameUsers

\* What the three steps of an upload make of its call.
LEMMA DrawOn ==
  ASSUME NEW w, ServedOk(w), CreateTmp(w) \/ Encode(w) \/ MovePicture(w)
  PROVE  \E v : /\ ServedOk(v) /\ Same(v, w) /\ v.image = w.image
                /\ work' = work \ {w} \/ work' = (work \ {w}) \cup {v}
                /\ CreateTmp(w) => /\ v.step = "head" /\ work' = (work \ {w}) \cup {v}
                                   /\ v.inode = IF files.tmp # 0 THEN files.tmp ELSE Len(files.data) + 1
                /\ Encode(w) => /\ v.step = (IF w.step = "head" THEN "tail" ELSE "move") /\ v.inode = w.inode
                                /\ work' = (work \ {w}) \cup {v}
                /\ MovePicture(w) => v.step = "stamp"
<1>0. \A step : [w EXCEPT !.step = step] = [w EXCEPT !.inode = w.inode, !.step = step]
  BY DEF ServedOk, IsWork, WorkFields
<1>1. CASE CreateTmp(w)
  <2>1. PICK inode : inode = IF files.tmp # 0 THEN files.tmp ELSE Len(files.data) + 1
    OBVIOUS
  <2>2. PICK v : v = [w EXCEPT !.inode = inode, !.step = "head"]
    OBVIOUS
  <2>3. ServedOk(v) /\ Same(v, w) /\ v.step = "head" /\ v.inode = inode /\ v.image = w.image
    <3>1. w.step \in Drawing
      BY <1>1 DEF CreateTmp, Drawing
    <3> QED
      BY <2>2, <3>1 DEF ServedOk, IsWork, WorkFields, Same, Drawing
  <2>4. work' = (work \ {w}) \cup {v} /\ w.step = "create"
    BY <1>1, <2>1, <2>2 DEF CreateTmp, Steps
  <2>5. ~Encode(w) /\ ~MovePicture(w)
    BY <2>4 DEF Encode, MovePicture
  <2> QED
    BY <2>1, <2>3, <2>4, <2>5
<1>2. CASE Encode(w)
  <2>1. PICK step : step = IF w.step = "head" THEN "tail" ELSE "move"
    OBVIOUS
  <2>2. PICK v : v = [w EXCEPT !.inode = w.inode, !.step = step]
    OBVIOUS
  <2>3. ServedOk(v) /\ Same(v, w) /\ v.step = step /\ v.inode = w.inode /\ v.image = w.image
    <3>1. w.step \in Drawing
      BY <1>2 DEF Encode, Drawing
    <3> QED
      BY <2>1, <2>2, <3>1 DEF ServedOk, IsWork, WorkFields, Same, Drawing
  <2>4. work' = (work \ {w}) \cup {v} /\ w.step \in {"head", "tail"}
    <3>1. Steps(w, [w EXCEPT !.step = step]) /\ w.step \in {"head", "tail"}
      BY <1>2, <2>1 DEF Encode, To
    <3> QED
      BY <1>0, <2>2, <3>1 DEF Steps
  <2>5. ~CreateTmp(w) /\ ~MovePicture(w)
    BY <2>4 DEF CreateTmp, MovePicture
  <2> QED
    BY <2>1, <2>3, <2>4, <2>5
<1>3. CASE MovePicture(w)
  <2>1. PICK v : v = [w EXCEPT !.inode = w.inode, !.step = "stamp"]
    OBVIOUS
  <2>2. ServedOk(v) /\ Same(v, w) /\ v.step = "stamp" /\ v.image = w.image
    <3>1. w.step \in Drawing
      BY <1>3 DEF MovePicture, Drawing
    <3> QED
      BY <2>1, <3>1 DEF ServedOk, IsWork, WorkFields, Same, Drawing
  <2>3. (work' = work \ {w} \/ work' = (work \ {w}) \cup {v}) /\ w.step = "move"
    <3>1. (work' = work \ {w} \/ Steps(w, [w EXCEPT !.step = "stamp"])) /\ w.step = "move"
      BY <1>3 DEF MovePicture, To, Over
    <3> QED
      BY <1>0, <2>1, <3>1 DEF Steps
  <2>4. ~CreateTmp(w) /\ ~Encode(w)
    BY <2>3 DEF CreateTmp, Encode
  <2> QED
    BY <2>2, <2>3, <2>4
<1> QED
  BY <1>1, <1>2, <1>3

\* A page's handler: nothing it starts is a request.
LEMMA RequestsPage ==
  ASSUME RequestsInv, ScriptsInv, SameUsers, NEW t \in DOMAIN screens, NEW S, \A w \in S : Started(t, w),
         work' = work \cup S,
         todo' = todo \/ (todo[t] # <<>> /\ todo' = [todo EXCEPT ![t] = Tail(@)])
  PROVE  RequestsInv'
<1>1. t \notin DOMAIN cookies
  BY DEF RequestsInv
<1>2. DOMAIN todo' = DOMAIN todo /\ \A b \in DOMAIN cookies : todo'[b] = todo[b]
  BY <1>1 DEF RequestsInv
<1>3. \A w \in S : ServedOk(w) /\ w.by = t
  BY <1>1 DEF Started, ServedOk, PageSteps, Drawing
<1>4. (\A w \in work : ServedOk(w))'
  BY <1>3 DEF RequestsInv, ServedOk, SameUsers
<1>5. \A x, y \in work' : x.by = y.by /\ y.by \in DOMAIN cookies => x = y
  BY <1>1, <1>3 DEF RequestsInv
<1>6. \A b \in DOMAIN cookies : Draws(b)' => Draws(b)
  BY <1>1, <1>2, <1>3 DEF Draws, Uploads
<1>7. \A b \in DOMAIN cookies : Asks(todo'[b])
  BY <1>2 DEF RequestsInv
<1> QED
  BY <1>1, <1>2, <1>4, <1>5, <1>6, <1>7 DEF RequestsInv, SameUsers

LEMMA SendOn ==
  ASSUME RequestsInv, SameUsers, NEW b \in DOMAIN cookies, Send(b)
  PROVE  RequestsInv' /\ \E v : work' = work \cup {v} /\ v.step = "read"
<1> DEFINE q == todo[b]
           r == Head(todo[b])
<1>0. todo' = [todo EXCEPT ![b] = Tail(@)] /\ q # <<>> /\ \A w \in work : w.by # b
  BY DEF Send
<1>1. PICK sid : \E id :
        work' = work \cup {[FreshCall(b, r.do, "read") EXCEPT !.sid = sid, !.id = id, !.password = r.next,
                              !.current = r.current, !.key = r.key, !.handle = r.handle, !.image = r.image]}
  BY DEF Send
<1>2. PICK id :
        work' = work \cup {[FreshCall(b, r.do, "read") EXCEPT !.sid = sid, !.id = id, !.password = r.next,
                              !.current = r.current, !.key = r.key, !.handle = r.handle, !.image = r.image]}
  BY <1>1
<1>3. r \in Range(q) /\ Tail(q) \in Seq(Range(Tail(q))) /\ Range(Tail(q)) \subseteq Range(q)
  BY <1>0, TailOf DEF RequestsInv, Asks
<1>4. r.do \in DOMAIN Handlers /\ r.image \in Nat /\ (r.do = "picture" => r.image # 0)
  BY <1>3 DEF RequestsInv, Asks
<1>5. PICK w0 : w0 = FreshCall(b, r.do, "read") /\ IsWork(w0) /\ w0.by = b /\ w0.op = r.do /\ w0.step = "read"
  BY FreshWork
<1>6. PICK v : v = [w0 EXCEPT !.sid = sid, !.id = id, !.password = r.next,
                      !.current = r.current, !.key = r.key, !.handle = r.handle, !.image = r.image]
  OBVIOUS
<1>7. work' = work \cup {v}
  BY <1>2, <1>5, <1>6
<1> DEFINE do == r.do
           image == r.image
<1>8. IsWork(v) /\ v.by = b /\ v.op = do /\ v.step = "read" /\ v.image = image
  BY <1>5, <1>6 DEF IsWork, WorkFields
<1>9. ServedOk(v)
  BY <1>4, <1>8 DEF ServedOk, Drawing
<1>10. (\A w \in work : ServedOk(w))'
  BY <1>7, <1>9 DEF RequestsInv, ServedOk, SameUsers
<1>11. \A x, y \in work' : x.by = y.by /\ y.by \in DOMAIN cookies => x = y
  BY <1>0, <1>7, <1>8 DEF RequestsInv
<1>12. DOMAIN todo' = DOMAIN todo /\ \A c \in DOMAIN cookies : todo'[c] = IF c = b THEN Tail(q) ELSE todo[c]
  BY <1>0 DEF RequestsInv
<1>13. \A c \in DOMAIN cookies : Asks(todo'[c])
  BY <1>3, <1>12 DEF RequestsInv, Asks
<1>14. \A t, c : Uploads(t, c) <=> \E x \in Range(t[c]) : x.do = "picture"
  BY DEF Uploads, Range
<1>15. \A c \in DOMAIN cookies : Draws(c)' => Draws(c)
  <2> SUFFICES ASSUME NEW c \in DOMAIN cookies, Draws(c)' PROVE Draws(c)
    OBVIOUS
  <2>1. CASE \E x \in Range(todo'[c]) : x.do = "picture"
    <3>1. Range(todo'[c]) \subseteq Range(todo[c])
      BY <1>3, <1>12
    <3> QED
      BY <1>14, <2>1, <3>1 DEF Draws
  <2>2. CASE \E w \in work : w.by = c /\ w.op = "picture"
    BY <2>2 DEF Draws
  <2>3. CASE v.by = c /\ v.op = "picture"
    BY <1>3, <1>8, <1>14, <2>3 DEF Draws
  <2> QED
    BY <1>7, <1>14, <2>1, <2>2, <2>3 DEF Draws
<1> QED
  BY <1>7, <1>8, <1>10, <1>11, <1>12, <1>13, <1>15 DEF RequestsInv, SameUsers

-----------------------------------------------------------------------------
LEMMA OneDraws ==
  ASSUME RequestsInv, NEW v \in work, NEW w \in work, v.step \in Drawing, w.step \in Drawing
  PROVE  v = w
<1>1. v.by \in DOMAIN cookies /\ v.op = "picture" /\ w.by \in DOMAIN cookies /\ w.op = "picture"
  BY DEF RequestsInv, ServedOk
<1>2. Draws(v.by) /\ Draws(w.by)
  BY <1>1 DEF Draws
<1> QED
  BY <1>1, <1>2 DEF RequestsInv

\* A step that writes no file.
LEMMA FilesQuiet ==
  ASSUME FilesInv, files' = files \/ files' = [files EXCEPT !.final = 0],
         \A w \in work' : w \in work \/ w.step \notin {"head", "tail", "move"}
  PROVE  FilesInv'
<1>1. /\ files'.tmp = files.tmp /\ files'.data = files.data /\ files'.final \in {0, files.final}
      /\ files' = [tmp |-> files'.tmp, final |-> files'.final, data |-> files'.data]
  BY DEF FilesInv
<1>2. \A w \in work' : Drawn(w)'
  BY <1>1 DEF FilesInv, Drawn
<1>3. PictureWhole'
  BY <1>1 DEF FilesInv, PictureWhole
<1> QED
  BY <1>1, <1>2, <1>3 DEF FilesInv, Inodes

LEMMA FilesCreate ==
  ASSUME RequestsInv, FilesInv, NEW w \in work, CreateTmp(w), NEW v, v.step = "head",
         v.inode = IF files.tmp # 0 THEN files.tmp ELSE Len(files.data) + 1,
         work' = (work \ {w}) \cup {v}
  PROVE  FilesInv'
<1> DEFINE D == files.data
           inode == IF files.tmp # 0 THEN files.tmp ELSE Len(files.data) + 1
           E == IF inode \in DOMAIN D THEN [D EXCEPT ![inode] = <<0, 0>>] ELSE Append(D, <<0, 0>>)
<1>0. D \in Seq(Nat \X Nat) /\ Len(D) \in Nat /\ DOMAIN D = 1..Len(D) /\ Inodes = 1..Len(D)
      /\ files.tmp \in {0} \cup 1..Len(D) /\ files.final \in {0} \cup 1..Len(D) /\ <<0, 0>> \in Nat \X Nat
  BY LenProperties DEF FilesInv, Inodes
<1>1. files' = [files EXCEPT !.tmp = inode, !.data = E]
  BY DEF CreateTmp
<1>2. inode \in 1..(Len(D) + 1) /\ (inode \in DOMAIN D <=> files.tmp # 0) /\ inode # 0
  BY <1>0
<1>3. E \in Seq(Nat \X Nat) /\ inode \in 1..Len(E) /\ Len(E) >= Len(D) /\ Len(E) \in Nat
      /\ \A i \in 1..Len(D) : i # inode => E[i] = D[i]
  <2>1. CASE inode \in DOMAIN D
    <3>1. E = [D EXCEPT ![inode] = <<0, 0>>]
      BY <2>1
    <3>2. [D EXCEPT ![inode] = <<0, 0>>] \in Seq(Nat \X Nat) /\ Len([D EXCEPT ![inode] = <<0, 0>>]) = Len(D)
      BY <1>0, <2>1, ExceptSeq
    <3> HIDE DEF E, inode, D
    <3> QED
      BY <1>0, <2>1, <3>1, <3>2
  <2>2. CASE inode \notin DOMAIN D
    <3>1. E = Append(D, <<0, 0>>) /\ inode = Len(D) + 1
      BY <1>0, <1>2, <2>2
    <3>2. Append(D, <<0, 0>>) \in Seq(Nat \X Nat) /\ Len(Append(D, <<0, 0>>)) = Len(D) + 1
          /\ \A i \in 1..Len(D) : Append(D, <<0, 0>>)[i] = D[i]
      BY <1>0, AppendProperties
    <3> HIDE DEF E, inode, D
    <3> QED
      BY <1>0, <3>1, <3>2
  <2> QED
    BY <2>1, <2>2
<1>4. v.inode = inode
  OBVIOUS
<1> HIDE DEF inode, E
<1>5. files'.tmp = inode /\ files'.data = E /\ files'.final = files.final
      /\ files' = [tmp |-> files'.tmp, final |-> files'.final, data |-> files'.data]
  BY <1>1 DEF FilesInv
<1>6. inode # files.final
  BY <1>0, <1>2 DEF FilesInv, inode
<1>7. w.step \in Drawing
  BY DEF CreateTmp, Drawing
<1>8. \A x \in work' : Drawn(x)'
  <2> SUFFICES ASSUME NEW x \in work' PROVE Drawn(x)'
    OBVIOUS
  <2>1. CASE x = v
    BY <1>2, <1>4, <1>5, <2>1 DEF Drawn
  <2>2. CASE x \in work /\ x # w
    <3>1. x.step \notin Drawing
      BY <1>7, <2>2, OneDraws
    <3> QED
      BY <3>1 DEF Drawn, Drawing
  <2> QED
    BY <2>1, <2>2
<1>9. PictureWhole'
  <2>1. files.final # 0 => E[files.final] = D[files.final]
    BY <1>0, <1>3, <1>6
  <2> QED
    BY <1>5, <2>1 DEF PictureWhole, FilesInv
<1>10. Inodes' = 1..Len(E)
  BY <1>5 DEF Inodes
<1>11. files'.tmp \in {0} \cup 1..Len(E) /\ files'.final \in {0} \cup 1..Len(E) /\ files'.data \in Seq(Nat \X Nat)
  BY <1>0, <1>3, <1>5
<1> QED
  BY <1>5, <1>6, <1>8, <1>9, <1>10, <1>11 DEF FilesInv

LEMMA FilesEncode ==
  ASSUME RequestsInv, FilesInv, NEW w \in work, Encode(w), NEW v,
         v.step = (IF w.step = "head" THEN "tail" ELSE "move"), v.inode = w.inode, v.image = w.image,
         work' = (work \ {w}) \cup {v}
  PROVE  FilesInv'
<1> DEFINE D == files.data
           i == w.inode
           half == IF w.step = "head" THEN 1 ELSE 2
           E == [D EXCEPT ![i] = [@ EXCEPT ![half] = w.image]]
<1>0. D \in Seq(Nat \X Nat) /\ Len(D) \in Nat /\ DOMAIN D = 1..Len(D) /\ Inodes = 1..Len(D)
      /\ files.tmp \in {0} \cup 1..Len(D) /\ files.final \in {0} \cup 1..Len(D)
  BY LenProperties DEF FilesInv, Inodes
<1>1. files' = [files EXCEPT !.data = E] /\ w.step \in {"head", "tail"} /\ w.step \in Drawing
  BY DEF Encode, FilesInv, Drawing
<1>2. i = files.tmp /\ i \in 1..Len(D) /\ i # files.final /\ (w.step = "tail" => D[i][1] = w.image)
  BY <1>0, <1>1 DEF FilesInv, Drawn
<1>3. w.image \in Nat
  BY DEF RequestsInv, ServedOk
<1>4. PICK a \in Nat, b \in Nat : D[i] = <<a, b>>
  <2>1. D[i] \in Nat \X Nat
    BY <1>0, <1>2, ElementOfSeq
  <2> HIDE DEF D, i
  <2> QED
    BY <2>1
<1>5. [D[i] EXCEPT ![half] = w.image] = IF w.step = "head" THEN <<w.image, b>> ELSE <<a, w.image>>
  BY <1>4
<1> DEFINE d == IF w.step = "head" THEN <<w.image, b>> ELSE <<a, w.image>>
<1>6. d \in Nat \X Nat /\ d[1] = w.image /\ (w.step = "tail" => d = <<w.image, w.image>>)
  BY <1>1, <1>2, <1>3, <1>4
<1>7. E = [D EXCEPT ![i] = d]
  BY <1>0, <1>2, <1>5
<1> HIDE DEF d, E
<1>8. E \in Seq(Nat \X Nat) /\ Len(E) = Len(D) /\ E[i] = d /\ \A j \in 1..Len(D) : j # i => E[j] = D[j]
  <2>1. [D EXCEPT ![i] = d] \in Seq(Nat \X Nat) /\ Len([D EXCEPT ![i] = d]) = Len(D)
    BY <1>0, <1>2, <1>6, ExceptSeq
  <2> HIDE DEF D, i
  <2> QED
    BY <1>0, <1>2, <1>7, <2>1
<1>9. files'.tmp = files.tmp /\ files'.data = E /\ files'.final = files.final
      /\ files' = [tmp |-> files'.tmp, final |-> files'.final, data |-> files'.data]
  BY <1>1 DEF FilesInv
<1>10. \A x \in work' : Drawn(x)'
  <2> SUFFICES ASSUME NEW x \in work' PROVE Drawn(x)'
    OBVIOUS
  <2>1. CASE x = v
    <3>1. files'.tmp # 0 /\ v.inode = files'.tmp /\ files'.data[v.inode] = d
      BY <1>0, <1>2, <1>8, <1>9
    <3>2. v.step = "tail" => d[1] = v.image
      BY <1>1, <1>6
    <3>3. v.step = "move" => d = <<v.image, v.image>>
      BY <1>1, <1>6
    <3> QED
      BY <2>1, <3>1, <3>2, <3>3 DEF Drawn
  <2>2. CASE x \in work /\ x # w
    <3>1. x.step \notin Drawing
      BY <1>1, <2>2, OneDraws
    <3> QED
      BY <3>1 DEF Drawn, Drawing
  <2> QED
    BY <2>1, <2>2
<1>11. PictureWhole'
  <2>1. files.final # 0 => E[files.final] = D[files.final]
    BY <1>0, <1>2, <1>8
  <2> QED
    BY <1>9, <2>1 DEF PictureWhole, FilesInv
<1> QED
  BY <1>0, <1>8, <1>9, <1>10, <1>11 DEF FilesInv, Inodes

LEMMA FilesMove ==
  ASSUME RequestsInv, FilesInv, NEW w \in work, MovePicture(w), NEW v, v.step = "stamp",
         work' = work \ {w} \/ work' = (work \ {w}) \cup {v}
  PROVE  FilesInv'
<1>1. w.step = "move" /\ w.step \in Drawing
  BY DEF MovePicture, Drawing
<1>2. files.tmp # 0 /\ w.inode = files.tmp /\ files.data[files.tmp] = <<w.image, w.image>>
  BY <1>1 DEF FilesInv, Drawn
<1>3. w.image # 0
  BY <1>1 DEF RequestsInv, ServedOk
<1>4. files' = [files EXCEPT !.final = files.tmp, !.tmp = 0]
  BY <1>2 DEF MovePicture
<1>5. /\ files'.tmp = 0 /\ files'.data = files.data /\ files'.final = files.tmp
      /\ files' = [tmp |-> files'.tmp, final |-> files'.final, data |-> files'.data]
  BY <1>4 DEF FilesInv
<1>6. \A x \in work' : Drawn(x)'
  <2>1. \A x \in work' : x.step \notin {"head", "tail", "move"}
    BY <1>1, OneDraws DEF Drawing
  <2> QED
    BY <2>1 DEF Drawn
<1>7. PictureWhole'
  BY <1>2, <1>3, <1>5 DEF PictureWhole
<1> QED
  BY <1>2, <1>5, <1>6, <1>7 DEF FilesInv, Inodes

LEMMA PictureStep ==
  ASSUME ScriptsInv, PictureInv, [AccountNext]_accountVars
  PROVE  PictureInv'
<1>0. SameUsers /\ ScriptsInv'
  BY ScriptsStep DEF SameUsers
<1>1. ASSUME NEW w \in work, Call(w) PROVE PictureInv'
  <2>0. ServedOk(w) /\ todo' = todo
    BY <1>1 DEF PictureInv, RequestsInv, Call, Idling, LoadSnapshot, ListSshCredentials, AddKey, DeleteKey, CountKeys,
       UpdateProfile, ChangePassword, ReadSession, TouchSession, Redirect, LoginPost, Set, Clear, DropSession,
       Members, DropAll, DropIndex, ListSessions, RevokeOwner, Revoke, PasswordPost, WritePassword, KeysAdd,
       KeysDelete, RenamePost, RenameUserHandle, CreateTmp, Encode, MovePicture, StampPicture,
       ClearProfilePicture, CutOff
  <2>1. CASE CreateTmp(w) \/ Encode(w) \/ MovePicture(w)
    <3>1. PICK v :
            /\ ServedOk(v) /\ Same(v, w) /\ v.image = w.image
            /\ work' = work \ {w} \/ work' = (work \ {w}) \cup {v}
            /\ CreateTmp(w) => /\ v.step = "head" /\ work' = (work \ {w}) \cup {v}
                               /\ v.inode = IF files.tmp # 0 THEN files.tmp ELSE Len(files.data) + 1
            /\ Encode(w) => /\ v.step = (IF w.step = "head" THEN "tail" ELSE "move") /\ v.inode = w.inode
                            /\ work' = (work \ {w}) \cup {v}
            /\ MovePicture(w) => v.step = "stamp"
      BY <2>0, <2>1, DrawOn
    <3>2. RequestsInv'
      BY <1>0, <2>0, <3>1, RequestsOn DEF PictureInv
    <3>3. CASE CreateTmp(w)
      BY <3>1, <3>2, <3>3, FilesCreate DEF PictureInv
    <3>4. CASE Encode(w)
      BY <3>1, <3>2, <3>4, FilesEncode DEF PictureInv
    <3>5. CASE MovePicture(w)
      BY <3>1, <3>2, <3>5, FilesMove DEF PictureInv
    <3> QED
      BY <2>1, <3>3, <3>4, <3>5
  <2>2. CASE ~(CreateTmp(w) \/ Encode(w) \/ MovePicture(w))
    <3>1. files' = files \/ files' = [files EXCEPT !.final = 0]
      BY <1>1, <2>2 DEF Call, LoadSnapshot, ListSshCredentials, AddKey, DeleteKey, CountKeys,
         UpdateProfile, ChangePassword, ReadSession, TouchSession, Redirect, LoginPost, Set, Clear, DropSession,
         Members, DropAll, DropIndex, ListSessions, RevokeOwner, Revoke, PasswordPost, WritePassword, KeysAdd,
         KeysDelete, RenamePost, RenameUserHandle, StampPicture, ClearProfilePicture, CutOff
    <3>2. work' = work \ {w} \/ Onward(w)
      BY <1>1, <2>0, <2>2, CallOn
    <3>3. CASE work' = work \ {w}
      <4>1. ServedOk(w) /\ Same(w, w)
        BY <2>0 DEF Same
      <4>2. RequestsInv'
        BY <1>0, <2>0, <3>3, <4>1, RequestsOn DEF PictureInv
      <4>3. FilesInv'
        BY <3>1, <3>3, FilesQuiet DEF PictureInv
      <4> QED
        BY <4>2, <4>3 DEF PictureInv
    <3>4. CASE Onward(w)
      <4>1. PICK v : /\ ServedOk(v) /\ Same(v, w) /\ v.step \notin {"head", "tail", "move"}
                     /\ work' = (work \ {w}) \cup {v}
        BY <3>4 DEF Onward
      <4>2. RequestsInv'
        BY <1>0, <2>0, <4>1, RequestsOn DEF PictureInv
      <4>3. FilesInv'
        BY <3>1, <4>1, FilesQuiet DEF PictureInv
      <4> QED
        BY <4>2, <4>3 DEF PictureInv
    <3> QED
      BY <3>2, <3>3, <3>4
  <2> QED
    BY <2>1, <2>2
<1>2. ASSUME NEW t \in DOMAIN screens, PressKey(t) \/ ReceiveMsg(t) PROVE PictureInv'
  <2>1. \E S : (\A w \in S : Started(t, w)) /\ work' = work \cup S
    BY <1>2, KeyStarts, MessageStarts DEF PressKey, ReceiveMsg, Shows
  <2>2. PICK S : (\A w \in S : Started(t, w)) /\ work' = work \cup S
    BY <2>1
  <2>3. todo' = todo \/ (todo[t] # <<>> /\ todo' = [todo EXCEPT ![t] = Tail(@)])
    BY <1>2 DEF PressKey, ReceiveMsg, Idling
  <2>4. RequestsInv'
    BY <1>0, <2>2, <2>3, RequestsPage DEF PictureInv
  <2>5. files' = files
    BY <1>2 DEF PressKey, ReceiveMsg
  <2>6. FilesInv'
    BY <2>2, <2>5, FilesQuiet DEF PictureInv, Started, PageSteps
  <2> QED
    BY <2>4, <2>6 DEF PictureInv
<1>3. ASSUME NEW b \in DOMAIN cookies, Send(b) PROVE PictureInv'
  <2>1. RequestsInv' /\ \E v : work' = work \cup {v} /\ v.step = "read"
    BY <1>0, <1>3, SendOn DEF PictureInv
  <2>2. files' = files
    BY <1>3 DEF Send
  <2> QED
    BY <2>1, <2>2, FilesQuiet DEF PictureInv
<1>4. ASSUME UNCHANGED accountVars PROVE PictureInv'
  <2>1. RequestsInv'
    BY <1>4 DEF accountVars, PictureInv, RequestsInv, ServedOk, Draws
  <2>2. FilesInv'
    BY <1>4, FilesQuiet DEF accountVars, PictureInv
  <2> QED
    BY <2>1, <2>2 DEF PictureInv
<1> QED
  BY <1>1, <1>2, <1>3, <1>4 DEF AccountNext

-----------------------------------------------------------------------------
LEMMA AccountStarts ==
  ASSUME AccountInit
  PROVE  ScriptsInv /\ PatientInv /\ (OneUploader => PictureInv)
<1>1. PICK s \in AccountScripts :
        /\ user = s.user /\ creds = s.creds /\ nextCred = Cardinality(s.creds) + 1
        /\ files = [tmp |-> 0, final |-> 0, data |-> <<>>]
        /\ screens = [t \in s.terminals |-> NewScreen(t)]
        /\ cookies = [b \in DOMAIN s.todo \ s.terminals |-> 0]
        /\ work = {[nr |-> 0, by |-> t, op |-> "loaded", step |-> "snapshot", ident |-> FALSE, seen |-> {},
                    password |-> NoPassword, current |-> NoPassword, hash |-> NoPassword, id |-> 0, sid |-> 0, key |-> "",
                    handle |-> "", image |-> 0, inode |-> 0, require |-> FALSE, snap |-> user] : t \in s.terminals}
        /\ todo = s.todo
  BY DEF AccountInit
<1>2. /\ DOMAIN s.user = {"handle", "password", "requireSsh", "picture"}
      /\ IsFiniteSet(s.creds)
      /\ \A k \in s.creds : k.id \in 1..Cardinality(s.creds) /\ \A j \in s.creds : j.id = k.id => j = k
      /\ (s.user.requireSsh \/ s.user.password = NoPassword) => s.creds # {}
      /\ IsFiniteSet(s.terminals) /\ s.terminals \subseteq DOMAIN s.todo
      /\ \A a \in DOMAIN s.todo : s.todo[a] \in Seq(Range(s.todo[a]))
      /\ \A b \in Browsers(s) : \A r \in Range(s.todo[b]) :
           r.do \in DOMAIN Handlers /\ r.image \in Nat /\ (r.do = "picture" => r.image # 0)
  BY AccountAssumption
<1>3. DOMAIN screens = s.terminals /\ DOMAIN cookies = Browsers(s)
  BY <1>1 DEF Browsers
<1>4. ScriptsInv
  BY <1>1, <1>2, <1>3 DEF ScriptsInv
<1>5. \A w \in work : /\ IsWork(w) /\ w.by \in s.terminals /\ w.op = "loaded" /\ w.step = "snapshot" /\ w.image = 0
  <2> SUFFICES ASSUME NEW w \in work
               PROVE  IsWork(w) /\ w.by \in s.terminals /\ w.op = "loaded" /\ w.step = "snapshot" /\ w.image = 0
    OBVIOUS
  <2>1. PICK t \in s.terminals :
          w = [nr |-> 0, by |-> t, op |-> "loaded", step |-> "snapshot", ident |-> FALSE, seen |-> {},
               password |-> NoPassword, current |-> NoPassword, hash |-> NoPassword, id |-> 0, sid |-> 0, key |-> "",
               handle |-> "", image |-> 0, inode |-> 0, require |-> FALSE, snap |-> user]
    BY <1>1
  <2> QED
    BY <2>1 DEF IsWork, WorkFields
<1>6. PatientInv
  <2>1. ASSUME NEW t, s.terminals = {t} PROVE Waits(t)
    <3>1. Cardinality(creds) \in Nat /\ IsFiniteSet(creds)
      BY <1>1, <1>2, FS_CardinalityType
    <3>2. KeysInv /\ (NeedsKey => creds # {})
      <4>1. nextCred \in Nat /\ \A k \in creds : k.id \in Nat /\ k.id < nextCred
        <5>1. creds = s.creds /\ nextCred = Cardinality(creds) + 1
          BY <1>1
        <5>2. \A k \in creds : k.id \in 1..Cardinality(creds)
          BY <1>2, <5>1
        <5> QED
          BY <3>1, <5>1, <5>2
      <4>2. {"password", "requireSsh"} \subseteq DOMAIN user /\ (NeedsKey => creds # {})
        BY <1>1, <1>2 DEF NeedsKey
      <4> QED
        BY <1>1, <1>2, <3>1, <4>1, <4>2 DEF KeysInv
    <3>3. screens[t] = NewScreen(t) /\ DOMAIN screens = {t}
      BY <1>1, <2>1
    <3>4. IsPage(screens[t]) /\ screens[t].mode = "tab" /\ screens[t].inbox = <<>>
      BY <3>3 DEF NewScreen, IsPage, PageFields, Modes
    <3>5. \E w \in work : work = {w}
      <4> DEFINE load(x) ==
            [nr |-> 0, by |-> x, op |-> "loaded", step |-> "snapshot", ident |-> FALSE, seen |-> {},
             password |-> NoPassword, current |-> NoPassword, hash |-> NoPassword, id |-> 0, sid |-> 0, key |-> "",
             handle |-> "", image |-> 0, inode |-> 0, require |-> FALSE, snap |-> user]
      <4>1. work = {load(x) : x \in {t}}
        BY <1>1, <2>1
      <4> HIDE DEF load
      <4> QED
        BY <4>1
    <3>6. OneThing(t, screens[t])
      BY <1>5, <2>1, <3>4, <3>5 DEF OneThing, WaitsForCall, LoadSteps, WriteSteps
    <3> QED
      BY <3>2, <3>3, <3>4, <3>6 DEF Waits
  <2>2. Patient => \E t : s.terminals = {t}
    BY <1>2, <1>3, FS_Singleton DEF Patient
  <2> QED
    BY <1>2, <1>3, <2>1, <2>2 DEF PatientInv
<1>7. ASSUME OneUploader PROVE PictureInv
  <2>1. DOMAIN cookies \cap DOMAIN screens = {} /\ DOMAIN cookies \subseteq DOMAIN todo
    BY <1>1, <1>3 DEF Browsers
  <2>2. \A b \in DOMAIN cookies : Asks(todo[b])
    BY <1>1, <1>2, <1>3, <2>1 DEF Asks
  <2>3. \A w \in work : ServedOk(w) /\ w.by \notin DOMAIN cookies
    BY <1>3, <1>5, <2>1 DEF ServedOk, Drawing
  <2>4. \A b, c \in DOMAIN cookies : Draws(b) /\ Draws(c) => b = c
    <3>1. \A b \in DOMAIN cookies : Draws(b) => Uploads(s.todo, b) /\ b \in Browsers(s)
      BY <1>1, <1>3, <2>3 DEF Draws
    <3>2. \A b, c \in Browsers(s) : Uploads(s.todo, b) /\ Uploads(s.todo, c) => b = c
      BY <1>7 DEF OneUploader
    <3> QED
      BY <3>1, <3>2
  <2>5. RequestsInv
    BY <2>1, <2>2, <2>3, <2>4 DEF RequestsInv
  <2>6. \A w \in work : Drawn(w)
    BY <1>5 DEF Drawn
  <2>7. FilesInv
    BY <1>1, <2>6, EmptySeq DEF FilesInv, PictureWhole, Inodes
  <2> QED
    BY <2>5, <2>7 DEF PictureInv
<1> QED
  BY <1>4, <1>6, <1>7

(* What the guards of the page and of the picture's writer are for: a user    *)
(* who waits for each answer keeps a way to log in (requestKeyDelete,         *)
(* handleRequireSshToggle, UpdateProfile), and the picture in place is one    *)
(* whole image whenever the writer is cut off (SaveProfilePicture), as long   *)
(* as one browser at a time uploads.                                          *)
THEOREM AccountKeepsWhole == ASSUME OneUploader PROVE AccountSpec => []NothingLost
<1> DEFINE Kept == ScriptsInv /\ PatientInv /\ PictureInv
<1>1. AccountInit => Kept
  BY AccountStarts
<1>2. Kept /\ [AccountNext]_accountVars => Kept'
  BY ScriptsStep, PatientStep, PictureStep
<1>3. Kept => NothingLost
  BY PatientKept DEF NothingLost, PictureInv, FilesInv
<1> QED
  BY <1>1, <1>2, <1>3, PTL DEF AccountSpec
=============================================================================
