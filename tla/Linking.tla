------------------------------- MODULE Linking -------------------------------
(* Linking a Google or Microsoft account: the device-code flow kept in Redis  *)
(* (auth/devicecode/devicecode.go), the screen that polls it                  *)
(* (tui/screens/profile_oauth.go), the browser's callback                     *)
(* (web/handlers_oauth.go), unlinking from both, and the refresher of stored  *)
(* tokens, one per replica (auth/oauthrefresh/refresher.go). The provider is  *)
(* outside: it answers a poll as it likes once the user has acted.            *)
EXTENDS Integers, Sequences, FiniteSets, SequencesExt

CONSTANTS
  LinkScripts,      \* bound: [of: terminal -> its user, does: terminal -> its keys and requests]
  Replicas,         \* processes that run a refresher
  BeginRateLimit,   \* beginRateLimit of a window
  ReauthAfter,      \* refresher.Config.ReauthAfter
  LinkFaults,       \* bound: calls to the provider that fail
  Expiries,         \* bound: access tokens that come near their expiry
  Grants            \* bound: grants the provider makes

ASSUME LinkingAssumption ==
  /\ BeginRateLimit \in Nat /\ ReauthAfter \in Nat \ {0}
  /\ LinkFaults \in Nat /\ Expiries \in Nat /\ Grants \in Nat

VARIABLES
  flowKeys,    \* Redis: flow id -> its flowState [user, provider, polled]
  userKeys,    \* Redis: <<user, provider>> -> flow id
  bucket,      \* Redis: user -> Begins in this window
  consents,    \* provider: flow id -> "waiting", "denied", "spent" or the account that approved
  links,       \* identity_credentials: [id, user, provider, subject]
  tokens,      \* oauth_tokens: credential id -> [grant, needsReauth, fails, expiring]
  alive,       \* provider: the grants it still honours
  granted,     \* grants made so far
  begins,      \* terminal -> [step, provider, flow] of its Begin
  polls,       \* Poll calls: [by, flow, step, state, account, grant, found]
  oauthScreens,     \* terminal -> [mode, flow, provider, status, notice, ticks, inbox]
  refreshers,  \* replica -> [step, row, answer]
  oauthTodo,        \* terminal -> what its user still does
  users,       \* terminal -> its user
  faults, ages

linkVars == <<flowKeys, userKeys, bucket, consents, links, tokens, alive, granted, begins, polls, oauthScreens,
              refreshers, oauthTodo, users, faults, ages>>
redisVars == <<flowKeys, userKeys, bucket>>
tokenVars == <<links, tokens, alive, granted>>
boundVars == <<users, faults, ages>>
Terminals == DOMAIN users
Todo(t, what) == oauthTodo[t] # <<>> /\ Head(oauthTodo[t]).do = what
Done(t) == oauthTodo' = [oauthTodo EXCEPT ![t] = Tail(@)]
Breaks == faults < LinkFaults /\ faults' = faults + 1
Dropping(f, k) == [x \in DOMAIN f \ {k} |-> f[x]]
With(f, k, v) == [x \in DOMAIN f \cup {k} |-> IF x = k THEN v ELSE f[x]]
Holder(provider, subject) == {c \in links : c.provider = provider /\ c.subject = subject}
Shown(t, s) == oauthScreens' = [oauthScreens EXCEPT ![t] = s]
Sent(t, msg) == oauthScreens' = [oauthScreens EXCEPT ![t].inbox = Append(@, msg)]
-----------------------------------------------------------------------------
(* Service.Begin: the rate bucket, the old flow's removal, the request for a  *)
(* device code, and the two keys of the new flow.                             *)
BeginOAuthDevice(t) ==
  /\ Todo(t, "begin") /\ begins[t].step = "idle" /\ oauthScreens[t].mode \in {"list", "add"}
  /\ begins' = [begins EXCEPT ![t] = [step |-> "rate", provider |-> Head(oauthTodo[t]).provider, flow |-> 0]]
  /\ Done(t)
  /\ UNCHANGED <<redisVars, consents, tokenVars, polls, oauthScreens, refreshers, boundVars>>

BeginEnds(t, flow, err) ==
  /\ begins' = [begins EXCEPT ![t].step = "idle"]
  /\ Sent(t, [kind |-> "started", flow |-> flow, provider |-> begins[t].provider, result |-> err])

EnforceBeginRate(t) ==
  /\ begins[t].step = "rate"
  /\ bucket' = [bucket EXCEPT ![users[t]] = @ + 1]
  /\ IF bucket'[users[t]] > BeginRateLimit THEN BeginEnds(t, 0, "error")
     ELSE begins' = [begins EXCEPT ![t].step = "drop"] /\ UNCHANGED oauthScreens
  /\ UNCHANGED <<flowKeys, userKeys, consents, tokenVars, polls, refreshers, oauthTodo, boundVars>>

DropOldFlow(t) ==
  /\ begins[t].step = "drop"
  /\ LET k == <<users[t], begins[t].provider>> IN
     IF k \in DOMAIN userKeys
     THEN /\ flowKeys' = Dropping(flowKeys, userKeys[k])
          /\ userKeys' = Dropping(userKeys, k)
     ELSE UNCHANGED <<flowKeys, userKeys>>
  /\ begins' = [begins EXCEPT ![t].step = "request"]
  /\ UNCHANGED <<bucket, consents, tokenVars, polls, oauthScreens, refreshers, oauthTodo, boundVars>>

RequestDeviceCode(t) ==
  /\ begins[t].step = "request"
  /\ \/ /\ consents' = Append(consents, "waiting")
        /\ begins' = [begins EXCEPT ![t].step = "flow", ![t].flow = Len(consents) + 1]
        /\ UNCHANGED <<oauthScreens, faults>>
     \/ Breaks /\ BeginEnds(t, 0, "error") /\ UNCHANGED consents
  /\ UNCHANGED <<redisVars, tokenVars, polls, refreshers, oauthTodo, users, ages>>

SetFlowKey(t) ==
  /\ begins[t].step = "flow"
  /\ flowKeys' = With(flowKeys, begins[t].flow,
                      [user |-> users[t], provider |-> begins[t].provider, polled |-> FALSE])
  /\ begins' = [begins EXCEPT ![t].step = "user"]
  /\ UNCHANGED <<userKeys, bucket, consents, tokenVars, polls, oauthScreens, refreshers, oauthTodo, boundVars>>

SetUserKey(t) ==
  /\ begins[t].step = "user"
  /\ userKeys' = With(userKeys, <<users[t], begins[t].provider>>, begins[t].flow)
  /\ BeginEnds(t, begins[t].flow, "")
  /\ UNCHANGED <<flowKeys, bucket, consents, tokenVars, polls, refreshers, oauthTodo, boundVars>>

\* A flow's keys lapse with its code, the bucket with its minute.
FlowExpires ==
  /\ \E f \in DOMAIN flowKeys :
       /\ flowKeys' = Dropping(flowKeys, f)
       /\ userKeys' = [k \in {k \in DOMAIN userKeys : userKeys[k] # f} |-> userKeys[k]]
       /\ consents' = [consents EXCEPT ![f] = "expired"]
  /\ UNCHANGED <<bucket, tokenVars, begins, polls, oauthScreens, refreshers, oauthTodo, boundVars>>
BucketExpires ==
  /\ \E u \in DOMAIN bucket : bucket[u] > 0 /\ bucket' = [bucket EXCEPT ![u] = 0]
  /\ UNCHANGED <<flowKeys, userKeys, consents, tokenVars, begins, polls, oauthScreens, refreshers, oauthTodo, boundVars>>

\* At the provider's page the user types a code it was shown and answers.
Consents(t) ==
  /\ Todo(t, "consent") /\ oauthScreens[t].flow # 0 /\ consents[oauthScreens[t].flow] = "waiting"
  /\ consents' = [consents EXCEPT ![oauthScreens[t].flow] = Head(oauthTodo[t]).account]
  /\ Done(t)
  /\ UNCHANGED <<redisVars, tokenVars, begins, polls, oauthScreens, refreshers, boundVars>>
-----------------------------------------------------------------------------
(* Service.Poll, one step per round trip. Several polls may be under way.     *)
PollEnds(p, result) == polls' = polls \ {p} /\ Sent(p.by, [kind |-> "result", flow |-> p.flow, provider |-> p.state.provider, result |-> result])
PollGoes(p, q) == polls' = (polls \ {p}) \cup {q}
CleanupFlow(p) ==
  /\ flowKeys' = Dropping(flowKeys, p.flow)
  /\ userKeys' = Dropping(userKeys, <<p.state.user, p.state.provider>>)

LoadFlow(p) ==
  /\ p.step = "load"
  /\ IF p.flow \notin DOMAIN flowKeys THEN PollEnds(p, "expired")
     ELSE \/ flowKeys[p.flow].polled /\ PollEnds(p, "pending")   \* asked before the interval is over
          \/ PollGoes(p, [p EXCEPT !.step = "exchange", !.state = flowKeys[p.flow]]) /\ UNCHANGED oauthScreens
  /\ UNCHANGED <<redisVars, consents, tokenVars, begins, refreshers, oauthTodo, boundVars>>

ExchangeDeviceCode(p) ==
  /\ p.step = "exchange"
  /\ LET answer == consents[p.flow] IN
     CASE answer = "waiting" -> PollGoes(p, [p EXCEPT !.step = "persist"])
                                /\ UNCHANGED <<oauthScreens, consents, flowKeys, userKeys, alive, granted>>
       [] answer \in {"denied", "spent", "expired"} ->
                                CleanupFlow(p) /\ PollEnds(p, IF answer = "expired" THEN answer ELSE "denied")
                                /\ UNCHANGED <<consents, alive, granted>>
       [] OTHER -> /\ granted < Grants /\ granted' = granted + 1
                   /\ alive' = alive \cup {granted'}
                   /\ consents' = [consents EXCEPT ![p.flow] = "spent"]
                   /\ PollGoes(p, [p EXCEPT !.step = "resolve", !.account = answer, !.grant = granted'])
                   /\ UNCHANGED <<oauthScreens, flowKeys, userKeys>>
  /\ UNCHANGED <<bucket, links, tokens, begins, refreshers, oauthTodo, boundVars>>
\* The exchange, the userinfo call or a statement fails: the flow stays as it is.
PollFails(p) ==
  /\ p.step \in {"exchange", "resolve", "commit"} /\ Breaks
  /\ PollEnds(p, "error")
  /\ UNCHANGED <<redisVars, consents, tokenVars, begins, refreshers, oauthTodo, users, ages>>

PersistFlow(p) ==
  /\ p.step = "persist"
  /\ IF consents[p.flow] = "expired" THEN CleanupFlow(p)
     ELSE flowKeys' = With(flowKeys, p.flow, [p.state EXCEPT !.polled = TRUE]) /\ UNCHANGED userKeys
  /\ PollEnds(p, "pending")
  /\ UNCHANGED <<bucket, consents, tokenVars, begins, refreshers, oauthTodo, boundVars>>

\* ResolveExistingLink: the credential found, and whose it is.
ResolveExistingLink(p) ==
  /\ p.step = "resolve"
  /\ LET found == Holder(p.state.provider, p.account) IN
     IF \E c \in found : c.user # p.state.user
     THEN CleanupFlow(p) /\ PollEnds(p, "duplicate")
     ELSE PollGoes(p, [p EXCEPT !.step = "commit", !.found = {c.id : c \in found}])
          /\ UNCHANGED <<oauthScreens, flowKeys, userKeys>>
  /\ UNCHANGED <<bucket, consents, tokenVars, begins, refreshers, oauthTodo, boundVars>>

FreshToken(grant) == [grant |-> grant, needsReauth |-> FALSE, fails |-> 0, expiring |-> FALSE]
\* UpsertOAuthToken of a credential; the foreign key refuses one that is gone.
UpsertTokens(id, grant) == tokens' = [tokens EXCEPT ![id] = FreshToken(grant)] /\ UNCHANGED links
\* InsertOAuthCredential and InsertOAuthToken in one transaction. A grant is inserted
\* once at most: its number stands for the id the row is given.
InsertLink(user, provider, subject, grant) ==
  /\ links' = links \cup {[id |-> grant, user |-> user, provider |-> provider, subject |-> subject]}
  /\ tokens' = With(tokens, grant, FreshToken(grant))

CommitApproved(p) ==
  /\ p.step = "commit"
  /\ IF p.found # {}
     THEN LET id == CHOOSE c \in p.found : TRUE IN
          IF \E c \in links : c.id = id
          THEN UpsertTokens(id, p.grant) /\ PollGoes(p, [p EXCEPT !.step = "cleanup"]) /\ UNCHANGED oauthScreens
          ELSE UNCHANGED <<links, tokens>> /\ PollEnds(p, "error")
     ELSE IF Holder(p.state.provider, p.account) # {}   \* the unique index
          THEN UNCHANGED <<links, tokens>> /\ PollEnds(p, "error")
          ELSE InsertLink(p.state.user, p.state.provider, p.account, p.grant)
               /\ PollGoes(p, [p EXCEPT !.step = "cleanup"]) /\ UNCHANGED oauthScreens
  /\ UNCHANGED <<redisVars, consents, alive, granted, begins, refreshers, oauthTodo, boundVars>>

Approve(p) ==
  /\ p.step = "cleanup"
  /\ CleanupFlow(p) /\ PollEnds(p, "approved")
  /\ UNCHANGED <<bucket, consents, tokenVars, begins, refreshers, oauthTodo, boundVars>>
-----------------------------------------------------------------------------
(* The screen. A timer reads the flow when it fires, not when it was set.     *)
PollOAuthFlow(t, flow) ==
  polls' = polls \cup {[by |-> t, flow |-> flow, step |-> "load", nth |-> CHOOSE n \in 0..Cardinality(polls) : \A p \in polls : p.nth # n,
                        state |-> [user |-> 0, provider |-> ""], account |-> "", grant |-> 0, found |-> {}]}
TickFires(t) ==
  /\ oauthScreens[t].ticks > 0
  /\ Shown(t, [oauthScreens[t] EXCEPT !.ticks = @ - 1,
                 !.inbox = IF oauthScreens[t].flow = 0 THEN @
                           ELSE Append(@, [kind |-> "tick", flow |-> oauthScreens[t].flow, provider |-> "", result |-> ""])])
  /\ UNCHANGED <<redisVars, consents, tokenVars, begins, polls, refreshers, oauthTodo, boundVars>>

FlowStarted(s, msg) ==
  IF msg.result = "error" THEN [s EXCEPT !.mode = "add"]
  ELSE [s EXCEPT !.flow = msg.flow, !.provider = msg.provider, !.status = "waiting",
                 !.mode = "device", !.ticks = @ + 1]
\* Mutant: an answer that nothing is decided yet sets no timer.
PollResultOnce(s, msg) ==
  CASE msg.result = "error" -> [s EXCEPT !.ticks = @ + 1]
    [] msg.result = "approved" -> [s EXCEPT !.notice = <<s.provider, msg.provider>>, !.flow = 0, !.mode = "list"]
    [] OTHER -> [s EXCEPT !.status = IF msg.result = "pending" THEN "waiting" ELSE msg.result]

PollResult(s, msg) ==
  CASE msg.result = "error" -> [s EXCEPT !.ticks = @ + 1]
    [] msg.result = "approved" -> [s EXCEPT !.notice = <<s.provider, msg.provider>>, !.flow = 0, !.mode = "list"]
    [] msg.result = "pending" -> [s EXCEPT !.status = "waiting", !.ticks = @ + 1]
    [] OTHER -> [s EXCEPT !.status = msg.result]
UpdateOAuth(t) == \E i \in DOMAIN oauthScreens[t].inbox :
  /\ LET msg == oauthScreens[t].inbox[i]
         s == [oauthScreens[t] EXCEPT !.inbox = RemoveAt(@, i)] IN
     /\ Shown(t, CASE msg.kind = "started" -> FlowStarted(s, msg)
                   [] msg.kind = "result" -> PollResult(s, msg)
                   [] OTHER -> s)
     /\ IF msg.kind = "tick" /\ s.flow # 0 /\ s.flow = msg.flow THEN PollOAuthFlow(t, msg.flow)
        ELSE UNCHANGED polls
  /\ UNCHANGED <<redisVars, consents, tokenVars, begins, refreshers, oauthTodo, boundVars>>

HandleOAuthDeviceKey(t) ==
  /\ Todo(t, "esc") /\ Done(t)
  /\ Shown(t, CASE oauthScreens[t].mode = "device" -> [oauthScreens[t] EXCEPT !.flow = 0, !.status = "", !.mode = "list"]
                [] OTHER -> [oauthScreens[t] EXCEPT !.mode = "list"])
  /\ UNCHANGED <<redisVars, consents, tokenVars, begins, polls, refreshers, boundVars>>

(* Unlinking. The browser first revokes the grant at the provider; both       *)
(* delete the credential, and the token with it.                              *)
DeleteLink(id, user) ==
  /\ links' = {c \in links : c.id # id \/ c.user # user}
  /\ tokens' = [x \in {c.id : c \in links'} |-> tokens[x]]
Unlink(t) ==
  /\ Todo(t, "unlink") /\ ~Head(oauthTodo[t]).web /\ Done(t)
  /\ \E c \in {c \in links : c.user = users[t]} : DeleteLink(c.id, users[t])
  /\ UNCHANGED <<redisVars, consents, alive, granted, begins, polls, oauthScreens, refreshers, boundVars>>
ConnectionsUnlink(t) ==
  /\ Todo(t, "unlink") /\ Head(oauthTodo[t]).web /\ Done(t)
  /\ \E c \in {c \in links : c.user = users[t]} :
        /\ DeleteLink(c.id, users[t])
        /\ alive' = IF c.provider = "Google" THEN alive \ {tokens[c.id].grant} ELSE alive
  /\ UNCHANGED <<redisVars, consents, granted, begins, polls, oauthScreens, refreshers, boundVars>>

\* The user takes the consent back at the provider's own page.
Revokes(t) ==
  /\ Todo(t, "revoke") /\ Done(t)
  /\ alive' = {}
  /\ UNCHANGED <<redisVars, consents, links, tokens, granted, begins, polls, oauthScreens, refreshers, boundVars>>

(* oauthCallback: exchange and lookup, then the write; modelled as a poll of  *)
(* no flow, which answers the browser and leaves the screen alone.            *)
OauthCallback(t) ==
  /\ Todo(t, "callback") /\ granted < Grants /\ Done(t)
  /\ granted' = granted + 1 /\ alive' = alive \cup {granted'}
  /\ LET provider == Head(oauthTodo[t]).provider
         account == Head(oauthTodo[t]).account
         found == Holder(provider, account) IN
     IF \E c \in found : c.user # users[t] THEN UNCHANGED polls
     ELSE polls' = polls \cup
            {[by |-> t, flow |-> 0, step |-> "web", nth |-> 0, state |-> [user |-> users[t], provider |-> provider],
              account |-> account, grant |-> granted', found |-> {c.id : c \in found}]}
  /\ UNCHANGED <<redisVars, consents, links, tokens, begins, oauthScreens, refreshers, boundVars>>
LinkOAuthCredential(p) ==
  /\ p.step = "web" /\ polls' = polls \ {p}
  /\ IF p.found # {}
     THEN LET id == CHOOSE c \in p.found : TRUE IN
          IF id \in DOMAIN tokens THEN UpsertTokens(id, p.grant) ELSE UNCHANGED <<links, tokens>>
     ELSE IF Holder(p.state.provider, p.account) # {} THEN UNCHANGED <<links, tokens>>
          ELSE InsertLink(p.state.user, p.state.provider, p.account, p.grant)
  /\ UNCHANGED <<redisVars, consents, alive, granted, begins, oauthScreens, refreshers, oauthTodo, boundVars>>
-----------------------------------------------------------------------------
(* The refresher: a tick reads the rows that expire soon and refreshes each.  *)
Expires ==
  /\ ages < Expiries /\ ages' = ages + 1
  /\ \E id \in DOMAIN tokens : tokens' = [tokens EXCEPT ![id].expiring = TRUE]
  /\ UNCHANGED <<redisVars, consents, links, alive, granted, begins, polls, oauthScreens, refreshers, oauthTodo, users, faults>>

ListExpiringTokens == {id \in DOMAIN tokens : tokens[id].expiring /\ ~tokens[id].needsReauth}
RefreshTick(r) ==
  /\ refreshers[r].step = "idle"
  /\ \E id \in ListExpiringTokens :
        refreshers' = [refreshers EXCEPT ![r] = [step |-> "refresh", id |-> id, row |-> tokens[id], answer |-> ""]]
  /\ UNCHANGED <<redisVars, consents, tokenVars, begins, polls, oauthScreens, oauthTodo, boundVars>>

RefreshToken(r) ==
  /\ refreshers[r].step = "refresh"
  /\ \/ refreshers' = [refreshers EXCEPT ![r].step = "write",
                         ![r].answer = IF refreshers[r].row.grant \in alive THEN "ok" ELSE "invalid_grant"]
        /\ UNCHANGED faults
     \/ Breaks /\ refreshers' = [refreshers EXCEPT ![r].step = "write", ![r].answer = "soft"]
  /\ UNCHANGED <<redisVars, consents, tokenVars, begins, polls, oauthScreens, oauthTodo, users, ages>>

MarkTokenRefreshFailed(id, needs) ==
  tokens' = [tokens EXCEPT ![id].fails = @ + 1, ![id].needsReauth = needs]
\* A provider that does not rotate leaves the row's refresh token: COALESCE.
PersistRefreshed(id) ==
  tokens' = [tokens EXCEPT ![id].needsReauth = FALSE, ![id].fails = 0, ![id].expiring = FALSE]
RefreshOne(r) ==
  /\ refreshers[r].step = "write"
  /\ LET id == refreshers[r].id IN
     IF id \notin DOMAIN tokens THEN UNCHANGED tokens   \* no row to update, or the foreign key refuses
     ELSE CASE refreshers[r].answer = "ok" -> PersistRefreshed(id)
            [] refreshers[r].answer = "soft" ->
                 MarkTokenRefreshFailed(id, refreshers[r].row.fails + 1 >= ReauthAfter)
            [] OTHER -> MarkTokenRefreshFailed(id, TRUE)
  /\ refreshers' = [refreshers EXCEPT ![r].step = "idle"]
  /\ UNCHANGED <<redisVars, consents, links, alive, granted, begins, polls, oauthScreens, oauthTodo, boundVars>>
-----------------------------------------------------------------------------
NoScreen == [mode |-> "list", flow |-> 0, provider |-> "", status |-> "", notice |-> <<"", "">>, ticks |-> 0, inbox |-> <<>>]
LinkInit ==
  /\ \E s \in LinkScripts :
       /\ users = s.of /\ oauthTodo = s.does
       /\ begins = [t \in DOMAIN s.of |-> [step |-> "idle", provider |-> "", flow |-> 0]]
       /\ oauthScreens = [t \in DOMAIN s.of |-> NoScreen]
       /\ bucket = [u \in {s.of[t] : t \in DOMAIN s.of} |-> 0]
  /\ flowKeys = <<>> /\ userKeys = <<>> /\ consents = <<>>
  /\ links = {} /\ tokens = <<>> /\ alive = {} /\ granted = 0 /\ polls = {}
  /\ refreshers = [r \in Replicas |-> [step |-> "idle", id |-> 0, row |-> FreshToken(0), answer |-> ""]]
  /\ faults = 0 /\ ages = 0

Beginning(t) ==
  \/ BeginOAuthDevice(t) \/ EnforceBeginRate(t) \/ DropOldFlow(t) \/ RequestDeviceCode(t)
  \/ SetFlowKey(t) \/ SetUserKey(t)
Poll(p) ==
  \/ LoadFlow(p) \/ ExchangeDeviceCode(p) \/ PollFails(p) \/ PersistFlow(p) \/ ResolveExistingLink(p)
  \/ CommitApproved(p) \/ Approve(p) \/ LinkOAuthCredential(p)
Refresher(r) == RefreshTick(r) \/ RefreshToken(r) \/ RefreshOne(r)
LinkNext ==
  \/ \E t \in Terminals : \/ Beginning(t) \/ Consents(t) \/ TickFires(t) \/ UpdateOAuth(t)
                          \/ HandleOAuthDeviceKey(t) \/ Unlink(t) \/ ConnectionsUnlink(t) \/ Revokes(t) \/ OauthCallback(t)
  \/ \E p \in polls : Poll(p)
  \/ \E r \in Replicas : Refresher(r)
  \/ FlowExpires \/ BucketExpires \/ Expires
LinkSpec == LinkInit /\ [][LinkNext]_linkVars
-----------------------------------------------------------------------------
(* A credential and its token, which is of no other, come and go together,    *)
(* whatever polls, callbacks and unlinks interleave, and an account is linked *)
(* to one user.                                                               *)
LinkedWithToken ==
  /\ {c.id : c \in links} = DOMAIN tokens
  /\ \A c, d \in links : c.id = d.id \/ (c.provider = d.provider /\ c.subject = d.subject) => c = d

(* While a terminal shows a code and says it is waiting, it will ask again: a *)
(* timer, a poll or an answer is still to come.                               *)
KeepsPolling ==
  \A t \in Terminals :
     (oauthScreens[t].mode = "device" /\ oauthScreens[t].status = "waiting") =>
        \/ oauthScreens[t].ticks > 0 \/ oauthScreens[t].inbox # <<>>
        \/ \E p \in polls : p.by = t /\ p.step # "web"

(* A link that was begun is finished or given up, and is whole when it is.    *)
LinksSound == LinkedWithToken /\ KeepsPolling
-----------------------------------------------------------------------------
(* What the comments of the code say, and the code does not do.               *)

(* devicecode.go Begin: "second Begin silently supersedes the first. Keeps    *)
(* the 'one active flow per user' invariant simple."                          *)
OneFlow == \A f, g \in DOMAIN flowKeys :
  (flowKeys[f].user = flowKeys[g].user /\ flowKeys[f].provider = flowKeys[g].provider) => f = g

(* A token is flagged for re-authorization because its own grant is dead or   *)
(* because its refreshes failed often enough (the refresher's row may be old).*)
FlaggedForCause == \A id \in DOMAIN tokens :
  tokens[id].needsReauth => tokens[id].grant \notin alive \/ tokens[id].fails >= ReauthAfter

(* "X account linked." names the provider of the flow that was linked: the    *)
(* answer of a poll of a flow that was given up is shown as the present one's.*)
NoticeTrue == \A t \in Terminals : oauthScreens[t].notice[1] = oauthScreens[t].notice[2]
=============================================================================
