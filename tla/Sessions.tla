------------------------------- MODULE Sessions -------------------------------
(***************************************************************************)
(* The sessions behind the two front doors, SSH (dispatchAuth and          *)
(* programHandler of internal/transport/server.go, once NetLimit's         *)
(* Authenticate has let the connection through) and the browser            *)
(* (handleBBSWebSocket of internal/web/wsbridge.go), and the three         *)
(* process-wide things each session takes part in: the session counter     *)
(* (internal/tui/session/counter.go), the registry of close functions      *)
(* (internal/realtime/sessionkick.go) and the presence key of its user     *)
(* (internal/realtime/presence.go).                                        *)
(*                                                                         *)
(* A session starts step by step in its handler, and is taken down by      *)
(* goroutines of their own that wait for the end of its context: they run  *)
(* in any order, and beside the start.                                     *)
(***************************************************************************)
EXTENDS Naturals, FiniteSets, Sequences

CONSTANTS
  Shells,       (* SSH sessions                                             *)
  Webs,         (* WebSocket sessions                                       *)
  Users,        (* accounts                                                 *)
  NoUser,       (* the user of a session that has not signed up yet         *)
  NoSession,    (* an array cell that holds no session                      *)
  SessionCaps   (* values of max_total_sessions; 0 disables the cap         *)

Ids == Shells \union Webs

ASSUME UserAssumption == NoUser \notin Users
ASSUME SessionAssumption ==
  /\ SessionCaps \subseteq Nat /\ SessionCaps # {}
  /\ Shells \intersect Webs = {} /\ NoSession \notin Ids /\ IsFiniteSet(Ids)

VARIABLES
  up,       (* sessions whose connection, hence whose context, is alive     *)
  active,   (* activeSessions                                               *)
  sess,     (* each session: how far it is and what it has to take down     *)
  cells,    (* SessionKicker.regs: the backing array of each user's slice   *)
  len,      (* and its length                                               *)
  walk,     (* kickLocal: the slice header it copied and how far it is      *)
  online    (* users whose presence key exists in Redis                     *)

vars == <<up, active, sess, cells, len, walk, online>>

-----------------------------------------------------------------------------
Fresh == [pc |-> "none", user |-> NoUser, limit |-> 0,
          counted |-> FALSE, beats |-> FALSE, listed |-> FALSE]
NoWalk == [user |-> NoUser, own |-> FALSE, copy |-> <<>>, n |-> 0, i |-> 1,
           due |-> {}]

Walking == walk.user # NoUser

Connect(s) ==
  /\ s \notin up /\ sess[s] = Fresh
  /\ up' = up \union {s}
  /\ UNCHANGED <<active, sess, cells, len, walk, online>>

Disconnect(s) ==
  /\ s \in up
  /\ up' = up \ {s}
  /\ UNCHANGED <<active, sess, cells, len, walk, online>>

(***************************************************************************)
(* The start.  MaxTotalSessions is read from the settings cache, which the *)
(* sysop may change at any time, and Acquire counts first and asks later.  *)
(***************************************************************************)
ReadLimit(s, u) ==
  /\ s \in up /\ sess[s] = Fresh
  /\ s \in Webs => u # NoUser
  /\ \E limit \in SessionCaps :
       sess' = [sess EXCEPT ![s] = [Fresh EXCEPT !.pc = "starting", !.user = u,
                                                     !.limit = limit]]
  /\ UNCHANGED <<up, active, cells, len, walk, online>>

\* Mutant of Acquire: asks for the count first and adds to it in a second step.
AcquireCheckFirst(s) ==
  \/ /\ sess[s].pc = "starting" /\ (sess[s].limit = 0 \/ active < sess[s].limit)
     /\ sess' = [sess EXCEPT ![s].pc = "adding"]
     /\ UNCHANGED <<up, active, cells, len, walk, online>>
  \/ /\ sess[s].pc = "adding"
     /\ active' = active + 1
     /\ sess' = [sess EXCEPT ![s].pc = "live", ![s].counted = TRUE]
     /\ UNCHANGED <<up, cells, len, walk, online>>

Acquire(s) ==
  /\ sess[s].pc = "starting"
  /\ active' = active + 1
  /\ sess' = IF sess[s].limit = 0 \/ active + 1 <= sess[s].limit
             THEN [sess EXCEPT ![s].pc = "live", ![s].counted = TRUE]
             ELSE [sess EXCEPT ![s].pc = "over"]
  /\ UNCHANGED <<up, cells, len, walk, online>>

TurnAway(s) ==
  /\ sess[s].pc = "over"
  /\ active' = active - 1
  /\ sess' = [sess EXCEPT ![s].pc = "full"]
  /\ UNCHANGED <<up, cells, len, walk, online>>

\* go RunHeartbeat: over SSH before the registration, in wsbridge after it.
StartHeartbeat(s) ==
  /\ sess[s].pc = "live" /\ sess[s].user # NoUser
  /\ s \in Webs => sess[s].listed
  /\ sess' = [sess EXCEPT ![s].beats = TRUE, ![s].pc = IF s \in Webs THEN "up" ELSE "beating"]
  /\ UNCHANGED <<up, active, cells, len, walk, online>>

\* The register screen finished: SignupRoot takes the identity over and starts
\* the heartbeat.  It does not register with the SessionKicker.
SignedUp(s, u) ==
  /\ sess[s].pc = "live" /\ sess[s].user = NoUser
  /\ sess' = [sess EXCEPT ![s].user = u, ![s].beats = TRUE, ![s].pc = "up"]
  /\ UNCHANGED <<up, active, cells, len, walk, online>>

-----------------------------------------------------------------------------
(***************************************************************************)
(* SessionKicker.  regs[u] is a Go slice: kickLocal copies its header      *)
(* under the lock and walks the array without it, while a deregistration   *)
(* shifts the later entries of the same array to the left.  A registration *)
(* that needs room moves the slice to a new array.                         *)
(***************************************************************************)
Grown(a, n) ==
  IF n < Len(a) THEN a
  ELSE SubSeq(a, 1, n) \o [k \in 1 .. (IF n = 0 THEN 1 ELSE n) |-> NoSession]

\* Mutant of Without: shifts one entry too many.
WithoutNext(a, n, k) == [j \in 1 .. Len(a) |-> IF j \in k + 1 .. n - 1 THEN a[j + 1] ELSE a[j]]

Without(a, n, k) == [j \in 1 .. Len(a) |-> IF j \in k .. n - 1 THEN a[j + 1] ELSE a[j]]

\* The walk keeps the old array when the slice has moved to another.
KeepArray(u) ==
  IF walk.user = u /\ ~walk.own THEN [walk EXCEPT !.own = TRUE, !.copy = cells[u]] ELSE walk

Register(s) ==
  LET u == sess[s].user
  IN  /\ sess[s].pc = IF s \in Webs THEN "live" ELSE "beating"
      /\ ~sess[s].listed
      /\ cells' = [cells EXCEPT ![u] = [Grown(@, len[u]) EXCEPT ![len[u] + 1] = s]]
      /\ len' = [len EXCEPT ![u] = @ + 1]
      /\ walk' = IF len[u] < Len(cells[u]) THEN walk ELSE KeepArray(u)
      /\ sess' = [sess EXCEPT ![s].listed = TRUE, ![s].pc = IF s \in Webs THEN @ ELSE "up"]
      /\ UNCHANGED <<up, active, online>>

Deregister(s) ==
  LET u == sess[s].user
  IN  /\ s \notin up /\ sess[s].listed
      /\ s \in Webs => sess[s].pc = "up"
      /\ \E k \in 1 .. len[u] :
           /\ cells[u][k] = s
           /\ cells' = [cells EXCEPT ![u] = IF len[u] = 1 THEN <<>>
                                            ELSE Without(@, len[u], k)]
      /\ len' = [len EXCEPT ![u] = @ - 1]
      /\ walk' = IF len[u] = 1 THEN KeepArray(u) ELSE walk
      /\ sess' = [sess EXCEPT ![s].listed = FALSE]
      /\ UNCHANGED <<up, active, online>>

Kick(u) ==
  /\ ~Walking /\ len[u] > 0
  /\ walk' = [NoWalk EXCEPT !.user = u, !.n = len[u],
                            !.due = {cells[u][k] : k \in 1 .. len[u]}]
  /\ UNCHANGED <<up, active, sess, cells, len, online>>

\* One close function is called; what it closes ends when its peer or its
\* handler notices, which Disconnect may do at any time.
KickNext ==
  /\ Walking /\ walk.i <= walk.n
  /\ LET s == IF walk.own THEN walk.copy[walk.i] ELSE cells[walk.user][walk.i]
     IN  walk' = [walk EXCEPT !.i = @ + 1, !.due = @ \ {s}]
  /\ UNCHANGED <<up, active, sess, cells, len, online>>

KickDone ==
  /\ Walking /\ walk.i > walk.n
  /\ walk' = NoWalk
  /\ UNCHANGED <<up, active, sess, cells, len, online>>

-----------------------------------------------------------------------------
(***************************************************************************)
(* The end: what waits for the session's context.                          *)
(***************************************************************************)
\* The session's context is cancelled: over SSH with the connection, in wsbridge
\* when the handler returns, after its deferred deregistration.
Cancelled(s) ==
  /\ s \notin up
  /\ s \in Webs => ~sess[s].listed /\ sess[s].pc \in {"full", "up"}

Release(s) ==
  /\ Cancelled(s) /\ sess[s].counted
  /\ active' = active - 1
  /\ sess' = [sess EXCEPT ![s].counted = FALSE]
  /\ UNCHANGED <<up, cells, len, walk, online>>

Ticking(s) == s \in up /\ sess[s].beats

\* Mutant of Beat: the heartbeat is not repeated.
BeatOnce(s) == FALSE /\ UNCHANGED vars

\* A heartbeat sets the key; the loop's last act deletes it, or Redis does not
\* answer and the key is left to its time to live.
Beat(s) ==
  /\ Ticking(s)
  /\ online' = online \union {sess[s].user}
  /\ UNCHANGED <<up, active, sess, cells, len, walk>>

Clear(s) ==
  /\ Cancelled(s) /\ sess[s].beats
  /\ online' \in {online, online \ {sess[s].user}}
  /\ sess' = [sess EXCEPT ![s].beats = FALSE]
  /\ UNCHANGED <<up, active, cells, len, walk>>

Beating(u) == \E s \in Ids : Ticking(s) /\ sess[s].user = u

\* The key lives for two heartbeats.
Expire(u) ==
  /\ u \in online /\ ~Beating(u)
  /\ online' = online \ {u}
  /\ UNCHANGED <<up, active, sess, cells, len, walk>>

\* Nothing is left of the session: its place may be taken by another one.
Gone(s) ==
  /\ s \notin up
  /\ \/ sess[s].pc \in {"full", "up"}
     \/ sess[s].pc = "live" /\ sess[s].user = NoUser
  /\ ~sess[s].counted /\ ~sess[s].beats /\ ~sess[s].listed /\ ~Walking
  /\ sess' = [sess EXCEPT ![s] = Fresh]
  /\ UNCHANGED <<up, active, cells, len, walk, online>>

-----------------------------------------------------------------------------
SessionStep(s) ==
  \/ \E u \in Users \union {NoUser} : ReadLimit(s, u)
  \/ Acquire(s) \/ TurnAway(s)
  \/ StartHeartbeat(s) \/ Register(s)
  \/ \E u \in Users : SignedUp(s, u)
  \/ Deregister(s) \/ Release(s) \/ Clear(s)
  \/ Gone(s)

KickStep == (\E u \in Users : Kick(u)) \/ KickNext \/ KickDone

Next ==
  \/ \E s \in Ids : Connect(s) \/ Disconnect(s) \/ SessionStep(s) \/ Beat(s)
  \/ \E u \in Users : Expire(u)
  \/ KickStep

Init ==
  /\ up = {} /\ active = 0
  /\ sess = [s \in Ids |-> Fresh]
  /\ cells = [u \in Users |-> <<>>] /\ len = [u \in Users |-> 0]
  /\ walk = NoWalk
  /\ online = {}

Spec == Init /\ [][Next]_vars

(***************************************************************************)
(* The tick of a live session, the end of a dead one and Redis's clock go  *)
(* on by themselves.                                                       *)
(***************************************************************************)
SessionFair ==
  /\ \A s \in Ids : WF_vars(Beat(s)) /\ WF_vars(Clear(s))
  /\ \A u \in Users : WF_vars(Expire(u))
FairSpec == Spec /\ SessionFair

-----------------------------------------------------------------------------
(* Properties.                                                             *)

\* The state stays within its types; no counter goes below zero.
TypeOK ==
  /\ up \subseteq Ids /\ active \in Nat
  /\ sess \in [Ids -> [pc : {"none", "starting", "over", "full", "live", "beating", "up"},
                       user : Users \union {NoUser}, limit : SessionCaps \union {0},
                       counted : BOOLEAN, beats : BOOLEAN, listed : BOOLEAN]]
  /\ cells \in [Users -> Seq(Ids \union {NoSession})]
  /\ len \in [Users -> Nat]
  /\ online \subseteq Users

\* "tightening it during an incident takes effect immediately for new
\* connections" (server.go:379): a session is let in only if, with it, no more
\* sessions are up on both surfaces than the cap it read.
Counted == {s \in Ids : sess[s].counted}
SessionCap ==
  [][\A s \in Ids : ~sess[s].counted /\ sess'[s].counted /\ sess[s].limit > 0
       => Cardinality(Counted') <= sess[s].limit]_vars

\* The registry holds each registered session of a user once and nothing else,
\* however registrations, deregistrations and a kick interleave
\* (sessionkick.go Register).
RegistryExact ==
  \A u \in Users :
    /\ {cells[u][k] : k \in 1 .. len[u]} = {s \in Ids : sess[s].listed /\ sess[s].user = u}
    /\ Cardinality({cells[u][k] : k \in 1 .. len[u]}) = len[u]

\* Presence tells the truth in the end: a user with a session that stays shows
\* as online again though another session of his has deleted the key, and a
\* user without sessions does not stay online (presence.go RunHeartbeat).
PresenceConverges ==
  /\ \A s \in Ids : Ticking(s) ~> (sess[s].user \in online \/ ~Ticking(s))
  /\ \A u \in Users : u \in online ~> (u \notin online \/ Beating(u))

\* "Kick closes every local session for userID" (sessionkick.go:79): when the
\* walk is over, every session that was registered when it began has been
\* closed or has ended.  With three sessions of a user the code does not do
\* that: the walk does not hold the lock, and a deregistration shifts the array
\* under it.
KickClosesAll ==
  [][Walking /\ ~(Walking)' => walk.due \intersect up = {}]_vars
=============================================================================
