------------------------------- MODULE NetLimit -------------------------------
(***************************************************************************)
(* The gates of the SSH listener: internal/security/netlimit (Tracker,     *)
(* Listener, DeadlineConn) and the ConnCallback and authentication         *)
(* callbacks of internal/transport/server.go that drive them.              *)
(*                                                                         *)
(* Nothing is locked from end to end.  Listener.Accept looks an ipState up *)
(* under the tracker's mutex, then increments its atomic counter, and      *)
(* takes the increment back if it went over the cap; the idle GC and the   *)
(* sysop's UpdateConfig run in between.  Each atomic operation is a step.  *)
(* The age of an entry and the tokens of its bucket are choices: any       *)
(* amount of time may have passed.                                         *)
(***************************************************************************)
EXTENDS Naturals, FiniteSets

CONSTANTS
  Conns,      (* TCP connections that may be open at a time                 *)
  Sources,    (* collapsed source addresses                                 *)
  Entries,    (* ipState objects                                            *)
  Caps,       (* values of max_conn_per_ip; 0 disables the cap              *)
  UnauthCaps, (* values of max_unauth_handshakes; 0 disables the cap        *)
  None        (* no entry, no source                                        *)

ASSUME NoneAssumption == None \notin Entries /\ None \notin Sources
ASSUME CapAssumption ==
  /\ Caps \subseteq Nat /\ Caps # {}
  /\ UnauthCaps \subseteq Nat /\ UnauthCaps # {}
ASSUME ConnAssumption == IsFiniteSet(Conns)

VARIABLES
  cfg,        (* the active Config: caps per source and for handshakes      *)
  perIP,      (* Tracker.perIP: the entry of each source                    *)
  concurrent, (* ipState.concurrent                                         *)
  global,     (* Tracker.global                                             *)
  conn,       (* each connection: where it is and what it holds             *)
  raced       (* history: sources whose entry the GC took from an Accept    *)

netVars == <<cfg, perIP, concurrent, global, conn, raced>>

-----------------------------------------------------------------------------
Closed == [pc |-> "closed", source |-> None, entry |-> None,
           cap |-> 0, limit |-> 0, slot |-> FALSE]

At(c, pcs) == conn[c].pc \in pcs

\* Accept is called by one goroutine: one connection at a time.
AcceptIdle == \A c \in Conns : ~At(c, {"accepting", "refused"})

\* An object that the map and the open connections no longer point to.
Unused(e) ==
  /\ \A p \in Sources : perIP[p] # e
  /\ \A c \in Conns : conn[c].entry # e

\* What a source's lookup finds, or the new object it gets.
Found(p) == IF perIP[p] # None THEN {perIP[p]} ELSE {e \in Entries : Unused(e)}

(***************************************************************************)
(* AcquireConn.  The configuration is read and the entry looked up; a      *)
(* banned source never gets that far, and an empty bucket turns it away    *)
(* leaving the entry behind.                                               *)
(***************************************************************************)
Lookup(c, p) ==
  /\ At(c, {"closed"}) /\ AcceptIdle
  /\ \E e \in Found(p) :
       /\ perIP' = [perIP EXCEPT ![p] = e]
       /\ concurrent' = IF perIP[p] = None THEN [concurrent EXCEPT ![e] = 0]
                        ELSE concurrent
       /\ conn' \in {conn,
                     [conn EXCEPT ![c] = [pc |-> "accepting", source |-> p,
                        entry |-> e, cap |-> cfg.perIP, limit |-> 0, slot |-> FALSE]]}
  /\ UNCHANGED <<cfg, global, raced>>

Count(c) ==
  /\ At(c, {"accepting"})
  /\ LET st == conn[c]
     IN  IF st.cap = 0
         THEN /\ conn' = [conn EXCEPT ![c].pc = "accepted"]
              /\ UNCHANGED concurrent
         ELSE /\ concurrent' = [concurrent EXCEPT ![st.entry] = @ + 1]
              /\ conn' = [conn EXCEPT ![c].pc =
                   IF concurrent[st.entry] + 1 <= st.cap
                   THEN "accepted" ELSE "refused"]
  /\ UNCHANGED <<cfg, perIP, global, raced>>

Refuse(c) ==
  /\ At(c, {"refused"})
  /\ concurrent' = [concurrent EXCEPT ![conn[c].entry] = @ - 1]
  /\ conn' = [conn EXCEPT ![c] = Closed]
  /\ UNCHANGED <<cfg, perIP, global, raced>>

(***************************************************************************)
(* ConnCallback and AcquireHandshake, in the goroutine of the connection.  *)
(***************************************************************************)
Knock(c) ==
  /\ At(c, {"accepted"})
  /\ conn' = [conn EXCEPT ![c].limit = cfg.unauth,
                          ![c].pc = IF cfg.unauth = 0 THEN "handshake" ELSE "knocking"]
  /\ UNCHANGED <<cfg, perIP, concurrent, global, raced>>

CountHandshake(c) ==
  /\ At(c, {"knocking"})
  /\ global' = global + 1
  /\ LET fits == global + 1 <= conn[c].limit
     IN  conn' = [conn EXCEPT ![c].slot = fits,
                              ![c].pc = IF fits THEN "handshake" ELSE "rejected"]
  /\ UNCHANGED <<cfg, perIP, concurrent, raced>>

RejectHandshake(c) ==
  /\ At(c, {"rejected"})
  /\ global' = global - 1
  /\ conn' = [conn EXCEPT ![c].pc = "dropping"]
  /\ UNCHANGED <<cfg, perIP, concurrent, raced>>

-----------------------------------------------------------------------------
\* Mutant of FireOnce: the hook runs at every call.
FireAlways(c) == global' = IF conn[c].limit > 0 /\ global > 0 THEN global - 1 ELSE global

\* DeadlineConn.fireOnce: the hook gives the handshake slot back, once.
FireOnce(c) == global' = IF conn[c].slot THEN global - 1 ELSE global
\* clearHandshakeState, for a Known or SignupRequired decision.
Authenticate(c) ==
  /\ At(c, {"handshake"})
  /\ FireOnce(c)
  /\ conn' = [conn EXCEPT ![c].slot = FALSE, ![c].pc = "authed"]
  /\ UNCHANGED <<cfg, perIP, concurrent, raced>>

\* DeadlineConn.Close: the peer, the login deadline, a failed authentication
\* or the end of the session.
Close(c) ==
  /\ At(c, {"handshake", "authed"})
  /\ FireOnce(c)
  /\ conn' = [conn EXCEPT ![c].slot = FALSE, ![c].pc = "closing"]
  /\ UNCHANGED <<cfg, perIP, concurrent, raced>>

\* trackedConn.Close gives the per-source slot back.
GiveBack(c) ==
  concurrent' = IF conn[c].cap > 0 THEN [concurrent EXCEPT ![conn[c].entry] = @ - 1]
                ELSE concurrent

InnerClose(c) ==
  /\ At(c, {"closing", "dropping"})
  /\ GiveBack(c)
  /\ conn' = [conn EXCEPT ![c] = IF @.pc = "closing" THEN Closed
                                 ELSE [@ EXCEPT !.pc = "dropped"]]
  /\ UNCHANGED <<cfg, perIP, global, raced>>

\* The transport closes a connection the callback has closed: `released' is set.
SecondClose(c) ==
  /\ At(c, {"dropped"})
  /\ conn' = [conn EXCEPT ![c] = Closed]
  /\ UNCHANGED <<cfg, perIP, concurrent, global, raced>>

-----------------------------------------------------------------------------
\* Mutant of Evictable: the connections of the entry are not looked at.
EvictableInUse(e) == TRUE

\* May the GC drop this entry?  It has been idle for long enough.
Evictable(e) == concurrent[e] = 0
\* gc, one entry at a time: the counters are not under its lock.
Gc(p) ==
  /\ perIP[p] # None /\ Evictable(perIP[p])
  /\ perIP' = [perIP EXCEPT ![p] = None]
  /\ raced' = raced \union {q \in {p} : \E c \in Conns :
                              At(c, {"accepting"}) /\ conn[c].entry = perIP[p]}
  /\ UNCHANGED <<cfg, concurrent, global, conn>>

UpdateConfig ==
  /\ cfg' \in [perIP : Caps, unauth : UnauthCaps]
  /\ UNCHANGED <<perIP, concurrent, global, conn, raced>>

NetInit ==
  /\ cfg \in [perIP : Caps, unauth : UnauthCaps]
  /\ perIP = [p \in Sources |-> None]
  /\ concurrent = [e \in Entries |-> 0]
  /\ global = 0
  /\ conn = [c \in Conns |-> Closed]
  /\ raced = {}

ConnStep(c) ==
  \/ \E p \in Sources : Lookup(c, p)
  \/ Count(c) \/ Refuse(c)
  \/ Knock(c) \/ CountHandshake(c) \/ RejectHandshake(c)
  \/ Authenticate(c)
  \/ InnerClose(c) \/ SecondClose(c)

NetNext ==
  \/ \E c \in Conns : ConnStep(c) \/ Close(c)
  \/ \E p \in Sources : Gc(p)
  \/ UpdateConfig

NetSpec == NetInit /\ [][NetNext]_netVars

-----------------------------------------------------------------------------
(* Properties.                                                             *)

Pcs == {"closed", "accepting", "refused", "accepted", "knocking", "rejected",
        "handshake", "authed", "closing", "dropping", "dropped"}

\* The state stays within its types: in particular no counter goes below zero.
NetTypeOK ==
  /\ cfg \in [perIP : Caps, unauth : UnauthCaps]
  /\ perIP \in [Sources -> Entries \union {None}]
  /\ concurrent \in [Entries -> Nat]
  /\ global \in Nat
  /\ conn \in [Conns -> [pc : Pcs, source : Sources \union {None},
                         entry : Entries \union {None}, cap : Caps \union {0},
                         limit : UnauthCaps \union {0}, slot : BOOLEAN]]
  /\ raced \subseteq Sources

\* A connection occupies its source's slot from the increment in AcquireConn to
\* the first Close of the socket, and a handshake slot until it authenticates.
Occupying(e) ==
  {c \in Conns : conn[c].entry = e /\ conn[c].cap > 0
                 /\ ~At(c, {"closed", "accepting", "dropped"})}
Unauthenticated ==
  {c \in Conns : At(c, {"rejected"}) \/ (At(c, {"handshake"}) /\ conn[c].limit > 0)}

\* However accepts, refusals, double closes and changes of the caps interleave,
\* no slot leaks and none is given back twice: the counters are the numbers of
\* connections that occupy them (tracker.go AcquireConn, AcquireHandshake,
\* deadline_conn.go fireOnce, listener.go Close).
CountersExact ==
  /\ \A e \in Entries : concurrent[e] = Cardinality(Occupying(e))
  /\ global = Cardinality(Unauthenticated)

\* "caps the number of concurrently open TCP connections from one source"
\* (tracker.go:18): every connection of the source that has been let in and whose
\* socket is open.  Those let in while the cap was off are never counted
\* (tracker.go:235), nor is a handshake that began while its cap was.
Open(p) ==
  {c \in Conns : conn[c].source = p
                 /\ ~At(c, {"closed", "accepting", "refused", "dropped"})}
OpenUncounted(p) == {c \in Open(p) : conn[c].cap = 0}

Handshaking == {c \in Conns : At(c, {"handshake"})}
HandshakingUncounted == {c \in Handshaking : conn[c].limit = 0}

\* When a connection is let in, its source has no more open than the cap that Accept
\* read and those let in while the cap was off, unless the GC has taken an entry away
\* between AcquireConn's lookup and its increment; and no handshake begins over the
\* process-wide cap and those that began while that was off.  That neither of the two
\* exceptions is in the comment, OpenWithinCap and HandshakesWithinCap say below.
AdmittedWithinCaps ==
  [][\A c \in Conns :
       /\ At(c, {"accepting"}) /\ At(c, {"accepted"})' /\ conn[c].cap > 0
          /\ conn[c].source \notin raced
          => Cardinality(Open(conn[c].source)')
               <= conn[c].cap + Cardinality(OpenUncounted(conn[c].source)')
       /\ At(c, {"knocking"}) /\ At(c, {"handshake"})'
          => Cardinality(Handshaking')
               <= conn[c].limit + Cardinality(HandshakingUncounted')]_netVars

-----------------------------------------------------------------------------
(* What the comments of the code say, and the code does not do.            *)

\* "caps the number of concurrently open TCP connections from one source"
\* (tracker.go:18): whoever is let in under a cap finds no more open than it.  A cap
\* that is switched on counts from nothing, whatever is open.
OpenWithinCap ==
  [][\A c \in Conns :
       At(c, {"accepting"}) /\ At(c, {"accepted"})' /\ conn[c].cap > 0
         => Cardinality(Open(conn[c].source)') <= conn[c].cap]_netVars

\* "caps in-flight unauthenticated handshakes process-wide" (tracker.go:31).
HandshakesWithinCap ==
  [][\A c \in Conns :
       At(c, {"knocking"}) /\ At(c, {"handshake"})'
         => Cardinality(Handshaking') <= conn[c].limit]_netVars
=============================================================================
