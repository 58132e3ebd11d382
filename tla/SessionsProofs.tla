--------------------------- MODULE SessionsProofs ---------------------------
(***************************************************************************)
(* Theorems about the ways into the server and what is counted on them:    *)
(* the gates of the listener, for any connections, sources and caps; the   *)
(* browsers of Carbonyl, for any sessions and users and whatever caps are  *)
(* set meanwhile; the sessions, for any sessions, users and caps; and      *)
(* their root models, for any number of sessions and broadcasts and any    *)
(* buffer.                                                                 *)
(*                                                                         *)
(* The first three keep counters of who holds what, and each proof         *)
(* accounts for a counter by its holders.  In the listener a step changes  *)
(* one connection and moves the counters by what that connection starts or *)
(* ceases to hold (OneMoves).  In Carbonyl a step moves a launch and       *)
(* leaves its slot alone, takes a slot, or gives one back.  The last is    *)
(* the wall dispatcher's map of channels against the sessions that are up, *)
(* and the order of the banners.                                           *)
(***************************************************************************)
EXTENDS NetLimit, Carbonyl, Sessions, Root, FiniteSetTheorems, SequenceTheorems, TLAPS

-----------------------------------------------------------------------------
(* The gates of the listener.                                              *)

\* What a connection in state r holds of the slots of entry e, and of the handshakes.
Holds(r, e) ==
  IF r.entry = e /\ r.cap > 0 /\ r.pc \notin {"closed", "accepting", "dropped"}
  THEN 1 ELSE 0
Knocks(r) == IF r.pc = "rejected" \/ (r.pc = "handshake" /\ r.limit > 0) THEN 1 ELSE 0

ConnFrames == [pc : Pcs, source : Sources \union {None}, entry : Entries \union {None},
           cap : Caps \union {0}, limit : UnauthCaps \union {0}, slot : BOOLEAN]

\* A set that differs from a finite one at most in c.
LEMMA OneDiffers ==
  ASSUME NEW S, NEW T, NEW c, IsFiniteSet(S), S \ {c} = T \ {c}
  PROVE  /\ Cardinality(S) \in Nat /\ Cardinality(T) \in Nat
         /\ Cardinality(T) = Cardinality(S) + (IF c \in T THEN 1 ELSE 0)
                                            - (IF c \in S THEN 1 ELSE 0)
<1> DEFINE R == S \ {c}
<1>1. IsFiniteSet(R) /\ Cardinality(R) \in Nat /\ c \notin R
  BY FS_RemoveElement, FS_CardinalityType
<1>2. IsFiniteSet(R \union {c}) /\ Cardinality(R \union {c}) = Cardinality(R) + 1
  BY <1>1, FS_AddElement
<1>3. S = IF c \in S THEN R \union {c} ELSE R OBVIOUS
<1>4. T = IF c \in T THEN R \union {c} ELSE R OBVIOUS
<1> HIDE DEF R
<1>5. Cardinality(S) = IF c \in S THEN Cardinality(R) + 1 ELSE Cardinality(R)
  BY <1>2, <1>3, Zenon
<1>6. Cardinality(T) = IF c \in T THEN Cardinality(R) + 1 ELSE Cardinality(R)
  BY <1>2, <1>4, Zenon
<1>7. QED BY <1>1, <1>5, <1>6

\* A step in which only connection c changes.
LEMMA OneMoves ==
  ASSUME NEW c \in Conns, conn \in [Conns -> ConnFrames], conn' \in [Conns -> ConnFrames],
         \A d \in Conns \ {c} : conn'[d] = conn[d]
  PROVE  /\ \A e \in Entries :
              /\ Cardinality(Occupying(e)) \in Nat
              /\ Cardinality(Occupying(e)') =
                   Cardinality(Occupying(e)) + Holds(conn'[c], e) - Holds(conn[c], e)
         /\ Cardinality(Unauthenticated) \in Nat
         /\ Cardinality(Unauthenticated') =
              Cardinality(Unauthenticated) + Knocks(conn'[c]) - Knocks(conn[c])
<1>1. ASSUME NEW e \in Entries
      PROVE  /\ Cardinality(Occupying(e)) \in Nat
             /\ Cardinality(Occupying(e)') =
                  Cardinality(Occupying(e)) + Holds(conn'[c], e) - Holds(conn[c], e)
  <2>1. IsFiniteSet(Occupying(e)) BY ConnAssumption, FS_Subset DEF Occupying
  <2>2. Occupying(e) \ {c} = (Occupying(e)') \ {c} BY DEF Occupying, At
  <2>3. Holds(conn[c], e) = IF c \in Occupying(e) THEN 1 ELSE 0 BY DEF Holds, Occupying, At
  <2>4. Holds(conn'[c], e) = IF c \in Occupying(e)' THEN 1 ELSE 0 BY DEF Holds, Occupying, At
  <2>5. QED BY <2>1, <2>2, <2>3, <2>4, OneDiffers
<1>2. /\ Cardinality(Unauthenticated) \in Nat
      /\ Cardinality(Unauthenticated') =
           Cardinality(Unauthenticated) + Knocks(conn'[c]) - Knocks(conn[c])
  <2>1. IsFiniteSet(Unauthenticated) BY ConnAssumption, FS_Subset DEF Unauthenticated
  <2>2. Unauthenticated \ {c} = (Unauthenticated') \ {c} BY DEF Unauthenticated, At
  <2>3. Knocks(conn[c]) = IF c \in Unauthenticated THEN 1 ELSE 0 BY DEF Knocks, Unauthenticated, At
  <2>4. Knocks(conn'[c]) = IF c \in Unauthenticated' THEN 1 ELSE 0
    BY DEF Knocks, Unauthenticated, At
  <2>5. QED BY <2>1, <2>2, <2>3, <2>4, OneDiffers
<1>3. QED BY <1>1, <1>2
-----------------------------------------------------------------------------
(* The counters.                                                           *)

\* What a connection's slot and caps have to do with how far it is.
FrameOK(r) ==
  /\ r.slot = (r.pc = "handshake" /\ r.limit > 0)
  /\ r.pc = "knocking" => r.limit > 0
  /\ r.pc = "refused" => r.cap > 0
  /\ r.pc # "closed" => r.entry \in Entries /\ r.source \in Sources

NetInv == NetTypeOK /\ CountersExact /\ \A c \in Conns : FrameOK(conn[c])

LEMMA TypedFrames ==
  /\ NetTypeOK => conn \in [Conns -> ConnFrames]
  /\ \A r \in ConnFrames : r.cap \in Nat /\ r.limit \in Nat
<1>1. (Caps \union {0}) \subseteq Nat /\ (UnauthCaps \union {0}) \subseteq Nat
  BY CapAssumption
<1>2. QED BY <1>1 DEF NetTypeOK, ConnFrames

LEMMA NetInitInv == NetInit => NetInv
<1> SUFFICES ASSUME NetInit PROVE NetInv
  OBVIOUS
<1>1. NetTypeOK BY CapAssumption DEF NetInit, NetTypeOK, Closed, Pcs
<1>2. \A c \in Conns : FrameOK(conn[c]) BY DEF NetInit, Closed, FrameOK
<1>3. \A e \in Entries : Occupying(e) = {} BY DEF NetInit, Closed, Occupying, At
<1>4. Unauthenticated = {} BY DEF NetInit, Closed, Unauthenticated, At
<1>5. CountersExact BY <1>3, <1>4, FS_EmptySet DEF CountersExact, NetInit
<1>6. QED BY <1>1, <1>2, <1>5 DEF NetInv

\* A step of connection c that moves the counters by what c holds before and after.
LEMMA StepExact ==
  ASSUME NetInv, NEW c \in Conns, conn' \in [Conns -> ConnFrames],
         \A d \in Conns \ {c} : conn'[d] = conn[d], FrameOK(conn'[c]),
         concurrent' \in [Entries -> Int],
         \A e \in Entries :
           concurrent'[e] = concurrent[e] + Holds(conn'[c], e) - Holds(conn[c], e),
         global' = global + Knocks(conn'[c]) - Knocks(conn[c]),
         cfg' = cfg, raced' = raced, perIP' \in [Sources -> Entries \union {None}]
  PROVE  NetInv'
<1>1. conn \in [Conns -> ConnFrames] BY TypedFrames DEF NetInv
<1>2. /\ \A e \in Entries :
           /\ Cardinality(Occupying(e)) \in Nat
           /\ Cardinality(Occupying(e)') =
                Cardinality(Occupying(e)) + Holds(conn'[c], e) - Holds(conn[c], e)
      /\ Cardinality(Unauthenticated) \in Nat
      /\ Cardinality(Unauthenticated') =
           Cardinality(Unauthenticated) + Knocks(conn'[c]) - Knocks(conn[c])
  BY <1>1, OneMoves
<1>3. /\ \A e \in Entries : concurrent'[e] = Cardinality(Occupying(e)')
      /\ global' = Cardinality(Unauthenticated')
  BY <1>2 DEF NetInv, CountersExact
<1>4. CountersExact' BY <1>3 DEF CountersExact
<1>5. \A d \in Conns : FrameOK(conn'[d])
  BY DEF NetInv
<1>6. /\ \A e \in Entries : IsFiniteSet(Occupying(e)')
      /\ IsFiniteSet(Unauthenticated')
  BY ConnAssumption, FS_Subset DEF Occupying, Unauthenticated
<1>7. concurrent' \in [Entries -> Nat] /\ global' \in Nat
  BY <1>3, <1>6, FS_CardinalityType
<1>8. NetTypeOK' BY <1>7 DEF NetInv, NetTypeOK, ConnFrames
<1>9. QED BY <1>4, <1>5, <1>8 DEF NetInv

LEMMA CountExact ==
  ASSUME NetInv, NEW c \in Conns, Count(c)
  PROVE  NetInv'
<1> USE DEF At
<1>1. /\ NetTypeOK /\ conn \in [Conns -> ConnFrames] /\ FrameOK(conn[c])
      /\ conn[c].cap \in Nat /\ conn[c].limit \in Nat
  BY TypedFrames DEF NetInv
<1>2. conn[c].pc = "accepting" /\ conn[c].entry \in Entries BY <1>1 DEF Count, FrameOK
<1>3. /\ conn' \in [Conns -> ConnFrames] /\ \A d \in Conns \ {c} : conn'[d] = conn[d]
      /\ conn'[c] = [conn[c] EXCEPT !.pc = conn'[c].pc]
  BY <1>1 DEF Count, ConnFrames, Pcs
<1>4. /\ conn'[c].cap = conn[c].cap /\ conn'[c].limit = conn[c].limit
      /\ conn'[c].entry = conn[c].entry /\ conn'[c].slot = conn[c].slot
      /\ conn'[c].source = conn[c].source
  BY <1>1, <1>3 DEF ConnFrames
<1>5. /\ conn[c].cap = 0 => conn'[c].pc = "accepted"
      /\ conn'[c].pc \in {"accepted", "refused"}
  BY <1>1 DEF Count, ConnFrames
<1>6. FrameOK(conn'[c]) BY <1>1, <1>2, <1>4, <1>5 DEF FrameOK
<1>7. Knocks(conn'[c]) = 0 /\ Knocks(conn[c]) = 0 BY <1>2, <1>5 DEF Knocks
<1>8. /\ concurrent' \in [Entries -> Int]
      /\ \A e \in Entries :
           concurrent'[e] = concurrent[e] + Holds(conn'[c], e) - Holds(conn[c], e)
  BY <1>1, <1>2, <1>4, <1>5 DEF Count, NetTypeOK, Holds
<1>9. UNCHANGED <<cfg, perIP, global, raced>> BY DEF Count
<1>10. QED BY <1>1, <1>3, <1>6, <1>7, <1>8, <1>9, StepExact DEF NetTypeOK
\* What is known of the connection that steps.
LEMMA ConnKnown ==
  ASSUME NetInv, NEW c \in Conns
  PROVE  /\ NetTypeOK /\ conn \in [Conns -> ConnFrames] /\ FrameOK(conn[c])
         /\ conn[c].cap \in Nat /\ conn[c].limit \in Nat
BY TypedFrames DEF NetInv

LEMMA ClosedHolds ==
  /\ Closed \in ConnFrames /\ FrameOK(Closed)
  /\ Knocks(Closed) = 0 /\ \A e \in Entries : Holds(Closed, e) = 0
BY CapAssumption DEF Closed, ConnFrames, FrameOK, Knocks, Holds, Pcs

LEMMA RefuseExact ==
  ASSUME NetInv, NEW c \in Conns, Refuse(c)
  PROVE  NetInv'
<1> USE DEF At
<1>1. /\ NetTypeOK /\ conn \in [Conns -> ConnFrames] /\ FrameOK(conn[c])
      /\ conn[c].cap \in Nat /\ conn[c].limit \in Nat
  BY ConnKnown
<1>2. conn[c].pc = "refused" /\ conn[c].cap > 0 /\ conn[c].entry \in Entries
  BY <1>1 DEF Refuse, FrameOK
<1>3. /\ conn' = [conn EXCEPT ![c] = Closed] /\ conn'[c] = Closed
      /\ conn' \in [Conns -> ConnFrames] /\ \A d \in Conns \ {c} : conn'[d] = conn[d]
  BY <1>1, ClosedHolds DEF Refuse
<1>4. Knocks(conn'[c]) = 0 /\ Knocks(conn[c]) = 0 BY <1>2, <1>3, ClosedHolds DEF Knocks
<1>5. \A e \in Entries : /\ Holds(conn'[c], e) = 0
                         /\ Holds(conn[c], e) = IF e = conn[c].entry THEN 1 ELSE 0
  BY <1>2, <1>3, ClosedHolds DEF Holds
<1>6. /\ concurrent' \in [Entries -> Int]
      /\ \A e \in Entries :
           concurrent'[e] = concurrent[e] + Holds(conn'[c], e) - Holds(conn[c], e)
  BY <1>1, <1>2, <1>5 DEF Refuse, NetTypeOK
<1>7. UNCHANGED <<cfg, perIP, global, raced>> BY DEF Refuse
<1>8. QED BY <1>1, <1>3, <1>4, <1>6, <1>7, ClosedHolds, StepExact DEF NetTypeOK

\* A step of c that leaves its source, its entry and its cap alone.
LEMMA KeepsSlot ==
  ASSUME NetInv, NEW c \in Conns,
         conn' \in [Conns -> ConnFrames], \A d \in Conns \ {c} : conn'[d] = conn[d],
         FrameOK(conn'[c]),
         conn'[c].entry = conn[c].entry, conn'[c].cap = conn[c].cap,
         conn[c].pc \notin {"closed", "accepting", "dropped"},
         conn'[c].pc \notin {"closed", "accepting", "dropped"},
         global' = global + Knocks(conn'[c]) - Knocks(conn[c]),
         UNCHANGED <<cfg, perIP, concurrent, raced>>
  PROVE  NetInv'
<1>1. \A e \in Entries : Holds(conn'[c], e) = Holds(conn[c], e) /\ Holds(conn[c], e) \in Nat
  BY DEF Holds
<1>2. /\ concurrent' \in [Entries -> Int]
      /\ \A e \in Entries :
           concurrent'[e] = concurrent[e] + Holds(conn'[c], e) - Holds(conn[c], e)
  BY <1>1 DEF NetInv, NetTypeOK
<1>3. QED BY <1>2, StepExact DEF NetInv, NetTypeOK

LEMMA KnockExact ==
  ASSUME NetInv, NEW c \in Conns, Knock(c)
  PROVE  NetInv'
<1> USE DEF At
<1>1. /\ NetTypeOK /\ conn \in [Conns -> ConnFrames] /\ FrameOK(conn[c])
      /\ conn[c].cap \in Nat /\ conn[c].limit \in Nat
  BY ConnKnown
<1>2. conn[c].pc = "accepted" /\ conn[c].slot = FALSE BY <1>1 DEF Knock, FrameOK
<1> DEFINE x == IF cfg.unauth = 0 THEN "handshake" ELSE "knocking"
<1>3. cfg.unauth \in UnauthCaps /\ cfg.unauth \in Nat BY <1>1, CapAssumption DEF NetTypeOK
<1>4. /\ conn' \in [Conns -> ConnFrames] /\ \A d \in Conns \ {c} : conn'[d] = conn[d]
      /\ conn'[c].pc = x /\ conn'[c].limit = cfg.unauth
      /\ conn'[c].cap = conn[c].cap /\ conn'[c].entry = conn[c].entry
      /\ conn'[c].slot = conn[c].slot /\ conn'[c].source = conn[c].source
  BY <1>1, <1>3 DEF Knock, ConnFrames, Pcs
<1>5. FrameOK(conn'[c]) BY <1>1, <1>2, <1>3, <1>4 DEF FrameOK
<1>6. Knocks(conn'[c]) = 0 /\ Knocks(conn[c]) = 0 BY <1>2, <1>3, <1>4 DEF Knocks
<1>7. UNCHANGED <<cfg, perIP, concurrent, global, raced>> BY DEF Knock
<1>8. global \in Nat BY <1>1 DEF NetTypeOK
<1>9. QED BY <1>2, <1>4, <1>5, <1>6, <1>7, <1>8, KeepsSlot

LEMMA CountHandshakeExact ==
  ASSUME NetInv, NEW c \in Conns, CountHandshake(c)
  PROVE  NetInv'
<1> USE DEF At
<1>1. /\ NetTypeOK /\ conn \in [Conns -> ConnFrames] /\ FrameOK(conn[c])
      /\ conn[c].cap \in Nat /\ conn[c].limit \in Nat
  BY ConnKnown
<1>2. conn[c].pc = "knocking" /\ conn[c].limit > 0 /\ global \in Nat
  BY <1>1 DEF CountHandshake, FrameOK, NetTypeOK
<1> DEFINE fits == global + 1 <= conn[c].limit
<1>3. /\ conn' \in [Conns -> ConnFrames] /\ \A d \in Conns \ {c} : conn'[d] = conn[d]
      /\ conn'[c].pc = (IF fits THEN "handshake" ELSE "rejected")
      /\ conn'[c].slot = fits
      /\ conn'[c].cap = conn[c].cap /\ conn'[c].entry = conn[c].entry
      /\ conn'[c].limit = conn[c].limit /\ conn'[c].source = conn[c].source
  BY <1>1 DEF CountHandshake, ConnFrames, Pcs
<1>4. FrameOK(conn'[c]) BY <1>1, <1>2, <1>3 DEF FrameOK
<1>5. Knocks(conn'[c]) = 1 /\ Knocks(conn[c]) = 0 BY <1>2, <1>3 DEF Knocks
<1>6. UNCHANGED <<cfg, perIP, concurrent, raced>> /\ global' = global + 1
  BY DEF CountHandshake
<1>7. global' = global + Knocks(conn'[c]) - Knocks(conn[c]) BY <1>2, <1>5, <1>6
<1>8. QED BY <1>2, <1>3, <1>4, <1>6, <1>7, KeepsSlot

\* The slot of the handshake goes with fireOnce, whoever calls it first.
LEMMA FiredExact ==
  ASSUME NetInv, NEW c \in Conns, conn[c].pc \in {"handshake", "authed"}, FireOnce(c),
         NEW x \in {"authed", "closing"},
         conn' = [conn EXCEPT ![c].slot = FALSE, ![c].pc = x],
         UNCHANGED <<cfg, perIP, concurrent, raced>>
  PROVE  NetInv'
<1>1. /\ NetTypeOK /\ conn \in [Conns -> ConnFrames] /\ FrameOK(conn[c])
      /\ conn[c].cap \in Nat /\ conn[c].limit \in Nat /\ global \in Nat
  BY ConnKnown DEF NetTypeOK
<1>2. /\ conn' \in [Conns -> ConnFrames] /\ \A d \in Conns \ {c} : conn'[d] = conn[d]
      /\ conn'[c].pc = x /\ conn'[c].slot = FALSE
      /\ conn'[c].cap = conn[c].cap /\ conn'[c].entry = conn[c].entry
      /\ conn'[c].limit = conn[c].limit /\ conn'[c].source = conn[c].source
  BY <1>1 DEF ConnFrames, Pcs
<1>3. FrameOK(conn'[c]) BY <1>1, <1>2 DEF FrameOK
<1>4. Knocks(conn'[c]) = 0 /\ Knocks(conn[c]) = IF conn[c].slot THEN 1 ELSE 0
  BY <1>1, <1>2 DEF Knocks, FrameOK
<1>5. global' = global + Knocks(conn'[c]) - Knocks(conn[c]) BY <1>1, <1>4 DEF FireOnce
<1>6. QED BY <1>2, <1>3, <1>5, KeepsSlot

LEMMA RejectHandshakeExact ==
  ASSUME NetInv, NEW c \in Conns, RejectHandshake(c)
  PROVE  NetInv'
<1>1. /\ NetTypeOK /\ conn \in [Conns -> ConnFrames] /\ FrameOK(conn[c]) /\ global \in Nat
  BY ConnKnown DEF NetTypeOK
<1>2. conn[c].pc = "rejected" /\ global' = global - 1 BY DEF RejectHandshake, At
<1>3. /\ conn' \in [Conns -> ConnFrames] /\ \A d \in Conns \ {c} : conn'[d] = conn[d]
      /\ conn'[c].pc = "dropping" /\ conn'[c].slot = conn[c].slot
      /\ conn'[c].cap = conn[c].cap /\ conn'[c].entry = conn[c].entry
      /\ conn'[c].limit = conn[c].limit /\ conn'[c].source = conn[c].source
  BY <1>1 DEF RejectHandshake, ConnFrames, Pcs
<1>4. FrameOK(conn'[c]) BY <1>1, <1>2, <1>3 DEF FrameOK
<1>5. Knocks(conn'[c]) = 0 /\ Knocks(conn[c]) = 1 BY <1>2, <1>3 DEF Knocks
<1>6. global' = global + Knocks(conn'[c]) - Knocks(conn[c]) BY <1>1, <1>2, <1>5
<1>7. QED BY <1>2, <1>3, <1>4, <1>6, KeepsSlot DEF RejectHandshake

\* The first Close of the socket gives the source's slot back.
LEMMA InnerCloseExact ==
  ASSUME NetInv, NEW c \in Conns, InnerClose(c)
  PROVE  NetInv'
<1> USE DEF At
<1>1. /\ NetTypeOK /\ conn \in [Conns -> ConnFrames] /\ FrameOK(conn[c])
      /\ conn[c].cap \in Nat /\ conn[c].limit \in Nat /\ global \in Nat
  BY ConnKnown DEF NetTypeOK
<1>2. conn[c].pc \in {"closing", "dropping"} /\ conn[c].entry \in Entries
  BY <1>1 DEF InnerClose, FrameOK
<1>3. /\ conn' \in [Conns -> ConnFrames] /\ \A d \in Conns \ {c} : conn'[d] = conn[d]
      /\ FrameOK(conn'[c]) /\ Knocks(conn'[c]) = 0
      /\ \A e \in Entries : Holds(conn'[c], e) = 0
  <2>1. CASE conn[c].pc = "closing"
    <3>1. conn' = [conn EXCEPT ![c] = Closed] BY <1>1, <2>1 DEF InnerClose
    <3>2. QED BY <1>1, <3>1, ClosedHolds
  <2>2. CASE conn[c].pc = "dropping"
    <3>1. conn' = [conn EXCEPT ![c] = [conn[c] EXCEPT !.pc = "dropped"]]
      BY <1>1, <2>2 DEF InnerClose
    <3>2. /\ conn' \in [Conns -> ConnFrames] /\ \A d \in Conns \ {c} : conn'[d] = conn[d]
          /\ conn'[c].pc = "dropped" /\ conn'[c].slot = conn[c].slot
          /\ conn'[c].cap = conn[c].cap /\ conn'[c].entry = conn[c].entry
          /\ conn'[c].source = conn[c].source
      BY <1>1, <3>1 DEF ConnFrames, Pcs
    <3>3. QED BY <1>1, <2>2, <3>2 DEF FrameOK, Knocks, Holds
  <2>3. QED BY <1>2, <2>1, <2>2
<1>4. /\ Knocks(conn[c]) = 0
      /\ \A e \in Entries : Holds(conn[c], e) = IF e = conn[c].entry /\ conn[c].cap > 0 THEN 1 ELSE 0
  BY <1>2 DEF Knocks, Holds
<1>5. /\ concurrent' \in [Entries -> Int]
      /\ \A e \in Entries :
           concurrent'[e] = concurrent[e] + Holds(conn'[c], e) - Holds(conn[c], e)
  BY <1>1, <1>2, <1>3, <1>4 DEF InnerClose, GiveBack, NetTypeOK
<1>6. UNCHANGED <<cfg, perIP, global, raced>> BY DEF InnerClose
<1>7. global' = global + Knocks(conn'[c]) - Knocks(conn[c]) BY <1>1, <1>3, <1>4, <1>6
<1>8. QED BY <1>1, <1>3, <1>5, <1>6, <1>7, StepExact DEF NetTypeOK

LEMMA SecondCloseExact ==
  ASSUME NetInv, NEW c \in Conns, SecondClose(c)
  PROVE  NetInv'
<1>1. /\ NetTypeOK /\ conn \in [Conns -> ConnFrames] /\ global \in Nat
  BY ConnKnown DEF NetTypeOK
<1>2. conn[c].pc = "dropped" /\ conn' = [conn EXCEPT ![c] = Closed] BY DEF SecondClose, At
<1>3. /\ conn' \in [Conns -> ConnFrames] /\ \A d \in Conns \ {c} : conn'[d] = conn[d]
      /\ conn'[c] = Closed
  BY <1>1, <1>2, ClosedHolds
<1>4. Knocks(conn[c]) = 0 /\ \A e \in Entries : Holds(conn[c], e) = 0
  BY <1>2 DEF Knocks, Holds
<1>5. UNCHANGED <<cfg, perIP, concurrent, global, raced>> BY DEF SecondClose
<1>6. /\ concurrent' \in [Entries -> Int]
      /\ \A e \in Entries :
           concurrent'[e] = concurrent[e] + Holds(conn'[c], e) - Holds(conn[c], e)
      /\ global' = global + Knocks(conn'[c]) - Knocks(conn[c])
  BY <1>1, <1>3, <1>4, <1>5, ClosedHolds DEF NetTypeOK
<1>7. QED BY <1>1, <1>3, <1>5, <1>6, ClosedHolds, StepExact DEF NetTypeOK

\* An entry that a lookup makes anew had no holders: its counter was zero already.
LEMMA LookupFacts ==
  ASSUME NetInv, NEW c \in Conns, NEW p \in Sources, Lookup(c, p)
  PROVE  /\ concurrent' = concurrent /\ conn[c].pc = "closed"
         /\ UNCHANGED <<cfg, global, raced>>
         /\ \E e \in Entries :
              /\ perIP' = [perIP EXCEPT ![p] = e] /\ perIP[p] \in {e, None}
              /\ \/ conn' = conn
                 \/ conn' = [conn EXCEPT ![c] =
                      [pc |-> "accepting", source |-> p, entry |-> e, cap |-> cfg.perIP,
                       limit |-> 0, slot |-> FALSE]]
<1>1. NetTypeOK /\ CountersExact BY DEF NetInv
<1>2. PICK e \in Found(p) :
        /\ perIP' = [perIP EXCEPT ![p] = e]
        /\ concurrent' = IF perIP[p] = None THEN [concurrent EXCEPT ![e] = 0] ELSE concurrent
        /\ conn' \in {conn,
                      [conn EXCEPT ![c] = [pc |-> "accepting", source |-> p,
                         entry |-> e, cap |-> cfg.perIP, limit |-> 0, slot |-> FALSE]]}
  BY DEF Lookup
<1>3. e \in Entries /\ perIP[p] \in {e, None} /\ (perIP[p] = None => Unused(e))
  BY <1>1, <1>2, NoneAssumption DEF Found, NetTypeOK
<1>4. perIP[p] = None => concurrent[e] = 0
  <2>1. Unused(e) => Occupying(e) = {} BY DEF Unused, Occupying
  <2>2. Unused(e) => concurrent[e] = 0 BY <1>1, <1>3, <2>1, FS_EmptySet DEF CountersExact
  <2>3. QED BY <1>3, <2>2
<1>5. concurrent' = concurrent BY <1>1, <1>2, <1>3, <1>4 DEF NetTypeOK
<1>6. QED BY <1>2, <1>3, <1>5 DEF Lookup, At

LEMMA LookupExact ==
  ASSUME NetInv, NEW c \in Conns, NEW p \in Sources, Lookup(c, p)
  PROVE  NetInv'
<1>1. /\ NetTypeOK /\ conn \in [Conns -> ConnFrames] /\ FrameOK(conn[c]) /\ global \in Nat
  BY ConnKnown DEF NetTypeOK
<1>2. /\ concurrent' = concurrent /\ conn[c].pc = "closed"
      /\ UNCHANGED <<cfg, global, raced>>
  BY LookupFacts
<1>3. PICK e \in Entries :
        /\ perIP' = [perIP EXCEPT ![p] = e] /\ perIP[p] \in {e, None}
        /\ \/ conn' = conn
           \/ conn' = [conn EXCEPT ![c] =
                [pc |-> "accepting", source |-> p, entry |-> e, cap |-> cfg.perIP,
                 limit |-> 0, slot |-> FALSE]]
  BY LookupFacts
<1>4. perIP' \in [Sources -> Entries \union {None}] BY <1>1, <1>3 DEF NetTypeOK
<1>5. cfg.perIP \in Caps BY <1>1 DEF NetTypeOK
<1>6. /\ conn' \in [Conns -> ConnFrames] /\ \A d \in Conns \ {c} : conn'[d] = conn[d]
      /\ FrameOK(conn'[c]) /\ conn'[c].pc \in {"closed", "accepting"}
  <2> DEFINE r == [pc |-> "accepting", source |-> p, entry |-> e, cap |-> cfg.perIP,
                   limit |-> 0, slot |-> FALSE]
  <2>1. r \in ConnFrames /\ FrameOK(r) /\ r.pc = "accepting" BY <1>5 DEF ConnFrames, FrameOK, Pcs
  <2> HIDE DEF r
  <2>2. conn' = conn \/ conn' = [conn EXCEPT ![c] = r] BY <1>3 DEF r
  <2>3. QED BY <1>1, <1>2, <2>1, <2>2
<1>7. /\ Knocks(conn[c]) = 0 /\ \A e1 \in Entries : Holds(conn[c], e1) = 0
      /\ Knocks(conn'[c]) = 0 /\ \A e1 \in Entries : Holds(conn'[c], e1) = 0
  BY <1>2, <1>6 DEF Knocks, Holds
<1>8. /\ concurrent' \in [Entries -> Int]
      /\ \A e1 \in Entries :
           concurrent'[e1] = concurrent[e1] + Holds(conn'[c], e1) - Holds(conn[c], e1)
      /\ global' = global + Knocks(conn'[c]) - Knocks(conn[c])
  BY <1>1, <1>2, <1>7 DEF NetTypeOK
<1>9. QED BY <1>2, <1>4, <1>6, <1>8, StepExact

LEMMA NetInvStep == NetInv /\ [NetNext]_netVars => NetInv'
<1> SUFFICES ASSUME NetInv, [NetNext]_netVars PROVE NetInv'
  OBVIOUS
<1>1. ASSUME NEW c \in Conns, ConnStep(c) PROVE NetInv'
  <2>1. ASSUME NEW p \in Sources, Lookup(c, p) PROVE NetInv' BY <2>1, LookupExact
  <2>2. CASE Count(c) BY <2>2, CountExact
  <2>3. CASE Refuse(c) BY <2>3, RefuseExact
  <2>4. CASE Knock(c) BY <2>4, KnockExact
  <2>5. CASE CountHandshake(c) BY <2>5, CountHandshakeExact
  <2>6. CASE RejectHandshake(c) BY <2>6, RejectHandshakeExact
  <2>7. CASE Authenticate(c) BY <2>7, FiredExact DEF Authenticate, At
  <2>8. CASE InnerClose(c) BY <2>8, InnerCloseExact
  <2>9. CASE SecondClose(c) BY <2>9, SecondCloseExact
  <2>10. QED BY <1>1, <2>1, <2>2, <2>3, <2>4, <2>5, <2>6, <2>7, <2>8, <2>9 DEF ConnStep
<1>2. ASSUME NEW c \in Conns, Close(c) PROVE NetInv'
  BY <1>2, FiredExact DEF Close, At
<1>3. ASSUME NEW p \in Sources, Gc(p) PROVE NetInv'
  <2>1. UNCHANGED <<cfg, concurrent, global, conn>> BY <1>3 DEF Gc
  <2>2. perIP' \in [Sources -> Entries \union {None}] /\ raced' \subseteq Sources
    BY <1>3 DEF Gc, NetInv, NetTypeOK
  <2>3. NetTypeOK' BY <2>1, <2>2 DEF NetInv, NetTypeOK
  <2>4. CountersExact' BY <2>1 DEF NetInv, CountersExact, Occupying, Unauthenticated, At
  <2>5. QED BY <2>1, <2>3, <2>4 DEF NetInv
<1>4. CASE UpdateConfig
  <2>1. UNCHANGED <<perIP, concurrent, global, conn, raced>> BY <1>4 DEF UpdateConfig
  <2>2. NetTypeOK' BY <1>4, <2>1 DEF UpdateConfig, NetInv, NetTypeOK
  <2>3. CountersExact' BY <2>1 DEF NetInv, CountersExact, Occupying, Unauthenticated, At
  <2>4. QED BY <2>1, <2>2, <2>3 DEF NetInv
<1>5. CASE UNCHANGED netVars
  BY <1>5 DEF netVars, NetInv, NetTypeOK, CountersExact, Occupying, Unauthenticated, At
<1>6. QED BY <1>1, <1>2, <1>3, <1>4, <1>5 DEF NetNext

\* NetTypeOK and CountersExact, of any connections and sources: however accepts,
\* refusals, double closes, changes of the caps and the GC interleave, no slot leaks
\* and none is given back twice (tracker.go AcquireConn and AcquireHandshake,
\* deadline_conn.go fireOnce).
THEOREM NoSlotLeaks == NetSpec => [](NetTypeOK /\ CountersExact)
<1>1. NetInit => NetInv BY NetInitInv
<1>2. NetInv /\ [NetNext]_netVars => NetInv' BY NetInvStep
<1>3. NetInv => NetTypeOK /\ CountersExact BY DEF NetInv
<1>4. QED BY <1>1, <1>2, <1>3, PTL DEF NetSpec

-----------------------------------------------------------------------------
(* The caps.                                                               *)

\* An unfinished Accept, and a connection that counts, hold the entry that the map
\* has for their source, unless the GC has taken that from an Accept.
LinkedBy(c) ==
  /\ conn[c].pc \notin {"closed", "dropped"}
  /\ conn[c].pc = "accepting" \/ conn[c].cap > 0
  /\ conn[c].source \notin raced
  => perIP[conn[c].source] = conn[c].entry

Linked == \A c \in Conns : LinkedBy(c)

\* Where the step of a connection may take it.
Moves(c) ==
  /\ \A d \in Conns \ {c} : conn'[d] = conn[d]
  /\ \/ conn'[c].pc \in {"closed", "dropped"}
     \/ /\ conn[c].pc \notin {"closed", "dropped"}
        /\ conn'[c].pc = "accepting" => conn[c].pc = "accepting"
        /\ conn'[c].source = conn[c].source /\ conn'[c].entry = conn[c].entry
        /\ conn'[c].cap = conn[c].cap

LEMMA StepMoves ==
  ASSUME NetInv, NEW c \in Conns,
         \/ Count(c) \/ Refuse(c) \/ Knock(c) \/ CountHandshake(c) \/ RejectHandshake(c)
         \/ Authenticate(c) \/ Close(c) \/ InnerClose(c) \/ SecondClose(c)
  PROVE  Moves(c) /\ UNCHANGED <<cfg, perIP, raced>>
<1> USE DEF At, ConnFrames, Moves
<1>1. conn \in [Conns -> ConnFrames] BY ConnKnown
<1>2. CASE Count(c) BY <1>1, <1>2 DEF Count
<1>3. CASE Refuse(c) BY <1>1, <1>3 DEF Refuse, Closed
<1>4. CASE Knock(c) BY <1>1, <1>4 DEF Knock
<1>5. CASE CountHandshake(c) BY <1>1, <1>5 DEF CountHandshake
<1>6. CASE RejectHandshake(c) BY <1>1, <1>6 DEF RejectHandshake
<1>7. CASE Authenticate(c) BY <1>1, <1>7 DEF Authenticate
<1>8. CASE Close(c) BY <1>1, <1>8 DEF Close
<1>9. CASE InnerClose(c)
  <2>1. CASE conn[c].pc = "closing"
    <3>1. conn' = [conn EXCEPT ![c] = Closed] BY <1>1, <1>9, <2>1 DEF InnerClose
    <3>2. QED BY <1>1, <1>9, <3>1 DEF InnerClose, Closed
  <2>2. CASE conn[c].pc = "dropping"
    <3>1. conn' = [conn EXCEPT ![c] = [conn[c] EXCEPT !.pc = "dropped"]]
      BY <1>1, <1>9, <2>2 DEF InnerClose
    <3>2. QED BY <1>1, <1>9, <3>1 DEF InnerClose
  <2>3. QED BY <1>9, <2>1, <2>2 DEF InnerClose
<1>10. CASE SecondClose(c) BY <1>1, <1>10 DEF SecondClose, Closed
<1>11. QED BY <1>2, <1>3, <1>4, <1>5, <1>6, <1>7, <1>8, <1>9, <1>10

LEMMA LinkedStep == NetInv /\ Linked /\ [NetNext]_netVars => Linked'
<1> SUFFICES ASSUME NetInv, Linked, [NetNext]_netVars PROVE Linked'
  OBVIOUS
<1>0. NetTypeOK /\ conn \in [Conns -> ConnFrames] /\ \A c \in Conns : FrameOK(conn[c])
  BY TypedFrames DEF NetInv
<1>1. ASSUME NEW c \in Conns, Moves(c), UNCHANGED <<cfg, perIP, raced>> PROVE Linked'
  <2>1. ASSUME NEW d \in Conns PROVE LinkedBy(d)'
    <3>1. CASE d = c BY <1>1, <3>1 DEF Linked, LinkedBy, Moves
    <3>2. CASE d # c BY <1>1, <3>2 DEF Linked, LinkedBy, Moves
    <3>3. QED BY <3>1, <3>2
  <2>2. QED BY <2>1 DEF Linked
<1>2. ASSUME NEW c \in Conns, NEW p \in Sources, Lookup(c, p) PROVE Linked'
  <2>1. conn[c].pc = "closed" /\ UNCHANGED raced BY <1>2, LookupFacts
  <2>2. PICK e \in Entries :
          /\ perIP' = [perIP EXCEPT ![p] = e] /\ perIP[p] \in {e, None}
          /\ \/ conn' = conn
             \/ conn' = [conn EXCEPT ![c] =
                  [pc |-> "accepting", source |-> p, entry |-> e, cap |-> cfg.perIP,
                   limit |-> 0, slot |-> FALSE]]
    BY <1>2, LookupFacts
  <2> DEFINE r == [pc |-> "accepting", source |-> p, entry |-> e, cap |-> cfg.perIP,
                   limit |-> 0, slot |-> FALSE]
  <2>3. r.source = p /\ r.entry = e OBVIOUS
  <2> HIDE DEF r
  <2>4. conn' = conn \/ conn' = [conn EXCEPT ![c] = r] BY <2>2 DEF r
  <2>5. perIP'[p] = e BY <1>0, <2>2 DEF NetTypeOK
  <2>6. ASSUME NEW d \in Conns PROVE LinkedBy(d)'
    <3>1. CASE conn'[d] = conn[d]
      <4>1. conn[d].pc \notin {"closed"} => conn[d].entry \in Entries /\ conn[d].source \in Sources
        BY <1>0 DEF FrameOK
      <4>2. conn[d].source \in Sources => perIP'[conn[d].source] =
              IF conn[d].source = p THEN e ELSE perIP[conn[d].source]
        BY <1>0, <2>2 DEF NetTypeOK
      <4>3. QED BY <2>1, <2>2, <3>1, <4>1, <4>2, NoneAssumption DEF Linked, LinkedBy
    <3>2. CASE conn'[d] # conn[d]
      <4>1. conn'[d] = r BY <1>0, <2>4, <3>2
      <4>2. QED BY <2>3, <2>5, <4>1 DEF LinkedBy
    <3>3. QED BY <3>1, <3>2
  <2>7. QED BY <2>6 DEF Linked
<1>3. ASSUME NEW p \in Sources, Gc(p) PROVE Linked'
  <2> DEFINE e == perIP[p]
  <2>1. /\ e \in Entries /\ concurrent[e] = 0 /\ perIP' = [perIP EXCEPT ![p] = None]
        /\ conn' = conn
    BY <1>0, <1>3 DEF Gc, Evictable, NetTypeOK
  <2>2. Occupying(e) = {}
    <3>1. Cardinality(Occupying(e)) = 0 BY <2>1 DEF NetInv, CountersExact
    <3>2. IsFiniteSet(Occupying(e)) BY ConnAssumption, FS_Subset DEF Occupying
    <3>3. QED BY <3>1, <3>2, FS_EmptySet
  <2>3. ASSUME NEW d \in Conns PROVE LinkedBy(d)'
    <3>1. CASE conn[d].source = p /\ conn[d].entry = e
      <4>1. conn[d].pc = "accepting" => p \in raced' BY <1>3, <3>1 DEF Gc, At
      <4>2. conn[d].pc \in {"closed", "accepting", "dropped"} \/ ~(conn[d].cap > 0)
        BY <2>2, <3>1 DEF Occupying, At
      <4>3. QED BY <2>1, <3>1, <4>1, <4>2 DEF LinkedBy
    <3>2. CASE conn[d].source = p /\ conn[d].entry # e
      BY <1>3, <2>1, <3>2 DEF Linked, LinkedBy, Gc
    <3>3. CASE conn[d].source # p
      <4>1. conn[d].pc # "closed" => perIP'[conn[d].source] = perIP[conn[d].source]
        BY <1>0, <2>1, <3>3 DEF NetTypeOK, FrameOK
      <4>2. QED BY <1>3, <2>1, <4>1 DEF Linked, LinkedBy, Gc
    <3>4. QED BY <3>1, <3>2, <3>3
  <2>4. QED BY <2>3 DEF Linked
<1>4. CASE UpdateConfig BY <1>4 DEF UpdateConfig, Linked, LinkedBy
<1>5. CASE UNCHANGED netVars BY <1>5 DEF netVars, Linked, LinkedBy
<1>6. QED BY <1>1, <1>2, <1>3, <1>4, <1>5, StepMoves DEF NetNext, ConnStep

\* Only Count lets a source's connection in, and only CountHandshake a handshake.
LEMMA Admission ==
  ASSUME NetInv, NEW c \in Conns, [NetNext]_netVars
  PROVE  /\ At(c, {"accepting"}) /\ At(c, {"accepted"})' => Count(c)
         /\ At(c, {"knocking"}) /\ At(c, {"handshake"})' => CountHandshake(c)
<1> USE DEF At
<1>1. conn \in [Conns -> ConnFrames] BY TypedFrames DEF NetInv
<1>2. ASSUME NEW d \in Conns, d # c, Moves(d)
      PROVE  conn'[c].pc = conn[c].pc
  BY <1>2 DEF Moves
<1>3. ASSUME NEW d \in Conns, NEW p \in Sources, Lookup(d, p)
      PROVE  conn'[c].pc = conn[c].pc \/ conn'[c].pc = "accepting"
  <2>1. PICK e \in Entries :
          \/ conn' = conn
          \/ conn' = [conn EXCEPT ![d] =
               [pc |-> "accepting", source |-> p, entry |-> e, cap |-> cfg.perIP,
                limit |-> 0, slot |-> FALSE]]
    BY <1>3, LookupFacts
  <2>2. QED BY <1>1, <2>1
<1>4. CASE UNCHANGED conn BY <1>4
<1>5. CASE Refuse(c) \/ InnerClose(c) \/ SecondClose(c) \/ RejectHandshake(c)
  BY <1>5 DEF Refuse, InnerClose, SecondClose, RejectHandshake
<1>6. CASE Knock(c) BY <1>6 DEF Knock
<1>7. CASE Authenticate(c) \/ Close(c) BY <1>7 DEF Authenticate, Close
<1>8. CASE Count(c) BY <1>8 DEF Count
<1>9. CASE CountHandshake(c) BY <1>9 DEF CountHandshake
<1>10. \/ UNCHANGED conn
       \/ \E d \in Conns, p \in Sources : Lookup(d, p)
       \/ \E d \in Conns : d # c /\ Moves(d)
       \/ Refuse(c) \/ InnerClose(c) \/ SecondClose(c) \/ RejectHandshake(c) \/ Knock(c)
       \/ Authenticate(c) \/ Close(c) \/ Count(c) \/ CountHandshake(c)
  BY StepMoves DEF NetNext, ConnStep, Gc, UpdateConfig, netVars
<1>11. QED BY <1>2, <1>3, <1>4, <1>5, <1>6, <1>7, <1>8, <1>9, <1>10

\* Who is in a set that is covered by two others is counted by one of them.
LEMMA CoverCount ==
  ASSUME NEW S, NEW A, NEW B, S \subseteq A \union B, IsFiniteSet(A), IsFiniteSet(B)
  PROVE  Cardinality(S) <= Cardinality(A) + Cardinality(B)
<1>1. IsFiniteSet(A \union B) /\ IsFiniteSet(A \intersect B)
  BY FS_Union, FS_Intersection
<1>2. Cardinality(A \union B)
        = Cardinality(A) + Cardinality(B) - Cardinality(A \intersect B)
  BY FS_Union
<1>3. Cardinality(S) <= Cardinality(A \union B) /\ IsFiniteSet(S)
  BY <1>1, FS_Subset
<1>4. /\ Cardinality(S) \in Nat /\ Cardinality(A \intersect B) \in Nat
      /\ Cardinality(A) \in Nat /\ Cardinality(B) \in Nat
  BY <1>1, <1>3, FS_CardinalityType
<1>5. QED BY <1>2, <1>3, <1>4

LEMMA WithinCapsStep ==
  ASSUME NetInv, NetInv', Linked', [NetNext]_netVars, NEW c \in Conns
  PROVE  /\ At(c, {"accepting"}) /\ At(c, {"accepted"})' /\ conn[c].cap > 0
            /\ conn[c].source \notin raced
            => Cardinality(Open(conn[c].source)')
                 <= conn[c].cap + Cardinality(OpenUncounted(conn[c].source)')
         /\ At(c, {"knocking"}) /\ At(c, {"handshake"})'
            => Cardinality(Handshaking')
                 <= conn[c].limit + Cardinality(HandshakingUncounted')
<1>1. /\ NetTypeOK /\ conn \in [Conns -> ConnFrames] /\ FrameOK(conn[c])
      /\ conn[c].cap \in Nat /\ conn[c].limit \in Nat
  BY ConnKnown
<1>2. \A d \in Conns : conn'[d].cap \in Nat /\ conn'[d].limit \in Nat
  <2>1. conn' \in [Conns -> ConnFrames] BY DEF NetInv, NetTypeOK, ConnFrames
  <2>2. QED BY <2>1, TypedFrames
<1>3. ASSUME At(c, {"accepting"}), At(c, {"accepted"})', conn[c].cap > 0,
             conn[c].source \notin raced
      PROVE  Cardinality(Open(conn[c].source)')
               <= conn[c].cap + Cardinality(OpenUncounted(conn[c].source)')
  <2>0. PICK e, p : e = conn[c].entry /\ p = conn[c].source OBVIOUS
  <2>1. Count(c) BY <1>3, Admission
  <2>2. e \in Entries BY <1>1, <1>3, <2>0 DEF FrameOK, At
  <2>3. /\ concurrent'[e] = concurrent[e] + 1 /\ concurrent[e] + 1 <= conn[c].cap
        /\ UNCHANGED <<perIP, raced>>
    BY <1>1, <1>3, <2>0, <2>1, <2>2 DEF Count, At, NetTypeOK, ConnFrames
  <2>4. conn'[c].source = p /\ conn'[c].entry = e /\ conn'[c].cap = conn[c].cap
        /\ conn'[c].pc = "accepted"
    BY <1>1, <1>3, <2>0, <2>1 DEF Count, At, ConnFrames
  <2>5. perIP'[p] = e BY <1>3, <2>0, <2>3, <2>4 DEF Linked, LinkedBy
  <2>6. Open(p)' \subseteq Occupying(e)' \union OpenUncounted(p)'
    <3>1. ASSUME NEW d \in Conns, d \in Open(p)' PROVE d \in Occupying(e)' \union OpenUncounted(p)'
      <4>1. conn'[d].source = p
            /\ conn'[d].pc \notin {"closed", "accepting", "refused", "dropped"}
        BY <3>1 DEF Open, At
      <4>2. conn'[d].cap \in Nat BY <1>2
      <4>3. CASE conn'[d].cap = 0 BY <3>1, <4>3 DEF OpenUncounted
      <4>4. CASE conn'[d].cap > 0
        <5>1. conn'[d].entry = e
          BY <1>3, <2>0, <2>3, <2>5, <4>1, <4>4 DEF Linked, LinkedBy
        <5>2. QED BY <4>1, <4>4, <5>1 DEF Occupying, At
      <4>5. QED BY <4>2, <4>3, <4>4
    <3>2. QED BY <3>1 DEF Open
  <2>7. IsFiniteSet(Occupying(e)') /\ IsFiniteSet(OpenUncounted(p)')
    BY ConnAssumption, FS_Subset DEF Occupying, OpenUncounted, Open
  <2>8. Cardinality(Open(p)') <= Cardinality(Occupying(e)') + Cardinality(OpenUncounted(p)')
    BY <2>6, <2>7, CoverCount
  <2>9. concurrent'[e] = Cardinality(Occupying(e)') BY <2>2 DEF NetInv, CountersExact
  <2>10. concurrent[e] \in Nat BY <1>1, <2>2 DEF NetTypeOK
  <2>11. IsFiniteSet(Open(p)') BY ConnAssumption, FS_Subset DEF Open
  <2>12. Cardinality(OpenUncounted(p)') \in Nat /\ Cardinality(Open(p)') \in Nat
    BY <2>7, <2>11, FS_CardinalityType
  <2>13. Cardinality(Open(p)') <= conn[c].cap + Cardinality(OpenUncounted(p)')
    BY <1>1, <2>3, <2>8, <2>9, <2>10, <2>12
  <2>14. /\ Open(conn[c].source)' = Open(p)'
         /\ OpenUncounted(conn[c].source)' = OpenUncounted(p)'
    BY <2>4 DEF Open, OpenUncounted
  <2>15. QED BY <2>13, <2>14
<1>4. ASSUME At(c, {"knocking"}), At(c, {"handshake"})'
      PROVE  Cardinality(Handshaking') <= conn[c].limit + Cardinality(HandshakingUncounted')
  <2>1. CountHandshake(c) BY <1>4, Admission
  <2>2. global' = global + 1 /\ global + 1 <= conn[c].limit
    BY <1>1, <1>4, <2>1 DEF CountHandshake, At, ConnFrames
  <2>3. global' = Cardinality(Unauthenticated') BY DEF NetInv, CountersExact
  <2>4. Handshaking' \subseteq Unauthenticated' \union HandshakingUncounted'
    BY <1>2 DEF Handshaking, HandshakingUncounted, Unauthenticated, At
  <2>5. /\ IsFiniteSet(Unauthenticated') /\ IsFiniteSet(HandshakingUncounted')
        /\ IsFiniteSet(Handshaking')
    BY ConnAssumption, FS_Subset DEF Unauthenticated, HandshakingUncounted, Handshaking
  <2>6. Cardinality(Handshaking')
          <= Cardinality(Unauthenticated') + Cardinality(HandshakingUncounted')
    BY <2>4, <2>5, CoverCount
  <2>7. /\ Cardinality(Handshaking') \in Nat /\ Cardinality(Unauthenticated') \in Nat
        /\ Cardinality(HandshakingUncounted') \in Nat
    BY <2>5, FS_CardinalityType
  <2>8. QED BY <1>1, <2>2, <2>3, <2>6, <2>7
<1>5. QED BY <1>3, <1>4

\* AdmittedWithinCaps, of any connections, sources and caps: no connection is let in
\* over the cap of its source and what was let in while the cap was off, unless the GC
\* has raced with an Accept of that source, and no handshake begins over the
\* process-wide cap and those that began while it was off (tracker.go:18 and :31).
THEOREM NobodyOverTheCaps == NetSpec => AdmittedWithinCaps
<1>1. NetInit => NetInv /\ Linked
  <2>1. NetInit => Linked BY DEF NetInit, Closed, Linked, LinkedBy
  <2>2. QED BY <2>1, NetInitInv
<1>2. NetInv /\ Linked /\ [NetNext]_netVars => NetInv' /\ Linked' BY NetInvStep, LinkedStep
<1> DEFINE Within ==
      \A c \in Conns :
        /\ At(c, {"accepting"}) /\ At(c, {"accepted"})' /\ conn[c].cap > 0
           /\ conn[c].source \notin raced
           => Cardinality(Open(conn[c].source)')
                <= conn[c].cap + Cardinality(OpenUncounted(conn[c].source)')
        /\ At(c, {"knocking"}) /\ At(c, {"handshake"})'
           => Cardinality(Handshaking')
                <= conn[c].limit + Cardinality(HandshakingUncounted')
<1>3. NetInv /\ Linked /\ NetInv' /\ Linked' /\ [NetNext]_netVars => Within BY WithinCapsStep
<1>4. QED BY <1>1, <1>2, <1>3, PTL DEF NetSpec, AdmittedWithinCaps

-----------------------------------------------------------------------------
(* Carbonyl.                                                               *)

People == {UserOf[b] : b \in Browsers}

LaunchStates ==
  [phase : {"none", "asked", "acquiring", "starting", "bridged", "waiting", "answered"},
   cfg : {0} \cup LimitSets, child : {"none", "alive", "exited", "failed", "killed"},
   in : {"none", "on", "done"}, out : {"none", "on", "done"}, win : {"none", "on", "done"},
   ctx : {"live", "cancelled"}, killed : BOOLEAN, master : {"none", "open", "closed"},
   esc : BOOLEAN, ok : BOOLEAN]

SlotsHeld(l) == l.phase \in {"starting", "bridged", "waiting"}

\* A child is started by the bridge and waited for at its end.
Bridged(l) == l.child = "alive" => l.phase \in {"bridged", "waiting"}

CarbonylTypes ==
  /\ limits \in LimitSets
  /\ launch \in [Browsers -> LaunchStates]
  /\ used \in [global : Int, handle : [People -> Int]]

CarbonylInv == CarbonylTypes /\ SlotsExact /\ \A b \in Browsers : Bridged(launch[b])

-----------------------------------------------------------------------------
(* The three kinds of step.                                                *)
\* A launch goes on and keeps its slot, or goes on without one.
LEMMA LaunchMoves ==
  ASSUME CarbonylInv, NEW b \in Browsers, NEW l \in LaunchStates,
         launch' = [launch EXCEPT ![b] = l], used' = used, limits' = limits,
         SlotsHeld(l) <=> SlotsHeld(launch[b]), Bridged(l)
  PROVE  CarbonylInv'
<1>1. CarbonylTypes'
  BY DEF CarbonylInv, CarbonylTypes
<1>2. \A x \in Browsers : Held(x)' <=> Held(x)
  BY DEF CarbonylInv, CarbonylTypes, Held, SlotsHeld
<1>3. \A x \in Browsers : Bridged(launch'[x])
  BY DEF CarbonylInv, CarbonylTypes
<1>4. SlotsExact'
  <2>1. {x \in Browsers : Held(x)}' = {x \in Browsers : Held(x)}
    BY <1>2
  <2>2. \A u : {x \in Browsers : Held(x) /\ UserOf[x] = u}' = {x \in Browsers : Held(x) /\ UserOf[x] = u}
    BY <1>2
  <2>3. \A x \in Browsers : launch'[x].child = "alive" => Held(x)'
    BY <1>3 DEF Bridged, Held
  <2>. QED
    BY <2>1, <2>2, <2>3 DEF CarbonylInv, SlotsExact
<1>. QED
  BY <1>1, <1>3, <1>4 DEF CarbonylInv

\* What is held before and after a launch b takes or gives a slot.
LEMMA OneMoreHolder ==
  ASSUME CarbonylTypes, NEW b \in Browsers, NEW u,
         \A x \in Browsers \ {b} : Held(x)' <=> Held(x), ~Held(b), Held(b)'
  PROVE  /\ Cardinality({x \in Browsers : Held(x)}') = Cardinality({x \in Browsers : Held(x)}) + 1
         /\ Cardinality({x \in Browsers : Held(x) /\ UserOf[x] = u}')
              = Cardinality({x \in Browsers : Held(x) /\ UserOf[x] = u}) + (IF u = UserOf[b] THEN 1 ELSE 0)
         /\ Cardinality({x \in Browsers : Held(x)}) \in Nat
         /\ Cardinality({x \in Browsers : Held(x) /\ UserOf[x] = u}) \in Nat
<1>. DEFINE All == {x \in Browsers : Held(x)}
            Mine == {x \in Browsers : Held(x) /\ UserOf[x] = u}
<1>1. IsFiniteSet(All) /\ IsFiniteSet(Mine)
  BY BrowsersAssumption, FS_Subset
<1>2. All' = All \cup {b} /\ b \notin All /\ b \notin Mine
  OBVIOUS
<1>3. u = UserOf[b] => Mine' = Mine \cup {b}
  OBVIOUS
<1>4. u # UserOf[b] => Mine' = Mine
  OBVIOUS
<1>5. Cardinality(All) \in Nat /\ Cardinality(Mine) \in Nat
  BY <1>1, FS_CardinalityType
<1>6. Cardinality(All \cup {b}) = Cardinality(All) + 1 /\ Cardinality(Mine \cup {b}) = Cardinality(Mine) + 1
  BY <1>1, <1>2, FS_AddElement
<1>. QED
  BY <1>2, <1>3, <1>4, <1>5, <1>6

\* Acquire lets a launch in.
LEMMA LaunchTakes ==
  ASSUME CarbonylInv, NEW b \in Browsers, NEW l \in LaunchStates,
         launch' = [launch EXCEPT ![b] = l], limits' = limits,
         used' = [used EXCEPT !.global = @ + 1, !.handle[UserOf[b]] = @ + 1],
         ~SlotsHeld(launch[b]), SlotsHeld(l), Bridged(l)
  PROVE  CarbonylInv'
<1>. USE DEF CarbonylInv
<1>1. CarbonylTypes'
  <2>1. UserOf[b] \in People /\ used.handle \in [People -> Int] /\ used.global \in Int
    BY DEF CarbonylTypes, People
  <2>2. [used.handle EXCEPT ![UserOf[b]] = @ + 1] \in [People -> Int]
    BY <2>1
  <2>3. used' = [global |-> used.global + 1, handle |-> [used.handle EXCEPT ![UserOf[b]] = @ + 1]]
    BY DEF CarbonylTypes
  <2>4. used' \in [global : Int, handle : [People -> Int]]
    <3>1. \A g \in Int, h \in [People -> Int] : [global |-> g, handle |-> h] \in [global : Int, handle : [People -> Int]]
      OBVIOUS
    <3>2. used.global + 1 \in Int
      BY <2>1
    <3>. QED
      BY <2>2, <2>3, <3>1, <3>2, Zenon
  <2>5. launch' \in [Browsers -> LaunchStates] /\ limits' \in LimitSets
    BY DEF CarbonylTypes
  <2>. QED
    BY <2>4, <2>5 DEF CarbonylTypes
<1>2. (\A x \in Browsers \ {b} : Held(x)' <=> Held(x)) /\ ~Held(b) /\ Held(b)'
  BY DEF CarbonylTypes, Held, SlotsHeld
<1>3. \A x \in Browsers : Bridged(launch'[x])
  BY DEF CarbonylTypes
<1>4. used'.global = used.global + 1 /\ DOMAIN used'.handle = DOMAIN used.handle
  BY DEF CarbonylTypes
<1>5. \A u \in People : used'.handle[u] = used.handle[u] + (IF u = UserOf[b] THEN 1 ELSE 0)
  BY DEF CarbonylTypes
<1>6. SlotsExact'
  <2>1. used'.global = Cardinality({x \in Browsers : Held(x)}')
    BY <1>2, <1>4, OneMoreHolder DEF SlotsExact
  <2>2. ASSUME NEW u \in People
        PROVE  used'.handle[u] = Cardinality({x \in Browsers : Held(x) /\ UserOf[x] = u}')
    <3>1. used.handle[u] = Cardinality({x \in Browsers : Held(x) /\ UserOf[x] = u})
      BY DEF SlotsExact, CarbonylTypes
    <3>2. Cardinality({x \in Browsers : Held(x) /\ UserOf[x] = u}')
            = Cardinality({x \in Browsers : Held(x) /\ UserOf[x] = u}) + (IF u = UserOf[b] THEN 1 ELSE 0)
      BY <1>2, OneMoreHolder
    <3>3. used'.handle[u] = used.handle[u] + (IF u = UserOf[b] THEN 1 ELSE 0)
      BY <1>5
    <3>. QED
      BY <3>1, <3>2, <3>3
  <2>3. \A x \in Browsers : launch'[x].child = "alive" => Held(x)'
    BY <1>3 DEF Bridged, Held
  <2>4. DOMAIN used'.handle = People
    BY <1>4 DEF CarbonylTypes
  <2>. QED
    BY <2>1, <2>2, <2>3, <2>4 DEF SlotsExact
<1>. QED
  BY <1>1, <1>3, <1>6

\* The release of a slot: the same, read backwards.
LEMMA LaunchGives ==
  ASSUME CarbonylInv, NEW b \in Browsers, NEW l \in LaunchStates,
         launch' = [launch EXCEPT ![b] = l], limits' = limits, ReleaseSlot(b),
         SlotsHeld(launch[b]), ~SlotsHeld(l), Bridged(l)
  PROVE  CarbonylInv'
<1>. USE DEF CarbonylInv
<1>1. CarbonylTypes'
  <2>1. UserOf[b] \in People /\ used.handle \in [People -> Int] /\ used.global \in Int
    BY DEF CarbonylTypes, People
  <2>2. [used.handle EXCEPT ![UserOf[b]] = @ - 1] \in [People -> Int]
    BY <2>1
  <2>3. used' = [global |-> used.global - 1, handle |-> [used.handle EXCEPT ![UserOf[b]] = @ - 1]]
    BY DEF CarbonylTypes, ReleaseSlot
  <2>4. used' \in [global : Int, handle : [People -> Int]]
    BY <2>1, <2>2, <2>3
  <2>5. launch' \in [Browsers -> LaunchStates] /\ limits' \in LimitSets
    BY DEF CarbonylTypes
  <2>. QED
    BY <2>4, <2>5 DEF CarbonylTypes
<1>2. (\A x \in Browsers \ {b} : Held(x)' <=> Held(x)) /\ Held(b) /\ ~Held(b)'
  BY DEF CarbonylTypes, Held, SlotsHeld
<1>3. \A x \in Browsers : Bridged(launch'[x])
  BY DEF CarbonylTypes
<1>4. used'.global = used.global - 1 /\ DOMAIN used'.handle = DOMAIN used.handle
  BY DEF CarbonylTypes, ReleaseSlot
<1>5. \A u \in People : used'.handle[u] = used.handle[u] - (IF u = UserOf[b] THEN 1 ELSE 0)
  BY DEF CarbonylTypes, ReleaseSlot
<1>6. \A u : /\ Cardinality({x \in Browsers : Held(x)}') = Cardinality({x \in Browsers : Held(x)}) - 1
             /\ Cardinality({x \in Browsers : Held(x) /\ UserOf[x] = u}')
                  = Cardinality({x \in Browsers : Held(x) /\ UserOf[x] = u}) - (IF u = UserOf[b] THEN 1 ELSE 0)
             /\ Cardinality({x \in Browsers : Held(x)}) \in Nat
             /\ Cardinality({x \in Browsers : Held(x) /\ UserOf[x] = u}) \in Nat
  <2>. TAKE u
  <2>. DEFINE All == {x \in Browsers : Held(x)}
              Mine == {x \in Browsers : Held(x) /\ UserOf[x] = u}
  <2>1. IsFiniteSet(All) /\ IsFiniteSet(Mine)
    BY BrowsersAssumption, FS_Subset
  <2>2. All' = All \ {b} /\ b \in All
    BY <1>2
  <2>3. u = UserOf[b] => Mine' = Mine \ {b} /\ b \in Mine
    BY <1>2
  <2>4. u # UserOf[b] => Mine' = Mine
    BY <1>2
  <2>5. Cardinality(All) \in Nat /\ Cardinality(Mine) \in Nat
    BY <2>1, FS_CardinalityType
  <2>6. Cardinality(All \ {b}) = Cardinality(All) - 1
    BY <2>1, <2>2, FS_RemoveElement
  <2>7. u = UserOf[b] => Cardinality(Mine \ {b}) = Cardinality(Mine) - 1
    BY <2>1, <2>3, FS_RemoveElement
  <2>8. Cardinality(All') = Cardinality(All) - 1
    BY <2>2, <2>6
  <2>9. Cardinality(Mine') = Cardinality(Mine) - (IF u = UserOf[b] THEN 1 ELSE 0)
    <3>1. CASE u = UserOf[b]
      <4>1. Cardinality(Mine') = Cardinality(Mine \ {b})
        BY <2>3, <3>1
      <4>. QED
        BY <2>7, <3>1, <4>1
    <3>2. CASE u # UserOf[b]
      <4>1. Cardinality(Mine') = Cardinality(Mine)
        BY <2>4, <3>2
      <4>. QED
        BY <2>5, <3>2, <4>1
    <3>. QED
      BY <3>1, <3>2
  <2>. QED
    BY <2>5, <2>8, <2>9
<1>7. SlotsExact'
  <2>1. used'.global = Cardinality({x \in Browsers : Held(x)}')
    BY <1>4, <1>6 DEF SlotsExact
  <2>2. ASSUME NEW u \in People
        PROVE  used'.handle[u] = Cardinality({x \in Browsers : Held(x) /\ UserOf[x] = u}')
    <3>1. used.handle[u] = Cardinality({x \in Browsers : Held(x) /\ UserOf[x] = u})
      BY DEF SlotsExact, CarbonylTypes
    <3>2. Cardinality({x \in Browsers : Held(x) /\ UserOf[x] = u}')
            = Cardinality({x \in Browsers : Held(x) /\ UserOf[x] = u}) - (IF u = UserOf[b] THEN 1 ELSE 0)
      BY <1>6
    <3>3. used'.handle[u] = used.handle[u] - (IF u = UserOf[b] THEN 1 ELSE 0)
      BY <1>5
    <3>. QED
      BY <3>1, <3>2, <3>3
  <2>3. \A x \in Browsers : launch'[x].child = "alive" => Held(x)'
    BY <1>3 DEF Bridged, Held
  <2>4. DOMAIN used'.handle = People
    BY <1>4 DEF CarbonylTypes
  <2>. QED
    BY <2>1, <2>2, <2>3, <2>4 DEF SlotsExact
<1>. QED
  BY <1>1, <1>3, <1>7

-----------------------------------------------------------------------------
LEMMA CarbonylStarts == ASSUME CarbonylInit PROVE CarbonylInv
<1>1. CarbonylTypes
  BY DEF CarbonylInit, CarbonylTypes, People, NoLaunch, LaunchStates
<1>2. {x \in Browsers : Held(x)} = {} /\ \A u : {x \in Browsers : Held(x) /\ UserOf[x] = u} = {}
  BY DEF CarbonylInit, NoLaunch, Held
<1>3. SlotsExact
  <2>1. Cardinality({}) = 0
    BY FS_EmptySet
  <2>2. used.global = 0 /\ \A u \in DOMAIN used.handle : used.handle[u] = 0
    BY DEF CarbonylInit
  <2>3. \A x \in Browsers : launch[x].child # "alive"
    BY DEF CarbonylInit, NoLaunch
  <2>. QED
    BY <1>2, <2>1, <2>2, <2>3 DEF SlotsExact
<1>4. \A x \in Browsers : Bridged(launch[x])
  BY DEF CarbonylInit, NoLaunch, Bridged
<1>. QED
  BY <1>1, <1>3, <1>4 DEF CarbonylInv

\* The answer of a launch is a launch without a slot and without a child.
LEMMA AnswerIsFree ==
  ASSUME NEW ok \in BOOLEAN
  PROVE  LET l == [NoLaunch EXCEPT !.phase = "answered", !.ok = ok]
         IN  l \in LaunchStates /\ ~SlotsHeld(l) /\ Bridged(l)
  BY DEF NoLaunch, LaunchStates, SlotsHeld, Bridged

LEMMA LaunchIsOne ==
  ASSUME CarbonylInv, NEW b \in Browsers
  PROVE  launch[b] \in LaunchStates /\ Bridged(launch[b])
  BY DEF CarbonylInv, CarbonylTypes

\* What the screen does.
LEMMA ScreenSteps ==
  ASSUME CarbonylInv, NEW b \in Browsers, Launch(b) \/ TakeAnswer(b)
  PROVE  CarbonylInv'
<1>1. CASE Launch(b)
  <2>. DEFINE l == [launch[b] EXCEPT !.phase = "asked"]
  <2>1. launch' = [launch EXCEPT ![b] = l] /\ used' = used /\ limits' = limits
    BY <1>1 DEF Launch
  <2>2. l \in LaunchStates /\ (SlotsHeld(l) <=> SlotsHeld(launch[b])) /\ Bridged(l)
    BY <1>1, LaunchIsOne DEF Launch, LaunchStates, SlotsHeld, Bridged
  <2>. HIDE DEF l
  <2>. QED
    BY <2>1, <2>2, LaunchMoves
<1>2. CASE TakeAnswer(b)
  <2>1. launch' = [launch EXCEPT ![b] = NoLaunch] /\ used' = used /\ limits' = limits
    BY <1>2 DEF TakeAnswer
  <2>2. NoLaunch \in LaunchStates /\ (SlotsHeld(NoLaunch) <=> SlotsHeld(launch[b])) /\ Bridged(NoLaunch)
    BY <1>2, LaunchIsOne DEF TakeAnswer, NoLaunch, LaunchStates, SlotsHeld, Bridged
  <2>. QED
    BY <2>1, <2>2, LaunchMoves
<1>. QED
  BY <1>1, <1>2

\* A started launch is a launch.
LEMMA StartedIsOne ==
  ASSUME NEW m \in LaunchStates
  PROVE  LET l == [m EXCEPT !.phase = "bridged", !.child = "alive", !.in = "on",
                            !.out = "on", !.win = "on", !.master = "open"]
         IN  l \in LaunchStates /\ l.phase = "bridged"
<1>1. [m EXCEPT !.phase = "bridged"] \in LaunchStates /\ [m EXCEPT !.phase = "bridged"].phase = "bridged"
  BY DEF LaunchStates
<1>2. \A x \in LaunchStates : [x EXCEPT !.child = "alive"] \in LaunchStates /\ [x EXCEPT !.child = "alive"].phase = x.phase
  BY DEF LaunchStates
<1>3. \A x \in LaunchStates : [x EXCEPT !.in = "on"] \in LaunchStates /\ [x EXCEPT !.in = "on"].phase = x.phase
  BY DEF LaunchStates
<1>4. \A x \in LaunchStates : [x EXCEPT !.out = "on"] \in LaunchStates /\ [x EXCEPT !.out = "on"].phase = x.phase
  BY DEF LaunchStates
<1>5. \A x \in LaunchStates : [x EXCEPT !.win = "on"] \in LaunchStates /\ [x EXCEPT !.win = "on"].phase = x.phase
  BY DEF LaunchStates
<1>6. \A x \in LaunchStates : [x EXCEPT !.master = "open"] \in LaunchStates /\ [x EXCEPT !.master = "open"].phase = x.phase
  BY DEF LaunchStates
<1>. DEFINE p == [m EXCEPT !.phase = "bridged"]
            c == [p EXCEPT !.child = "alive"]
            i == [c EXCEPT !.in = "on"]
            o == [i EXCEPT !.out = "on"]
            w == [o EXCEPT !.win = "on"]
            l == [w EXCEPT !.master = "open"]
<1>7. [m EXCEPT !.phase = "bridged", !.child = "alive", !.in = "on",
                !.out = "on", !.win = "on", !.master = "open"] = l
  BY Zenon DEF LaunchStates
<1>8. i \in LaunchStates /\ i.phase = "bridged"
  BY <1>1, <1>2, <1>3, Zenon
<1>. HIDE DEF i
<1>9. l \in LaunchStates /\ l.phase = "bridged"
  BY <1>8, <1>4, <1>5, <1>6, Zenon
<1>. QED
  BY <1>7, <1>9

\* Acquire, the start and the release.
LEMMA SlotSteps ==
  ASSUME CarbonylInv, NEW b \in Browsers,
         LoadLimits(b) \/ AcquireSlot(b) \/ StartFails(b) \/ Start(b) \/ Wait(b)
  PROVE  CarbonylInv'
<1>1. CASE LoadLimits(b)
  <2>. DEFINE l == [launch[b] EXCEPT !.phase = "acquiring", !.cfg = limits]
  <2>1. launch' = [launch EXCEPT ![b] = l] /\ used' = used /\ limits' = limits
    BY <1>1 DEF LoadLimits
  <2>2. limits \in LimitSets
    BY DEF CarbonylInv, CarbonylTypes
  <2>3. l \in LaunchStates /\ (SlotsHeld(l) <=> SlotsHeld(launch[b])) /\ Bridged(l)
    BY <1>1, <2>2, LaunchIsOne DEF LoadLimits, LaunchStates, SlotsHeld, Bridged
  <2>. HIDE DEF l
  <2>. QED
    BY <2>1, <2>3, LaunchMoves
<1>2. CASE AcquireSlot(b) /\ Full(b)
  <2>. DEFINE l == [NoLaunch EXCEPT !.phase = "answered", !.ok = FALSE]
  <2>1. launch' = [launch EXCEPT ![b] = l] /\ used' = used /\ limits' = limits
    BY <1>2 DEF AcquireSlot, Answered
  <2>2. l \in LaunchStates /\ ~SlotsHeld(l) /\ Bridged(l)
    BY AnswerIsFree
  <2>3. ~SlotsHeld(launch[b])
    BY <1>2 DEF AcquireSlot, SlotsHeld
  <2>. HIDE DEF l
  <2>. QED
    BY <2>1, <2>2, <2>3, LaunchMoves
<1>3. CASE AcquireSlot(b) /\ ~Full(b)
  <2>. DEFINE l == [launch[b] EXCEPT !.phase = "starting", !.cfg = 0]
  <2>1. launch' = [launch EXCEPT ![b] = l] /\ limits' = limits
    BY <1>3 DEF AcquireSlot
  <2>2. used' = [used EXCEPT !.global = @ + 1, !.handle[UserOf[b]] = @ + 1]
    BY <1>3 DEF AcquireSlot
  <2>3. ~SlotsHeld(launch[b]) /\ l \in LaunchStates /\ SlotsHeld(l) /\ Bridged(l)
    BY <1>3, LaunchIsOne DEF AcquireSlot, LaunchStates, SlotsHeld, Bridged
  <2>. HIDE DEF l
  <2>. QED
    BY <2>1, <2>2, <2>3, LaunchTakes
<1>4. CASE StartFails(b)
  <2>. DEFINE l == [NoLaunch EXCEPT !.phase = "answered", !.ok = FALSE]
  <2>1. launch' = [launch EXCEPT ![b] = l] /\ limits' = limits /\ ReleaseSlot(b)
    BY <1>4 DEF StartFails, Answered
  <2>2. l \in LaunchStates /\ ~SlotsHeld(l) /\ Bridged(l)
    BY AnswerIsFree
  <2>3. SlotsHeld(launch[b])
    BY <1>4 DEF StartFails, SlotsHeld
  <2>. HIDE DEF l
  <2>. QED
    BY <2>1, <2>2, <2>3, LaunchGives
<1>5. CASE Start(b)
  <2>. DEFINE l == [launch[b] EXCEPT !.phase = "bridged", !.child = "alive", !.in = "on",
                                     !.out = "on", !.win = "on", !.master = "open"]
  <2>1. launch' = [launch EXCEPT ![b] = l] /\ used' = used /\ limits' = limits
    BY <1>5 DEF Start
  <2>2. l \in LaunchStates /\ (SlotsHeld(l) <=> SlotsHeld(launch[b])) /\ Bridged(l)
    <3>1. launch[b] \in LaunchStates
      BY LaunchIsOne
    <3>2. l \in LaunchStates /\ l.phase = "bridged"
      BY <3>1, StartedIsOne
    <3>4. launch[b].phase = "starting"
      BY <1>5 DEF Start
    <3>. HIDE DEF l
    <3>. QED
      BY <3>2, <3>4 DEF SlotsHeld, Bridged
  <2>. HIDE DEF l
  <2>. QED
    BY <2>1, <2>2, LaunchMoves
<1>6. CASE Wait(b)
  <2>. DEFINE l == [NoLaunch EXCEPT !.phase = "answered", !.ok = launch[b].child = "exited"]
  <2>1. launch' = [launch EXCEPT ![b] = l] /\ limits' = limits /\ ReleaseSlot(b)
    BY <1>6 DEF Wait, Answered
  <2>2. l \in LaunchStates /\ ~SlotsHeld(l) /\ Bridged(l)
    BY AnswerIsFree
  <2>3. SlotsHeld(launch[b])
    BY <1>6 DEF Wait, SlotsHeld
  <2>. HIDE DEF l
  <2>. QED
    BY <2>1, <2>2, <2>3, LaunchGives
<1>. QED
  BY <1>1, <1>2, <1>3, <1>4, <1>5, <1>6

\* What a loop of the bridge writes of its launch leaves a launch.
LEMMA LoopWrites ==
  ASSUME NEW l \in LaunchStates, NEW k \in BOOLEAN, NEW e \in BOOLEAN,
         NEW c \in {"live", "cancelled"}, NEW d \in {"on", "done"}
  PROVE  /\ [l EXCEPT !.in = d, !.ctx = c, !.killed = k, !.esc = e] \in LaunchStates
         /\ [l EXCEPT !.out = d, !.ctx = c] \in LaunchStates
         /\ [l EXCEPT !.esc = e] \in LaunchStates
<1>1. \A m \in LaunchStates : [m EXCEPT !.ctx = c] \in LaunchStates
  BY DEF LaunchStates
<1>2. [l EXCEPT !.in = d] \in LaunchStates /\ [l EXCEPT !.out = d] \in LaunchStates
  BY DEF LaunchStates
<1>3. \A m \in LaunchStates : [m EXCEPT !.killed = k, !.esc = e] \in LaunchStates /\ [m EXCEPT !.esc = e] \in LaunchStates
  BY DEF LaunchStates
<1>4. /\ [l EXCEPT !.in = d, !.ctx = c, !.killed = k, !.esc = e]
           = [[[l EXCEPT !.in = d] EXCEPT !.ctx = c] EXCEPT !.killed = k, !.esc = e]
      /\ [l EXCEPT !.out = d, !.ctx = c] = [[l EXCEPT !.out = d] EXCEPT !.ctx = c]
  BY Zenon DEF LaunchStates
<1>. QED
  BY <1>1, <1>2, <1>3, <1>4, Zenon

\* The loops of the bridge, the child and the channel leave the slot alone.
LEMMA BridgeSteps ==
  ASSUME CarbonylInv, NEW b \in Browsers,
         \/ \E k \in Keys : ReadKey(b, k)
         \/ EscExpires(b) \/ StdinEnds(b) \/ StdoutEnds(b) \/ WindowEnds(b) \/ CloseMaster(b)
         \/ BridgeReturns(b) \/ ChannelGone(b)
         \/ \E end \in {"exited", "failed", "killed"} : ChildExits(b, end)
  PROVE  CarbonylInv'
<1>. DEFINE Keeps(l) == l \in LaunchStates /\ (SlotsHeld(l) <=> SlotsHeld(launch[b])) /\ Bridged(l)
<1>1. SUFFICES \E l : Keeps(l) /\ launch' = [launch EXCEPT ![b] = l] /\ used' = used /\ limits' = limits
  BY LaunchMoves
<1>2. launch[b] \in LaunchStates /\ Bridged(launch[b])
  BY LaunchIsOne
<1>3. ASSUME NEW kill \in BOOLEAN
      PROVE  Keeps(InputEnds(launch[b], kill))
  <2>1. \A k \in BOOLEAN : Keeps([launch[b] EXCEPT !.in = "done", !.ctx = "cancelled", !.killed = k, !.esc = FALSE])
    <3>1. \A k \in BOOLEAN :
            [launch[b] EXCEPT !.in = "done", !.ctx = "cancelled", !.killed = k, !.esc = FALSE] \in LaunchStates
      BY <1>2, LoopWrites
    <3>2. \A k \in BOOLEAN :
            LET l == [launch[b] EXCEPT !.in = "done", !.ctx = "cancelled", !.killed = k, !.esc = FALSE]
            IN  l.phase = launch[b].phase /\ l.child = launch[b].child
      BY <1>2 DEF LaunchStates
    <3>. QED
      BY <1>2, <3>1, <3>2 DEF SlotsHeld, Bridged
  <2>2. (launch[b].killed \/ kill) \in BOOLEAN
    OBVIOUS
  <2>. HIDE DEF Keeps
  <2>. QED
    BY <2>1, <2>2, Zenon DEF InputEnds
<1>4. CASE \E k \in Keys : ReadKey(b, k)
  <2>1. PICK k \in Keys : ReadKey(b, k)
    BY <1>4
  <2>2. Keeps([launch[b] EXCEPT !.esc = k = "esc"])
    BY <1>2 DEF LaunchStates, SlotsHeld, Bridged
  <2>3. Keeps(AfterKey(launch[b], k))
    BY <1>3, <2>2 DEF AfterKey
  <2>4. launch' = [launch EXCEPT ![b] = AfterKey(launch[b], k)] /\ used' = used /\ limits' = limits
    BY <2>1 DEF ReadKey
  <2>. QED
    BY <2>3, <2>4
<1>5. CASE EscExpires(b) \/ StdoutEnds(b) \/ WindowEnds(b) \/ CloseMaster(b)
  <2>1. Keeps([launch[b] EXCEPT !.esc = FALSE]) /\ Keeps([launch[b] EXCEPT !.out = "done", !.ctx = "cancelled"])
    <3>1. /\ [launch[b] EXCEPT !.esc = FALSE] \in LaunchStates
          /\ [launch[b] EXCEPT !.out = "done", !.ctx = "cancelled"] \in LaunchStates
      BY <1>2, LoopWrites
    <3>2. \A l \in {[launch[b] EXCEPT !.esc = FALSE], [launch[b] EXCEPT !.out = "done", !.ctx = "cancelled"]} :
            l.phase = launch[b].phase /\ l.child = launch[b].child
      BY <1>2 DEF LaunchStates
    <3>. QED
      BY <1>2, <3>1, <3>2 DEF SlotsHeld, Bridged
  <2>2. Keeps([launch[b] EXCEPT !.win = "done"]) /\ Keeps([launch[b] EXCEPT !.master = "closed"])
    BY <1>2 DEF LaunchStates, SlotsHeld, Bridged
  <2>. HIDE DEF Keeps
  <2>. QED
    BY <1>5, <2>1, <2>2 DEF EscExpires, StdoutEnds, WindowEnds, CloseMaster, Step
<1>6. CASE StdinEnds(b)
  BY <1>3, <1>6 DEF StdinEnds, Step
<1>7. CASE BridgeReturns(b)
  <2>1. Keeps([launch[b] EXCEPT !.phase = "waiting"])
    BY <1>2, <1>7 DEF BridgeReturns, LaunchStates, SlotsHeld, Bridged
  <2>. HIDE DEF Keeps
  <2>. QED
    BY <1>7, <2>1 DEF BridgeReturns, Step
<1>8. CASE ChannelGone(b)
  <2>. DEFINE l == [launch[b] EXCEPT !.ctx = IF Launching(b) THEN "cancelled" ELSE @]
  <2>1. Keeps(l)
    BY <1>2 DEF LaunchStates, SlotsHeld, Bridged
  <2>2. launch' = [launch EXCEPT ![b] = l] /\ used' = used /\ limits' = limits
    BY <1>8 DEF ChannelGone
  <2>. QED
    BY <2>1, <2>2
<1>9. CASE \E end \in {"exited", "failed", "killed"} : ChildExits(b, end)
  <2>1. \A end \in {"exited", "failed", "killed"} : Keeps([launch[b] EXCEPT !.child = end])
    BY <1>2 DEF LaunchStates, SlotsHeld, Bridged
  <2>. HIDE DEF Keeps
  <2>. QED
    BY <1>9, <2>1 DEF ChildExits, Step
<1>. QED
  BY <1>4, <1>5, <1>6, <1>7, <1>8, <1>9

LEMMA CarbonylKept ==
  ASSUME CarbonylInv, [CarbonylNext \/ \E b \in Browsers : Launch(b) \/ TakeAnswer(b)]_carbonylVars
  PROVE  CarbonylInv'
<1>1. CASE UNCHANGED carbonylVars
  BY <1>1 DEF carbonylVars, CarbonylInv, CarbonylTypes, SlotsExact, Held
<1>2. CASE UpdateLimits
  BY <1>2 DEF UpdateLimits, CarbonylInv, CarbonylTypes, SlotsExact, Held
<1>3. ASSUME NEW b \in Browsers, Supervises(b) \/ Browses(b)
      PROVE  CarbonylInv'
  BY <1>3, SlotSteps, BridgeSteps DEF Supervises, Browses
<1>4. ASSUME NEW b \in Browsers, Launch(b) \/ TakeAnswer(b)
      PROVE  CarbonylInv'
  BY <1>4, ScreenSteps
<1>. QED
  BY <1>1, <1>2, <1>3, <1>4 DEF CarbonylNext

\* Whatever is launched, killed, hung up on and reconfigured, the counters of
\* limits.go are the launches that hold a slot, each is given back once, and no
\* child of runner_linux.go runs without one.
THEOREM SlotsAreExact == CarbonylSpec => []SlotsExact
<1>1. CarbonylInit => CarbonylInv
  BY CarbonylStarts
<1>2. CarbonylInv /\ [CarbonylNext \/ \E b \in Browsers : Launch(b) \/ TakeAnswer(b)]_carbonylVars => CarbonylInv'
  BY CarbonylKept
<1>3. CarbonylInv => SlotsExact
  BY DEF CarbonylInv
<1>. QED
  BY <1>1, <1>2, <1>3, PTL DEF CarbonylSpec

-----------------------------------------------------------------------------
(* The sessions.                                                           *)

Frames == [pc : {"none", "starting", "over", "full", "live", "beating", "up"},
           user : Users \union {NoUser}, limit : SessionCaps \union {0},
           counted : BOOLEAN, beats : BOOLEAN, listed : BOOLEAN]

-----------------------------------------------------------------------------
(* The counter.                                                            *)

\* A session is in the counter from its increment to the decrement of the one
\* that was turned away, or to its release.
Holding == {s \in Ids : sess[s].counted \/ sess[s].pc = "over"}

CountInv ==
  /\ sess \in [Ids -> Frames]
  /\ active = Cardinality(Holding)
  /\ \A s \in Ids : sess[s].counted => sess[s].pc \in {"live", "beating", "up"}

LEMMA FreshFrame == Fresh \in Frames
BY DEF Fresh, Frames

LEMMA HoldingFinite == IsFiniteSet(Holding) /\ IsFiniteSet(Counted)
BY SessionAssumption, FS_Subset DEF Holding, Counted

LEMMA CountInit == Init => CountInv
<1> SUFFICES ASSUME Init PROVE CountInv OBVIOUS
<1>1. Holding = {} BY DEF Init, Holding, Fresh
<1>2. Cardinality({}) = 0 BY FS_EmptySet
<1>3. sess \in [Ids -> Frames] BY FreshFrame DEF Init
<1>4. \A s \in Ids : ~sess[s].counted BY DEF Init, Fresh
<1>5. active = 0 BY DEF Init
<1>6. QED BY <1>1, <1>2, <1>3, <1>4, <1>5 DEF CountInv

\* A step that lets who holds a place, and the counter, alone.
LEMMA SameHolders ==
  ASSUME CountInv, NEW s \in Ids, NEW f \in Frames, sess' = [sess EXCEPT ![s] = f],
         active' = active,
         f.counted = sess[s].counted, f.pc = "over" <=> sess[s].pc = "over",
         f.counted => f.pc \in {"live", "beating", "up"}
  PROVE  CountInv'
<1>1. sess' \in [Ids -> Frames] BY DEF CountInv
<1>2. \A d \in Ids : /\ sess'[d].counted = sess[d].counted
                     /\ sess'[d].pc = "over" <=> sess[d].pc = "over"
  BY DEF CountInv
<1>3. Holding' = Holding BY <1>2 DEF Holding
<1>4. \A d \in Ids : sess'[d].counted => sess'[d].pc \in {"live", "beating", "up"}
  BY DEF CountInv
<1>5. QED BY <1>1, <1>3, <1>4 DEF CountInv

\* A step that gives up a place.
LEMMA OneLess ==
  ASSUME CountInv, NEW s \in Ids, NEW f \in Frames, sess' = [sess EXCEPT ![s] = f],
         s \in Holding, active' = active - 1, ~f.counted, f.pc # "over"
  PROVE  CountInv'
<1>1. sess' \in [Ids -> Frames] BY DEF CountInv
<1>2. Holding' = Holding \ {s} BY DEF Holding, CountInv
<1>3. Cardinality(Holding') = Cardinality(Holding) - 1
  BY <1>2, HoldingFinite, FS_RemoveElement
<1>4. \A d \in Ids : sess'[d].counted => sess'[d].pc \in {"live", "beating", "up"}
  BY DEF CountInv
<1>5. QED BY <1>1, <1>3, <1>4 DEF CountInv

\* A step that takes a place.
LEMMA OneMore ==
  ASSUME CountInv, NEW s \in Ids, NEW f \in Frames, sess' = [sess EXCEPT ![s] = f],
         s \notin Holding, active' = active + 1, f.counted \/ f.pc = "over",
         f.counted => f.pc \in {"live", "beating", "up"}
  PROVE  CountInv'
<1>1. sess' \in [Ids -> Frames] BY DEF CountInv
<1>2. Holding' = Holding \union {s} BY DEF Holding, CountInv
<1>3. Cardinality(Holding') = Cardinality(Holding) + 1
  BY <1>2, HoldingFinite, FS_AddElement
<1>4. \A d \in Ids : sess'[d].counted => sess'[d].pc \in {"live", "beating", "up"}
  BY DEF CountInv
<1>5. QED BY <1>1, <1>3, <1>4 DEF CountInv

LEMMA SameSessions ==
  ASSUME CountInv, UNCHANGED <<sess, active>>
  PROVE  CountInv'
BY DEF CountInv, Holding

LEMMA AcquireCounts ==
  ASSUME CountInv, NEW s \in Ids, Acquire(s)
  PROVE  CountInv'
<1> DEFINE f == IF sess[s].limit = 0 \/ active + 1 <= sess[s].limit
                THEN [sess[s] EXCEPT !.pc = "live", !.counted = TRUE]
                ELSE [sess[s] EXCEPT !.pc = "over"]
<1>1. f \in Frames /\ sess' = [sess EXCEPT ![s] = f] /\ active' = active + 1
  BY DEF Acquire, CountInv, Frames
<1>2. s \notin Holding BY DEF Acquire, CountInv, Holding
<1>3. f.counted \/ f.pc = "over" BY DEF CountInv, Frames
<1>4. f.counted => f.pc \in {"live", "beating", "up"} BY DEF CountInv, Frames, Acquire
<1> HIDE DEF f
<1>5. QED BY <1>1, <1>2, <1>3, <1>4, OneMore

LEMMA StepCounts ==
  ASSUME CountInv, NEW s \in Ids, SessionStep(s)
  PROVE  CountInv'
<1>1. CASE \E u \in Users \union {NoUser} : ReadLimit(s, u)
  <2>1. PICK u \in Users \union {NoUser} : ReadLimit(s, u) BY <1>1
  <2>2. PICK limit \in SessionCaps :
          sess' = [sess EXCEPT ![s] = [Fresh EXCEPT !.pc = "starting", !.user = u,
                                                        !.limit = limit]]
    BY <2>1 DEF ReadLimit
  <2> DEFINE f == [Fresh EXCEPT !.pc = "starting", !.user = u, !.limit = limit]
  <2>3. f \in Frames /\ ~f.counted /\ f.counted = Fresh.counted /\ f.pc # "over"
    BY DEF Fresh, Frames
  <2>4. active' = active /\ sess[s] = Fresh /\ sess[s].pc # "over"
    BY <2>1 DEF ReadLimit, Fresh
  <2>5. sess' = [sess EXCEPT ![s] = f] BY <2>2
  <2> HIDE DEF f
  <2>6. f.counted = sess[s].counted BY <2>3, <2>4
  <2>7. (f.pc = "over") <=> (sess[s].pc = "over") BY <2>3, <2>4
  <2>8. QED BY <2>3, <2>4, <2>5, <2>6, <2>7, SameHolders
<1>2. CASE Acquire(s) BY <1>2, AcquireCounts
<1>3. CASE TurnAway(s)
  <2> DEFINE f == [sess[s] EXCEPT !.pc = "full"]
  <2>1. f \in Frames /\ sess' = [sess EXCEPT ![s] = f] /\ active' = active - 1
    BY <1>3 DEF TurnAway, CountInv, Frames
  <2>2. s \in Holding /\ ~f.counted /\ f.pc # "over"
    BY <1>3 DEF TurnAway, CountInv, Holding, Frames
  <2> HIDE DEF f
  <2>3. QED BY <2>1, <2>2, OneLess
<1>4. CASE StartHeartbeat(s)
  <2> DEFINE f == [sess[s] EXCEPT !.beats = TRUE, !.pc = IF s \in Webs THEN "up" ELSE "beating"]
  <2>1. f \in Frames /\ sess' = [sess EXCEPT ![s] = f] /\ active' = active
    BY <1>4 DEF StartHeartbeat, CountInv, Frames
  <2>2. /\ f.counted = sess[s].counted /\ f.pc # "over" /\ sess[s].pc # "over"
        /\ f.pc \in {"live", "beating", "up"}
    BY <1>4 DEF StartHeartbeat, CountInv, Frames
  <2> HIDE DEF f
  <2>3. QED BY <2>1, <2>2, SameHolders
<1>5. CASE Register(s)
  <2> DEFINE f == [sess[s] EXCEPT !.listed = TRUE, !.pc = IF s \in Webs THEN @ ELSE "up"]
  <2>1. f \in Frames /\ sess' = [sess EXCEPT ![s] = f] /\ active' = active
    BY <1>5 DEF Register, CountInv, Frames
  <2>2. /\ f.counted = sess[s].counted /\ f.pc # "over" /\ sess[s].pc # "over"
        /\ f.pc \in {"live", "beating", "up"}
    BY <1>5 DEF Register, CountInv, Frames
  <2> HIDE DEF f
  <2>3. QED BY <2>1, <2>2, SameHolders
<1>6. CASE \E u \in Users : SignedUp(s, u)
  <2>1. PICK u \in Users : SignedUp(s, u) BY <1>6
  <2> DEFINE f == [sess[s] EXCEPT !.user = u, !.beats = TRUE, !.pc = "up"]
  <2>2. f \in Frames /\ sess' = [sess EXCEPT ![s] = f] /\ active' = active
    BY <2>1 DEF SignedUp, CountInv, Frames
  <2>3. /\ f.counted = sess[s].counted /\ f.pc = "up" /\ sess[s].pc # "over"
    BY <2>1 DEF SignedUp, CountInv, Frames
  <2> HIDE DEF f
  <2>4. QED BY <2>2, <2>3, SameHolders
<1>7. CASE Deregister(s)
  <2> DEFINE f == [sess[s] EXCEPT !.listed = FALSE]
  <2>1. f \in Frames /\ sess' = [sess EXCEPT ![s] = f] /\ active' = active
    BY <1>7 DEF Deregister, CountInv, Frames
  <2>2. f.counted = sess[s].counted /\ f.pc = sess[s].pc
    BY <1>7 DEF Deregister, CountInv, Frames
  <2> HIDE DEF f
  <2>3. QED BY <2>1, <2>2, SameHolders DEF CountInv
<1>8. CASE Release(s)
  <2> DEFINE f == [sess[s] EXCEPT !.counted = FALSE]
  <2>1. f \in Frames /\ sess' = [sess EXCEPT ![s] = f] /\ active' = active - 1
    BY <1>8 DEF Release, CountInv, Frames
  <2>2. s \in Holding /\ ~f.counted /\ f.pc # "over"
    BY <1>8 DEF Release, CountInv, Holding, Frames
  <2> HIDE DEF f
  <2>3. QED BY <2>1, <2>2, OneLess
<1>9. CASE Clear(s)
  <2> DEFINE f == [sess[s] EXCEPT !.beats = FALSE]
  <2>1. f \in Frames /\ sess' = [sess EXCEPT ![s] = f] /\ active' = active
    BY <1>9 DEF Clear, CountInv, Frames
  <2>2. f.counted = sess[s].counted /\ f.pc = sess[s].pc
    BY <1>9 DEF Clear, CountInv, Frames
  <2> HIDE DEF f
  <2>3. QED BY <2>1, <2>2, SameHolders DEF CountInv
<1>10. CASE Gone(s)
  <2>1. /\ sess' = [sess EXCEPT ![s] = Fresh] /\ active' = active
        /\ ~sess[s].counted /\ sess[s].pc # "over"
    BY <1>10 DEF Gone
  <2>2. ~Fresh.counted /\ Fresh.pc # "over" BY DEF Fresh
  <2>3. sess[s].counted \in BOOLEAN BY DEF CountInv, Frames
  <2>4. Fresh.counted = sess[s].counted BY <2>1, <2>2, <2>3 DEF Fresh
  <2>5. QED BY <2>1, <2>2, <2>4, FreshFrame, SameHolders
<1>11. QED BY <1>1, <1>2, <1>3, <1>4, <1>5, <1>6, <1>7, <1>8, <1>9, <1>10 DEF SessionStep

LEMMA CountNext == CountInv /\ [Next]_vars => CountInv'
<1> SUFFICES ASSUME CountInv, [Next]_vars PROVE CountInv' OBVIOUS
<1>1. CASE \E s \in Ids : Connect(s) \/ Disconnect(s) \/ SessionStep(s) \/ Beat(s)
  BY <1>1, StepCounts, SameSessions DEF Connect, Disconnect, Beat
<1>2. CASE \E u \in Users : Expire(u) BY <1>2, SameSessions DEF Expire
<1>3. CASE KickStep BY <1>3, SameSessions DEF KickStep, Kick, KickNext, KickDone
<1>4. CASE UNCHANGED vars BY <1>4, SameSessions DEF vars
<1>5. QED BY <1>1, <1>2, <1>3, <1>4 DEF Next

\* Only Acquire counts a session.
LEMMA CountedByAcquire ==
  ASSUME CountInv, [Next]_vars, NEW s \in Ids, ~sess[s].counted, sess'[s].counted
  PROVE  Acquire(s)
<1>1. sess \in [Ids -> Frames] BY DEF CountInv
<1>2. PICK t \in Ids : SessionStep(t)
  BY DEF Next, vars, Connect, Disconnect, Beat, Expire, KickStep, Kick, KickNext, KickDone
<1> DEFINE Uncounting(f) == sess' = [sess EXCEPT ![t] = f] /\ (f.counted => sess[t].counted)
<1>3. ASSUME NEW f, Uncounting(f) PROVE FALSE BY <1>1, <1>3
<1>4. CASE \E u \in Users \union {NoUser} : ReadLimit(t, u)
  <2>1. PICK limit, u : sess' = [sess EXCEPT ![t] = [Fresh EXCEPT !.pc = "starting",
                                                !.user = u, !.limit = limit]]
    BY <1>4 DEF ReadLimit
  <2>2. ~[Fresh EXCEPT !.pc = "starting", !.user = u, !.limit = limit].counted
    BY DEF Fresh
  <2>3. QED BY <2>1, <2>2, <1>3
<1>5. CASE Acquire(t)
  <2>1. CASE t = s BY <1>5, <2>1
  <2>2. CASE t # s BY <1>1, <1>5, <2>2 DEF Acquire
  <2>3. QED BY <2>1, <2>2
<1>6. CASE TurnAway(t) BY <1>1, <1>3, <1>6 DEF TurnAway, Frames
<1>7. CASE StartHeartbeat(t) BY <1>1, <1>3, <1>7 DEF StartHeartbeat, Frames
<1>8. CASE Register(t) BY <1>1, <1>3, <1>8 DEF Register, Frames
<1>9. CASE \E u \in Users : SignedUp(t, u) BY <1>1, <1>3, <1>9 DEF SignedUp, Frames
<1>10. CASE Deregister(t) BY <1>1, <1>3, <1>10 DEF Deregister, Frames
<1>11. CASE Release(t) BY <1>1, <1>3, <1>11 DEF Release, Frames
<1>12. CASE Clear(t) BY <1>1, <1>3, <1>12 DEF Clear, Frames
<1>13. CASE Gone(t)
  <2>1. Uncounting(Fresh) BY <1>13 DEF Gone, Fresh
  <2>2. QED BY <2>1, <1>3
<1>14. QED
  BY <1>2, <1>4, <1>5, <1>6, <1>7, <1>8, <1>9, <1>10, <1>11, <1>12, <1>13 DEF SessionStep

\* SessionCap, for any number of sessions and any change of the cap: who is let in
\* finds, himself included, at most the cap he read (counter.go TryAcquire, also
\* when turned-away sessions have not given their count back yet).
THEOREM NoSessionOverTheCap == Spec => SessionCap
<1>1. ASSUME CountInv, CountInv', [Next]_vars, NEW s \in Ids, ~sess[s].counted,
             sess'[s].counted, sess[s].limit > 0
      PROVE  Cardinality(Counted') <= sess[s].limit
  <2>1. Acquire(s) BY <1>1, CountedByAcquire
  <2>2. sess[s] \in Frames /\ sess' \in [Ids -> Frames] BY <1>1 DEF CountInv
  <2>3. active + 1 <= sess[s].limit
    BY <1>1, <2>1, <2>2 DEF Acquire, CountInv, Frames
  <2>4. Cardinality(Holding') = active + 1 BY <1>1, <2>1 DEF CountInv, Acquire
  <2>5. Counted' \subseteq Holding' BY DEF Counted, Holding
  <2>6. IsFiniteSet(Holding') BY SessionAssumption, FS_Subset DEF Holding
  <2>7. Cardinality(Counted') <= Cardinality(Holding') BY <2>5, <2>6, FS_Subset
  <2>8. sess[s].limit \in Nat
    <3>1. sess[s].limit \in SessionCaps \union {0} BY <2>2 DEF Frames
    <3>2. SessionCaps \union {0} \subseteq Nat BY SessionAssumption
    <3>3. QED BY <3>1, <3>2
  <2>9. Cardinality(Counted') \in Nat BY <2>5, <2>6, FS_Subset, FS_CardinalityType
  <2>10. active \in Nat BY <1>1, HoldingFinite, FS_CardinalityType DEF CountInv
  <2>11. QED BY <2>3, <2>4, <2>7, <2>8, <2>9, <2>10
<1>2. CountInv /\ CountInv' /\ [Next]_vars =>
        \A s \in Ids : ~sess[s].counted /\ sess'[s].counted /\ sess[s].limit > 0
          => Cardinality(Counted') <= sess[s].limit
  BY <1>1
<1>3. QED BY <1>2, CountInit, CountNext, PTL DEF Spec, SessionCap
-----------------------------------------------------------------------------
(* The registry of close functions.                                        *)

\* The row of a user: the part of his array that the slice is about has his
\* registered sessions, each once.
Row(u) == 1 .. len[u]
RowExact(u) ==
  /\ len[u] <= Len(cells[u])
  /\ \A k \in Row(u) : cells[u][k] \in Ids /\ sess[cells[u][k]].listed /\ sess[cells[u][k]].user = u
  /\ \A s \in Ids : sess[s].listed /\ sess[s].user = u => \E k \in Row(u) : cells[u][k] = s
  /\ \A j, k \in Row(u) : cells[u][j] = cells[u][k] => j = k

\* A session that registers, or has, has a user already.
Known(f, web) ==
  f.listed \/ f.pc = "beating" \/ (web /\ f.pc # "none") => f.user # NoUser

RegistryInv ==
  /\ sess \in [Ids -> Frames]
  /\ cells \in [Users -> Seq(Ids \union {NoSession})]
  /\ len \in [Users -> Nat]
  /\ \A s \in Ids : Known(sess[s], s \in Webs)
  /\ \A u \in Users : RowExact(u)

LEMMA RegistryInit == Init => RegistryInv
<1> SUFFICES ASSUME Init PROVE RegistryInv OBVIOUS
<1>1. <<>> \in Seq(Ids \union {NoSession}) /\ Len(<<>>) = 0 BY EmptySeq
<1>2. sess \in [Ids -> Frames] BY FreshFrame DEF Init
<1>3. \A s \in Ids : ~sess[s].listed /\ sess[s].pc = "none" BY DEF Init, Fresh
<1>4. \A u \in Users : cells[u] = <<>> /\ len[u] = 0 BY DEF Init
<1>5. cells \in [Users -> Seq(Ids \union {NoSession})] /\ len \in [Users -> Nat]
  BY <1>1 DEF Init
<1>6. \A u \in Users : RowExact(u) BY <1>1, <1>3, <1>4 DEF RowExact, Row
<1>7. QED BY <1>2, <1>3, <1>5, <1>6 DEF RegistryInv, Known

\* A step of a session that keeps its entry in the registry, or has none.
LEMMA SameEntries ==
  ASSUME RegistryInv, NEW s \in Ids, NEW f \in Frames, sess' = [sess EXCEPT ![s] = f],
         UNCHANGED <<cells, len>>, f.listed = sess[s].listed,
         f.listed => f.user = sess[s].user, Known(f, s \in Webs)
  PROVE  RegistryInv'
<1>1. sess' \in [Ids -> Frames] /\ \A d \in Ids : sess'[d] = IF d = s THEN f ELSE sess[d]
  BY DEF RegistryInv
<1>2. \A d \in Ids : /\ sess'[d].listed = sess[d].listed
                     /\ sess'[d].listed => sess'[d].user = sess[d].user
                     /\ Known(sess'[d], d \in Webs)
  BY <1>1 DEF RegistryInv
<1>3. \A u \in Users : RowExact(u)' BY <1>2 DEF RegistryInv, RowExact, Row
<1>4. QED BY <1>1, <1>2, <1>3 DEF RegistryInv

\* append: the array the slice has, or a larger one that begins with its cells.
Appended(a, n, s) == [Grown(a, n) EXCEPT ![n + 1] = s]

LEMMA GrownHasRoom ==
  ASSUME NEW a \in Seq(Ids \union {NoSession}), NEW n \in Nat, n <= Len(a), NEW s \in Ids
  PROVE  /\ Appended(a, n, s) \in Seq(Ids \union {NoSession}) /\ n + 1 <= Len(Appended(a, n, s))
         /\ Appended(a, n, s)[n + 1] = s
         /\ \A k \in 1 .. n : Appended(a, n, s)[k] = a[k]
<1> DEFINE T == Ids \union {NoSession}
           g == Grown(a, n)
<1>1. Len(a) \in Nat /\ \A k \in 1 .. Len(a) : a[k] \in T BY LenProperties, ElementOfSeq
<1>2. g \in Seq(T) /\ n + 1 <= Len(g) /\ \A k \in 1 .. n : g[k] = a[k]
  <2>1. CASE n < Len(a) BY <1>1, <2>1 DEF Grown
  <2>2. CASE n = Len(a)
    <3> DEFINE m == IF n = 0 THEN 1 ELSE n
               head == SubSeq(a, 1, n)
               room == [k \in 1 .. m |-> NoSession]
    <3>1. head \in Seq(T) /\ Len(head) = n /\ \A k \in 1 .. n : head[k] = a[k]
      <4>1. /\ head \in Seq(T) /\ Len(head) = IF 1 <= n THEN n - 1 + 1 ELSE 0
            /\ \A k \in 1 .. n - 1 + 1 : head[k] = a[1 + k - 1]
        BY <1>1, <2>2, SubSeqProperties
      <4>2. QED BY <4>1
    <3>2. room \in Seq(T) /\ Len(room) = m /\ m \in Nat /\ m >= 1
      <4>1. m \in Nat /\ m >= 1 OBVIOUS
      <4>2. room \in [1 .. m -> T] OBVIOUS
      <4>3. room \in Seq(T) BY <4>1, <4>2, SeqDef
      <4>4. DOMAIN room = 1 .. Len(room) /\ Len(room) \in Nat BY <4>3, LenProperties
      <4>5. Len(room) = m
        <5>1. DOMAIN room = 1 .. m OBVIOUS
        <5> HIDE DEF m, room
        <5>2. m \in 1 .. Len(room) BY <4>1, <4>4, <5>1
        <5>3. Len(room) \in 1 .. m BY <4>1, <4>4, <5>1, <5>2
        <5>4. QED BY <4>1, <5>2, <5>3
      <4>6. QED BY <4>1, <4>3, <4>5
    <3>3. g = head \o room BY <1>1, <2>2 DEF Grown
    <3> HIDE DEF m, head, room, g, T
    <3>4. /\ head \o room \in Seq(T) /\ Len(head \o room) = n + m
          /\ \A k \in 1 .. n + m : (head \o room)[k] = IF k <= n THEN head[k] ELSE room[k - n]
      BY <3>1, <3>2, ConcatProperties
    <3>5. QED BY <3>1, <3>2, <3>3, <3>4
  <2>3. QED BY <1>1, <2>1, <2>2
<1> DEFINE b == [g EXCEPT ![n + 1] = s]
<1>3. n + 1 \in 1 .. Len(g) /\ Len(g) \in Nat /\ s \in T BY <1>2, LenProperties
<1> HIDE DEF g, T
<1>4. b \in Seq(T) /\ Len(b) = Len(g) /\ \A k \in 1 .. Len(g) : b[k] = IF k = n + 1 THEN s ELSE g[k]
  BY <1>2, <1>3, ExceptSeq
<1>5. QED BY <1>2, <1>3, <1>4 DEF Appended, g, T

\* A registration appends an entry to its user's row, and leaves the others'.
LEMMA RegisterEntry ==
  ASSUME RegistryInv, NEW s \in Ids, Register(s)
  PROVE  RegistryInv'
<1>0. PICK u : u = sess[s].user OBVIOUS
<1> DEFINE f == [sess[s] EXCEPT !.listed = TRUE, !.pc = IF s \in Webs THEN @ ELSE "up"]
           b == Appended(cells[u], len[u], s)
<1>1. /\ sess[s] \in Frames /\ u \in Users /\ ~sess[s].listed /\ sess[s].pc # "none"
      /\ cells[u] \in Seq(Ids \union {NoSession}) /\ len[u] \in Nat /\ RowExact(u)
  <2>1. sess[s] \in Frames /\ ~sess[s].listed /\ sess[s].pc # "none" BY DEF Register, RegistryInv
  <2>2. u # NoUser BY <1>0 DEF Register, RegistryInv, Known
  <2>3. u \in Users BY <1>0, <2>1, <2>2 DEF Frames
  <2>4. QED BY <2>1, <2>3 DEF RegistryInv
<1>2. f \in Frames /\ f.listed /\ f.user = u BY <1>0, <1>1 DEF Frames
<1>3. /\ sess' = [sess EXCEPT ![s] = f] /\ cells' = [cells EXCEPT ![u] = b]
      /\ len' = [len EXCEPT ![u] = @ + 1]
  BY <1>0 DEF Register, Appended
<1>4. /\ b \in Seq(Ids \union {NoSession}) /\ len[u] + 1 <= Len(b) /\ b[len[u] + 1] = s
      /\ \A k \in 1 .. len[u] : b[k] = cells[u][k]
  <2>1. len[u] <= Len(cells[u]) BY <1>1 DEF RowExact
  <2>2. QED BY <1>1, <2>1, GrownHasRoom
<1> HIDE DEF f, b
<1>5. /\ sess' \in [Ids -> Frames] /\ \A d \in Ids : sess'[d] = IF d = s THEN f ELSE sess[d]
      /\ cells' \in [Users -> Seq(Ids \union {NoSession})] /\ len' \in [Users -> Nat]
      /\ cells'[u] = b /\ len'[u] = len[u] + 1
      /\ \A v \in Users : v # u => cells'[v] = cells[v] /\ len'[v] = len[v]
  <2>1. sess' \in [Ids -> Frames] /\ \A d \in Ids : sess'[d] = IF d = s THEN f ELSE sess[d]
    BY <1>2, <1>3 DEF RegistryInv
  <2>2. cells' \in [Users -> Seq(Ids \union {NoSession})] /\ cells'[u] = b
    BY <1>1, <1>3, <1>4 DEF RegistryInv
  <2>3. len' \in [Users -> Nat] /\ len'[u] = len[u] + 1 BY <1>1, <1>3 DEF RegistryInv
  <2>4. \A v \in Users : v # u => cells'[v] = cells[v] /\ len'[v] = len[v]
    BY <1>3 DEF RegistryInv
  <2>5. QED BY <2>1, <2>2, <2>3, <2>4
<1>6. sess[s].listed \in BOOLEAN /\ \A d \in Ids : sess[d].listed \in BOOLEAN
  BY DEF RegistryInv, Frames
<1>7. RowExact(u)'
  <2>1. \A k \in 1 .. len[u] + 1 : k \in 1 .. len[u] \/ k = len[u] + 1 BY <1>1
  <2>2. \A k \in 1 .. len[u] : cells[u][k] # s BY <1>1 DEF RowExact, Row
  <2>3. \A k \in 1 .. len[u] + 1 :
          cells'[u][k] \in Ids /\ sess'[cells'[u][k]].listed /\ sess'[cells'[u][k]].user = u
    <3> SUFFICES ASSUME NEW k \in 1 .. len[u] + 1
                 PROVE  cells'[u][k] \in Ids /\ sess'[cells'[u][k]].listed /\ sess'[cells'[u][k]].user = u
      OBVIOUS
    <3>1. CASE k = len[u] + 1 BY <1>2, <1>4, <1>5, <3>1
    <3>2. CASE k \in 1 .. len[u]
      <4>1. /\ cells'[u][k] = cells[u][k] /\ cells[u][k] \in Ids /\ cells[u][k] # s
            /\ sess[cells[u][k]].listed /\ sess[cells[u][k]].user = u
        BY <1>1, <1>4, <1>5, <2>2, <3>2 DEF RowExact, Row
      <4>2. QED BY <1>5, <4>1
    <3>3. QED BY <2>1, <3>1, <3>2
  <2>4. ASSUME NEW d \in Ids, sess'[d].listed, sess'[d].user = u
        PROVE  \E k \in 1 .. len[u] + 1 : cells'[u][k] = d
    <3>1. CASE d = s BY <1>1, <1>4, <1>5, <3>1
    <3>2. CASE d # s
      <4>1. PICK k \in 1 .. len[u] : cells[u][k] = d BY <1>1, <1>5, <2>4, <3>2 DEF RowExact, Row
      <4>2. k \in 1 .. len[u] + 1 /\ cells'[u][k] = d BY <1>1, <1>4, <1>5, <4>1
      <4>3. QED BY <4>2
    <3>3. QED BY <3>1, <3>2
  <2>5. \A j, k \in 1 .. len[u] + 1 : cells'[u][j] = cells'[u][k] => j = k
    <3>1. \A j, k \in 1 .. len[u] : cells[u][j] = cells[u][k] => j = k BY <1>1 DEF RowExact, Row
    <3>2. \A k \in 1 .. len[u] : cells'[u][k] = cells[u][k] BY <1>4, <1>5
    <3>3. cells'[u][len[u] + 1] = s BY <1>4, <1>5
    <3>4. QED BY <2>1, <2>2, <3>1, <3>2, <3>3
  <2>6. QED BY <1>4, <1>5, <2>3, <2>4, <2>5 DEF RowExact, Row
<1>8. ASSUME NEW v \in Users, v # u
      PROVE  RowExact(v)'
  <2>1. RowExact(v) BY DEF RegistryInv
  <2>2. \A k \in Row(v) : cells[v][k] # s BY <1>0, <1>1, <2>1 DEF RowExact
  <2>3. \A d \in Ids : sess'[d].listed /\ sess'[d].user = v => d # s /\ sess'[d] = sess[d]
    BY <1>2, <1>5, <1>8
  <2>4. \A k \in Row(v) : cells'[v][k] = cells[v][k] /\ sess'[cells[v][k]] = sess[cells[v][k]]
    BY <1>5, <1>8, <2>1, <2>2 DEF RowExact
  <2>5. Row(v)' = Row(v) /\ cells'[v] = cells[v] /\ len'[v] = len[v] BY <1>5, <1>8 DEF Row
  <2>6. QED BY <2>1, <2>3, <2>4, <2>5 DEF RowExact
<1>9. \A d \in Ids : Known(sess'[d], d \in Webs)
  <2>1. f.user # NoUser BY <1>1, <1>2, UserAssumption
  <2>2. QED BY <1>5, <2>1 DEF RegistryInv, Known
<1>10. \A v \in Users : RowExact(v)' BY <1>7, <1>8
<1>11. QED BY <1>5, <1>9, <1>10 DEF RegistryInv

\* A deregistration shifts the entries behind its own to the left.
LEMMA DeregisterEntry ==
  ASSUME RegistryInv, NEW s \in Ids, Deregister(s)
  PROVE  RegistryInv'
<1>0. PICK u : u = sess[s].user OBVIOUS
<1> DEFINE n == len[u]
           f == [sess[s] EXCEPT !.listed = FALSE]
<1>1. PICK k \in 1 .. n :
        /\ cells[u][k] = s
        /\ cells' = [cells EXCEPT ![u] = IF n = 1 THEN <<>> ELSE Without(@, n, k)]
  BY <1>0 DEF Deregister
<1>2. /\ sess[s] \in Frames /\ sess[s].listed /\ u \in Users
      /\ cells[u] \in Seq(Ids \union {NoSession}) /\ n \in Nat /\ RowExact(u)
  <2>1. sess[s] \in Frames /\ sess[s].listed BY DEF Deregister, RegistryInv
  <2>2. u # NoUser BY <1>0, <2>1 DEF RegistryInv, Known
  <2>3. u \in Users BY <1>0, <2>1, <2>2 DEF Frames
  <2>4. QED BY <2>1, <2>3 DEF RegistryInv
<1>3. f \in Frames /\ ~f.listed /\ f.user = u /\ f.pc = sess[s].pc BY <1>0, <1>2 DEF Frames
<1>4. sess' = [sess EXCEPT ![s] = f] /\ len' = [len EXCEPT ![u] = @ - 1] BY <1>0 DEF Deregister
<1> DEFINE b == IF n = 1 THEN <<>> ELSE Without(cells[u], n, k)
<1>5. /\ b \in Seq(Ids \union {NoSession}) /\ n - 1 <= Len(b)
      /\ \A j \in 1 .. n - 1 : b[j] = IF j >= k THEN cells[u][j + 1] ELSE cells[u][j]
  <2> DEFINE T == Ids \union {NoSession}
             a == cells[u]
             w == Without(a, n, k)
  <2>1. n <= Len(a) /\ Len(a) \in Nat /\ \A j \in 1 .. Len(a) : a[j] \in T
    BY <1>2, LenProperties, ElementOfSeq DEF RowExact
  <2>2. CASE n = 1 BY <2>2, EmptySeq
  <2>3. CASE n # 1
    <3>1. \A j \in 1 .. Len(a) : j \in k .. n - 1 => j + 1 \in 1 .. Len(a) BY <1>2, <2>1
    <3>2. w = [j \in 1 .. Len(a) |-> IF j \in k .. n - 1 THEN a[j + 1] ELSE a[j]] BY DEF Without
    <3> HIDE DEF a, T, w
    <3>3. w \in [1 .. Len(a) -> T] BY <2>1, <3>1, <3>2
    <3>4. w \in Seq(T) BY <2>1, <3>3, SeqDef
    <3>5. DOMAIN w = 1 .. Len(w) /\ Len(w) \in Nat /\ DOMAIN w = 1 .. Len(a)
      BY <3>3, <3>4, LenProperties
    <3>6. n - 1 <= Len(w)
      <4>1. n - 1 \in 1 .. Len(a) BY <1>1, <1>2, <2>1, <2>3
      <4>2. n - 1 \in 1 .. Len(w) BY <3>5, <4>1
      <4>3. QED BY <3>5, <4>2
    <3>7. \A j \in 1 .. n - 1 : w[j] = IF j >= k THEN a[j + 1] ELSE a[j]
      BY <1>2, <2>1, <3>2
    <3>8. b = w BY <2>3 DEF w, a
    <3>9. QED BY <3>4, <3>6, <3>7, <3>8 DEF T, a
  <2>4. QED BY <2>2, <2>3
<1>6. cells' = [cells EXCEPT ![u] = b] BY <1>1
<1> HIDE DEF f, b, n
<1>7. /\ sess' \in [Ids -> Frames] /\ \A d \in Ids : sess'[d] = IF d = s THEN f ELSE sess[d]
      /\ cells' \in [Users -> Seq(Ids \union {NoSession})] /\ len' \in [Users -> Nat]
      /\ cells'[u] = b /\ len'[u] = n - 1
      /\ \A v \in Users : v # u => cells'[v] = cells[v] /\ len'[v] = len[v]
  <2>1. sess' \in [Ids -> Frames] /\ \A d \in Ids : sess'[d] = IF d = s THEN f ELSE sess[d]
    BY <1>3, <1>4 DEF RegistryInv
  <2>2. cells' \in [Users -> Seq(Ids \union {NoSession})] /\ cells'[u] = b
    BY <1>2, <1>5, <1>6 DEF RegistryInv
  <2>3. len' \in [Users -> Nat] /\ len'[u] = n - 1 BY <1>1, <1>2, <1>4 DEF RegistryInv, n
  <2>4. \A v \in Users : v # u => cells'[v] = cells[v] /\ len'[v] = len[v]
    BY <1>4, <1>6 DEF RegistryInv
  <2>5. QED BY <2>1, <2>2, <2>3, <2>4
<1>8. \A j, i \in 1 .. n : cells[u][j] = cells[u][i] => j = i BY <1>2 DEF RowExact, Row, n
<1>9. \A j \in 1 .. n : cells[u][j] \in Ids /\ sess[cells[u][j]].listed /\ sess[cells[u][j]].user = u
  BY <1>2 DEF RowExact, Row, n
<1>10. RowExact(u)'
  <2> DEFINE from(j) == IF j >= k THEN j + 1 ELSE j
  <2>1. \A j \in 1 .. n - 1 : /\ from(j) \in 1 .. n /\ from(j) # k /\ b[j] = cells[u][from(j)]
    BY <1>1, <1>2, <1>5
  <2>2. \A j, i \in 1 .. n - 1 : from(j) = from(i) => j = i BY <1>1, <1>2
  <2>3. \A i \in 1 .. n : i # k => \E j \in 1 .. n - 1 : from(j) = i
    <3> SUFFICES ASSUME NEW i \in 1 .. n, i # k PROVE \E j \in 1 .. n - 1 : from(j) = i OBVIOUS
    <3>1. CASE i < k BY <1>1, <1>2, <3>1
    <3>2. CASE i > k
      <4>1. i - 1 \in 1 .. n - 1 /\ from(i - 1) = i BY <1>1, <1>2, <3>2
      <4>2. QED BY <4>1
    <3>3. QED BY <1>1, <1>2, <3>1, <3>2
  <2> HIDE DEF from
  <2>4. \A j \in 1 .. n - 1 : b[j] # s BY <1>1, <1>8, <2>1
  <2>5. \A j \in 1 .. n - 1 : b[j] \in Ids /\ sess'[b[j]].listed /\ sess'[b[j]].user = u
    BY <1>7, <1>9, <2>1, <2>4
  <2>6. ASSUME NEW d \in Ids, sess'[d].listed, sess'[d].user = u
        PROVE  \E j \in 1 .. n - 1 : b[j] = d
    <3>1. d # s /\ sess[d].listed /\ sess[d].user = u BY <1>3, <1>7, <2>6
    <3>2. PICK i \in 1 .. n : cells[u][i] = d BY <1>2, <3>1 DEF RowExact, Row, n
    <3>3. i # k BY <1>1, <3>1, <3>2
    <3>4. PICK j \in 1 .. n - 1 : from(j) = i BY <2>3, <3>3
    <3>5. QED BY <2>1, <3>2, <3>4
  <2>7. \A j, i \in 1 .. n - 1 : b[j] = b[i] => j = i BY <1>8, <2>1, <2>2
  <2>8. QED BY <1>5, <1>7, <2>5, <2>6, <2>7 DEF RowExact, Row
<1>11. ASSUME NEW v \in Users, v # u
       PROVE  RowExact(v)'
  <2>1. RowExact(v) BY DEF RegistryInv
  <2>2. \A j \in Row(v) : cells[v][j] # s BY <1>0, <1>11, <2>1 DEF RowExact
  <2>3. \A d \in Ids : sess'[d].listed /\ sess'[d].user = v => d # s /\ sess'[d] = sess[d]
    BY <1>3, <1>7, <1>11
  <2>4. \A j \in Row(v) : cells'[v][j] = cells[v][j] /\ sess'[cells[v][j]] = sess[cells[v][j]]
    BY <1>7, <1>11, <2>1, <2>2 DEF RowExact
  <2>5. Row(v)' = Row(v) /\ cells'[v] = cells[v] /\ len'[v] = len[v] BY <1>7, <1>11 DEF Row
  <2>6. QED BY <2>1, <2>3, <2>4, <2>5 DEF RowExact
<1>12. \A d \in Ids : Known(sess'[d], d \in Webs)
  <2>1. f.user # NoUser BY <1>2, <1>3, UserAssumption
  <2>2. QED BY <1>7, <2>1 DEF RegistryInv, Known
<1>13. \A v \in Users : RowExact(v)' BY <1>10, <1>11
<1>14. QED BY <1>7, <1>12, <1>13 DEF RegistryInv

LEMMA StepRegisters ==
  ASSUME RegistryInv, NEW s \in Ids, SessionStep(s)
  PROVE  RegistryInv'
<1>1. sess[s] \in Frames /\ Known(sess[s], s \in Webs) /\ sess[s].listed \in BOOLEAN
  BY DEF RegistryInv, Frames
<1>2. CASE \E u \in Users \union {NoUser} : ReadLimit(s, u)
  <2>1. PICK u \in Users \union {NoUser} : ReadLimit(s, u) BY <1>2
  <2>2. PICK limit \in SessionCaps :
          sess' = [sess EXCEPT ![s] = [Fresh EXCEPT !.pc = "starting", !.user = u,
                                                        !.limit = limit]]
    BY <2>1 DEF ReadLimit
  <2> DEFINE f == [Fresh EXCEPT !.pc = "starting", !.user = u, !.limit = limit]
  <2>3. f \in Frames /\ f.listed = FALSE /\ f.pc = "starting" /\ f.user = u
    BY DEF Fresh, Frames
  <2>4. sess[s].listed = FALSE /\ UNCHANGED <<cells, len>> BY <2>1 DEF ReadLimit, Fresh
  <2>5. Known(f, s \in Webs) BY <2>1, <2>3 DEF ReadLimit, Known
  <2> HIDE DEF f
  <2>6. QED BY <2>2, <2>3, <2>4, <2>5, SameEntries DEF f
<1>3. CASE Acquire(s) \/ TurnAway(s)
  <2>1. \E f \in {[sess[s] EXCEPT !.pc = "live", !.counted = TRUE], [sess[s] EXCEPT !.pc = "over"],
                  [sess[s] EXCEPT !.pc = "full"]} : sess' = [sess EXCEPT ![s] = f]
    BY <1>3 DEF Acquire, TurnAway
  <2>2. \A f \in {[sess[s] EXCEPT !.pc = "live", !.counted = TRUE], [sess[s] EXCEPT !.pc = "over"],
                  [sess[s] EXCEPT !.pc = "full"]} :
          /\ f \in Frames /\ f.listed = sess[s].listed /\ f.user = sess[s].user
          /\ f.pc # "beating"
    BY <1>1 DEF Frames
  <2>3. PICK f \in Frames : /\ f.listed = sess[s].listed /\ f.user = sess[s].user
                            /\ f.pc # "beating" /\ sess' = [sess EXCEPT ![s] = f]
    BY <2>1, <2>2
  <2>4. sess[s].pc # "none" /\ UNCHANGED <<cells, len>> BY <1>3 DEF Acquire, TurnAway
  <2>5. Known(f, s \in Webs) BY <1>1, <2>3, <2>4 DEF Known
  <2>6. QED BY <2>3, <2>4, <2>5, SameEntries
<1>4. CASE StartHeartbeat(s)
  <2> DEFINE f == [sess[s] EXCEPT !.beats = TRUE, !.pc = IF s \in Webs THEN "up" ELSE "beating"]
  <2>1. f \in Frames /\ f.listed = sess[s].listed /\ f.user = sess[s].user BY <1>1 DEF Frames
  <2>2. /\ sess' = [sess EXCEPT ![s] = f] /\ UNCHANGED <<cells, len>> /\ sess[s].user # NoUser
    BY <1>4 DEF StartHeartbeat
  <2> HIDE DEF f
  <2>3. Known(f, s \in Webs) BY <2>1, <2>2 DEF Known
  <2>4. QED BY <2>1, <2>2, <2>3, SameEntries
<1>5. CASE Register(s) BY <1>5, RegisterEntry
<1>6. CASE \E u \in Users : SignedUp(s, u)
  <2>1. PICK u \in Users : SignedUp(s, u) BY <1>6
  <2> DEFINE f == [sess[s] EXCEPT !.user = u, !.beats = TRUE, !.pc = "up"]
  <2>2. f \in Frames /\ f.listed = sess[s].listed /\ f.user = u BY <1>1 DEF Frames
  <2>3. /\ sess' = [sess EXCEPT ![s] = f] /\ UNCHANGED <<cells, len>> /\ sess[s].user = NoUser
    BY <2>1 DEF SignedUp
  <2> HIDE DEF f
  <2>4. Known(f, s \in Webs) BY <2>2, UserAssumption DEF Known
  <2>5. ~f.listed BY <1>1, <2>2, <2>3 DEF Known
  <2>6. QED BY <2>2, <2>3, <2>4, <2>5, SameEntries
<1>7. CASE Deregister(s) BY <1>7, DeregisterEntry
<1>8. CASE Release(s) \/ Clear(s)
  <2>1. \A f \in {[sess[s] EXCEPT !.counted = FALSE], [sess[s] EXCEPT !.beats = FALSE]} :
          f \in Frames /\ f.listed = sess[s].listed /\ f.user = sess[s].user /\ f.pc = sess[s].pc
    BY <1>1 DEF Frames
  <2>2. \E f \in {[sess[s] EXCEPT !.counted = FALSE], [sess[s] EXCEPT !.beats = FALSE]} :
          sess' = [sess EXCEPT ![s] = f]
    BY <1>8 DEF Release, Clear
  <2>3. PICK f \in Frames : /\ f.listed = sess[s].listed /\ f.user = sess[s].user /\ f.pc = sess[s].pc
                            /\ sess' = [sess EXCEPT ![s] = f]
    BY <2>1, <2>2
  <2>4. UNCHANGED <<cells, len>> BY <1>8 DEF Release, Clear
  <2>5. Known(f, s \in Webs) BY <1>1, <2>3 DEF Known
  <2>6. QED BY <2>3, <2>4, <2>5, SameEntries
<1>9. CASE Gone(s)
  <2>1. /\ sess' = [sess EXCEPT ![s] = Fresh] /\ UNCHANGED <<cells, len>> /\ sess[s].listed = FALSE
    BY <1>1, <1>9 DEF Gone
  <2>2. Fresh.listed = FALSE /\ Fresh.pc = "none" BY DEF Fresh
  <2>3. Known(Fresh, s \in Webs) BY <2>2 DEF Known
  <2>4. QED BY <2>1, <2>2, <2>3, FreshFrame, SameEntries
<1>10. QED BY <1>2, <1>3, <1>4, <1>5, <1>6, <1>7, <1>8, <1>9 DEF SessionStep

LEMMA RegistryNext == RegistryInv /\ [Next]_vars => RegistryInv'
<1> SUFFICES ASSUME RegistryInv, [Next]_vars PROVE RegistryInv' OBVIOUS
<1>1. CASE UNCHANGED <<sess, cells, len>> BY <1>1 DEF RegistryInv, RowExact, Row
<1>2. CASE \E s \in Ids : SessionStep(s) BY <1>2, StepRegisters
<1>3. QED
  BY <1>1, <1>2
     DEF Next, vars, Connect, Disconnect, Beat, Expire, KickStep, Kick, KickNext, KickDone

\* What a row holds once is as many sessions as the row is long.
LEMMA RowCounts ==
  ASSUME RegistryInv, NEW u \in Users
  PROVE  Cardinality({cells[u][k] : k \in 1 .. len[u]}) = len[u]
<1> DEFINE S == {cells[u][k] : k \in 1 .. len[u]}
           row == [k \in 1 .. len[u] |-> cells[u][k]]
<1>1. len[u] \in Nat BY DEF RegistryInv
<1>2. row \in Bijection(1 .. len[u], S)
  <2>1. row \in [1 .. len[u] -> S] OBVIOUS
  <2>2. \A j, k \in 1 .. len[u] : row[j] = row[k] => j = k BY DEF RegistryInv, RowExact, Row
  <2>3. \A x \in S : \E k \in 1 .. len[u] : row[k] = x OBVIOUS
  <2> HIDE DEF S, row
  <2>4. QED BY <2>1, <2>2, <2>3 DEF Bijection, Injection, Surjection, IsInjective
<1>3. ExistsBijection(1 .. len[u], S) BY <1>2 DEF ExistsBijection
<1>4. QED BY <1>1, <1>3, FS_CountingElements

\* RegistryExact, for any sessions and users and however they start, sign up, end
\* and are kicked meanwhile: regs of sessionkick.go holds each registered session
\* of a user once and nothing else.
THEOREM RegistryIsExact == Spec => []RegistryExact
<1>1. RegistryInv => RegistryExact
  <2> SUFFICES ASSUME RegistryInv, NEW u \in Users
               PROVE  /\ {cells[u][k] : k \in 1 .. len[u]} = {s \in Ids : sess[s].listed /\ sess[s].user = u}
                      /\ Cardinality({cells[u][k] : k \in 1 .. len[u]}) = len[u]
    BY DEF RegistryExact
  <2>1. RowExact(u) BY DEF RegistryInv
  <2>2. {cells[u][k] : k \in 1 .. len[u]} = {s \in Ids : sess[s].listed /\ sess[s].user = u}
    BY <2>1 DEF RowExact, Row
  <2>3. QED BY <2>2, RowCounts
<1>2. QED BY <1>1, RegistryInit, RegistryNext, PTL DEF Spec

-----------------------------------------------------------------------------
(* The root models.  A step changes few channels and one session; the      *)
(* lemmas on channels say which, and the invariants are kept part by part. *)

Numbers == Nat \ {0}
ChanStates == [open : BOOLEAN, listed : BOOLEAN, buf : Seq(Numbers), drops : Nat]
TermStates ==
  [state : {"new", "up", "leaving", "quitting", "out", "quit", "lost"}, screen : Dests \cup {"lobby"}, sub : Nat, reads : Nat,
   hand : Nat, banner : Nat, expires : Nat, timers : SUBSET Nat,
   temp : {"none", "fetching", "waiting", "no location"}, moves : Nat]

RootTypes ==
  /\ published \in Nat
  /\ topic \in Seq(Numbers)
  /\ chans \in Seq(ChanStates)
  /\ term \in [Terminals -> TermStates]

\* A session reads its own channel or none, and has one from its start on.
Tuned ==
  \A s \in Terminals :
    /\ term[s].sub \in 0 .. Len(chans) /\ term[s].reads \in {0, term[s].sub}
    /\ term[s].state = "new" <=> term[s].sub = 0

\* No two sessions share a channel.
OwnChannels ==
  \A r, s \in Terminals : term[r].sub = term[s].sub /\ term[s].sub # 0 => r = s

\* Only an open channel is registered.
ListedOpen == \A c \in 1 .. Len(chans) : chans[c].listed => chans[c].open

\* Who may hold a slot.
MayHold(state) == state \in {"up", "leaving", "out", "lost"}

\* SlotsBelong with the numbers of the channels in the place of DOMAIN.
Owned ==
  \A c \in 1 .. Len(chans) : chans[c].listed =>
    \E s \in Terminals : term[s].sub = c /\ MayHold(term[s].state)

RootInv ==
  RootTypes /\ Tuned /\ OwnChannels /\ ListedOpen /\ Owned /\ StillListens
-----------------------------------------------------------------------------
(* Channels and sessions.                                                  *)
LEMMA ChanFields ==
  ASSUME RootTypes, NEW c \in 1 .. Len(chans)
  PROVE  /\ chans[c] \in ChanStates /\ chans[c].open \in BOOLEAN /\ chans[c].listed \in BOOLEAN
         /\ chans[c].buf \in Seq(Numbers) /\ chans[c].drops \in Nat
<1>1. chans[c] \in ChanStates
  BY ElementOfSeq DEF RootTypes
<1>. QED
  BY <1>1 DEF ChanStates

\* Subscribe.
LEMMA Subscribed ==
  ASSUME NEW q \in Seq(ChanStates)
  PROVE  /\ Append(q, NewChan) \in Seq(ChanStates)
         /\ Len(q) \in Nat /\ Len(Append(q, NewChan)) = Len(q) + 1
         /\ \A c \in 1 .. Len(q) : Append(q, NewChan)[c] = q[c]
         /\ Append(q, NewChan)[Len(q) + 1] = NewChan
<1>1. <<>> \in Seq(Numbers)
  BY EmptySeq
<1>2. NewChan \in ChanStates
  BY <1>1 DEF NewChan, ChanStates
<1>. QED
  BY <1>2, AppendProperties, LenProperties

\* The closure that Subscribe returned takes one channel off the map.
LEMMA Delisted ==
  ASSUME RootTypes, NEW c \in 1 .. Len(chans)
  PROVE  /\ Delist(c) \in Seq(ChanStates) /\ Len(Delist(c)) = Len(chans)
         /\ Delist(c)[c] = [chans[c] EXCEPT !.listed = FALSE]
         /\ \A d \in 1 .. Len(chans) : d # c => Delist(c)[d] = chans[d]
<1>. DEFINE e == [chans[c] EXCEPT !.listed = FALSE]
<1>1. e \in ChanStates
  BY ChanFields DEF ChanStates
<1>2. Delist(c) = [chans EXCEPT ![c] = e]
  BY DEF Delist
<1>3. chans \in Seq(ChanStates)
  BY DEF RootTypes
<1>. HIDE DEF e
<1>4. /\ Delist(c) \in Seq(ChanStates) /\ Len(Delist(c)) = Len(chans)
      /\ \A d \in 1 .. Len(chans) : Delist(c)[d] = IF d = c THEN e ELSE chans[d]
  BY <1>1, <1>2, <1>3, ExceptSeq
<1>. QED
  BY <1>4 DEF e

\* Offer: a broadcast is buffered or dropped; only a channel whose buffer has
\* something left is closed.
LEMMA OfferedIs ==
  ASSUME NEW c \in ChanStates, NEW b \in Numbers
  PROVE  LET o == Offered(c, b)
         IN  /\ o \in ChanStates
             /\ o.buf \in {c.buf, Append(c.buf, b)}
             /\ o.listed => c.listed
             /\ c.listed => o.listed \/ o.buf # <<>>
             /\ o.listed /\ c.open => o.open
<1>. DEFINE more == [c EXCEPT !.buf = Append(@, b), !.drops = 0]
            last == [c EXCEPT !.drops = @ + 1, !.open = FALSE, !.listed = FALSE]
            drop == [c EXCEPT !.drops = @ + 1]
<1>1. c.buf \in Seq(Numbers) /\ c.drops \in Nat /\ c.open \in BOOLEAN /\ c.listed \in BOOLEAN
  BY DEF ChanStates
<1>2. Append(c.buf, b) \in Seq(Numbers) /\ Append(c.buf, b) # <<>>
  BY <1>1, AppendProperties
<1>3. /\ more \in ChanStates /\ last \in ChanStates /\ drop \in ChanStates
      /\ more.buf = Append(c.buf, b) /\ more.listed = c.listed /\ more.open = c.open
      /\ last.buf = c.buf /\ last.listed = FALSE /\ last.open = FALSE
      /\ drop.buf = c.buf /\ drop.listed = c.listed /\ drop.open = c.open
  <2>1. \A q \in Seq(Numbers) : LET m == [c EXCEPT !.buf = q, !.drops = 0] IN
          m \in ChanStates /\ m.buf = q /\ m.listed = c.listed /\ m.open = c.open
    BY DEF ChanStates
  <2>2. \A n \in Nat : LET m == [c EXCEPT !.drops = n, !.open = FALSE, !.listed = FALSE] IN
          m \in ChanStates /\ m.buf = c.buf /\ m.listed = FALSE /\ m.open = FALSE
    BY DEF ChanStates
  <2>3. \A n \in Nat : LET m == [c EXCEPT !.drops = n] IN
          m \in ChanStates /\ m.buf = c.buf /\ m.listed = c.listed /\ m.open = c.open
    BY DEF ChanStates
  <2>4. c.drops + 1 \in Nat
    BY <1>1
  <2>. QED
    BY <1>2, <2>1, <2>2, <2>3, <2>4
<1>4. Offered(c, b) = IF Len(c.buf) < BufferSize THEN more
                      ELSE IF c.drops + 1 >= EvictAfter THEN last ELSE drop
  BY DEF Offered
<1>5. Len(c.buf) >= BufferSize => c.buf # <<>>
  BY <1>1, RootAssumption, EmptySeq
<1>6. Len(c.buf) \in Nat
  BY <1>1, LenProperties
<1>. HIDE DEF more, last, drop
<1>. QED
  BY <1>1, <1>2, <1>3, <1>4, <1>5, <1>6, RootAssumption

LEMMA TermFields ==
  ASSUME RootTypes, NEW s \in Terminals
  PROVE  /\ term[s] \in TermStates /\ term[s].sub \in Nat /\ term[s].reads \in Nat
         /\ term[s].hand \in Nat /\ term[s].banner \in Nat /\ term[s].expires \in Nat
         /\ term[s].timers \subseteq Nat /\ term[s].moves \in Nat
  BY DEF RootTypes, TermStates

\* What the steps write of a session leaves it one.
Started(t, n) == [t EXCEPT !.state = "up", !.sub = n, !.reads = n, !.temp = "fetching"]
Shown(t, n, h, y) ==
  [t EXCEPT !.hand = 0, !.banner = t.hand, !.expires = h, !.timers = @ \cup {h},
            !.sub = n, !.reads = n, !.state = y]
Stay(t) == IF t.state = "quitting" THEN "leaving" ELSE t.state
Routed(t, x, y) == [t EXCEPT !.moves = @ + 1, !.screen = x, !.state = y]

RootStates == {"new", "up", "leaving", "quitting", "out", "quit", "lost"}

\* What EXCEPT does to the state, and nothing else.
InStateOf(v, u, z) ==
  /\ v \in TermStates /\ v.state = z /\ v.sub = u.sub /\ v.reads = u.reads
  /\ v.hand = u.hand /\ v.banner = u.banner

LEMMA StateWrites ==
  ASSUME NEW u \in TermStates, NEW z \in RootStates
  PROVE  InStateOf([u EXCEPT !.state = z], u, z)
<1>1. [u EXCEPT !.state = z] \in TermStates
  BY DEF TermStates, RootStates
<1>2. LET v == [u EXCEPT !.state = z] IN
        v.state = z /\ v.sub = u.sub /\ v.reads = u.reads /\ v.hand = u.hand /\ v.banner = u.banner
  BY Zenon DEF TermStates
<1>. QED
  BY <1>1, <1>2 DEF InStateOf

LEMMA StartWrites ==
  ASSUME NEW t \in TermStates, NEW n \in Nat
  PROVE  LET u == Started(t, n)
         IN  u \in TermStates /\ u.sub = n /\ u.reads = n /\ u.state = "up"
             /\ u.hand = t.hand /\ u.banner = t.banner
<1>1. \A u \in TermStates : [u EXCEPT !.sub = n, !.reads = n] \in TermStates
  BY DEF TermStates
<1>2. \A u \in TermStates : [u EXCEPT !.state = "up", !.temp = "fetching"] \in TermStates
  BY DEF TermStates
<1>3. LET u == Started(t, n)
      IN  /\ u = [[t EXCEPT !.sub = n, !.reads = n] EXCEPT !.state = "up", !.temp = "fetching"]
          /\ u.sub = n /\ u.reads = n /\ u.state = "up" /\ u.hand = t.hand /\ u.banner = t.banner
  BY Zenon DEF TermStates, Started
<1>. QED
  BY <1>1, <1>2, <1>3

IsShown(u, t, n, y) ==
  /\ u \in TermStates /\ u.sub = n /\ u.reads = n /\ u.state = y
  /\ u.hand = 0 /\ u.banner = t.hand

LEMMA ShowWrites ==
  ASSUME NEW t \in TermStates, NEW n \in Nat, NEW h \in Nat, NEW y \in {"up", "leaving"}
  PROVE  IsShown(Shown(t, n, h, y), t, n, y)
<1>1. \A u \in TermStates : [u EXCEPT !.sub = n, !.reads = n] \in TermStates
  BY DEF TermStates
<1>2. \A u \in TermStates : [u EXCEPT !.hand = 0, !.banner = u.hand] \in TermStates
  BY DEF TermStates
<1>3. \A u \in TermStates : [u EXCEPT !.expires = h, !.timers = u.timers \cup {h}] \in TermStates
  BY DEF TermStates
<1>4. \A u \in TermStates : [u EXCEPT !.state = y] \in TermStates
  BY StateWrites DEF RootStates, InStateOf
<1>5. LET u == Shown(t, n, h, y)
          v == [t EXCEPT !.hand = 0, !.banner = t.hand]
          w == [[v EXCEPT !.expires = h, !.timers = v.timers \cup {h}] EXCEPT !.sub = n, !.reads = n]
      IN  /\ u = [w EXCEPT !.state = y]
          /\ u.sub = n /\ u.reads = n /\ u.state = y /\ u.hand = 0 /\ u.banner = t.hand
  BY Zenon DEF TermStates, Shown
<1>. QED
  BY <1>1, <1>2, <1>3, <1>4, <1>5 DEF IsShown

LEMMA RouteWrites ==
  ASSUME NEW t \in TermStates, NEW x \in Dests \cup {"lobby"}, NEW y \in RootStates
  PROVE  LET u == Routed(t, x, y)
         IN  u \in TermStates /\ u.sub = t.sub /\ u.reads = t.reads /\ u.state = y
             /\ u.hand = t.hand /\ u.banner = t.banner
<1>1. \A u \in TermStates : [u EXCEPT !.moves = u.moves + 1] \in TermStates
  <2>1. \A u \in TermStates : u.moves \in Nat
    BY DEF TermStates
  <2>2. \A u \in TermStates, k \in Nat : [u EXCEPT !.moves = k] \in TermStates
    BY DEF TermStates
  <2>. QED
    BY <2>1, <2>2
<1>2. \A u \in TermStates : [u EXCEPT !.screen = x] \in TermStates
  BY DEF TermStates
<1>3. \A u \in TermStates : [u EXCEPT !.state = y] \in TermStates
  BY StateWrites DEF InStateOf
<1>4. LET u == Routed(t, x, y)
      IN  /\ u = [[[t EXCEPT !.moves = t.moves + 1] EXCEPT !.screen = x] EXCEPT !.state = y]
          /\ u.sub = t.sub /\ u.reads = t.reads /\ u.state = y /\ u.hand = t.hand /\ u.banner = t.banner
  BY Zenon DEF TermStates, Routed
<1>. QED
  BY <1>1, <1>2, <1>3, <1>4
-----------------------------------------------------------------------------
(* The kinds of step.                                                      *)
\* Nothing happens to the channels, and a session keeps its own: it shows,
\* waits or moves about, is told to quit or has ended.
LEMMA OnlySession ==
  ASSUME RootInv, NEW s \in Terminals, NEW t \in TermStates,
         term' = [term EXCEPT ![s] = t], UNCHANGED <<published, topic, chans>>,
         t.sub = term[s].sub, t.reads \in {0, t.sub}, t.state = "new" <=> t.sub = 0,
         t.state = "up" => term[s].state = "up",
         MayHold(term[s].state) => MayHold(t.state),
         t.reads = term[s].reads, t.hand = term[s].hand
  PROVE  RootInv'
<1>. USE DEF RootInv
<1>1. term' \in [Terminals -> TermStates] /\ \A r \in Terminals : term'[r] = IF r = s THEN t ELSE term[r]
  BY DEF RootTypes
<1>2. RootTypes'
  BY <1>1 DEF RootTypes
<1>3. Tuned' /\ OwnChannels' /\ ListedOpen'
  BY <1>1 DEF Tuned, OwnChannels, ListedOpen
<1>4. Owned'
  BY <1>1 DEF Owned
<1>5. StillListens'
  BY <1>1 DEF StillListens, InState
<1>. QED
  BY <1>2, <1>3, <1>4, <1>5


\* A session starts, or shows what it got and subscribes again: it has a fresh
\* channel, and the one it had is off the map.
LEMMA FreshChannel ==
  ASSUME RootInv, NEW s \in Terminals, NEW t \in TermStates, NEW q \in Seq(ChanStates),
         Len(q) = Len(chans),
         term' = [term EXCEPT ![s] = t], chans' = Append(q, NewChan),
         UNCHANGED <<published, topic>>,
         t.sub = Len(chans) + 1, t.reads = Len(chans) + 1, t.state \in {"up", "leaving"},
         \A c \in 1 .. Len(chans) : c # term[s].sub => q[c] = chans[c],
         term[s].sub # 0 => ~q[term[s].sub].listed
  PROVE  RootInv'
<1>. USE DEF RootInv
<1>1. term' \in [Terminals -> TermStates] /\ \A r \in Terminals : term'[r] = IF r = s THEN t ELSE term[r]
  BY DEF RootTypes
<1>2. /\ chans' \in Seq(ChanStates)
      /\ Len(chans) \in Nat /\ Len(chans') = Len(chans) + 1
      /\ \A c \in 1 .. Len(chans) : chans'[c] = q[c]
      /\ chans'[Len(chans) + 1] = NewChan
  BY Subscribed
<1>3. RootTypes'
  BY <1>1, <1>2 DEF RootTypes
<1>4. \A r \in Terminals : term[r].sub \in 0 .. Len(chans) /\ term[r].reads \in {0, term[r].sub}
  BY DEF Tuned
<1>5. Tuned'
  BY <1>1, <1>2, <1>4 DEF Tuned
<1>6. OwnChannels'
  BY <1>1, <1>2, <1>4 DEF OwnChannels
<1>7. \A c \in 1 .. Len(chans) : chans'[c].listed => c # term[s].sub /\ chans'[c] = chans[c]
  BY <1>2, <1>4
<1>8. \A c \in 1 .. Len(chans') : c \in 1 .. Len(chans) \/ c = Len(chans) + 1
  BY <1>2
<1>9. ListedOpen'
  BY <1>2, <1>7, <1>8 DEF ListedOpen, NewChan
<1>10. Owned'
  <2>1. ASSUME NEW c \in 1 .. Len(chans), chans'[c].listed
        PROVE  \E r \in Terminals : term'[r].sub = c /\ MayHold(term'[r].state)
    <3>1. PICK r \in Terminals : term[r].sub = c /\ MayHold(term[r].state)
      BY <1>7, <2>1 DEF Owned
    <3>. QED
      BY <1>1, <1>7, <2>1, <3>1
  <2>2. \E r \in Terminals : term'[r].sub = Len(chans) + 1 /\ MayHold(term'[r].state)
    BY <1>1 DEF MayHold
  <2>. QED
    BY <1>8, <2>1, <2>2 DEF Owned
<1>11. StillListens'
  <2>. SUFFICES ASSUME NEW r \in Terminals, term'[r].state = "up"
                PROVE  \/ term'[r].hand # NoBanner
                       \/ /\ term'[r].reads = term'[r].sub
                          /\ chans'[term'[r].sub].listed \/ chans'[term'[r].sub].buf # <<>>
    BY DEF StillListens, InState
  <2>1. CASE r = s
    BY <1>1, <1>2, <2>1 DEF NewChan
  <2>2. CASE r # s
    <3>1. term'[r] = term[r] /\ term[r].state = "up"
      BY <1>1, <2>2
    <3>2. term[r].sub \in 1 .. Len(chans)
      BY <1>2, <1>4, <3>1 DEF Tuned
    <3>3. term[r].sub # term[s].sub
      BY <2>2, <3>2 DEF OwnChannels
    <3>4. chans'[term[r].sub] = chans[term[r].sub]
      BY <1>2, <3>2, <3>3
    <3>. QED
      BY <3>1, <3>4 DEF StillListens, InState
  <2>. QED
    BY <2>1, <2>2
<1>. QED
  BY <1>3, <1>5, <1>6, <1>9, <1>10, <1>11

\* A session hangs up or takes what its channel has: the channels of the others
\* are as they were.
LEMMA OneChannel ==
  ASSUME RootInv, NEW s \in Terminals, NEW t \in TermStates,
         NEW c \in 1 .. Len(chans), NEW e \in ChanStates,
         term' = [term EXCEPT ![s] = t], chans' = [chans EXCEPT ![c] = e],
         UNCHANGED <<published, topic>>,
         term[s].sub = c, t.sub = c, t.reads \in {0, c}, t.state # "new",
         e.listed => chans[c].listed /\ t.state = term[s].state,
         t.state = "up" => t.hand # NoBanner, e.open = chans[c].open
  PROVE  RootInv'
<1>. USE DEF RootInv
<1>1. term' \in [Terminals -> TermStates] /\ \A r \in Terminals : term'[r] = IF r = s THEN t ELSE term[r]
  BY DEF RootTypes
<1>2. /\ chans' \in Seq(ChanStates) /\ Len(chans') = Len(chans) /\ Len(chans) \in Nat
      /\ \A d \in 1 .. Len(chans) : chans'[d] = IF d = c THEN e ELSE chans[d]
  BY ExceptSeq, LenProperties DEF RootTypes
<1>3. RootTypes'
  BY <1>1, <1>2 DEF RootTypes
<1>4. Tuned' /\ OwnChannels'
  BY <1>1, <1>2 DEF Tuned, OwnChannels
<1>5. ListedOpen'
  BY <1>2 DEF ListedOpen
<1>6. Owned'
  <2>. SUFFICES ASSUME NEW d \in 1 .. Len(chans), chans'[d].listed
                PROVE  \E r \in Terminals : term'[r].sub = d /\ MayHold(term'[r].state)
    BY <1>2 DEF Owned
  <2>1. chans[d].listed
    BY <1>2
  <2>2. PICK r \in Terminals : term[r].sub = d /\ MayHold(term[r].state)
    BY <2>1 DEF Owned
  <2>3. r = s => d = c
    BY <2>2
  <2>. QED
    BY <1>1, <1>2, <2>2, <2>3
<1>7. StillListens'
  <2>. SUFFICES ASSUME NEW r \in Terminals, term'[r].state = "up", r # s
                PROVE  \/ term'[r].hand # NoBanner
                       \/ /\ term'[r].reads = term'[r].sub
                          /\ chans'[term'[r].sub].listed \/ chans'[term'[r].sub].buf # <<>>
    BY <1>1 DEF StillListens, InState
  <2>1. term'[r] = term[r] /\ term[r].state = "up"
    BY <1>1
  <2>2. term[r].sub \in 1 .. Len(chans)
    BY <1>2, <2>1 DEF Tuned
  <2>3. term[r].sub # c
    BY <2>2 DEF OwnChannels
  <2>. QED
    BY <1>2, <2>1, <2>2, <2>3 DEF StillListens, InState
<1>. QED
  BY <1>3, <1>4, <1>5, <1>6, <1>7


\* The dispatcher hands a broadcast to whoever is registered.
LEMMA FanoutKeeps == ASSUME RootInv, Fanout PROVE RootInv'
<1>. USE DEF RootInv
<1>1. topic \in Seq(Numbers) /\ topic # <<>> /\ UNCHANGED <<published, term>>
  BY DEF Fanout, RootTypes
<1>2. Head(topic) \in Numbers /\ topic' \in Seq(Numbers)
  BY <1>1, HeadTailProperties DEF Fanout
<1>3. Len(chans) \in Nat /\ DOMAIN chans = 1 .. Len(chans)
  BY LenProperties DEF RootTypes
<1>4. \A c \in 1 .. Len(chans) :
        chans'[c] = IF chans[c].listed THEN Offered(chans[c], Head(topic)) ELSE chans[c]
  BY <1>3 DEF Fanout
<1>5. ASSUME NEW c \in 1 .. Len(chans)
      PROVE  /\ chans'[c] \in ChanStates
             /\ chans'[c].listed => chans[c].listed
             /\ chans[c].listed => chans'[c].listed \/ chans'[c].buf # <<>>
             /\ ~chans[c].listed => chans'[c] = chans[c]
             /\ chans'[c].listed => chans'[c].open
  <2>1. chans[c] \in ChanStates
    BY ChanFields
  <2>2. chans[c].listed => chans[c].open
    BY DEF ListedOpen
  <2>. QED
    BY <1>2, <1>4, <2>1, <2>2, OfferedIs
<1>6. DOMAIN chans' = 1 .. Len(chans)
  BY <1>3 DEF Fanout
<1>7. chans' \in [1 .. Len(chans) -> ChanStates]
  <2>1. chans' = [c \in 1 .. Len(chans) |->
                    IF chans[c].listed THEN Offered(chans[c], Head(topic)) ELSE chans[c]]
    BY <1>3 DEF Fanout
  <2>. QED
    BY <1>4, <1>5, <2>1
<1>8. chans' \in Seq(ChanStates) /\ Len(chans') = Len(chans)
  <2>1. chans' \in Seq(ChanStates)
    BY <1>3, <1>7, SeqDef
  <2>2. DOMAIN chans' = 1 .. Len(chans') /\ Len(chans') \in Nat
    BY <2>1, LenProperties
  <2>. QED
    BY <1>3, <1>6, <2>1, <2>2
<1>9. RootTypes'
  BY <1>1, <1>2, <1>8 DEF RootTypes
<1>10. Tuned' /\ OwnChannels'
  BY <1>1, <1>8 DEF Tuned, OwnChannels
<1>11. ListedOpen' /\ Owned'
  BY <1>1, <1>5, <1>8 DEF ListedOpen, Owned
<1>12. StillListens'
  <2>. SUFFICES ASSUME NEW s \in Terminals, term[s].state = "up", term[s].hand = NoBanner
                PROVE  /\ term[s].reads = term[s].sub
                       /\ chans'[term[s].sub].listed \/ chans'[term[s].sub].buf # <<>>
    BY <1>1 DEF StillListens, InState
  <2>1. term[s].sub \in 1 .. Len(chans)
    BY <1>3 DEF Tuned
  <2>2. term[s].reads = term[s].sub /\ (chans[term[s].sub].listed \/ chans[term[s].sub].buf # <<>>)
    BY DEF StillListens, InState
  <2>. QED
    BY <1>5, <2>1, <2>2
<1>. QED
  BY <1>9, <1>10, <1>11, <1>12

\* waitWallCmd takes the oldest broadcast of the channel, or finds it closed.
LEMMA WaitWallKeeps ==
  ASSUME RootInv, NEW s \in Terminals, WaitWall(s) PROVE RootInv'
<1>. USE DEF RootInv
<1>. DEFINE c == term[s].reads
<1>1. /\ c \in 1 .. Len(chans) /\ c = term[s].sub /\ term[s].state # "new"
      /\ UNCHANGED <<published, topic>>
  BY LenProperties DEF WaitWall, Tuned, RootTypes
<1>2. CASE chans[c].buf # <<>>
  <2>. DEFINE t == [term[s] EXCEPT !.reads = 0, !.hand = Head(chans[c].buf)]
              e == [chans[c] EXCEPT !.buf = Tail(@)]
  <2>1. chans[c].buf \in Seq(Numbers) /\ chans[c] \in ChanStates
    BY <1>1, ChanFields
  <2>2. Head(chans[c].buf) \in Numbers /\ Tail(chans[c].buf) \in Seq(Numbers)
    BY <1>2, <2>1, HeadTailProperties
  <2>3. e \in ChanStates /\ e.listed = chans[c].listed /\ e.open = chans[c].open
    BY <2>1, <2>2 DEF ChanStates
  <2>4. /\ t \in TermStates /\ t.sub = term[s].sub /\ t.reads = 0 /\ t.state = term[s].state
        /\ t.hand # NoBanner
    <3>1. term[s] \in TermStates
      BY TermFields
    <3>. QED
      BY <2>2, <3>1 DEF TermStates, Numbers, NoBanner
  <2>5. term' = [term EXCEPT ![s] = t] /\ chans' = [chans EXCEPT ![c] = e]
    BY <1>2 DEF WaitWall
  <2>. HIDE DEF t, e, c
  <2>. QED
    BY <1>1, <2>3, <2>4, <2>5, OneChannel
<1>3. CASE chans[c].buf = <<>>
  <2>1. ~chans[c].open /\ UNCHANGED chans
    BY <1>3 DEF WaitWall
  <2>2. ~chans[c].listed
    BY <1>1, <2>1 DEF ListedOpen
  <2>3. term[s].state # "up" \/ term[s].hand # NoBanner
    BY <1>1, <1>3, <2>2 DEF StillListens, InState
  <2>. DEFINE t == [term[s] EXCEPT !.reads = 0]
  <2>4. /\ t \in TermStates /\ t.sub = term[s].sub /\ t.reads = 0 /\ t.state = term[s].state
        /\ t.hand = term[s].hand /\ term' = [term EXCEPT ![s] = t]
    <3>1. term[s] \in TermStates
      BY TermFields
    <3>2. term' = [term EXCEPT ![s] = t]
      BY <1>3 DEF WaitWall
    <3>. QED
      BY <3>1, <3>2 DEF TermStates
  <2>5. chans[c] \in ChanStates /\ chans' = [chans EXCEPT ![c] = chans[c]]
    <3>1. chans = [d \in 1 .. Len(chans) |-> chans[d]]
      BY LenProperties DEF RootTypes
    <3>. QED
      BY <1>1, <2>1, <3>1, ChanFields
  <2>. HIDE DEF t, c
  <2>. QED
    BY <1>1, <2>2, <2>3, <2>4, <2>5, OneChannel
<1>. QED
  BY <1>2, <1>3


LEMMA RootStarts == ASSUME RootInit PROVE RootInv
<1>1. chans = <<>> /\ topic = <<>> /\ Len(chans) = 0
  BY EmptySeq DEF RootInit
<1>2. chans \in Seq(ChanStates) /\ topic \in Seq(Numbers)
  BY <1>1, EmptySeq
<1>3. term \in [Terminals -> TermStates]
  BY DEF RootInit, TermStates, NoBanner
<1>4. RootTypes
  BY <1>2, <1>3 DEF RootTypes, RootInit
<1>5. \A s \in Terminals : term[s].sub = 0 /\ term[s].reads = 0 /\ term[s].state = "new"
  BY DEF RootInit
<1>6. Tuned /\ OwnChannels /\ StillListens
  BY <1>1, <1>5 DEF Tuned, OwnChannels, StillListens, InState
<1>7. ListedOpen /\ Owned
  BY <1>1 DEF ListedOpen, Owned
<1>. QED
  BY <1>4, <1>6, <1>7 DEF RootInv

\* What changes the channels of one session.
LEMMA SessionSteps ==
  ASSUME RootInv, NEW s \in Terminals, StartSession(s) \/ WallRecv(s) \/ CtrlC(s)
  PROVE  RootInv'
<1>1. /\ term[s] \in TermStates /\ chans \in Seq(ChanStates) /\ Len(chans) \in Nat
      /\ term[s].sub \in 0 .. Len(chans) /\ (term[s].state = "new" <=> term[s].sub = 0)
  BY TermFields, LenProperties DEF RootInv, RootTypes, Tuned
<1>2. CASE StartSession(s)
  <2>. DEFINE t == Started(term[s], Len(chans) + 1)
  <2>1. t \in TermStates /\ t.sub = Len(chans) + 1 /\ t.reads = Len(chans) + 1 /\ t.state = "up"
    <3>1. Len(chans) + 1 \in Nat
      BY <1>1
    <3>. QED
      BY <1>1, <3>1, StartWrites
  <2>2. term' = [term EXCEPT ![s] = t] /\ term[s].sub = 0
    BY <1>1, <1>2 DEF StartSession, InState, Started
  <2>. HIDE DEF t
  <2>. QED
    BY <1>1, <1>2, <2>1, <2>2, FreshChannel DEF StartSession
<1>3. CASE WallRecv(s)
  <2>. DEFINE y == Stay(term[s])
              t == Shown(term[s], Len(chans) + 1, WallTTL, y)
              q == Delist(term[s].sub)
  <2>1. t \in TermStates /\ t.sub = Len(chans) + 1 /\ t.reads = Len(chans) + 1
        /\ t.state \in {"up", "leaving"}
    <3>1. y \in {"up", "leaving"} /\ WallTTL \in Nat /\ Len(chans) + 1 \in Nat
      BY <1>1, <1>3, RootAssumption DEF WallRecv, Running, Stay
    <3>. HIDE DEF y
    <3>2. PICK n \in Nat, z \in {"up", "leaving"}, h \in Nat, u \in TermStates :
            n = Len(chans) + 1 /\ z = y /\ h = WallTTL /\ u = term[s]
      BY <1>1, <3>1
    <3>3. IsShown(Shown(u, n, h, z), u, n, z)
      BY ShowWrites
    <3>. QED
      BY <3>1, <3>2, <3>3 DEF IsShown
  <2>2. term' = [term EXCEPT ![s] = t] /\ chans' = Append(q, NewChan)
    BY <1>3 DEF WallRecv, RearmWall, Shown, NoBanner, Stay
  <2>3. term[s].sub \in 1 .. Len(chans)
    BY <1>1, <1>3 DEF WallRecv, Running
  <2>4. /\ q \in Seq(ChanStates) /\ Len(q) = Len(chans) /\ ~q[term[s].sub].listed
        /\ \A c \in 1 .. Len(chans) : c # term[s].sub => q[c] = chans[c]
    <3>1. chans[term[s].sub] \in ChanStates
      BY <2>3, ChanFields DEF RootInv
    <3>. QED
      BY <2>3, <3>1, Delisted DEF RootInv, ChanStates
  <2>. HIDE DEF t, q, y
  <2>. QED
    BY <1>3, <2>1, <2>2, <2>4, FreshChannel DEF WallRecv
<1>4. CASE CtrlC(s)
  <2>. DEFINE t == [term[s] EXCEPT !.state = "quitting"]
              e == [chans[term[s].sub] EXCEPT !.listed = FALSE]
  <2>1. t \in TermStates /\ t.sub = term[s].sub /\ t.reads = term[s].reads /\ t.state = "quitting"
    <3>1. "quitting" \in RootStates
      BY DEF RootStates
    <3>. QED
      BY <1>1, <3>1, StateWrites DEF InStateOf
  <2>2. term[s].sub \in 1 .. Len(chans) /\ term[s].reads \in {0, term[s].sub}
    BY <1>1, <1>4 DEF CtrlC, InState, RootInv, Tuned
  <2>3. e \in ChanStates /\ e.listed = FALSE /\ e.open = chans[term[s].sub].open
    <3>1. chans[term[s].sub] \in ChanStates
      BY <2>2, ChanFields DEF RootInv
    <3>. QED
      BY <3>1 DEF ChanStates
  <2>4. term' = [term EXCEPT ![s] = t] /\ chans' = [chans EXCEPT ![term[s].sub] = e]
    BY <1>4 DEF CtrlC, Delist
  <2>. HIDE DEF t, e
  <2>5. UNCHANGED <<published, topic>>
    BY <1>4 DEF CtrlC
  <2>6. t.reads \in {0, term[s].sub} /\ t.state # "new" /\ t.state # "up"
    BY <2>1, <2>2
  <2>. QED
    BY <2>1, <2>2, <2>3, <2>4, <2>5, <2>6, OneChannel
<1>. QED
  BY <1>2, <1>3, <1>4

\* What leaves the channels alone.
LEMMA ScreenMoves ==
  ASSUME RootInv, NEW s \in Terminals,
         \/ WallExpire(s) \/ StatusTemp(s) \/ Quit(s) \/ HangUp(s)
         \/ \E d \in Dests : Route(s, d)
  PROVE  RootInv'
<1>1. /\ term[s] \in TermStates /\ term[s].reads \in {0, term[s].sub} /\ (term[s].state = "new" <=> term[s].sub = 0)
  BY TermFields DEF RootInv, Tuned
<1>. DEFINE Alike(t) == /\ t \in TermStates /\ t.sub = term[s].sub /\ t.reads = term[s].reads
                        /\ t.hand = term[s].hand
<1>2. CASE WallExpire(s)
  <2>. DEFINE t == [term[s] EXCEPT !.timers = @ \ {0},
                      !.banner = IF term[s].expires > 0 THEN @ ELSE NoBanner]
  <2>1. Alike(t) /\ t.state = term[s].state
    BY <1>1 DEF TermStates, NoBanner
  <2>2. term' = [term EXCEPT ![s] = t] /\ UNCHANGED <<published, topic, chans>>
    BY <1>2 DEF WallExpire
  <2>. HIDE DEF t
  <2>. QED
    BY <1>1, <2>1, <2>2, OnlySession
<1>3. CASE StatusTemp(s)
  <2>1. \A temp \in {"waiting", "fetching", "no location"} :
          LET t == [term[s] EXCEPT !.temp = temp] IN Alike(t) /\ t.state = term[s].state
    BY <1>1 DEF TermStates
  <2>2. PICK temp \in {"waiting", "fetching", "no location"} :
          term' = [term EXCEPT ![s].temp = temp] /\ UNCHANGED <<published, topic, chans>>
    BY <1>3 DEF StatusTemp
  <2>. DEFINE t == [term[s] EXCEPT !.temp = temp]
  <2>3. term' = [term EXCEPT ![s] = t] /\ Alike(t) /\ t.state = term[s].state
    BY <2>1, <2>2
  <2>. HIDE DEF t
  <2>. QED
    BY <1>1, <2>2, <2>3, OnlySession
<1>4. ASSUME NEW d \in Dests, Route(s, d)
      PROVE  RootInv'
  <2>. DEFINE x == IF d = "sysop" /\ s \notin SysopTerminals THEN "lobby" ELSE d
              y == IF d = "logout" /\ term[s].state = "up" THEN "leaving" ELSE term[s].state
              t == Routed(term[s], x, y)
  <2>1. /\ term[s].state # "new" /\ x \in Dests \cup {"lobby"} /\ y \in RootStates /\ y # "new"
        /\ y = "up" => term[s].state = "up"
        /\ MayHold(term[s].state) => MayHold(y)
    BY <1>1, <1>4 DEF Route, Running, RootStates, MayHold
  <2>2. Alike(t) /\ t.state = y
    <3>. HIDE DEF x, y
    <3>. QED
      BY <1>1, <2>1, RouteWrites
  <2>3. term' = [term EXCEPT ![s] = t] /\ UNCHANGED <<published, topic, chans>>
    BY <1>4 DEF Route, Routed
  <2>. HIDE DEF t, y, x
  <2>. QED
    BY <1>1, <2>1, <2>2, <2>3, OnlySession
<1>5. CASE Quit(s) \/ HangUp(s)
  <2>1. PICK z \in {"out", "quit", "lost"} :
          /\ term' = [term EXCEPT ![s].state = z] /\ UNCHANGED <<published, topic, chans>>
          /\ term[s].state # "new" /\ (MayHold(term[s].state) => MayHold(z))
    BY <1>5 DEF Quit, HangUp, InState, MayHold
  <2>. DEFINE t == [term[s] EXCEPT !.state = z]
  <2>2. Alike(t) /\ t.state = z
    <3>1. z \in RootStates
      BY DEF RootStates
    <3>. QED
      BY <1>1, <3>1, StateWrites DEF InStateOf
  <2>3. term' = [term EXCEPT ![s] = t]
    BY <2>1
  <2>. HIDE DEF t
  <2>. QED
    BY <1>1, <2>1, <2>2, <2>3, OnlySession
<1>. QED
  BY <1>2, <1>3, <1>4, <1>5

\* A second passes for everybody.
LEMMA SecondKeeps == ASSUME RootInv, SecondPasses PROVE RootInv'
<1>. USE DEF RootInv
<1>1. \A n \in Nat : OneSecondOff(n) \in Nat
  BY DEF OneSecondOff
<1>2. UNCHANGED <<published, topic, chans>>
  BY DEF SecondPasses
<1>3. ASSUME NEW s \in Terminals
      PROVE  /\ term'[s] \in TermStates /\ term'[s].sub = term[s].sub /\ term'[s].reads = term[s].reads
             /\ term'[s].state = term[s].state /\ term'[s].hand = term[s].hand
             /\ term'[s].banner = term[s].banner
  <2>1. term[s] \in TermStates /\ term[s].expires \in Nat /\ term[s].timers \in SUBSET Nat
    BY TermFields
  <2>2. OneSecondOff(term[s].expires) \in Nat /\ {OneSecondOff(n) : n \in term[s].timers} \in SUBSET Nat
    BY <1>1, <2>1
  <2>3. \A e \in Nat, ts \in SUBSET Nat :
          LET u == [term[s] EXCEPT !.expires = e, !.timers = ts] IN
            /\ u \in TermStates /\ u.sub = term[s].sub /\ u.reads = term[s].reads
            /\ u.state = term[s].state /\ u.hand = term[s].hand /\ u.banner = term[s].banner
    BY <2>1 DEF TermStates
  <2>4. term'[s] = [term[s] EXCEPT !.expires = OneSecondOff(term[s].expires),
                                   !.timers = {OneSecondOff(n) : n \in term[s].timers}]
    BY DEF SecondPasses
  <2>. QED
    BY <2>2, <2>3, <2>4
<1>4. term' \in [Terminals -> TermStates]
  <2>1. DOMAIN term' = Terminals /\ term' = [s \in Terminals |-> term'[s]]
    BY DEF SecondPasses
  <2>. QED
    BY <1>3, <2>1
<1>5. RootTypes'
  BY <1>2, <1>4 DEF RootTypes
<1>6. Tuned' /\ OwnChannels' /\ ListedOpen' /\ Owned' /\ StillListens'
  BY <1>2, <1>3 DEF Tuned, OwnChannels, ListedOpen, Owned, StillListens, InState
<1>. QED
  BY <1>5, <1>6

\* What happens to the topic only.
LEMMA TopicKeeps == ASSUME RootInv, PublishWall \/ ConsumeFails \/ Retry PROVE RootInv'
<1>1. UNCHANGED <<chans, term>>
  BY DEF PublishWall, ConsumeFails, Retry
<1>2. published' \in Nat /\ topic' \in Seq(Numbers)
  <2>1. published \in Nat /\ published + 1 \in Numbers /\ topic \in Seq(Numbers) /\ <<>> \in Seq(Numbers)
    BY EmptySeq DEF RootInv, RootTypes, Numbers
  <2>2. Append(topic, published + 1) \in Seq(Numbers)
    BY <2>1, AppendProperties
  <2>. QED
    <3>1. CASE PublishWall
      BY <2>1, <2>2, <3>1 DEF PublishWall, Numbers
    <3>2. CASE ConsumeFails \/ Retry
      BY <2>1, <3>2 DEF ConsumeFails, Retry
    <3>. QED
      BY <3>1, <3>2
<1>3. RootTypes'
  BY <1>1, <1>2 DEF RootInv, RootTypes
<1>. QED
  BY <1>1, <1>3 DEF RootInv, Tuned, OwnChannels, ListedOpen, Owned, StillListens, InState

LEMMA RootKept == ASSUME RootInv, [RootNext]_rootVars PROVE RootInv'
<1>1. CASE UNCHANGED rootVars
  BY <1>1 DEF rootVars, RootInv, RootTypes, Tuned, OwnChannels, ListedOpen, Owned, StillListens, InState
<1>2. CASE PublishWall \/ Fanout \/ ConsumeFails \/ Retry \/ SecondPasses
  BY <1>2, TopicKeeps, FanoutKeeps, SecondKeeps
<1>3. ASSUME NEW s \in Terminals,
             \/ Session(s) \/ StartSession(s) \/ CtrlC(s) \/ StatusTemp(s)
             \/ Quit(s) \/ HangUp(s)
             \/ \E d \in Dests : Route(s, d)
      PROVE  RootInv'
  BY <1>3, WaitWallKeeps, SessionSteps, ScreenMoves DEF Session
<1>. QED
  BY <1>1, <1>2, <1>3 DEF RootNext

\* Whatever is broadcast, lost, dropped and evicted, and however sessions end: one
\* that is up will hear of the next broadcast it is sent, and the dispatcher of
\* wall.go keeps one channel at most for each session, and none for one whom Ctrl+C
\* was the last to speak for.
THEOREM WallIsKept == RootSpec => []WallKept
<1>1. RootInit => RootInv
  BY RootStarts
<1>2. RootInv /\ [RootNext]_rootVars => RootInv'
  BY RootKept
<1>3. RootInv => WallKept
  <2>1. RootInv => DOMAIN chans = 1 .. Len(chans)
    BY LenProperties DEF RootInv, RootTypes
  <2>. QED
    BY <2>1 DEF RootInv, Owned, MayHold, WallKept, SlotsBelong, Slots
<1>. QED
  BY <1>1, <1>2, <1>3, PTL DEF RootSpec
-----------------------------------------------------------------------------
(* The order of the banners.                                               *)
Ascending(q) == \A i, j \in 1 .. Len(q) : i < j => q[i] < q[j]
Above(b, q) == \A i \in 1 .. Len(q) : b < q[i]

\* A broadcast that has left the topic, or none.
Sent(b) == b <= published /\ Above(b, topic)

\* What waits on the topic and in the channels is in the order it was sent, and
\* what a session shows or has in hand comes before what it still has to read.
TopicInOrder == Ascending(topic) /\ \A i \in 1 .. Len(topic) : topic[i] <= published
ChansInOrder ==
  \A c \in 1 .. Len(chans) :
    Ascending(chans[c].buf) /\ \A i \in 1 .. Len(chans[c].buf) : Sent(chans[c].buf[i])
InTurn(t) ==
  /\ Sent(t.banner) /\ Sent(t.hand)
  /\ t.hand # 0 => t.banner <= t.hand
  /\ t.sub # 0 => Above(t.banner, chans[t.sub].buf) /\ Above(t.hand, chans[t.sub].buf)
OrderInv == TopicInOrder /\ ChansInOrder /\ \A s \in Terminals : InTurn(term[s])

\* What is left of a buffer.
Rest(q, p) == q = <<>> \/ q = p \/ (p # <<>> /\ q = Tail(p))

LEMMA RestKeeps ==
  ASSUME NEW p \in Seq(Numbers), NEW q, Rest(q, p), Ascending(p)
  PROVE  /\ q \in Seq(Numbers) /\ Ascending(q)
         /\ \A i \in 1 .. Len(q) : \E j \in 1 .. Len(p) : q[i] = p[j]
<1>1. CASE q = <<>>
  BY <1>1, EmptySeq DEF Ascending
<1>2. CASE q = p
  BY <1>2
<1>3. CASE p # <<>> /\ q = Tail(p)
  <2>1. /\ q \in Seq(Numbers) /\ Len(q) = Len(p) - 1 /\ Len(p) \in Nat
        /\ \A i \in 1 .. Len(q) : q[i] = p[i + 1]
    BY <1>3, HeadTailProperties, LenProperties
  <2>2. \A i \in 1 .. Len(q) : i + 1 \in 1 .. Len(p)
    BY <2>1
  <2>3. Ascending(q)
    BY <2>1, <2>2 DEF Ascending
  <2>. QED
    BY <2>1, <2>2, <2>3
<1>. QED
  BY <1>1, <1>2, <1>3 DEF Rest

\* The first of a sequence comes before the others.
LEMMA HeadIsFirst ==
  ASSUME NEW p \in Seq(Numbers), p # <<>>, Ascending(p)
  PROVE  /\ Above(Head(p), Tail(p)) /\ Head(p) \in Numbers
         /\ \A b \in Nat : Above(b, p) => b < Head(p)
         /\ \E j \in 1 .. Len(p) : Head(p) = p[j]
<1>1. /\ Len(p) \in Nat \ {0} /\ Len(Tail(p)) = Len(p) - 1
      /\ \A i \in 1 .. Len(Tail(p)) : Tail(p)[i] = p[i + 1]
  BY EmptySeq, HeadTailProperties
<1>2. Head(p) = p[1] /\ 1 \in 1 .. Len(p) /\ p[1] \in Numbers
  BY <1>1, ElementOfSeq
<1>3. Above(Head(p), Tail(p))
  BY <1>1, <1>2 DEF Above, Ascending
<1>. QED
  BY <1>2, <1>3 DEF Above

\* A sequence stays in order when something later is appended.
LEMMA LaterAppended ==
  ASSUME NEW p \in Seq(Numbers), NEW b \in Numbers, Ascending(p),
         \A i \in 1 .. Len(p) : p[i] < b
  PROVE  /\ Append(p, b) \in Seq(Numbers) /\ Ascending(Append(p, b))
         /\ Len(Append(p, b)) = Len(p) + 1 /\ Len(p) \in Nat
         /\ \A i \in 1 .. Len(Append(p, b)) : Append(p, b)[i] = b \/ (i \in 1 .. Len(p) /\ Append(p, b)[i] = p[i])
         /\ \A a \in Nat : Above(a, p) /\ a < b => Above(a, Append(p, b))
<1>. DEFINE q == Append(p, b)
<1>1. /\ q \in Seq(Numbers) /\ Len(q) = Len(p) + 1 /\ Len(p) \in Nat
      /\ \A i \in 1 .. Len(p) : q[i] = p[i]
      /\ q[Len(p) + 1] = b
  BY AppendProperties, LenProperties
<1>2. \A i \in 1 .. Len(q) : i \in 1 .. Len(p) \/ i = Len(p) + 1
  BY <1>1
<1>. HIDE DEF q
<1>3. Ascending(q)
  BY <1>1, <1>2 DEF Ascending
<1>4. \A a \in Nat : Above(a, p) /\ a < b => Above(a, q)
  BY <1>1, <1>2 DEF Above
<1>5. \A i \in 1 .. Len(q) : q[i] = b \/ (i \in 1 .. Len(p) /\ q[i] = p[i])
  BY <1>1, <1>2
<1>. QED
  BY <1>1, <1>3, <1>4, <1>5 DEF q

\* The sessions and the channels take nothing from the topic: buffers only lose
\* what was read, and a session that changes is still in turn.
LEMMA QuietStep ==
  ASSUME RootInv, RootInv', OrderInv, UNCHANGED <<published, topic>>,
         \A c \in 1 .. Len(chans') : chans'[c].buf # <<>> =>
            c \in 1 .. Len(chans) /\ Rest(chans'[c].buf, chans[c].buf),
         \A s \in Terminals : term'[s] = term[s] \/ InTurn(term[s])'
  PROVE  OrderInv'
<1>1. TopicInOrder'
  BY DEF OrderInv, TopicInOrder
<1>2. \A b : Sent(b) <=> Sent(b)'
  BY DEF Sent
<1>3. ASSUME NEW c \in 1 .. Len(chans')
      PROVE  (Ascending(chans[c].buf) /\ \A i \in 1 .. Len(chans[c].buf) : Sent(chans[c].buf[i]))'
  <2>1. CASE chans'[c].buf = <<>>
    BY <2>1, EmptySeq DEF Ascending
  <2>2. CASE chans'[c].buf # <<>>
    <3>1. c \in 1 .. Len(chans) /\ Rest(chans'[c].buf, chans[c].buf)
      BY <2>2
    <3>2. /\ chans[c].buf \in Seq(Numbers) /\ Ascending(chans[c].buf)
          /\ \A i \in 1 .. Len(chans[c].buf) : Sent(chans[c].buf[i])
      BY <3>1, ChanFields DEF RootInv, OrderInv, ChansInOrder
    <3>3. /\ Ascending(chans'[c].buf)
          /\ \A i \in 1 .. Len(chans'[c].buf) :
               \E j \in 1 .. Len(chans[c].buf) : chans'[c].buf[i] = chans[c].buf[j]
      BY <3>1, <3>2, RestKeeps
    <3>. QED
      BY <1>2, <3>2, <3>3
  <2>. QED
    BY <2>1, <2>2
<1>4. ChansInOrder'
  BY <1>3 DEF ChansInOrder
<1>5. ASSUME NEW s \in Terminals, term'[s] = term[s]
      PROVE  InTurn(term[s])'
  <2>. DEFINE c == term[s].sub
  <2>1. InTurn(term[s]) /\ term[s].banner \in Nat /\ term[s].hand \in Nat
    BY TermFields DEF OrderInv, RootInv
  <2>2. CASE c # 0 /\ chans'[c].buf # <<>>
    <3>1. c \in 1 .. Len(chans')
      BY <1>5, <2>2, LenProperties DEF RootInv, RootTypes, Tuned
    <3>2. c \in 1 .. Len(chans) /\ Rest(chans'[c].buf, chans[c].buf)
      BY <2>2, <3>1
    <3>3. chans[c].buf \in Seq(Numbers) /\ Ascending(chans[c].buf)
      BY <3>2, ChanFields DEF RootInv, OrderInv, ChansInOrder
    <3>4. \A i \in 1 .. Len(chans'[c].buf) : \E j \in 1 .. Len(chans[c].buf) : chans'[c].buf[i] = chans[c].buf[j]
      <4>0. PICK p \in Seq(Numbers) : p = chans[c].buf
        BY <3>3
      <4>1. PICK q : q = chans'[c].buf
        OBVIOUS
      <4>2. Rest(q, p) /\ Ascending(p)
        BY <3>2, <3>3, <4>0, <4>1
      <4>3. \A i \in 1 .. Len(q) : \E j \in 1 .. Len(p) : q[i] = p[j]
        BY <4>2, RestKeeps
      <4>. QED
        BY <4>0, <4>1, <4>3
    <3>5. Above(term[s].banner, chans'[c].buf) /\ Above(term[s].hand, chans'[c].buf)
      BY <2>1, <2>2, <3>4 DEF InTurn, Above
    <3>. QED
      BY <1>2, <1>5, <2>1, <3>5 DEF InTurn
  <2>3. CASE c # 0 /\ chans'[c].buf = <<>>
    <3>1. Above(term[s].banner, chans'[c].buf) /\ Above(term[s].hand, chans'[c].buf)
      BY <2>3, EmptySeq DEF Above
    <3>. QED
      BY <1>2, <1>5, <2>1, <3>1 DEF InTurn
  <2>4. CASE c = 0
    BY <1>2, <1>5, <2>1, <2>4 DEF InTurn
  <2>. QED
    BY <2>2, <2>3, <2>4
<1>6. \A s \in Terminals : InTurn(term[s])'
  BY <1>5
<1>. QED
  BY <1>1, <1>4, <1>6 DEF OrderInv

LEMMA OrderStarts == ASSUME RootInit PROVE OrderInv
<1>1. Len(topic) = 0 /\ Len(chans) = 0 /\ published = 0
  BY EmptySeq DEF RootInit
<1>2. \A s \in Terminals : term[s].banner = 0 /\ term[s].hand = 0 /\ term[s].sub = 0
  BY DEF RootInit, NoBanner
<1>. QED
  BY <1>1, <1>2 DEF OrderInv, TopicInOrder, ChansInOrder, InTurn, Sent, Above, Ascending

\* A publication is later than whatever was sent; what is lost is not missed by
\* the order.
LEMMA TopicOrder ==
  ASSUME RootInv, OrderInv, PublishWall \/ ConsumeFails \/ Retry
  PROVE  OrderInv'
<1>1. published \in Nat /\ topic \in Seq(Numbers) /\ Len(topic) \in Nat /\ UNCHANGED <<chans, term>>
  BY LenProperties DEF RootInv, RootTypes, PublishWall, ConsumeFails, Retry
<1>2. TopicInOrder' /\ \A b \in Nat : Sent(b) => Sent(b)'
  <2>1. CASE PublishWall /\ topic' = Append(topic, published + 1)
    <3>. DEFINE b == published + 1
    <3>1. b \in Numbers /\ Ascending(topic) /\ (\A i \in 1 .. Len(topic) : topic[i] < b)
          /\ \A i \in 1 .. Len(topic) : topic[i] \in Numbers
      BY <1>1, ElementOfSeq DEF OrderInv, TopicInOrder, Numbers
    <3>2. published' = b
      BY <2>1 DEF PublishWall
    <3>. HIDE DEF b
    <3>3. /\ Ascending(topic')
          /\ \A i \in 1 .. Len(topic') : topic'[i] = b \/ (i \in 1 .. Len(topic) /\ topic'[i] = topic[i])
          /\ \A a \in Nat : Above(a, topic) /\ a < b => Above(a, topic')
      BY <1>1, <2>1, <3>1, LaterAppended DEF b
    <3>4. \A i \in 1 .. Len(topic') : topic'[i] <= b
      BY <3>1, <3>3 DEF Numbers
    <3>5. \A a \in Nat : a <= published => a < b /\ a <= b
      BY <1>1 DEF b
    <3>. QED
      BY <3>2, <3>3, <3>4, <3>5 DEF TopicInOrder, Sent
  <2>2. CASE topic' = topic /\ published' \in {published, published + 1}
    BY <1>1, <2>2, ElementOfSeq DEF OrderInv, TopicInOrder, Sent, Numbers
  <2>3. CASE topic' = <<>> /\ published' = published
    BY <2>3, EmptySeq DEF TopicInOrder, Sent, Ascending, Above
  <2>. QED
    BY <2>1, <2>2, <2>3 DEF PublishWall, ConsumeFails, Retry
<1>3. \A c \in 1 .. Len(chans) : chans[c].buf \in Seq(Numbers)
  BY ChanFields DEF RootInv
<1>4. \A c \in 1 .. Len(chans) : \A i \in 1 .. Len(chans[c].buf) : chans[c].buf[i] \in Nat
  BY <1>3, ElementOfSeq DEF Numbers
<1>5. ChansInOrder'
  BY <1>1, <1>2, <1>4 DEF OrderInv, ChansInOrder
<1>6. \A s \in Terminals : term[s].banner \in Nat /\ term[s].hand \in Nat
  BY TermFields DEF RootInv
<1>7. \A s \in Terminals : InTurn(term[s])'
  BY <1>1, <1>2, <1>6 DEF OrderInv, InTurn
<1>. QED
  BY <1>2, <1>5, <1>7 DEF OrderInv

\* The dispatcher takes the first of the topic, which comes after everything that
\* was sent, and offers it.
LEMMA FanoutOrder == ASSUME RootInv, OrderInv, Fanout PROVE OrderInv'
<1>1. /\ topic \in Seq(Numbers) /\ topic # <<>> /\ Ascending(topic) /\ published \in Nat
      /\ topic' = Tail(topic) /\ UNCHANGED <<published, term>>
      /\ Rest(topic', topic)
  BY DEF Fanout, RootInv, RootTypes, OrderInv, TopicInOrder, Rest
<1>2. PICK b \in Numbers :
      /\ b = Head(topic) /\ Above(b, topic') /\ (\E j \in 1 .. Len(topic) : b = topic[j])
      /\ \A a \in Nat : Above(a, topic) => a < b
  BY <1>1, HeadIsFirst
<1>3. /\ Ascending(topic') /\ topic' \in Seq(Numbers)
      /\ \A i \in 1 .. Len(topic') : \E j \in 1 .. Len(topic) : topic'[i] = topic[j]
  BY <1>1, RestKeeps
<1>4. TopicInOrder'
  BY <1>1, <1>3 DEF OrderInv, TopicInOrder
<1>5. \A a \in Nat : Sent(a) => Sent(a)' /\ a < b
  BY <1>1, <1>2, <1>3 DEF Sent, Above
<1>6. Sent(b)'
  BY <1>1, <1>2 DEF Sent, OrderInv, TopicInOrder
<1>7. Len(chans) \in Nat /\ DOMAIN chans = 1 .. Len(chans)
  BY LenProperties DEF RootInv, RootTypes
<1>8. Len(chans') = Len(chans)
  <2>1. DOMAIN chans' = 1 .. Len(chans)
    BY <1>7 DEF Fanout
  <2>2. DOMAIN chans' = 1 .. Len(chans') /\ Len(chans') \in Nat
    <3>1. RootInv'
      BY FanoutKeeps
    <3>. QED
      BY <3>1, LenProperties DEF RootInv, RootTypes
  <2>. QED
    BY <1>7, <2>1, <2>2
<1>9. ASSUME NEW c \in 1 .. Len(chans)
      PROVE  /\ Ascending(chans'[c].buf)
             /\ \A i \in 1 .. Len(chans'[c].buf) :
                  chans'[c].buf[i] = b \/ \E j \in 1 .. Len(chans[c].buf) : chans'[c].buf[i] = chans[c].buf[j]
             /\ \A a \in Nat : Above(a, chans[c].buf) /\ a < b => Above(a, chans'[c].buf)
  <2>1. chans[c] \in ChanStates /\ chans[c].buf \in Seq(Numbers)
    BY ChanFields DEF RootInv
  <2>2. chans'[c].buf \in {chans[c].buf, Append(chans[c].buf, b)}
    <3>1. chans'[c] = IF chans[c].listed THEN Offered(chans[c], b) ELSE chans[c]
      BY <1>2, <1>7 DEF Fanout
    <3>2. Offered(chans[c], b).buf \in {chans[c].buf, Append(chans[c].buf, b)}
      BY <1>2, <2>1, OfferedIs
    <3>. QED
      BY <3>1, <3>2
  <2>3. Ascending(chans[c].buf) /\ \A i \in 1 .. Len(chans[c].buf) : Sent(chans[c].buf[i])
    BY DEF OrderInv, ChansInOrder
  <2>4. \A i \in 1 .. Len(chans[c].buf) : chans[c].buf[i] \in Nat /\ chans[c].buf[i] < b
    BY <1>5, <2>1, <2>3, ElementOfSeq DEF Numbers
  <2>5. CASE chans'[c].buf = chans[c].buf
    BY <2>3, <2>5
  <2>6. CASE chans'[c].buf = Append(chans[c].buf, b)
    <3>0. PICK p \in Seq(Numbers) : p = chans[c].buf
      BY <2>1
    <3>1. PICK q : q = chans'[c].buf
      OBVIOUS
    <3>2. Ascending(p) /\ (\A i \in 1 .. Len(p) : p[i] < b) /\ q = Append(p, b) /\ b \in Numbers
      BY <1>2, <2>3, <2>4, <2>6, <3>0, <3>1
    <3>3. /\ Ascending(q) /\ Len(q) = Len(p) + 1 /\ Len(p) \in Nat
          /\ \A i \in 1 .. Len(q) : q[i] = b \/ (i \in 1 .. Len(p) /\ q[i] = p[i])
          /\ \A a \in Nat : Above(a, p) /\ a < b => Above(a, q)
      BY <3>2, LaterAppended
    <3>. QED
      BY <3>0, <3>1, <3>3
  <2>. QED
    BY <2>2, <2>5, <2>6
<1>10. ChansInOrder'
  <2>. SUFFICES ASSUME NEW c \in 1 .. Len(chans)
                PROVE  (\A i \in 1 .. Len(chans[c].buf) : Sent(chans[c].buf[i]))'
    BY <1>8, <1>9 DEF ChansInOrder
  <2>1. \A j \in 1 .. Len(chans[c].buf) : chans[c].buf[j] \in Nat /\ Sent(chans[c].buf[j])
    BY ChanFields, ElementOfSeq DEF RootInv, OrderInv, ChansInOrder, Numbers
  <2>. QED
    BY <1>5, <1>6, <1>9, <2>1
<1>11. ASSUME NEW s \in Terminals
       PROVE  InTurn(term[s])'
  <2>1. term[s].banner \in Nat /\ term[s].hand \in Nat /\ InTurn(term[s])
    BY TermFields DEF RootInv, OrderInv
  <2>2. term[s].sub # 0 => term[s].sub \in 1 .. Len(chans)
    BY <1>7 DEF RootInv, Tuned
  <2>. QED
    BY <1>1, <1>5, <1>9, <2>1, <2>2 DEF InTurn
<1>. QED
  BY <1>4, <1>10, <1>11 DEF OrderInv

\* What a session does: it takes the oldest broadcast of its channel, shows the
\* one in its hand and subscribes afresh, or takes its banner down.
LEMMA SessionOrder ==
  ASSUME RootInv, OrderInv, NEW s \in Terminals,
         WaitWall(s) \/ WallRecv(s) \/ WallExpire(s) \/ StartSession(s)
  PROVE  OrderInv'
<1>1. RootInv'
  BY WaitWallKeeps, SessionSteps, ScreenMoves
<1>2. /\ term[s] \in TermStates /\ term[s].banner \in Nat /\ term[s].hand \in Nat
      /\ term \in [Terminals -> TermStates] /\ InTurn(term[s]) /\ Len(chans) \in Nat
      /\ term[s].sub \in 0 .. Len(chans) /\ published \in Nat
  BY TermFields, LenProperties DEF RootInv, RootTypes, Tuned, OrderInv
<1>3. \A r \in Terminals : r # s => term'[r] = term[r]
  <2>1. \E t : term' = [term EXCEPT ![s] = t]
    BY DEF WaitWall, WallRecv, WallExpire, StartSession
  <2>. QED
    BY <1>2, <2>1
<1>4. UNCHANGED <<published, topic>>
  BY DEF WaitWall, WallRecv, WallExpire, StartSession
<1>5. \A c \in 1 .. Len(chans) : Rest(chans[c].buf, chans[c].buf)
  BY DEF Rest
<1>6. \A c \in 1 .. Len(chans) : chans[c].buf \in Seq(Numbers) /\ chans[c] \in ChanStates
  BY ChanFields DEF RootInv
<1>7. Sent(0) /\ \A q \in Seq(Numbers) : Above(0, q)
  <2>1. \A q \in Seq(Numbers) : Above(0, q)
    BY ElementOfSeq DEF Above, Numbers
  <2>. QED
    BY <1>2, <2>1 DEF Sent, RootInv, RootTypes
<1>. DEFINE OnlyRead == \A c \in 1 .. Len(chans') : chans'[c].buf # <<>> =>
                          c \in 1 .. Len(chans) /\ Rest(chans'[c].buf, chans[c].buf)
<1>8. CASE WaitWall(s)
  <2>. DEFINE c == term[s].reads
  <2>1. c \in 1 .. Len(chans) /\ c = term[s].sub
    BY <1>2, <1>8 DEF WaitWall, RootInv, Tuned
  <2>2. CASE chans[c].buf # <<>>
    <3>. DEFINE p == chans[c].buf
    <3>1. /\ term'[s] = [term[s] EXCEPT !.reads = 0, !.hand = Head(p)]
          /\ chans' = [chans EXCEPT ![c].buf = Tail(p)]
      BY <1>2, <1>8, <2>2 DEF WaitWall
    <3>2. /\ term'[s].hand = Head(p) /\ term'[s].banner = term[s].banner /\ term'[s].sub = c
      BY <1>2, <2>1, <3>1 DEF TermStates
    <3>3. /\ Len(chans') = Len(chans) /\ chans'[c].buf = Tail(p)
          /\ \A d \in 1 .. Len(chans) : d # c => chans'[d] = chans[d]
      <4>1. DOMAIN chans = 1 .. Len(chans) /\ DOMAIN chans' = 1 .. Len(chans') /\ Len(chans') \in Nat
        BY <1>1, LenProperties DEF RootInv, RootTypes
      <4>2. chans'[c] = [chans[c] EXCEPT !.buf = Tail(p)] /\ DOMAIN chans' = DOMAIN chans
        BY <2>1, <3>1, <4>1
      <4>3. chans'[c].buf = Tail(p)
        BY <1>6, <2>1, <4>2 DEF ChanStates
      <4>. QED
        BY <1>2, <3>1, <4>1, <4>2, <4>3
    <3>4. OnlyRead
      BY <1>5, <2>2, <3>3 DEF Rest
    <3>5. /\ p \in Seq(Numbers) /\ Ascending(p) /\ (\A i \in 1 .. Len(p) : Sent(p[i]))
          /\ Above(term[s].banner, p) /\ Sent(term[s].banner)
      BY <1>2, <1>6, <2>1 DEF OrderInv, ChansInOrder, InTurn
    <3>6. /\ Sent(Head(p)) /\ Above(Head(p), Tail(p)) /\ Head(p) \in Numbers
          /\ term[s].banner < Head(p)
      BY <1>2, <2>2, <3>5, HeadIsFirst
    <3>7. Above(term[s].banner, Tail(p))
      <4>1. Tail(p) \in Seq(Numbers)
        BY <2>2, <3>5, HeadTailProperties
      <4>2. \A i \in 1 .. Len(Tail(p)) : Tail(p)[i] \in Nat /\ Head(p) < Tail(p)[i]
        BY <3>6, <4>1, ElementOfSeq DEF Above, Numbers
      <4>. QED
        BY <1>2, <3>6, <4>2 DEF Above, Numbers
    <3>8. InTurn(term[s])'
      BY <1>2, <1>4, <3>2, <3>3, <3>5, <3>6, <3>7 DEF InTurn, Sent, Numbers
    <3>. QED
      BY <1>1, <1>3, <1>4, <3>4, <3>8, QuietStep
  <2>3. CASE chans[c].buf = <<>>
    <3>1. UNCHANGED chans /\ term'[s] = [term[s] EXCEPT !.reads = 0]
      BY <1>2, <1>8, <2>3 DEF WaitWall
    <3>2. term'[s].hand = term[s].hand /\ term'[s].banner = term[s].banner /\ term'[s].sub = term[s].sub
      BY <1>2, <3>1 DEF TermStates
    <3>3. InTurn(term[s])'
      BY <1>2, <1>4, <3>1, <3>2 DEF InTurn, Sent
    <3>. QED
      BY <1>1, <1>3, <1>4, <1>5, <3>1, <3>3, QuietStep
  <2>. QED
    BY <2>2, <2>3
<1>9. CASE WallRecv(s) \/ StartSession(s)
  <2>. DEFINE n == Len(chans) + 1
  <2>1. \E q \in Seq(ChanStates) :
          /\ Len(q) = Len(chans) /\ chans' = Append(q, NewChan)
          /\ \A c \in 1 .. Len(chans) : q[c].buf = chans[c].buf
    <3>1. CASE StartSession(s)
      BY <3>1 DEF StartSession, RootInv, RootTypes
    <3>2. CASE WallRecv(s)
      <4>1. term[s].sub \in 1 .. Len(chans)
        BY <1>2, <3>2 DEF WallRecv, Running, RootInv, Tuned
      <4>2. Delist(term[s].sub)[term[s].sub].buf = chans[term[s].sub].buf
        BY <1>6, <4>1, Delisted DEF RootInv, ChanStates
      <4>. QED
        BY <3>2, <4>1, <4>2, Delisted DEF WallRecv, RearmWall, RootInv
    <3>. QED
      BY <1>9, <3>1, <3>2
  <2>2. /\ Len(chans') = n /\ chans'[n].buf = <<>>
        /\ \A c \in 1 .. Len(chans) : chans'[c].buf = chans[c].buf
    <3>1. PICK q \in Seq(ChanStates) :
            /\ Len(q) = Len(chans) /\ chans' = Append(q, NewChan)
            /\ \A c \in 1 .. Len(chans) : q[c].buf = chans[c].buf
      BY <2>1
    <3>2. Len(chans) \in Nat /\ NewChan.buf = <<>>
      BY <1>2, LenProperties DEF RootInv, RootTypes, NewChan
    <3>3. /\ Len(chans') = n /\ chans'[n] = NewChan
          /\ \A c \in 1 .. Len(chans) : chans'[c] = q[c]
      BY <3>1, Subscribed
    <3>. QED
      BY <3>1, <3>2, <3>3
  <2>3. OnlyRead
    BY <1>2, <1>5, <2>2
  <2>4. /\ term'[s].sub = n /\ (term'[s].hand = 0 \/ term'[s].hand = term[s].hand)
        /\ term'[s].banner = term[s].banner \/ (term'[s].hand = 0 /\ term'[s].banner = term[s].hand)
    <3>1. n \in Nat /\ WallTTL \in Nat
      BY <1>2, RootAssumption
    <3>. HIDE DEF n
    <3>2. CASE StartSession(s)
      <4>1. term'[s] = Started(term[s], n)
        BY <1>2, <3>2 DEF StartSession, Started, n
      <4>2. term[s] \in TermStates
        BY <1>2 DEF RootInv, RootTypes
      <4>3. /\ Started(term[s], n).sub = n /\ Started(term[s], n).hand = term[s].hand
            /\ Started(term[s], n).banner = term[s].banner
        BY <3>1, <4>2, StartWrites
      <4>4. term'[s].sub = n /\ term'[s].hand = term[s].hand /\ term'[s].banner = term[s].banner
        BY <4>1, <4>3
      <4>. QED
        BY <4>4
    <3>3. CASE WallRecv(s)
      <4>0. PICK y : y = Stay(term[s])
        OBVIOUS
      <4>1. term'[s] = Shown(term[s], n, WallTTL, y)
        BY <1>2, <3>3, <4>0 DEF WallRecv, Shown, NoBanner, Stay, n
      <4>2. term[s] \in TermStates /\ y \in {"up", "leaving"}
        BY <1>2, <3>3, <4>0 DEF WallRecv, Running, Stay
      <4>3. IsShown(Shown(term[s], n, WallTTL, y), term[s], n, y)
        BY <3>1, <4>2, ShowWrites
      <4>. QED
        BY <4>1, <4>3 DEF IsShown
    <3>. QED
      BY <1>9, <3>2, <3>3
  <2>5. \A a : Above(a, chans'[n].buf)
    BY <2>2, EmptySeq DEF Above
  <2>6. InTurn(term[s])'
    BY <1>2, <1>4, <1>7, <2>4, <2>5 DEF InTurn, Sent
  <2>. QED
    BY <1>1, <1>3, <1>4, <2>3, <2>6, QuietStep
<1>10. CASE WallExpire(s)
  <2>1. /\ UNCHANGED chans /\ term'[s].hand = term[s].hand /\ term'[s].sub = term[s].sub
        /\ term'[s].banner = term[s].banner \/ term'[s].banner = 0
    BY <1>2, <1>10 DEF WallExpire, TermStates, NoBanner
  <2>2. InTurn(term[s])'
    BY <1>2, <1>4, <1>6, <1>7, <2>1 DEF InTurn, Sent
  <2>. QED
    BY <1>1, <1>3, <1>4, <1>5, <2>1, <2>2, QuietStep
<1>. QED
  BY <1>8, <1>9, <1>10

\* What neither the banner nor the broadcasts know of.
LEMMA OtherOrder ==
  ASSUME RootInv, OrderInv,
         \/ SecondPasses
         \/ \E s \in Terminals : \/ CtrlC(s) \/ StatusTemp(s) \/ Quit(s) \/ HangUp(s)
                                    \/ \E d \in Dests : Route(s, d)
  PROVE  OrderInv' /\ \A s \in Terminals : term'[s].banner = term[s].banner
<1>1. RootInv'
  BY SecondKeeps, SessionSteps, ScreenMoves
<1>2. UNCHANGED <<published, topic>> /\ Len(chans) \in Nat
  BY LenProperties DEF SecondPasses, CtrlC, StatusTemp, Route, Quit, HangUp, RootInv, RootTypes
<1>3. Len(chans') = Len(chans) /\ \A c \in 1 .. Len(chans) : chans'[c].buf = chans[c].buf
  <2>1. CASE \E s \in Terminals : CtrlC(s)
    <3>1. PICK s \in Terminals : CtrlC(s)
      BY <2>1
    <3>2. term[s].sub \in 1 .. Len(chans)
      BY <1>2, <3>1 DEF CtrlC, InState, RootInv, Tuned
    <3>3. chans[term[s].sub] \in ChanStates
      BY <3>2, ChanFields DEF RootInv
    <3>4. Delist(term[s].sub)[term[s].sub].buf = chans[term[s].sub].buf
      BY <3>2, <3>3, Delisted DEF RootInv, ChanStates
    <3>. QED
      BY <3>1, <3>2, <3>4, Delisted DEF CtrlC, RootInv
  <2>2. CASE UNCHANGED chans
    BY <2>2
  <2>. QED
    BY <2>1, <2>2 DEF SecondPasses, StatusTemp, Route, Quit, HangUp
<1>4. ASSUME NEW s \in Terminals
      PROVE  /\ term'[s].banner = term[s].banner /\ term'[s].hand = term[s].hand
             /\ term'[s].sub = term[s].sub
  <2>1. term[s] \in TermStates /\ term \in [Terminals -> TermStates]
    BY TermFields DEF RootInv, RootTypes
  <2>2. CASE SecondPasses
    BY <2>1, <2>2 DEF SecondPasses, TermStates
  <2>3. ASSUME NEW r \in Terminals, CtrlC(r) \/ StatusTemp(r)
        PROVE  /\ term'[s].banner = term[s].banner /\ term'[s].hand = term[s].hand
               /\ term'[s].sub = term[s].sub
    <3>1. CASE CtrlC(r)
      BY <2>1, <3>1 DEF CtrlC, TermStates
    <3>2. CASE StatusTemp(r)
      <4>1. PICK temp \in {"waiting", "fetching", "no location"} :
              term' = [term EXCEPT ![r] = [term[r] EXCEPT !.temp = temp]]
        BY <3>2 DEF StatusTemp
      <4>. QED
        BY <2>1, <4>1 DEF TermStates
    <3>. QED
      BY <2>3, <3>1, <3>2
  <2>4. ASSUME NEW r \in Terminals, NEW d \in Dests, Route(r, d)
        PROVE  /\ term'[s].banner = term[s].banner /\ term'[s].hand = term[s].hand
               /\ term'[s].sub = term[s].sub
    BY <2>1, <2>4 DEF Route, TermStates
  <2>5. ASSUME NEW r \in Terminals, Quit(r) \/ HangUp(r)
        PROVE  /\ term'[s].banner = term[s].banner /\ term'[s].hand = term[s].hand
               /\ term'[s].sub = term[s].sub
    <3>1. PICK z \in RootStates : term' = [term EXCEPT ![r] = [term[r] EXCEPT !.state = z]]
      BY <2>5 DEF Quit, HangUp, RootStates
    <3>2. term'[s] = term[s] \/ term'[s] = [term[s] EXCEPT !.state = z]
      BY <2>1, <3>1
    <3>3. InStateOf([term[s] EXCEPT !.state = z], term[s], z)
      BY <2>1, StateWrites
    <3>. QED
      BY <3>2, <3>3 DEF InStateOf
  <2>. QED
    BY <2>2, <2>3, <2>4, <2>5
<1>5. \A s \in Terminals : InTurn(term[s])'
  <2>1. \A s \in Terminals : term[s].sub \in 0 .. Len(chans)
    BY DEF RootInv, Tuned
  <2>. QED
    BY <1>2, <1>3, <1>4, <2>1 DEF OrderInv, InTurn, Sent
<1>6. \A c \in 1 .. Len(chans') : chans'[c].buf # <<>> =>
        c \in 1 .. Len(chans) /\ Rest(chans'[c].buf, chans[c].buf)
  BY <1>3 DEF Rest
<1>. QED
  BY <1>1, <1>2, <1>4, <1>5, <1>6, QuietStep

\* One step of a banner.
BannerStep ==
  \A s \in Terminals :
    /\ term'[s].banner # NoBanner => term'[s].banner >= term[s].banner
    /\ term[s].banner # NoBanner /\ term'[s].banner = NoBanner => term[s].expires = 0

LEMMA BannerSteps ==
  ASSUME RootInv, OrderInv, [RootNext]_rootVars
  PROVE  OrderInv' /\ BannerStep
<1>1. /\ term \in [Terminals -> TermStates]
      /\ \A s \in Terminals : term[s] \in TermStates /\ term[s].banner \in Nat
                              /\ term[s].hand \in Nat /\ term[s].expires \in Nat
  BY TermFields DEF RootInv, RootTypes
<1>2. (\A s \in Terminals : term'[s].banner = term[s].banner) => BannerStep
  BY <1>1 DEF BannerStep, NoBanner
<1>3. CASE UNCHANGED rootVars
  <2>1. OrderInv'
    BY <1>3 DEF rootVars, OrderInv, TopicInOrder, ChansInOrder, InTurn, Sent
  <2>. QED
    BY <1>2, <1>3, <2>1 DEF rootVars
<1>4. CASE PublishWall \/ ConsumeFails \/ Retry
  BY <1>2, <1>4, TopicOrder DEF PublishWall, ConsumeFails, Retry
<1>5. CASE Fanout
  BY <1>2, <1>5, FanoutOrder DEF Fanout
<1>6. CASE \/ SecondPasses
           \/ \E s \in Terminals : \/ CtrlC(s) \/ StatusTemp(s) \/ Quit(s) \/ HangUp(s)
                                    \/ \E d \in Dests : Route(s, d)
  BY <1>2, <1>6, OtherOrder
<1>7. ASSUME NEW s \in Terminals, WaitWall(s) \/ WallRecv(s) \/ WallExpire(s) \/ StartSession(s)
      PROVE  BannerStep
  <2>1. \A r \in Terminals : r # s => term'[r] = term[r]
    <3>1. \E t : term' = [term EXCEPT ![s] = t]
      BY <1>7 DEF WaitWall, WallRecv, WallExpire, StartSession
    <3>. QED
      BY <1>1, <3>1
  <2>2. CASE WaitWall(s) \/ StartSession(s)
    <3>1. term'[s].banner = term[s].banner
      <4>1. CASE WaitWall(s)
        BY <1>1, <4>1 DEF WaitWall, TermStates
      <4>2. CASE StartSession(s)
        BY <1>1, <4>2 DEF StartSession, TermStates
      <4>. QED
        BY <2>2, <4>1, <4>2
    <3>. QED
      BY <1>2, <2>1, <3>1
  <2>3. CASE WallRecv(s)
    <3>1. term'[s].banner = term[s].hand /\ term[s].hand # NoBanner
      BY <1>1, <2>3 DEF WallRecv, TermStates
    <3>2. term[s].banner <= term[s].hand
      BY <3>1 DEF OrderInv, InTurn, NoBanner
    <3>. QED
      BY <1>1, <2>1, <3>1, <3>2 DEF BannerStep, NoBanner
  <2>4. CASE WallExpire(s)
    <3>1. term'[s].banner = IF term[s].expires > 0 THEN term[s].banner ELSE NoBanner
      BY <1>1, <2>4 DEF WallExpire, TermStates
    <3>. QED
      BY <1>1, <2>1, <3>1 DEF BannerStep, NoBanner
  <2>. QED
    BY <1>7, <2>2, <2>3, <2>4
<1>. QED
  BY <1>3, <1>4, <1>5, <1>6, <1>7, SessionOrder DEF RootNext, Session

\* Whatever is dropped, evicted, lost with the subscription and resubscribed to,
\* a session shows the broadcasts in the order PublishWall numbered them, and a
\* timer of an earlier banner takes no later one down before its time.
THEOREM BannersKeepOrder == RootSpec => BannersInOrder
<1>1. RootInit => RootInv /\ OrderInv
  BY RootStarts, OrderStarts
<1>2. RootInv /\ OrderInv /\ [RootNext]_rootVars => RootInv' /\ OrderInv' /\ BannerStep
  BY RootKept, BannerSteps
<1>3. RootInv /\ OrderInv /\ [RootNext]_rootVars => [BannerStep]_rootVars
  BY <1>2
<1>4. BannersInOrder <=> [][BannerStep]_rootVars
  BY DEF BannersInOrder, BannerStep
<1>. QED
  BY <1>1, <1>2, <1>3, <1>4, PTL DEF RootSpec
=============================================================================
