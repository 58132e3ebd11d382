------------------------------ MODULE Carbonyl ------------------------------
(***************************************************************************)
(* The full browser of the Web screen (internal/carbonyl): a launch takes  *)
(* a slot under the caps of limits.go, starts a child on a terminal of its *)
(* own (runner_linux.go), and is bridged to the session by three loops     *)
(* (ptybridge_linux.go) until the last of them is over.  The child is a    *)
(* process that ends by itself, well or badly, or is killed.               *)
(*                                                                         *)
(* A screen starts one launch at a time and waits for its answer.  The     *)
(* requests carry no address: screens/web.go fills no RemoteIP, so the cap *)
(* per address never applies, and the caps here are the other two.         *)
(***************************************************************************)
EXTENDS Naturals, FiniteSets

CONSTANTS
  Browsers,    (* the SSH sessions that may launch it                       *)
  UserOf,      (* [Browsers -> the user of each session]                    *)
  LimitSets,   (* the caps a sysop may set: [global, handle], 0 for none    *)
  MaxKeys,     (* bound: keys a user types into the browser                 *)
  MaxChanges,  (* bound: changes of the caps                                *)
  MaxLaunches  (* bound: launches                                           *)

ASSUME BrowsersAssumption == IsFiniteSet(Browsers)

VARIABLES
  limits,      (* tokens.cfg                                                *)
  used,        (* tokens: [global, handle]                                  *)
  launch,      (* per session: the launch under way                         *)
  attached,    (* the sessions whose SSH channel is up                      *)
  keyed, changes, launches

carbonylVars == <<limits, used, launch, attached, keyed, changes, launches>>

\* A launch: where its goroutine is, the caps it loaded, the child, the bridge's
\* loops, its context, the terminal, and an ESC that may become ESC q.
NoLaunch ==
  [phase |-> "none", cfg |-> 0, child |-> "none", in |-> "none", out |-> "none", win |-> "none",
   ctx |-> "live", killed |-> FALSE, master |-> "none", esc |-> FALSE, ok |-> FALSE]

Held(b) == launch[b].phase \in {"starting", "bridged", "waiting"}
Launching(b) == launch[b].phase # "none"

\* The answer: the slot is given back, the screen's command goes on.
Answered(b, ok) == [launch EXCEPT ![b] = [NoLaunch EXCEPT !.phase = "answered", !.ok = ok]]

\* Mutant: the user's count is forgotten.
ReleaseGlobal(b) == used' = [used EXCEPT !.global = @ - 1]

ReleaseSlot(b) ==
  used' = [used EXCEPT !.global = @ - 1,
                       !.handle[UserOf[b]] = @ - 1]

-----------------------------------------------------------------------------
(* Launch.                                                                 *)
\* The screen starts a launch, and its command takes the answer.
Launch(b) ==
  /\ launch[b].phase = "none" /\ launches < MaxLaunches /\ b \in attached
  /\ launches' = launches + 1
  /\ launch' = [launch EXCEPT ![b].phase = "asked"]
  /\ UNCHANGED <<limits, used, attached, keyed, changes>>

TakeAnswer(b) ==
  /\ launch[b].phase = "answered"
  /\ launch' = [launch EXCEPT ![b] = NoLaunch]
  /\ UNCHANGED <<limits, used, attached, keyed, changes, launches>>

\* AcquireSlot loads the caps before it takes the lock.
LoadLimits(b) ==
  /\ launch[b].phase = "asked"
  /\ launch' = [launch EXCEPT ![b].phase = "acquiring", ![b].cfg = limits]
  /\ UNCHANGED <<limits, used, attached, keyed, changes, launches>>

Full(b) ==
  \/ launch[b].cfg.global > 0 /\ used.global >= launch[b].cfg.global
  \/ launch[b].cfg.handle > 0 /\ used.handle[UserOf[b]] >= launch[b].cfg.handle

AcquireSlot(b) ==
  /\ launch[b].phase = "acquiring"
  /\ IF Full(b) THEN launch' = Answered(b, FALSE) /\ UNCHANGED used
     ELSE /\ used' = [used EXCEPT !.global = @ + 1, !.handle[UserOf[b]] = @ + 1]
          /\ launch' = [launch EXCEPT ![b].phase = "starting", ![b].cfg = 0]
  /\ UNCHANGED <<limits, attached, keyed, changes, launches>>

UpdateLimits ==
  /\ changes < MaxChanges /\ changes' = changes + 1
  /\ limits' \in LimitSets \ {limits}
  /\ UNCHANGED <<used, launch, attached, keyed, launches>>

\* The profile's directory, the terminal, or the child does not come up; a child
\* whose context is already cancelled is not started.
StartFails(b) ==
  /\ launch[b].phase = "starting"
  /\ ReleaseSlot(b) /\ launch' = Answered(b, FALSE)
  /\ UNCHANGED <<limits, attached, keyed, changes, launches>>

Start(b) ==
  /\ launch[b].phase = "starting" /\ launch[b].ctx = "live"
  /\ launch' = [launch EXCEPT ![b].phase = "bridged", ![b].child = "alive", ![b].in = "on",
                              ![b].out = "on", ![b].win = "on", ![b].master = "open"]
  /\ UNCHANGED <<limits, used, attached, keyed, changes, launches>>

-----------------------------------------------------------------------------
(* The bridge.                                                             *)
Step(b, l) ==
  /\ launch' = [launch EXCEPT ![b] = l]
  /\ UNCHANGED <<limits, used, attached, keyed, changes, launches>>

\* The loop from the session: it looks at what was read for a way out, and
\* forwards the rest; a chord asks for the child's end.
InputEnds(l, kill) == [l EXCEPT !.in = "done", !.ctx = "cancelled", !.killed = @ \/ kill, !.esc = FALSE]

Keys == {"other", "esc", "q", "esc q", "chord"}

AfterKey(l, k) ==
  CASE k \in {"esc q", "chord"} \/ (k = "q" /\ l.esc) -> InputEnds(l, TRUE)
    [] OTHER -> IF l.master = "closed" THEN InputEnds(l, FALSE) ELSE [l EXCEPT !.esc = k = "esc"]

ReadKey(b, k) ==
  /\ b \in attached /\ launch[b].in = "on" /\ keyed < MaxKeys
  /\ keyed' = keyed + 1
  /\ launch' = [launch EXCEPT ![b] = AfterKey(@, k)]
  /\ UNCHANGED <<limits, used, attached, changes, launches>>

\* escQTimeout.
EscExpires(b) == launch[b].esc /\ Step(b, [launch[b] EXCEPT !.esc = FALSE])

\* The channel is gone: the read ends.
StdinEnds(b) == launch[b].in = "on" /\ b \notin attached /\ Step(b, InputEnds(launch[b], FALSE))

\* The loop to the session ends with the child, the terminal or the channel.
StdoutEnds(b) ==
  /\ launch[b].out = "on"
  /\ launch[b].child # "alive" \/ launch[b].master = "closed" \/ b \notin attached
  /\ Step(b, [launch[b] EXCEPT !.out = "done", !.ctx = "cancelled"])

\* The loop for window changes ends with the context, and the terminal is closed.
WindowEnds(b) ==
  /\ launch[b].win = "on" /\ (launch[b].ctx = "cancelled" \/ b \notin attached)
  /\ Step(b, [launch[b] EXCEPT !.win = "done"])

CloseMaster(b) ==
  /\ launch[b].master = "open" /\ launch[b].ctx = "cancelled"
  /\ Step(b, [launch[b] EXCEPT !.master = "closed"])

\* Mutant: a child that nobody asked to end outlives its session.
ChildOutlives(b, end) ==
  /\ launch[b].child = "alive"
  /\ end = "killed" => launch[b].killed
  /\ Step(b, [launch[b] EXCEPT !.child = end])

\* The child: by itself, or when the launch's context is cancelled.
ChildExits(b, end) ==
  /\ launch[b].child = "alive"
  /\ end = "killed" => launch[b].killed \/ b \notin attached
  /\ Step(b, [launch[b] EXCEPT !.child = end])

\* All three loops are over; then the child is waited for.
BridgeReturns(b) ==
  /\ launch[b].phase = "bridged"
  /\ launch[b].in = "done" /\ launch[b].out = "done" /\ launch[b].win = "done"
  /\ Step(b, [launch[b] EXCEPT !.phase = "waiting"])

Wait(b) ==
  /\ launch[b].phase = "waiting" /\ launch[b].child # "alive"
  /\ ReleaseSlot(b) /\ launch' = Answered(b, launch[b].child = "exited")
  /\ UNCHANGED <<limits, attached, keyed, changes, launches>>

ChannelGone(b) ==
  /\ b \in attached
  /\ attached' = attached \ {b}
  /\ launch' = [launch EXCEPT ![b].ctx = IF Launching(b) THEN "cancelled" ELSE @]
  /\ UNCHANGED <<limits, used, keyed, changes, launches>>

-----------------------------------------------------------------------------
CarbonylInit ==
  /\ limits \in LimitSets
  /\ used = [global |-> 0, handle |-> [u \in {UserOf[b] : b \in Browsers} |-> 0]]
  /\ launch = [b \in Browsers |-> NoLaunch]
  /\ attached = Browsers
  /\ keyed = 0 /\ changes = 0 /\ launches = 0

\* What the program and the child do on their own, and what a person does.
Supervises(b) ==
  \/ LoadLimits(b) \/ AcquireSlot(b) \/ StartFails(b) \/ Start(b) \/ StdinEnds(b) \/ StdoutEnds(b)
  \/ WindowEnds(b) \/ CloseMaster(b) \/ ChildExits(b, "killed") \/ BridgeReturns(b) \/ Wait(b)

Browses(b) ==
  \/ \E k \in Keys : ReadKey(b, k)
  \/ EscExpires(b) \/ ChannelGone(b)
  \/ \E end \in {"exited", "failed"} : ChildExits(b, end)

CarbonylNext == UpdateLimits \/ \E b \in Browsers : Supervises(b) \/ Browses(b)

\* The goroutines and the kernel go on; a key, a change of the caps, and the
\* child's own end need not come.
CarbonylFairness == \A b \in Browsers : WF_carbonylVars(Supervises(b))

\* The browser without its screen.
CarbonylSpec ==
  /\ CarbonylInit
  /\ [][CarbonylNext \/ \E b \in Browsers : Launch(b) \/ TakeAnswer(b)]_carbonylVars

-----------------------------------------------------------------------------
(* Properties.                                                             *)
\* The counters are the launches that hold a slot: one that fails, is killed or
\* ends gives its slot back once, and none does while its child runs (limits.go
\* Acquire and its release, runner_linux.go Launch).
SlotsExact ==
  /\ \A b \in Browsers : launch[b].child = "alive" => Held(b)
  /\ used.global = Cardinality({b \in Browsers : Held(b)})
  /\ \A u \in DOMAIN used.handle :
       used.handle[u] = Cardinality({b \in Browsers : Held(b) /\ UserOf[b] = u})

\* A session that is gone gives its slot back, wherever its launch was
\* (ptybridge_linux.go bridgePTY, runner_linux.go Launch).
GoneGivesBack ==
  \A b \in Browsers : b \notin attached ~> launch[b].phase \in {"none", "answered"}

\* ptybridge_linux.go:48 "Returns when ctx is done OR the master read returns EOF
\* (= child exited cleanly OR was killed and the kernel released the pty)".
BridgeEndsWithChild == \A b \in Browsers : (Held(b) /\ launch[b].child = "exited") ~> ~Held(b)
=============================================================================
