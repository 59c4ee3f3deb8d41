------------------------------ MODULE TabPool ------------------------------
(***************************************************************************)
(* The lease table of one identity (packages/core/src/tab-pool.ts): which  *)
(* agent owns which Chrome page target, and the cap on leased tabs.        *)
(*                                                                         *)
(* `lease` is a check followed by an await of Target.createTarget followed *)
(* by an insertion, so any number of calls may stand between the check and *)
(* the insertion while the synchronous operations (adopt, drop, and the    *)
(* deletion half of release) run.  Chrome is the other actor: it answers   *)
(* the commands of the control connection, opens pages of its own (popups, *)
(* tabs opened by a human or by a client over the mux) and loses pages     *)
(* without being asked.  The control connection may be lost once, with or  *)
(* without Chrome: a socket also ends by a reset or a protocol error.      *)
(***************************************************************************)
EXTENDS Naturals, FiniteSets

CONSTANTS
  Agents,    \* the agents that lease tabs of this identity
  Targets,   \* target ids Chrome may mint; an id is never used twice
  Callers,   \* concurrent callers of `lease` (HTTP and MCP requests)
  MaxTabs,   \* TabPoolOptions.maxTabs
  NoAgent,   \* a target no lease names
  NoTarget   \* a call Chrome has not answered

ASSUME TabPoolAssumption ==
  /\ MaxTabs \in Nat
  /\ IsFiniteSet(Targets)
  /\ IsFiniteSet(Callers)
  /\ NoAgent \notin Agents
  /\ NoTarget \notin Targets

VARIABLES
  leases,    \* leases[t]: the agent leasing t, or NoAgent
  pc,        \* pc[c]: "idle", "creating" (command sent) or "created" (answered)
  asker,     \* asker[c]: the agent caller c asks a tab for, or NoAgent
  answer,    \* answer[c]: the target Chrome answered caller c with
  closing,   \* targets whose lease a release dropped, closeTarget unanswered
  live,      \* pages that exist in Chrome
  seen,      \* ids Chrome has minted so far
  foreign,   \* those of them the pool did not ask for
  connected, \* the control connection is up
  lost       \* history: pages whose createTarget was answered, or closeTarget
             \* sent, in vain; no action reads it

callVars   == <<pc, asker, answer>>
chromeVars == <<live, seen, foreign, connected, lost>>
vars == <<leases, pc, asker, answer, closing, live, seen, foreign,
          connected, lost>>

Leased   == {t \in Targets : leases[t] # NoAgent}
InFlight == {c \in Callers : pc[c] # "idle"}
AtCap    == Cardinality(Leased) >= MaxTabs

IsLeasedBy(a, t) == leases[t] = a
TargetsFor(a)    == {t \in Targets : leases[t] = a}

Init ==
  /\ leases = [t \in Targets |-> NoAgent]
  /\ pc = [c \in Callers |-> "idle"]
  /\ asker = [c \in Callers |-> NoAgent]
  /\ answer = [c \in Callers |-> NoTarget]
  /\ closing = {}
  /\ live = {}
  /\ seen = {}
  /\ foreign = {}
  /\ connected = TRUE
  /\ lost = {}

-----------------------------------------------------------------------------
(* The pool's operations.                                                  *)

\* Mutant: register with its two arguments swapped.
RegisterSwapped(a, t) == leases' = [leases EXCEPT ![t] = t]

Register(a, t) == leases' = [leases EXCEPT ![t] = a]

\* Mutant: `lease` without its cap check.
LeaseUncapped(c, a) ==
  /\ pc[c] = "idle"
  /\ pc' = [pc EXCEPT ![c] = "creating"]
  /\ asker' = [asker EXCEPT ![c] = a]
  /\ UNCHANGED <<leases, answer, closing, chromeVars>>

\* lease, up to the await: the cap is read here and not again.
LeaseCheck(c, a) ==
  /\ pc[c] = "idle"
  /\ ~AtCap
  /\ pc' = [pc EXCEPT ![c] = "creating"]
  /\ asker' = [asker EXCEPT ![c] = a]
  /\ UNCHANGED <<leases, answer, closing, chromeVars>>

\* lease, after the await.
LeaseCreated(c) ==
  /\ pc[c] = "created"
  /\ Register(asker[c], answer[c])
  /\ pc' = [pc EXCEPT ![c] = "idle"]
  /\ asker' = [asker EXCEPT ![c] = NoAgent]
  /\ answer' = [answer EXCEPT ![c] = NoTarget]
  /\ UNCHANGED <<closing, chromeVars>>

\* Mutant: `adopt` without its look at the existing lease.
AdoptOver(a, t) ==
  /\ ~AtCap
  /\ Register(a, t)
  /\ UNCHANGED <<callVars, closing, chromeVars>>

\* adopt: a synchronous grant of a page that exists already; the pages it is
\* called for were opened by a client or by another page, never by `lease`.
Adopt(a, t) ==
  /\ leases[t] = NoAgent
  /\ ~AtCap
  /\ Register(a, t)
  /\ UNCHANGED <<callVars, closing, chromeVars>>

AdoptAny == \E a \in Agents, t \in foreign : Adopt(a, t)

\* Mutant: `release` that does what `drop` does.
ReleaseKeepsTab(t) ==
  /\ leases[t] # NoAgent
  /\ leases' = [leases EXCEPT ![t] = NoAgent]
  /\ UNCHANGED <<callVars, closing, chromeVars>>

\* send of a closeTarget for each page of T: a closed socket drops the frame.
SendClose(T) ==
  /\ closing' = closing \cup T
  /\ lost' = IF connected THEN lost ELSE lost \cup T

\* release: the lease goes first, then closeTarget is sent.
Release(t) ==
  /\ leases[t] # NoAgent
  /\ leases' = [leases EXCEPT ![t] = NoAgent]
  /\ SendClose({t})
  /\ UNCHANGED <<callVars, live, seen, foreign, connected>>

\* drop: called once a page is closed, so it closes nothing.
Drop(t) ==
  /\ leases[t] # NoAgent
  /\ t \notin live
  /\ leases' = [leases EXCEPT ![t] = NoAgent]
  /\ UNCHANGED <<callVars, closing, chromeVars>>

\* releaseAll: every release of the snapshot runs up to its await at once.
ReleaseAll ==
  /\ Leased # {}
  /\ leases' = [t \in Targets |-> NoAgent]
  /\ SendClose(Leased)
  /\ UNCHANGED <<callVars, live, seen, foreign, connected>>

-----------------------------------------------------------------------------
(* Chrome and the control connection (packages/cdp/src/client.ts).         *)

ChromeCreates(c, t) ==
  /\ connected
  /\ pc[c] = "creating"
  /\ t \notin seen
  /\ pc' = [pc EXCEPT ![c] = "created"]
  /\ answer' = [answer EXCEPT ![c] = t]
  /\ live' = live \cup {t}
  /\ seen' = seen \cup {t}
  /\ UNCHANGED <<leases, asker, closing, foreign, connected, lost>>

\* createTarget answered with an error: `lease` throws, nothing is registered.
ChromeRefuses(c) ==
  /\ connected
  /\ pc[c] = "creating"
  /\ pc' = [pc EXCEPT ![c] = "idle"]
  /\ asker' = [asker EXCEPT ![c] = NoAgent]
  /\ UNCHANGED <<leases, answer, closing, chromeVars>>

\* closeTarget answered; an error (the page was gone already) is swallowed.
ChromeCloses(t) ==
  /\ connected
  /\ t \in closing
  /\ closing' = closing \ {t}
  /\ live' = live \ {t}
  /\ UNCHANGED <<leases, callVars, seen, foreign, connected, lost>>

\* A popup, a human's tab, or a page a client created through the mux; a
\* Chrome without the connection is known to live by its pages.
PageOpens(t) ==
  /\ connected \/ live # {}
  /\ t \notin seen
  /\ live' = live \cup {t}
  /\ seen' = seen \cup {t}
  /\ foreign' = foreign \cup {t}
  /\ UNCHANGED <<leases, callVars, closing, connected, lost>>

\* A page closed by its user, by itself or by a crash: no lease is dropped.
PageGone(t) ==
  /\ t \in live
  /\ live' = live \ {t}
  /\ UNCHANGED <<leases, callVars, closing, seen, foreign, connected, lost>>

\* Mutant: a close that rejects nothing.
LostSilently ==
  /\ connected
  /\ connected' = FALSE
  /\ live' = {}
  /\ UNCHANGED <<leases, callVars, closing, seen, foreign, lost>>

\* settleAll, on the close or the error of the socket: every command in flight
\* is rejected.  A call whose answer has been read but whose continuation has
\* not run keeps it (S are those calls); the page of any other answer is lost
\* with it.  Chrome has exited, or lives on with its pages.
ConnectionLost ==
  /\ connected
  /\ connected' = FALSE
  /\ live' \in {live, {}}
  /\ closing' = {}
  /\ \E S \in SUBSET {c \in Callers : pc[c] = "created"} :
       /\ pc' = [c \in Callers |-> IF c \in S THEN "created" ELSE "idle"]
       /\ asker' = [c \in Callers |-> IF c \in S THEN asker[c] ELSE NoAgent]
       /\ answer' = [c \in Callers |-> IF c \in S THEN answer[c] ELSE NoTarget]
       /\ lost' = closing \cup ({answer[c] : c \in Callers \ S} \ {NoTarget})
  /\ UNCHANGED <<leases, seen, foreign>>

-----------------------------------------------------------------------------

Next ==
  \/ \E c \in Callers, a \in Agents : LeaseCheck(c, a)
  \/ \E c \in Callers : LeaseCreated(c)
  \/ AdoptAny
  \/ \E t \in Targets : Release(t)
  \/ \E t \in Targets : Drop(t)
  \/ ReleaseAll
  \/ \E c \in Callers, t \in Targets : ChromeCreates(c, t)
  \/ \E c \in Callers : ChromeRefuses(c)
  \/ \E t \in Targets : ChromeCloses(t)
  \/ \E t \in Targets : PageOpens(t)
  \/ \E t \in Targets : PageGone(t)
  \/ ConnectionLost

Spec == Init /\ [][Next]_vars

\* The event loop runs every continuation; a connected Chrome answers every
\* command (an error is an answer).  Nobody has to call, open or close.
ChromeAnswers(c) == ChromeRefuses(c) \/ \E t \in Targets : ChromeCreates(c, t)

Fairness ==
  /\ \A c \in Callers : WF_vars(LeaseCreated(c)) /\ WF_vars(ChromeAnswers(c))
  /\ \A t \in Targets : WF_vars(ChromeCloses(t))

FairSpec == Spec /\ Fairness

-----------------------------------------------------------------------------

\* Every variable has its type (the lease map, the calls in flight, Chrome).
TypeOK ==
  /\ leases \in [Targets -> Agents \cup {NoAgent}]
  /\ pc \in [Callers -> {"idle", "creating", "created"}]
  /\ asker \in [Callers -> Agents \cup {NoAgent}]
  /\ answer \in [Callers -> Targets \cup {NoTarget}]
  /\ closing \in SUBSET Targets
  /\ live \in SUBSET Targets
  /\ seen \in SUBSET Targets
  /\ foreign \in SUBSET Targets
  /\ connected \in BOOLEAN
  /\ lost \in SUBSET Targets

\* What the cap check of `lease` and `adopt` is worth: leases and calls past
\* the check together never exceed the cap by more than the number of callers
\* (tab-pool.ts:53 is read before the await of :56 and not again).
CapOvershootBound ==
  Cardinality(Leased) + Cardinality(InFlight) <= MaxTabs + Cardinality(Callers)

\* Tab affinity (tab-pool.ts:1-3): a tab never passes from one agent to another
\* without its lease having been given up first, whatever overlaps.
LeaseIsExclusive ==
  [][\A t \in Leased : leases'[t] \in {leases[t], NoAgent}]_vars

\* No tab the pool asked Chrome for is left in the browser with nobody who will
\* close it: it is leased, about to be registered, or being closed.  What is
\* left over in a Chrome that outlives the control connection is only what was
\* in flight when it went, or was released since (tab-pool.ts:56 and 93).
NoLeakedTab ==
  (live \ foreign) \subseteq
    (Leased \cup {answer[c] : c \in Callers} \cup (IF connected THEN closing ELSE lost))

\* Every command in flight on a live control connection ends the await that
\* sent it, by Chrome's answer or by the loss of the connection (client.ts:28).
AwaitsSettle ==
  /\ \A c \in Callers : (pc[c] # "idle" /\ connected) ~> pc[c] = "idle"
  /\ \A t \in Targets : (t \in closing /\ connected) ~> t \notin closing

-----------------------------------------------------------------------------
(* Statements the code does not keep (README, section 5).                   *)

\* client.ts:28 as documented: no caller of a release hangs, whatever the state
\* of the connection when the command is sent.
ReleasesSettle == \A t \in Targets : t \in closing ~> t \notin closing

\* tab-pool.ts:90 and 92-95 as documented: "release (and close) a leased tab",
\* and when the command fails, because the tab may already be gone.
NoStrandedTab ==
  (live \ foreign) \subseteq (Leased \cup {answer[c] : c \in Callers} \cup closing)

=============================================================================
