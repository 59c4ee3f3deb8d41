------------------------------ MODULE Console ------------------------------
(***************************************************************************)
(* The sessions view of the dashboard over the gateway, for one identity   *)
(* (apps/web: useGateway, SessionsView, SessionRow, TabCard; apps/gateway: *)
(* listSessions, listTargets, captureTab).                                 *)
(*                                                                         *)
(* The view polls the list of sessions on a timer and once more after      *)
(* everything the user does; the answers may overtake each other.  Each    *)
(* card polls a picture of its tab, the requests of which share a capture  *)
(* on the control connection.  Agents and other dashboards open and close  *)
(* tabs all the while; every call of the gateway that does so is a step of *)
(* its own module (TabPool, Lifecycle) and atomic here.                    *)
(***************************************************************************)
EXTENDS Naturals, FiniteSets, Sequences, SequencesExt

CONSTANTS
  Tabs,      \* ids of pages, each used once
  MaxLists,  \* bound: list requests in flight
  MaxCalls,  \* bound: controls with an action in flight
  MaxShots,  \* bound: captures of a tab
  Poll,      \* who asked for a list: the timer, or the control pressed
  None

ASSUME ConsoleAssumption ==
  /\ MaxLists \in Nat \ {0} /\ MaxCalls \in Nat /\ MaxShots \in Nat
  /\ None \notin Tabs

\* The keys of SessionsView's run.
Controls ==
  ({"create", "start", "stop", "delete", "health", "tab"} \X {None})
    \cup ({"release", "close"} \X Tabs)

VARIABLES
  state,     \* the session: "deleted", "stopped", "running"
  pages,     \* pages open in its Chrome
  leased,    \* tabs an agent leases
  fresh,     \* ids not used so far
  captures,  \* captures in flight: the tab, the number, the step
  sessions,  \* sessions Chrome keeps for captures
  shots,     \* shots[t]: captures of t begun
  lists,     \* list requests in flight, eldest first
  shown,     \* the list on the screen
  calls,     \* calls[k]: how far the action behind control k is
  probes,    \* requests of pictures in flight
  thumb      \* thumb[t]: the picture on the card, by the number of its capture

worldVars   == <<state, pages, leased, fresh>>
captureVars == <<captures, sessions, shots>>
listVars    == <<lists, shown>>
pictureVars == <<probes, thumb>>
vars == <<worldVars, captureVars, listVars, calls, pictureVars>>

NoPicture == 0
Snapshot(s, cards) == [state |-> s, cards |-> cards]
NoCards == [t \in Tabs |-> "none"]

Init ==
  /\ state = "stopped"
  /\ pages = {} /\ leased = {} /\ fresh = Tabs
  /\ captures = {} /\ sessions = {} /\ shots = [t \in Tabs |-> 0]
  /\ lists = <<>> /\ shown = None
  /\ calls = [k \in Controls |-> "idle"]
  /\ probes = {} /\ thumb = [t \in Tabs |-> NoPicture]

-----------------------------------------------------------------------------
(* What the gateway and others do.                                         *)

\* A page that closes takes its sessions along.
Closed(gone) ==
  /\ pages' = pages \ gone
  /\ sessions' = {s \in sessions : s[1] \notin gone}

Opens(t) ==
  /\ state = "running" /\ t \in fresh
  /\ pages' = pages \cup {t}
  /\ fresh' = fresh \ {t}

\* An agent leases a tab, or somebody at the browser opens one.
OpenElsewhere(t) ==
  /\ Opens(t)
  /\ leased' \in {leased, leased \cup {t}}
  /\ UNCHANGED <<state, captureVars, listVars, calls, pictureVars>>

\* A page is closed, by its agent or a human; the lease is dropped, or stays.
CloseElsewhere(t) ==
  /\ t \in pages
  /\ Closed({t})
  /\ leased' \in {leased, leased \ {t}}
  /\ UNCHANGED <<state, fresh, captures, shots, listVars, calls, pictureVars>>

Becomes(s) ==
  /\ state' = s
  /\ IF s = "running" THEN UNCHANGED <<pages, leased, sessions>>
     ELSE Closed(pages) /\ leased' = {}

\* What a request does to the world, and what it answers.
Does(kind, t, answer) ==
  CASE kind = "create" ->
         IF state = "deleted" THEN answer = "ok" /\ Becomes("stopped") /\ UNCHANGED fresh
         ELSE answer = "failed" /\ UNCHANGED <<worldVars, sessions>>
    [] kind = "start" ->
         IF state = "stopped" THEN answer = "ok" /\ Becomes("running") /\ UNCHANGED fresh
         ELSE answer = "failed" /\ UNCHANGED <<worldVars, sessions>>
    [] kind = "stop" ->
         /\ answer = "ok"
         /\ IF state = "running" THEN Becomes("stopped") /\ UNCHANGED fresh
            ELSE UNCHANGED <<worldVars, sessions>>
    [] kind = "delete" -> answer = "ok" /\ Becomes("deleted") /\ UNCHANGED fresh
    [] kind = "health" ->
         /\ answer = IF state = "running" THEN "ok" ELSE "failed"
         /\ UNCHANGED <<worldVars, sessions>>
    [] kind = "tab" ->
         IF state = "running" /\ fresh # {}
         THEN /\ answer = "ok"
              /\ \E u \in fresh : Opens(u) /\ leased' = leased \cup {u}
              /\ UNCHANGED <<state, sessions>>
         ELSE answer = "failed" /\ UNCHANGED <<worldVars, sessions>>
    [] kind = "release" ->
         /\ answer = "ok"
         /\ Closed({t} \cap leased) /\ leased' = leased \ {t} /\ UNCHANGED <<state, fresh>>
    [] kind = "close" ->
         /\ answer = "ok"
         /\ Closed({t}) /\ leased' = leased \ {t} /\ UNCHANGED <<state, fresh>>

\* Somebody else starts, stops, creates or deletes the session.
RunElsewhere(kind) ==
  /\ \E answer \in {"ok", "failed"} : Does(kind, None, answer)
  /\ UNCHANGED <<captures, shots, listVars, calls, pictureVars>>

-----------------------------------------------------------------------------
(* Captures.                                                               *)

Capture(t, n, step) == [tab |-> t, n |-> n, step |-> step]
Probe(t, n) == [tab |-> t, n |-> n, answered |-> FALSE]
Capturing(t) == {c \in captures : c.tab = t}

ToStep(c, step) == captures' = (captures \ {c}) \cup {[c EXCEPT !.step = step]}

\* The promise of a capture settles, and with it every request that shares it; a
\* request that fails leaves the card with the last good picture.
Settle(c, ok) ==
  LET sharing == {p \in probes : p.tab = c.tab /\ p.n = c.n} IN
  /\ captures' = captures \ {c}
  /\ probes' = (probes \ sharing) \cup
                 (IF ok THEN {[p EXCEPT !.answered = TRUE] : p \in sharing} ELSE {})

\* captureTab: a request joins the capture in flight, or begins one.
CaptureTab(t, others) ==
  \/ \E c \in Capturing(t) :
       probes' = others \cup {Probe(t, c.n)} /\ UNCHANGED <<captures, shots>>
  \/ /\ Capturing(t) = {}
     /\ shots[t] < MaxShots
     /\ shots' = [shots EXCEPT ![t] = @ + 1]
     /\ captures' = captures \cup {Capture(t, shots[t] + 1, "attach")}
     /\ probes' = others \cup {Probe(t, shots[t] + 1)}

\* Chrome attaches, or the page is gone.
Attach(c) ==
  /\ c.step = "attach"
  /\ IF c.tab \in pages
     THEN ToStep(c, "shoot") /\ sessions' = sessions \cup {<<c.tab, c.n>>} /\ UNCHANGED probes
     ELSE Settle(c, FALSE) /\ UNCHANGED sessions
  /\ UNCHANGED <<worldVars, shots, listVars, calls, thumb>>

\* Chrome answers with a picture.
Shoot(c) ==
  /\ c.step = "shoot" /\ <<c.tab, c.n>> \in sessions
  /\ ToStep(c, "shot")
  /\ UNCHANGED <<worldVars, sessions, shots, listVars, calls, pictureVars>>

\* Mutant: after four seconds the capture is given up as it is.
GiveUpAttached(c) ==
  /\ c.step = "shoot"
  /\ Settle(c, FALSE)
  /\ UNCHANGED <<worldVars, sessions, shots, listVars, calls, thumb>>

\* An error, or nothing for four seconds.
GiveUp(c) ==
  /\ c.step = "shoot"
  /\ ToStep(c, "missed")
  /\ UNCHANGED <<worldVars, sessions, shots, listVars, calls, pictureVars>>

\* The finally: the session is detached whatever came of it, if it still exists.
Detach(c) ==
  /\ c.step \in {"shot", "missed"}
  /\ sessions' = sessions \ {<<c.tab, c.n>>}
  /\ Settle(c, c.step = "shot")
  /\ UNCHANGED <<worldVars, shots, listVars, calls, thumb>>

-----------------------------------------------------------------------------
(* The list.                                                               *)

SendList(by) ==
  lists' = Append(lists, [by |-> by, step |-> "sent", pages |-> {}, answer |-> None])

\* The timer asks again, answered or not.
PollList ==
  /\ Len(lists) < MaxLists
  /\ SendList(Poll)
  /\ UNCHANGED <<worldVars, captureVars, shown, calls, pictureVars>>

\* The cards of a session that runs: its leases, and the pages that nobody leases.
Cards(leases, found) ==
  [t \in Tabs |-> IF t \in leases THEN "leased" ELSE IF t \in found THEN "unowned" ELSE "none"]

Truth == Snapshot(state, Cards(leased, pages))

Turns(i, entry) ==
  /\ lists' = [lists EXCEPT ![i] = entry]
  /\ UNCHANGED <<worldVars, captureVars, shown, calls, pictureVars>>

\* listSessions: a session that does not run is listed as it is; of one that does,
\* Chrome is asked for its pages.
ReadState(i) ==
  /\ lists[i].step = "sent"
  /\ Turns(i, IF state = "running" THEN [lists[i] EXCEPT !.step = "asked"]
              ELSE [lists[i] EXCEPT !.step = "answered", !.answer = Snapshot(state, NoCards)])

\* Target.getTargets.
ReadPages(i) ==
  /\ lists[i].step = "asked"
  /\ Turns(i, [lists[i] EXCEPT !.step = "read", !.pages = pages])

\* It fails, as when the identity is torn down meanwhile: the list has bare leases.
MissPages(i) ==
  /\ lists[i].step = "asked"
  /\ Turns(i, [lists[i] EXCEPT !.step = "read"])

\* The leases are those of the moment the pages have come.
AnswerList(i) ==
  /\ lists[i].step = "read"
  /\ Turns(i, [lists[i] EXCEPT !.step = "answered", !.pages = {},
                               !.answer = Snapshot("running", Cards(leased, lists[i].pages))])

\* Nobody waits for the list at position i any more.
Listed(i) ==
  /\ lists' = RemoveAt(lists, i)
  /\ calls' = IF lists[i].by = Poll THEN calls ELSE [calls EXCEPT ![lists[i].by] = "idle"]

\* The state of a card is lost with the card; its requests are cancelled.
Mounted(list, t) ==
  /\ list # None
  /\ list.state = "running" /\ list.cards[t] # "none"

Shows(list) ==
  /\ shown' = list
  /\ thumb' = [t \in Tabs |-> IF Mounted(list, t) THEN thumb[t] ELSE NoPicture]
  /\ probes' = {p \in probes : Mounted(list, p.tab)}

\* Mutant: an error takes the list off the screen.
FailBlanks(i) ==
  /\ Listed(i)
  /\ Shows(None)
  /\ UNCHANGED <<worldVars, captureVars>>

\* The gateway is out of reach: the list on the screen stays.
FailList(i) ==
  /\ Listed(i)
  /\ UNCHANGED <<worldVars, captureVars, shown, pictureVars>>

\* refresh: an answer is shown whichever request it answers; the action that
\* waited for it is over.
DeliverList(i) ==
  /\ lists[i].step = "answered"
  /\ Listed(i)
  /\ Shows(lists[i].answer)
  /\ UNCHANGED <<worldVars, captureVars>>

-----------------------------------------------------------------------------
(* The controls.                                                           *)

\* The control is on the screen (a row that is listed, a card, a state that
\* allows it).
OnForm(k) == k[1] = "create" \/ (k[1] = "tab" /\ shown.state = "running")

OnHeader(k) ==
  \/ k[1] = "start"  /\ shown.state = "stopped"
  \/ k[1] \in {"stop", "health"} /\ shown.state = "running"
  \/ k[1] = "delete" /\ shown.state # "deleted"

OnLeasedCard(k)  == k[1] = "release" /\ Mounted(shown, k[2]) /\ shown.cards[k[2]] = "leased"
OnUnownedCard(k) == k[1] = "close" /\ Mounted(shown, k[2]) /\ shown.cards[k[2]] = "unowned"

Offered(k) ==
  /\ shown # None
  /\ OnForm(k) \/ OnHeader(k) \/ OnLeasedCard(k) \/ OnUnownedCard(k)

Running == {k \in Controls : calls[k] # "idle"}

\* run: a control is pressed; its own key stops a second call, also one that
\* comes before it is rendered as busy.
Press(k) ==
  /\ Offered(k)
  /\ calls[k] = "idle"
  /\ Cardinality(Running) < MaxCalls
  /\ calls' = [calls EXCEPT ![k] = "sent"]
  /\ UNCHANGED <<worldVars, captureVars, listVars, pictureVars>>

\* The gateway handles the request and answers; after a success the list is read
\* again before the control is free.
Handle(k) ==
  /\ calls[k] = "sent"
  /\ \/ /\ Does(k[1], k[2], "ok")
        /\ Len(lists) < MaxLists
        /\ SendList(k)
        /\ calls' = [calls EXCEPT ![k] = "listing"]
     \/ /\ Does(k[1], k[2], "failed")
        /\ calls' = [calls EXCEPT ![k] = "idle"]
        /\ UNCHANGED lists
  /\ UNCHANGED <<captures, shots, shown, pictureVars>>

-----------------------------------------------------------------------------
(* The pictures.                                                           *)

\* Mutant: the request before is not cancelled.
TickOnTop(t) ==
  /\ Mounted(shown, t)
  /\ CaptureTab(t, probes)
  /\ UNCHANGED <<worldVars, sessions, listVars, calls, thumb>>

\* The tick advances: the request before is cancelled and another one is made.
Tick(t) ==
  /\ Mounted(shown, t)
  /\ CaptureTab(t, {p \in probes : p.tab # t})
  /\ UNCHANGED <<worldVars, sessions, listVars, calls, thumb>>

\* The image is decoded.
Land(p) ==
  /\ p.answered
  /\ probes' = probes \ {p}
  /\ thumb' = [thumb EXCEPT ![p.tab] = p.n]
  /\ UNCHANGED <<worldVars, captureVars, listVars, calls>>

-----------------------------------------------------------------------------

Elsewhere ==
  \/ \E t \in Tabs : OpenElsewhere(t) \/ CloseElsewhere(t)
  \/ \E kind \in {"create", "start", "stop", "delete"} : RunElsewhere(kind)

CaptureStep(c) == Attach(c) \/ GiveUp(c) \/ Detach(c)
ListStep(i) ==
  \/ ReadState(i) \/ ReadPages(i) \/ MissPages(i) \/ AnswerList(i)
  \/ FailList(i) \/ DeliverList(i)

Next ==
  \/ Elsewhere
  \/ PollList
  \/ \E i \in DOMAIN lists : ListStep(i)
  \/ \E k \in Controls : Press(k) \/ Handle(k)
  \/ \E c \in captures : CaptureStep(c) \/ Shoot(c)
  \/ \E t \in Tabs : Tick(t)
  \/ \E p \in probes : Land(p)

Spec == Init /\ [][Next]_vars

\* The timer of the list runs, and list requests are answered or fail in the end.
FairSpec ==
  /\ Spec
  /\ WF_vars(PollList)
  /\ WF_vars(lists # <<>> /\ ListStep(1))

-----------------------------------------------------------------------------
(* Properties.                                                             *)

States == {"deleted", "stopped", "running"}
Lists  == [state : States, cards : [Tabs -> {"none", "leased", "unowned"}]]

\* Every variable has its type.
TypeOK ==
  /\ state \in States
  /\ pages \in SUBSET Tabs /\ leased \in SUBSET Tabs /\ fresh \in SUBSET Tabs
  /\ captures \in SUBSET [tab : Tabs, n : Nat, step : {"attach", "shoot", "shot", "missed"}]
  /\ sessions \in SUBSET (Tabs \X Nat) /\ shots \in [Tabs -> Nat]
  /\ lists \in Seq([by : Controls \cup {Poll}, step : {"sent", "asked", "read", "answered"},
                    pages : SUBSET Tabs, answer : Lists \cup {None}])
  /\ shown \in Lists \cup {None}
  /\ calls \in [Controls -> {"idle", "sent", "listing"}]
  /\ probes \in SUBSET [tab : Tabs, n : Nat, answered : BOOLEAN]
  /\ thumb \in [Tabs -> Nat]

\* An answer may be overtaken by an older one and undo what is on the screen, a
\* card that was closed coming back; but once nothing changes any more the list
\* on the screen is the true one and stays so (useGateway.ts:75-96), if answers
\* keep coming at all and Chrome is not missing from them.
ListConverges ==
  ([]<><<\E i \in DOMAIN lists : DeliverList(i)>>_vars
     /\ <>[][FALSE]_worldVars
     /\ <>[][~\E i \in DOMAIN lists : MissPages(i)]_lists) => <>[](shown = Truth)

\* "Stacking attaches per tab is how you get a Chrome full of orphaned sessions"
\* (gateway.service.ts:230-231, 258-260): a tab has at most one session for
\* pictures, and only while the capture it serves is in flight.
NoStackedSessions ==
  /\ \A s \in sessions : \E c \in captures : s = <<c.tab, c.n>>
  /\ \A t \in Tabs : Cardinality(Capturing(t)) <= 1

\* The picture on a card never gives way to an older one, however requests are
\* shared, time out and overtake each other (TabCard.tsx:43-61,
\* gateway.service.ts:233-240).
PicturesMoveForward ==
  [][\A t \in Tabs : NoPicture \notin {thumb[t], thumb'[t]}
       => thumb'[t] >= thumb[t]]_vars

=============================================================================
