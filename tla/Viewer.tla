------------------------------- MODULE Viewer -------------------------------
(***************************************************************************)
(* A human in the takeover view of the dashboard (apps/web TakeoverView)   *)
(* over its socket to the takeover hub of one identity: the strip of tabs, *)
(* the picture, the deep link to a tab, dragging, cutting, the address     *)
(* field and the release button, while tabs come and go, somebody else     *)
(* picks tabs, and the identity is stopped and started again, after which  *)
(* the next connection replaces the hub (cdp-upgrade.ts).                  *)
(*                                                                         *)
(* TakeoverHub models the awaits inside the jobs of the hub; here a job is *)
(* one step, and what is looked at is what the hub tells its viewers, what *)
(* they tell it, and how late either is.                                   *)
(***************************************************************************)
EXTENDS Naturals, FiniteSets, Sequences

Seqs == INSTANCE SequencesExt

CONSTANTS
  Pages,     \* page targets; each opens at most once
  Sockets,   \* sockets of viewers; each connects at most once
  MaxActs,   \* bound: what humans, agents and pages do
  MaxJobs,   \* bound: they do it while the hub has fewer jobs and pushes
  NoPage, NoSocket

ASSUME ViewerAssumption ==
  /\ Sockets \subseteq Nat /\ MaxActs \in Nat /\ MaxJobs \in Nat
  /\ NoPage \notin Pages /\ NoSocket \notin Sockets

VARIABLES
  \* The identity and its Chrome.
  running,   \* isRunning
  client,    \* the control client, numbered; a restart makes a new one
  url,       \* url[p]: "none" (yet to open), "blank", "site" or "gone"
  selected,  \* pages with something selected in them
  \* The gateway.
  hub,       \* the hub of the identity, a record
  sock,      \* sock[s]: "new", "open" or "closed"
  up,        \* up[s]: what is on its way from s to the gateway
  \* The view.
  mine,      \* the socket of the view, or NoSocket
  view,      \* its state, a record
  down,      \* what is on its way to the view
  httpCalls, \* calls of its toolbar that are in flight
  acts       \* how many acts there were

chrome     == <<running, client, url, selected>>
wires      == <<sock, up, mine, down>>
viewerVars == <<chrome, hub, wires, view, httpCalls, acts>>

OpenPages == {p \in Pages : url[p] \in {"blank", "site"}}
Sites     == {p \in Pages : url[p] = "site"}

\* listTargets of the service.
Listing == [p \in IF running THEN OpenPages ELSE {} |-> url[p]]

NoFrame == [page |-> NoPage, url |-> "none"]

Hub(c) ==
  [client |-> c, viewers |-> {}, joined |-> {}, jobs |-> <<>>,
   cast |-> NoPage,      \* the page of sessionId
   active |-> NoPage, wanted |-> NoPage,
   frame |-> NoFrame,    \* lastFrame
   watching |-> FALSE,
   info |-> FALSE,       \* infoPush is set
   pushes |-> <<>>,      \* pushTargets that wait for the list
   cuts |-> <<>>,        \* calls of onClipboard that wait for a page
   held |-> [p \in Pages |-> NoSocket],  \* Chrome's: who pressed the button that is down in p
   left |-> {}]          \* history: the pages the cast left with their button down

\* The hub can reach Chrome.
Live == running /\ hub.client = client

\* What the mount of the component leaves of the state of an earlier one: all of
\* it when only the identity or the link changed, else nothing.
FreshView(link) ==
  [link |-> link, asked |-> NoPage, list |-> <<>>, tab |-> NoPage,
   image |-> NoFrame, waiting |-> FALSE, holding |-> FALSE, picked |-> FALSE]

ViewerInit ==
  /\ running = TRUE /\ client = 1
  /\ url \in [Pages -> {"none", "site"}]  \* a bound: blank tabs open later
  /\ selected = Pages
  /\ hub = Hub(0)
  /\ sock = [s \in Sockets |-> "new"]
  /\ up = [s \in Sockets |-> <<>>]
  /\ mine = NoSocket
  /\ view = FreshView(NoPage)
  /\ down = <<>> /\ httpCalls = {} /\ acts = 0

-----------------------------------------------------------------------------
(* Messages.                                                               *)

\* What the view is sent when the hub h sends the messages ms to the sockets to.
Tells(h, to, ms) ==
  IF mine \in to /\ sock[mine] = "open" THEN down \o ms ELSE down

Frame(f)        == [type |-> "frame", frame |-> f]
Waiting         == [type |-> "waiting"]
Targets(l, tab) == [type |-> "targets", list |-> l, tab |-> tab]
Clipboard       == [type |-> "clipboard"]

\* send of the view: only over an open socket.
Says(m) ==
  IF mine # NoSocket /\ sock[mine] = "open"
  THEN up' = [up EXCEPT ![mine] = Append(@, m)] ELSE up' = up

Say(type)   == [type |-> type, page |-> NoPage]
AttachTo(p) == [type |-> "attach", page |-> p]

-----------------------------------------------------------------------------
(* The jobs of the hub.                                                    *)

\* attachFrontPage: the tab picked if it is still open, else one that shows
\* something, else any.  The order Chrome lists them in is not specified.
FrontPage(h) ==
  IF OpenPages = {} THEN {NoPage}
  ELSE IF h.wanted \in OpenPages THEN {h.wanted}
  ELSE IF Sites # {} THEN Sites ELSE OpenPages

\* startCasting: what the hub may be afterwards.
Started(h) ==
  IF h.cast # NoPage THEN {h}
  ELSE {[h EXCEPT !.watching = TRUE, !.cast = p, !.active = p] : p \in FrontPage(h)}

\* Their session is gone.
Cutoff(cuts) == [i \in DOMAIN cuts |-> [cuts[i] EXCEPT !.live = FALSE]]

\* stopCasting: the page is left as it is, with its button down if it was.
Stopped(h) ==
  IF h.cast = NoPage THEN h
  ELSE [h EXCEPT !.cast = NoPage, !.frame = NoFrame, !.cuts = Cutoff(@),
                 !.left = IF h.held[h.cast] = NoSocket THEN @ ELSE @ \cup {h.cast}]

\* What the viewers are told when a start has found nothing to cast.
Word(h) == IF h.cast = NoPage THEN <<Waiting>> ELSE <<>>

Asks(h, to) == [h EXCEPT !.pushes = Append(@, [to |-> to, read |-> FALSE, list |-> <<>>])]
Queues(h, kind, s) == [h EXCEPT !.jobs = Append(@, [kind |-> kind, socket |-> s])]

Job(kind) == Live /\ hub.jobs # <<>> /\ Head(hub.jobs).kind = kind
Ran(h)    == [h EXCEPT !.jobs = Tail(@)]

\* addViewer, once its job is done: the last frame is replayed, the list asked
\* for, and only now are the handlers of the socket registered.
RunJoin ==
  /\ Job("join")
  /\ \E h \in Started(Ran(hub)) :
       LET s == Head(hub.jobs).socket IN
       /\ hub' = Asks([h EXCEPT !.joined = @ \cup {s}], {s})
       /\ down' = Tells(h, h.viewers, Word(h)
                    \o IF s = mine /\ h.frame # NoFrame THEN <<Frame(h.frame)>> ELSE <<>>)
  /\ UNCHANGED <<chrome, sock, up, mine, view, httpCalls, acts>>

\* attachTo; and onTargetChange, which stops only a cast whose page is gone.
RunSwitch ==
  /\ Job("switch") \/ Job("refresh")
  /\ LET stop == Job("switch") \/ hub.cast \notin OpenPages IN
     \E h \in Started(IF stop THEN Stopped(Ran(hub)) ELSE Ran(hub)) :
       /\ hub' = Asks(h, Sockets)
       /\ down' = Tells(h, h.viewers, Word(h))
  /\ UNCHANGED <<chrome, sock, up, mine, view, httpCalls, acts>>

\* The last viewer left.
RunStop ==
  /\ Job("stop")
  /\ hub' = [Stopped(Ran(hub)) EXCEPT !.watching = FALSE, !.info = FALSE]
  /\ UNCHANGED <<chrome, wires, view, httpCalls, acts>>

\* A job that waits for a control client that was closed is rejected; a viewer
\* that waited for it to join is disconnected.
JobFails ==
  /\ ~Live /\ hub.jobs # <<>>
  /\ hub' = Ran(hub)
  /\ sock' = IF Head(hub.jobs).kind = "join"
             THEN [sock EXCEPT ![Head(hub.jobs).socket] = "closed"] ELSE sock
  /\ UNCHANGED <<chrome, up, mine, down, view, httpCalls, acts>>

\* The debounce of onTargetInfoChanged has passed.
InfoPush ==
  /\ hub.info
  /\ hub' = Asks([hub EXCEPT !.info = FALSE], Sockets)
  /\ UNCHANGED <<chrome, wires, view, httpCalls, acts>>

\* Chrome answers the listTargets of the first push that waits for it.
ListRead ==
  /\ \E i \in DOMAIN hub.pushes :
       /\ \A j \in DOMAIN hub.pushes : hub.pushes[j].read <=> j < i
       /\ hub' = [hub EXCEPT !.pushes[i].read = TRUE, !.pushes[i].list = Listing]
  /\ UNCHANGED <<chrome, wires, view, httpCalls, acts>>

\* The rest of pushTargets: the list, with the tab that is cast by now, goes to
\* one viewer or to all there are by now.
ListSent ==
  /\ hub.pushes # <<>> /\ Head(hub.pushes).read
  /\ LET push == Head(hub.pushes)
         to == IF push.to = Sockets THEN hub.viewers ELSE push.to IN
     down' = Tells(hub, to, <<Targets(push.list, hub.active)>>)
  /\ hub' = [hub EXCEPT !.pushes = Tail(@)]
  /\ UNCHANGED <<chrome, sock, up, mine, view, httpCalls, acts>>

\* The page that is cast repaints, because it was attached or navigated.
Repaint ==
  LET f == [page |-> hub.cast, url |-> url[hub.cast]] IN
  /\ Live /\ hub.cast \in OpenPages
  /\ hub.frame # f
  /\ hub' = [hub EXCEPT !.frame = f]
  /\ down' = Tells(hub, hub.viewers, <<Frame(f)>>)
  /\ UNCHANGED <<chrome, sock, up, mine, view, httpCalls, acts>>

-----------------------------------------------------------------------------
(* What the gateway receives from a viewer.                                *)

\* Input goes to the session that is cast, and nowhere without one: the button of
\* its page goes down or comes up.
Button(h, s) ==
  IF h.cast = NoPage THEN h
  ELSE [h EXCEPT !.held[h.cast] = s, !.left = @ \ {h.cast}]

\* onClipboard: the session is looked up before the selection is asked for.
Cutting(h, s) ==
  IF h.cast = NoPage THEN h
  ELSE [h EXCEPT !.cuts =
         Append(@, [socket |-> s, page |-> h.cast, live |-> TRUE, read |-> FALSE])]

\* attachTo: nothing happens if the tab is the one that is cast by now.
Attaches(h, p) ==
  IF p = h.active THEN h ELSE Queues([h EXCEPT !.wanted = p], "switch", NoSocket)

\* drop.
Drops(h, s) ==
  LET left == [h EXCEPT !.viewers = @ \ {s}, !.joined = @ \ {s}] IN
  IF left.viewers = {} THEN Queues(left, "stop", NoSocket) ELSE left

\* What comes before the handlers are registered has no reader.
Handled(m, s) ==
  IF s \notin hub.joined THEN hub
  ELSE CASE m.type = "attach" -> Attaches(hub, m.page)
         [] m.type = "press"  -> Button(hub, s)
         [] m.type = "letgo"  -> Button(hub, NoSocket)
         [] m.type = "key"    -> hub
         [] m.type = "cut"    -> Cutting(hub, s)
         [] m.type = "close"  -> Drops(hub, s)

\* What is selected in the page cast goes with a press or a key, and comes with the
\* end of a drag or with a key.
Selections(m) ==
  LET cast == {hub.cast} \cap OpenPages IN
  {selected}
    \cup {selected \ cast : x \in {m.type} \cap {"press", "key"}}
    \cup {selected \cup cast : x \in {m.type} \cap {"letgo", "key"}}

Receive(s) ==
  /\ sock[s] = "open" /\ up[s] # <<>>
  /\ LET m == Head(up[s]) IN
     /\ hub' = Handled(m, s)
     /\ IF s \in hub.joined THEN selected' \in Selections(m) ELSE selected' = selected
     /\ sock' = IF m.type = "close" THEN [sock EXCEPT ![s] = "closed"] ELSE sock
  /\ up' = [up EXCEPT ![s] = Tail(@)]
  /\ UNCHANGED <<running, client, url, mine, down, view, httpCalls, acts>>

\* The page answers what is selected in it; nothing is deleted when that is
\* nothing, and nothing is answered when the session is gone.
CutReads(i) ==
  LET cut == hub.cuts[i]  alive == cut.live /\ Live /\ cut.page \in OpenPages IN
  /\ ~cut.read
  /\ IF alive /\ cut.page \in selected
     THEN hub' = [hub EXCEPT !.cuts[i].read = TRUE] /\ down' = down
     ELSE /\ hub' = [hub EXCEPT !.cuts = Seqs!RemoveAt(@, i)]
          /\ down' = IF alive THEN Tells(hub, {cut.socket}, <<Clipboard>>) ELSE down
  /\ UNCHANGED <<chrome, sock, up, mine, view, httpCalls, acts>>

\* Delete goes to the session the text was read from, if that is still there,
\* and the text to the viewer that asked.
CutDeletes(i) ==
  LET cut == hub.cuts[i] IN
  /\ cut.read
  /\ selected' = IF cut.live THEN selected \ {cut.page} ELSE selected
  /\ hub' = [hub EXCEPT !.cuts = Seqs!RemoveAt(@, i)]
  /\ down' = Tells(hub, {cut.socket}, <<Clipboard>>)
  /\ UNCHANGED <<running, client, url, sock, up, mine, view, httpCalls, acts>>

-----------------------------------------------------------------------------
(* Connections.                                                            *)

\* The viewers that dispose closes when the hub holds an old control client.
Disposed == IF hub.client \in {0, client} THEN {} ELSE hub.viewers

\* The upgrade handler: s is a viewer of the hub of the current control client.
Admits(s) ==
  LET h == IF hub.client = client THEN hub ELSE Hub(client) IN
  /\ running
  /\ hub' = Queues([h EXCEPT !.viewers = @ \cup {s}], "join", s)
  /\ sock' = [t \in Sockets |->
       IF t = s THEN "open"
       ELSE IF t \in Disposed /\ sock[t] = "open" THEN "closed" ELSE sock[t]]

\* What comes from outside is bounded, and waits while the hub has much to do.
Calm   == Len(hub.jobs) + Len(hub.pushes) < MaxJobs
MayAct == acts < MaxActs /\ Calm
Act    == acts' = acts + 1

\* The sockets are used in the order of their numbers.
NextSocket(s) == sock[s] = "new" /\ \A t \in Sockets : t < s => sock[t] # "new"

\* The view connects, with or without a link to a tab: a fresh component, or one
\* that comes back from another identity, which keeps `requestedTarget` and has
\* overwritten the rest with what the other identity's hub had told it.
Mount(s) ==
  /\ MayAct /\ mine = NoSocket /\ NextSocket(s)
  /\ \E link \in Pages \cup {NoPage}, kept \in BOOLEAN, waiting \in BOOLEAN :
       /\ kept \/ ~waiting
       /\ view' = IF kept
                  THEN [FreshView(link) EXCEPT
                         !.asked = view.asked, !.waiting = waiting, !.holding = view.holding,
                         !.picked = view.picked /\ link = view.link]
                  ELSE FreshView(link)
  /\ Admits(s)
  /\ mine' = s /\ down' = <<>> /\ httpCalls' = {}
  /\ Act /\ UNCHANGED <<chrome, up>>

\* The effect is cleaned up: the socket is closed behind what was sent over it.
Unmount ==
  /\ Calm /\ mine # NoSocket
  /\ Says(Say("close"))
  /\ mine' = NoSocket /\ down' = <<>>
  /\ UNCHANGED <<chrome, hub, sock, view, httpCalls, acts>>

\* Somebody else's viewer connects, picks a tab, types, cuts, disconnects.
OtherJoins(s) ==
  /\ MayAct /\ NextSocket(s)
  /\ Admits(s)
  /\ Act /\ UNCHANGED <<chrome, up, mine, down, view, httpCalls>>

OtherSays(s) ==
  /\ MayAct /\ s # mine /\ sock[s] = "open" /\ up[s] = <<>>
  /\ \E m \in {AttachTo(p) : p \in OpenPages} \cup {Say("key"), Say("cut"), Say("close")} :
       up' = [up EXCEPT ![s] = <<m>>]
  /\ Act /\ UNCHANGED <<chrome, hub, sock, mine, down, view, httpCalls>>

-----------------------------------------------------------------------------
(* The view.                                                               *)

\* onmessage.  The link is asked for as soon as the list has it, once.
Reads(asks) ==
  /\ down # <<>>
  /\ down' = Tail(down)
  /\ LET m == Head(down) IN
     CASE m.type = "frame"     -> view' = [view EXCEPT !.image = m.frame, !.waiting = FALSE] /\ up' = up
       [] m.type = "waiting"   -> view' = [view EXCEPT !.waiting = TRUE] /\ up' = up
       [] m.type = "clipboard" -> view' = view /\ up' = up
       [] m.type = "targets"   ->
            LET wants == asks /\ view.link \in DOMAIN m.list IN
            /\ view' = [view EXCEPT !.list = m.list, !.tab = m.tab,
                                    !.asked = IF wants THEN view.link ELSE @]
            /\ IF wants THEN Says(AttachTo(view.link)) ELSE up' = up
  /\ UNCHANGED <<chrome, hub, sock, mine, httpCalls, acts>>

\* Mutant: the link is asked for with every list.
OnMessageAlways == Reads(TRUE)

OnMessage == Reads(view.asked # view.link)

Human == MayAct /\ mine # NoSocket /\ Act

\* A click in the strip on a tab that is not the highlighted one; whether the link
\* had been followed by then is history.
Pick(p) ==
  /\ Human /\ p \in DOMAIN view.list /\ p # view.tab
  /\ Says(AttachTo(p))
  /\ view' = [view EXCEPT !.picked = @ \/ view.asked = view.link]
  /\ UNCHANGED <<chrome, hub, sock, mine, down, httpCalls>>

\* The frame is shown: something is cast and it is not a blank tab.
FrameShown ==
  ~view.waiting /\ ~(view.tab \in DOMAIN view.list /\ view.list[view.tab] = "blank")

PressButton ==
  /\ Human /\ FrameShown /\ ~view.holding
  /\ Says(Say("press"))
  /\ view' = [view EXCEPT !.holding = TRUE]
  /\ UNCHANGED <<chrome, hub, sock, mine, down, httpCalls>>

\* Mutant: the release is heard on the frame only, and so not when the frame is
\* not under the mouse.
LetGoOnFrame ==
  /\ view.holding
  /\ Says(Say("letgo")) \/ up' = up
  /\ view' = [view EXCEPT !.holding = FALSE]
  /\ UNCHANGED <<chrome, hub, sock, mine, down, httpCalls, acts>>

\* The release is heard by the window, wherever the mouse is and whatever is shown.
LetGo ==
  /\ view.holding
  /\ Says(Say("letgo"))
  /\ view' = [view EXCEPT !.holding = FALSE]
  /\ UNCHANGED <<chrome, hub, sock, mine, down, httpCalls, acts>>

\* Cut, however many cuts are under way, and any other key.
Keys ==
  /\ Human /\ FrameShown
  /\ Says(Say("cut")) \/ Says(Say("key"))
  /\ UNCHANGED <<chrome, hub, sock, mine, down, view, httpCalls>>

\* Calls of the gateway, one of each kind in flight at a time.
Requests(kind, p) ==
  /\ p \in DOMAIN view.list
  /\ \A c \in httpCalls : c.kind # kind
  /\ httpCalls' = httpCalls \cup {[kind |-> kind, page |-> p]}
  /\ UNCHANGED <<chrome, hub, sock, up, mine, down, view>>

\* The address field sends the tab that is highlighted to a site; the strip releases
\* any tab.
Submit == Human /\ Requests("navigate", view.tab)
Release == Human /\ \E p \in DOMAIN view.list : Requests("release", p)

-----------------------------------------------------------------------------
(* Pages and the identity.  An event of a page reaches the hub if it watches*)
(* and somebody views.                                                     *)

Hears == Live /\ hub.watching /\ hub.viewers # {}

\* onTargetChange.
Changed == hub' = IF Hears THEN Queues(hub, "refresh", NoSocket) ELSE hub

\* Mutant: navigations are not listened to.
NavigatedUnseen(p) == url' = [url EXCEPT ![p] = "site"] /\ hub' = hub

\* A page goes somewhere; onTargetInfoChanged.
Navigated(p) ==
  /\ url' = [url EXCEPT ![p] = "site"]
  /\ hub' = IF Hears THEN [hub EXCEPT !.info = TRUE] ELSE hub

PageCloses(p) == url' = [url EXCEPT ![p] = "gone"] /\ Changed

PageOpens(p) ==
  /\ MayAct /\ running /\ url[p] = "none"
  /\ \E u \in {"blank", "site"} : url' = [url EXCEPT ![p] = u]
  /\ Changed
  /\ Act /\ UNCHANGED <<running, client, selected, wires, view, httpCalls>>

PageMoves(p) ==
  /\ MayAct /\ p \in OpenPages
  /\ \/ PageCloses(p)
     \/ url[p] = "blank" /\ Navigated(p)
  /\ Act /\ UNCHANGED <<running, client, selected, wires, view, httpCalls>>

\* navigateTab and releaseTab of the service, for a call of the toolbar.
Served ==
  /\ \E c \in httpCalls :
       /\ httpCalls' = httpCalls \ {c}
       /\ IF c.page \notin OpenPages THEN UNCHANGED <<url, hub>>
          ELSE IF c.kind = "navigate" THEN Navigated(c.page) ELSE PageCloses(c.page)
  /\ UNCHANGED <<running, client, selected, wires, view, acts>>

\* stopIdentity: the control client is closed and the pages go with Chrome.
IdentityStops ==
  /\ MayAct /\ running
  /\ running' = FALSE
  /\ url' = [p \in Pages |-> IF p \in OpenPages THEN "gone" ELSE url[p]]
  /\ Act /\ UNCHANGED <<client, selected, hub, wires, view, httpCalls>>

\* startIdentity: another control client, and a Chrome that has opened a tab.
IdentityStarts ==
  /\ ~running
  /\ running' = TRUE /\ client' = client + 1
  /\ \E p \in Pages : url[p] = "none" /\ url' = [url EXCEPT ![p] = "blank"]
  /\ UNCHANGED <<selected, hub, wires, view, httpCalls, acts>>

ViewerNext ==
  \/ RunJoin \/ RunSwitch \/ RunStop \/ JobFails
  \/ InfoPush \/ ListRead \/ ListSent \/ Repaint
  \/ \E i \in DOMAIN hub.cuts : CutReads(i) \/ CutDeletes(i)
  \/ \E s \in Sockets : Receive(s) \/ Mount(s) \/ OtherJoins(s) \/ OtherSays(s)
  \/ Unmount \/ OnMessage \/ PressButton \/ LetGo \/ Keys \/ Submit \/ Release \/ Served
  \/ \E p \in Pages : Pick(p) \/ PageOpens(p) \/ PageMoves(p)
  \/ IdentityStops \/ IdentityStarts

ViewerSpec == ViewerInit /\ [][ViewerNext]_viewerVars

-----------------------------------------------------------------------------
(* Properties.                                                             *)

\* Nothing is under way between the hub and the view.
Settled ==
  /\ down = <<>> /\ up[mine] = <<>>
  /\ hub.jobs = <<>> /\ hub.pushes = <<>> /\ ~hub.info
  /\ hub.cast \in OpenPages => hub.frame = [page |-> hub.cast, url |-> url[hub.cast]]

\* Once things are quiet, a view whose socket is open tells the truth about the
\* identity: its strip has the tabs Chrome has with what they show, the tab that
\* is highlighted is open and the picture is of it, and it says that there is
\* nothing to see exactly if there is no tab.  Only a view that is connected to
\* a hub whose identity was stopped is excepted, until somebody connects again
\* (takeover.ts:208-219, 287-313; cdp-upgrade.ts:110-117).
StripConverges ==
  mine # NoSocket /\ sock[mine] = "open" /\ Live /\ Settled =>
    /\ view.list = Listing
    /\ view.waiting = (OpenPages = {})
    /\ OpenPages # {} =>
         /\ view.tab \in OpenPages
         /\ view.image = [page |-> view.tab, url |-> url[view.tab]]

\* A deep link never takes the picture away from a tab the human has picked since
\* the link was followed, however often the list is pushed
\* (TakeoverView.tsx:79-81, 146).
PickSticks ==
  [][OnMessage /\ mine # NoSocket /\ up' # up => ~view.picked]_viewerVars

\* When the human has let go, the page that is cast does not go on with the drag:
\* a button that went down over the socket of the view is not down in it any more
\* once the view's messages have arrived, unless the cast left the page during the
\* drag, which sends no release (TakeoverView.tsx:264-291, takeover.ts:251-262).
ButtonComesUp ==
  /\ mine # NoSocket /\ up[mine] = <<>>
  /\ hub.cast # NoPage /\ hub.held[hub.cast] = mine
  => view.holding \/ hub.cast \in hub.left

-----------------------------------------------------------------------------
(* Statements the code does not keep; no run checks them.                  *)

\* "The release would then never be sent and the remote page would be left with
\* the button still down.  Listening on the window for the duration of the drag is
\* what makes 'click, drag past the edge, let go' behave like a real selection"
\* (TakeoverView.tsx:269-271).  The release goes to the page that is cast by then:
\* the one that was dragged in keeps its button down when it is cast again.
NoButtonLeftDown ==
  /\ mine # NoSocket /\ up[mine] = <<>>
  /\ hub.cast # NoPage /\ hub.held[hub.cast] = mine
  => view.holding

\* "The hub reads the page's selection and hands the text back to the viewer [..].
\* Cut then deletes the selection" (takeover.ts:418-420).  A key, a press or another
\* cut comes between the two, and what is deleted is not what was read.
CutsWhatItRead ==
  \A i \in DOMAIN hub.cuts :
    LET cut == hub.cuts[i] IN
    cut.read /\ cut.live /\ Live /\ cut.page \in OpenPages => cut.page \in selected

=============================================================================
