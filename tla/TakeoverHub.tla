---------------------------- MODULE TakeoverHub ----------------------------
(***************************************************************************)
(* The takeover hub of one identity (apps/gateway/src/takeover): viewers   *)
(* join and leave, one screencast of one page is fanned out to them, and   *)
(* the cast follows the tabs of the identity and the tab a human picks.    *)
(*                                                                         *)
(* Every change of the cast is a job on a chain of promises: one at a time,*)
(* in the order asked for.  What joins, leaves and tab events do at once,  *)
(* and what they leave to a job, is where the interleavings are: a job     *)
(* runs when the reason for it may be gone.  A job is a coroutine; its     *)
(* `step` names the command of Chrome it awaits, and the answer with what  *)
(* follows it up to the next command is one action.                        *)
(***************************************************************************)
EXTENDS Naturals, FiniteSets, Sequences

CONSTANTS
  Viewers,      \* sockets of human viewers; each connects at most once
  Pages,        \* page targets; each opens at most once
  MaxSessions,  \* bound: page sessions the hub attaches
  MaxQueue,     \* bound: a human picks a tab only while the chain is shorter
  NoPage, NoViewer

ASSUME TakeoverHubAssumption ==
  /\ MaxSessions \in Nat
  /\ MaxQueue \in Nat
  /\ NoPage \notin Pages
  /\ NoViewer \notin Viewers

VARIABLES
  socket,      \* socket[v]: "new", "open" or "closed"
  viewers,     \* the hub's set of viewers
  joined,      \* open viewers whose message and close handlers are registered
  shown,       \* shown[v]: the session whose frame v displays, or 0
  chain,       \* the jobs; the first one is running
  session,     \* sessionId (and the frame listener bound to it), or 0
  painted,     \* lastFrame is set
  watch,       \* the target listeners: "off", "asked" (discovery), "on"
  wanted,      \* wantedTargetId
  active,      \* activeTargetId
  \* Chrome
  pages,       \* open pages
  seen,        \* pages that were ever opened
  discovering, \* target events are sent on the control connection
  events,      \* target events that are not read yet
  pageOf,      \* pageOf[s]: the page of session s
  minted,      \* how many sessions Chrome has minted for the hub
  attached,    \* sessions that exist
  casting      \* those of them with a screencast

viewerVars == <<socket, viewers, joined, shown>>
castVars   == <<session, painted, watch, active>>
pageVars   == <<pages, seen, events>>
chromeVars == <<pageVars, discovering, pageOf, minted, attached, casting>>
vars == <<viewerVars, chain, castVars, wanted, chromeVars>>

Job(kind, v) ==
  [kind |-> kind, viewer |-> v, step |-> "queued", page |-> NoPage, session |-> 0]

job         == Head(chain)
At(step)    == chain # <<>> /\ job.step = step
Go(step)    == chain' = [chain EXCEPT ![1].step = step]
Open(v)     == socket[v] = "open"
Queue(kind) == chain' = Append(chain, Job(kind, NoViewer))

\* What every viewer displays after a message to all of them.
Shows(s) == [v \in Viewers |-> IF v \in viewers /\ Open(v) THEN s ELSE shown[v]]

Init ==
  /\ socket = [v \in Viewers |-> "new"]
  /\ viewers = {}
  /\ joined = {}
  /\ shown = [v \in Viewers |-> 0]
  /\ chain = <<>>
  /\ session = 0
  /\ painted = FALSE
  /\ watch = "off"
  /\ wanted = NoPage
  /\ active = NoPage
  /\ pages \in SUBSET Pages
  /\ seen = pages
  /\ discovering = FALSE
  /\ events = 0
  /\ pageOf = [s \in 1..MaxSessions |-> NoPage]
  /\ minted = 0
  /\ attached = {}
  /\ casting = {}

-----------------------------------------------------------------------------
(* Viewers.                                                                *)

\* addViewer, up to the await of its job.
Join(v) ==
  /\ socket[v] = "new"
  /\ socket' = [socket EXCEPT ![v] = "open"]
  /\ viewers' = viewers \cup {v}
  /\ chain' = Append(chain, Job("join", v))
  /\ UNCHANGED <<joined, shown, castVars, wanted, chromeVars>>

\* The socket closes.  Only a viewer whose handlers are registered is dropped;
\* one that closes before its job is done stays in the set.
Leave(v) ==
  /\ Open(v)
  /\ socket' = [socket EXCEPT ![v] = "closed"]
  /\ joined' = joined \ {v}
  /\ viewers' = IF v \in joined THEN viewers \ {v} ELSE viewers
  /\ \/ v \in joined /\ viewers' = {} /\ Queue("stop")
     \/ ~(v \in joined /\ viewers' = {}) /\ UNCHANGED chain
  /\ UNCHANGED <<shown, castVars, wanted, chromeVars>>

\* attachTo: a viewer picks a tab it was shown, which may be gone by now.
Pick(p) ==
  /\ joined # {}
  /\ p \in seen
  /\ p # active
  /\ Len(chain) < MaxQueue
  /\ wanted' = p
  /\ Queue("switch")
  /\ UNCHANGED <<viewerVars, castVars, chromeVars>>

-----------------------------------------------------------------------------
(* Chrome: pages, their events, and frames.                                *)

Announced == events' = IF discovering THEN events + 1 ELSE events

PageOpens(p) ==
  /\ p \notin seen
  /\ pages' = pages \cup {p}
  /\ seen' = seen \cup {p}
  /\ Announced
  /\ UNCHANGED <<viewerVars, chain, castVars, wanted, discovering, pageOf,
                 minted, attached, casting>>

PageCloses(p) ==
  /\ p \in pages
  /\ pages' = pages \ {p}
  /\ attached' = {s \in attached : pageOf[s] # p}
  /\ casting' = {s \in casting : pageOf[s] # p}
  /\ Announced
  /\ UNCHANGED <<viewerVars, chain, castVars, wanted, seen, discovering, pageOf,
                 minted>>

\* onTargetChange, if it is registered and somebody is watching.
TargetEvent ==
  /\ events > 0
  /\ events' = events - 1
  /\ \/ watch = "on" /\ viewers # {} /\ Queue("refresh")
     \/ ~(watch = "on" /\ viewers # {}) /\ UNCHANGED chain
  /\ UNCHANGED <<viewerVars, castVars, wanted, pages, seen, discovering, pageOf,
                 minted, attached, casting>>

\* A repaint reaches the listener, is kept and fanned out.
Frame ==
  /\ session \in casting
  /\ painted' = TRUE
  /\ shown' = Shows(session)
  /\ UNCHANGED <<socket, viewers, joined, chain, session, watch, active, wanted,
                 chromeVars>>

-----------------------------------------------------------------------------
(* Jobs.                                                                   *)

\* The job is done; a viewer whose join it was gets its handlers.
Done ==
  /\ chain' = Tail(chain)
  /\ joined' = IF job.kind = "join" /\ Open(job.viewer)
               THEN joined \cup {job.viewer} ELSE joined

\* The job threw; the socket of a viewer whose join it was is closed.
Failed ==
  /\ chain' = Tail(chain)
  /\ socket' = IF job.kind = "join" THEN [socket EXCEPT ![job.viewer] = "closed"]
               ELSE socket
  /\ UNCHANGED <<viewers, joined, shown, castVars, wanted, chromeVars>>

\* Mutant: a late joiner waits for the next repaint.
JoinUnpainted ==
  /\ At("queued") /\ job.kind = "join" /\ session # 0
  /\ Done
  /\ UNCHANGED <<socket, viewers, shown, castVars, wanted, chromeVars>>

\* A joiner finds a cast: it is sent the last frame.
JoinCast ==
  /\ At("queued") /\ job.kind = "join" /\ session # 0
  /\ Done
  /\ shown' = IF painted /\ Open(job.viewer)
              THEN [shown EXCEPT ![job.viewer] = session] ELSE shown
  /\ UNCHANGED <<socket, viewers, castVars, wanted, chromeVars>>

\* startCasting without a session, up to its first await.
StartCasting ==
  \/ watch = "off" /\ watch' = "asked" /\ Go("discover")
  \/ watch # "off" /\ Go("list") /\ UNCHANGED watch

BeginStart ==
  /\ At("queued") /\ job.kind # "stop" /\ session = 0
  /\ StartCasting
  /\ UNCHANGED <<viewerVars, session, painted, active, wanted, chromeVars>>

BeginProbe ==
  /\ At("queued") /\ job.kind = "refresh" /\ session # 0
  /\ Go("probe")
  /\ UNCHANGED <<viewerVars, castVars, wanted, chromeVars>>

\* stopCasting, up to its first await.
StopCasting ==
  /\ session' = 0
  /\ painted' = FALSE
  /\ chain' = [chain EXCEPT ![1].step = "stopping", ![1].session = session]
  /\ UNCHANGED <<viewerVars, watch, active, wanted, chromeVars>>

BeginStop ==
  /\ At("queued") /\ job.kind \in {"stop", "switch"} /\ session # 0
  /\ StopCasting

Unwatch ==
  /\ At("queued") /\ job.kind = "stop" /\ session = 0
  /\ watch' = "off"
  /\ Done
  /\ UNCHANGED <<socket, viewers, shown, session, painted, active, wanted,
                 chromeVars>>

\* Mutant: a dead session passes for a live one.
ProbeTrusts ==
  /\ At("probe")
  /\ Done
  /\ UNCHANGED <<socket, viewers, shown, castVars, wanted, chromeVars>>

\* sessionIsLive: a dead session is dropped, a live one is kept.
Probe ==
  /\ At("probe")
  /\ \/ session \notin attached /\ StopCasting
     \/ /\ session \in attached
        /\ Done
        /\ UNCHANGED <<socket, viewers, shown, castVars, wanted, chromeVars>>

\* Mutant: the screencast is stopped, the session is not detached.
StoppedAttached ==
  /\ At("stopping")
  /\ casting' = casting \ {job.session}
  /\ \/ /\ job.kind = "stop"
        /\ watch' = "off"
        /\ Done
     \/ /\ job.kind # "stop"
        /\ StartCasting
        /\ UNCHANGED joined
  /\ UNCHANGED <<socket, viewers, shown, session, painted, active, wanted,
                 pageVars, discovering, pageOf, minted, attached>>

\* stopScreencast and detachFromTarget are done (an error is swallowed); the job
\* ends, or goes on to start another cast.
Stopped ==
  /\ At("stopping")
  /\ casting' = casting \ {job.session}
  /\ attached' = attached \ {job.session}
  /\ \/ /\ job.kind = "stop"
        /\ watch' = "off"
        /\ Done
     \/ /\ job.kind # "stop"
        /\ StartCasting
        /\ UNCHANGED joined
  /\ UNCHANGED <<socket, viewers, shown, session, painted, active, wanted,
                 pageVars, discovering, pageOf, minted>>

\* watchForPages, after its await: the listeners are registered.
Discovered ==
  /\ At("discover")
  /\ discovering' = TRUE
  /\ watch' = "on"
  /\ Go("list")
  /\ UNCHANGED <<viewerVars, session, painted, active, wanted, pageVars, pageOf,
                 minted, attached, casting>>

\* Mutant: only the viewer that joins is told to wait.
ListedQuietly ==
  /\ At("list")
  /\ pages = {}
  /\ active' = NoPage
  /\ Done
  /\ UNCHANGED <<socket, viewers, shown, session, painted, watch, wanted,
                 chromeVars>>

\* attachFrontPage finds no page: every viewer is told to wait.
ListedNone ==
  /\ At("list")
  /\ pages = {}
  /\ active' = NoPage
  /\ Done
  /\ shown' = Shows(0)
  /\ UNCHANGED <<socket, viewers, session, painted, watch, wanted, chromeVars>>

\* The human's pick if it exists, else whichever page comes first.
Listed ==
  /\ At("list")
  /\ \E p \in IF wanted \in pages THEN {wanted} ELSE pages :
       chain' = [chain EXCEPT ![1].step = "attach", ![1].page = p]
  /\ UNCHANGED <<viewerVars, castVars, wanted, chromeVars>>

Attached ==
  /\ At("attach")
  /\ \/ job.page \notin pages /\ Failed
     \/ /\ job.page \in pages
        /\ minted < MaxSessions
        /\ minted' = minted + 1
        /\ pageOf' = [pageOf EXCEPT ![minted + 1] = job.page]
        /\ attached' = attached \cup {minted + 1}
        /\ chain' = [chain EXCEPT ![1].step = "enable", ![1].session = minted + 1]
        /\ UNCHANGED <<viewerVars, castVars, wanted, pageVars, discovering, casting>>

\* Page.enable is done: the session is stored, then the cast is asked for.
Enabled ==
  /\ At("enable")
  /\ \/ job.session \notin attached /\ Failed
     \/ /\ job.session \in attached
        /\ session' = job.session
        /\ active' = job.page
        /\ Go("cast")
        /\ UNCHANGED <<viewerVars, painted, watch, wanted, chromeVars>>

CastStarted ==
  /\ At("cast")
  /\ \/ job.session \notin attached /\ Failed
     \/ /\ job.session \in attached
        /\ casting' = casting \cup {job.session}
        /\ Done
        /\ UNCHANGED <<socket, viewers, shown, castVars, wanted, pageVars,
                       discovering, pageOf, minted, attached>>

-----------------------------------------------------------------------------

Run ==
  \/ JoinCast \/ BeginStart \/ BeginProbe \/ BeginStop \/ Unwatch
  \/ Probe \/ Stopped \/ Discovered
  \/ ListedNone \/ Listed \/ Attached \/ Enabled \/ CastStarted

Next ==
  \/ \E v \in Viewers : Join(v) \/ Leave(v)
  \/ \E p \in Pages : Pick(p) \/ PageOpens(p) \/ PageCloses(p)
  \/ TargetEvent
  \/ Frame
  \/ Run

Spec == Init /\ [][Next]_vars

-----------------------------------------------------------------------------

Jobs ==
  [kind : {"join", "stop", "refresh", "switch"}, viewer : Viewers \cup {NoViewer},
   step : {"queued", "probe", "stopping", "discover", "list", "attach", "enable", "cast"},
   page : Pages \cup {NoPage}, session : 0..MaxSessions]

\* Every variable has its type.
TypeOK ==
  /\ socket \in [Viewers -> {"new", "open", "closed"}]
  /\ viewers \in SUBSET Viewers
  /\ joined \in SUBSET viewers
  /\ shown \in [Viewers -> 0..MaxSessions]
  /\ chain \in Seq(Jobs)
  /\ session \in 0..MaxSessions
  /\ painted \in BOOLEAN
  /\ watch \in {"off", "asked", "on"}
  /\ wanted \in Pages \cup {NoPage}
  /\ active \in Pages \cup {NoPage}
  /\ pages \in SUBSET Pages
  /\ seen \in SUBSET Pages
  /\ discovering \in BOOLEAN
  /\ events \in Nat
  /\ pageOf \in [1..MaxSessions -> Pages \cup {NoPage}]
  /\ minted \in 0..MaxSessions
  /\ attached \in SUBSET (1..MaxSessions)
  /\ casting \in SUBSET attached

\* Nothing is left to do: no job, no target event.
Settled == chain = <<>> /\ events = 0

\* takeover.ts:105 and 159-164: a page session exists only as the hub's own or
\* in the hands of the running job, so that no start, stop, switch or failure
\* leaves a second session attached or casting.
NoLeakedSession ==
  attached \subseteq
    ({session} \cup {chain[i].session : i \in {1} \cap DOMAIN chain})

\* takeover.ts:91, 145-153, 264-267 and 328-330: once everything is settled there
\* is a cast of a live session if there is a viewer and a page, of the picked tab
\* if that exists, and neither a cast nor a listener if there is no viewer in the
\* set, whichever tabs and viewers came and went while jobs were waiting.
CastFollowsViewers ==
  Settled =>
    /\ joined # {} /\ pages # {} =>
         /\ session \in casting
         /\ wanted \in pages => pageOf[session] = wanted
    /\ viewers = {} => session = 0 /\ watch = "off"

\* takeover.ts:97-101: a viewer that has joined shows the last frame, although
\* it came after it and the page may not repaint.
JoinersArePainted ==
  (session # 0 /\ painted) => \A v \in joined : shown[v] = session

\* takeover.ts:226-228: when there is nothing to cast, no viewer is left with a
\* frame of a page that is gone.
NoFrozenFrame ==
  (Settled /\ session = 0) => \A v \in joined : shown[v] = 0

=============================================================================
