---------------------------- MODULE MuxTargets ----------------------------
(***************************************************************************)
(* Target routing in the multiplexer (packages/cdp/src/mux.ts), composed   *)
(* with the lease table of the identity (TabPool) through the scope the    *)
(* gateway gives every connection (gateway.service.ts, scopeFor).          *)
(*                                                                         *)
(* One socket to Chrome is shared by every client.  Chrome attaches every  *)
(* page to it once (primeAutoAttach) and says so once; the mux hands that  *)
(* event to the client whose agent leases the page, parks it when there is *)
(* none, and answers each client's own Target.setAutoAttach by replaying a *)
(* table of what it has seen.  The leases the routing reads are written by *)
(* others: by the pool's `lease`, whose answer comes over another socket,  *)
(* by REST releases, and by the mux's handlers of other clients.           *)
(*                                                                         *)
(* A handler of a client message is a coroutine; between two of its awaits *)
(* anything may happen.  An answer of Chrome first resolves the promise    *)
(* (the `answer` of a task) and the continuation runs in a later step,     *)
(* because `ws` may emit several frames in the tick that resolves it.      *)
(***************************************************************************)
EXTENDS Naturals, FiniteSets, Sequences

CONSTANTS
  Agents, Targets, Callers, MaxTabs, NoAgent, NoTarget,  \* as in TabPool
  Clients,      \* connections to the mux; each connects at most once
  Nobody,       \* no client
  AgentOf,      \* AgentOf[c]: the agent whose scope client c has
  MaxSessions,  \* bound: sessions Chrome may mint for one target
  Commands,     \* the commands clients send, a subset of AllCommands
  Backlog,      \* a queue may hold unhandled messages when its socket closes
  Discover,     \* target discovery is on (some client asked Chrome for it)
  SlowChrome    \* the mux's deadlines may pass before Chrome's message

AllCommands == {"setAutoAttach", "createTarget", "closeTarget",
                "attachToTarget", "detachFromTarget"}

ASSUME MuxTargetsAssumption ==
  /\ NoAgent \notin Agents
  /\ NoTarget \notin Targets
  /\ AgentOf \in [Clients -> Agents]
  /\ Nobody \notin Clients
  /\ MaxSessions \in Nat \ {0}
  /\ Commands \subseteq AllCommands
  /\ Backlog \in BOOLEAN
  /\ Discover \in BOOLEAN
  /\ SlowChrome \in BOOLEAN

VARIABLES
  leases, pc, asker, answer, closing, live, seen, foreign, connected, \* TabPool
  \* Chrome
  opener,      \* opener[t]: the page that opened t, or NoTarget
  unattached,  \* pages whose auto-attach Chrome has not announced
  minted,      \* minted[t]: how many sessions Chrome has minted for t
  attached,    \* attached[t]: the sessions of t that exist
  asked,       \* asked[c]: the command of c Chrome holds; asked[Nobody]: one given up
  forwards,    \* commands the mux forwarded and does not wait for
  upstream,    \* messages from Chrome to the mux, in order
  \* the mux
  conns,       \* connected clients, in order of connection
  left,        \* clients that have disconnected
  table,       \* upstreamSessions: table[t] is a session of t, or 0
  parked,      \* orphanAttaches: parked[t] is the session of the event, or 0
  suppress,    \* suppressNextAttachEvent
  owner,       \* sessionOwner: owner[t][n] is a client, or Nobody
  task,        \* task[c]: the handler c's message queue stands in
  \* what clients have seen
  ready,       \* clients whose setAutoAttach was answered
  told,        \* told[c][t]: announcements of t sent to c (2 means two or more)
  creator      \* creator[t]: the ready client whose createTarget made t

poolVars   == <<leases, pc, asker, answer, closing, live, seen, foreign, connected>>
pageVars   == <<opener, unattached, minted, attached>>
chromeVars == <<pageVars, asked, forwards>>
connVars   == <<conns, left>>
routeVars  == <<table, parked, suppress, owner>>
muxVars    == <<connVars, routeVars, task>>
viewVars   == <<ready, told, creator>>
vars == <<poolVars, chromeVars, upstream, muxVars, viewVars>>

\* All a step of a client's handler leaves alone when it asks Chrome nothing.
outside    == <<poolVars, chromeVars, upstream>>

Pool == INSTANCE TabPool WITH lost <- {}  \* the control connection stays up
Sequence == INSTANCE SequencesExt

NoCommand == [op |-> "none", target |-> NoTarget]
Command(op, t) == [op |-> op, target |-> t]

Idle == [op |-> "idle", todo |-> {}, granted |-> {}, target |-> NoTarget,
         session |-> 0, reply |-> "none"]

Message(type, t, n, c) ==
  [type |-> type, target |-> t, session |-> n, client |-> c]
Attached(t, n) == Message("attached", t, n, Nobody)
Detached(t)    == Message("detached", t, 0, Nobody)
Created(t)     == Message("created", t, 0, Nobody)
Destroyed(t)   == Message("destroyed", t, 0, Nobody)

\* Chrome's answer to the command it holds for c.  The mux drops the answer to
\* a command it has given up, so the model sends none.
Answer(c, type, t, n) ==
  IF c = Nobody THEN <<>> ELSE <<Message(type, t, n, c)>>

\* A command about t succeeds while t exists.
Verdict(t) == IF t \in live THEN "answer" ELSE "error"

Open(c) == \E i \in DOMAIN conns : conns[i] = c

\* Mutant: the scopes are not asked.
FirstClient(L, t) == IF conns = <<>> THEN Nobody ELSE conns[1]

\* clientForTarget: the first connected client whose scope allows t under L.
ClientFor(L, t) ==
  LET S == {i \in DOMAIN conns : L[t] = AgentOf[conns[i]]}
  IN  IF S = {} THEN Nobody
      ELSE conns[CHOOSE i \in S : \A j \in S : i <= j]

\* Chrome still has something to say about the attach of t.
EventPending(t) ==
  \/ t \in unattached
  \/ \E i \in DOMAIN upstream : upstream[i].type = "attached" /\ upstream[i].target = t

AnswerComing(c) ==
  \E i \in DOMAIN upstream :
    upstream[i].type \in {"answer", "error"} /\ upstream[i].client = c

Init ==
  /\ Pool!Init
  /\ opener = [t \in Targets |-> NoTarget]
  /\ unattached = {}
  /\ minted = [t \in Targets |-> 0]
  /\ attached = [t \in Targets |-> {}]
  /\ asked = [c \in Clients \cup {Nobody} |-> NoCommand]
  /\ forwards = {}
  /\ upstream = <<>>
  /\ conns = <<>>
  /\ left = {}
  /\ table = [t \in Targets |-> 0]
  /\ parked = [t \in Targets |-> 0]
  /\ suppress = {}
  /\ owner = [t \in Targets |-> [n \in 1..MaxSessions |-> Nobody]]
  /\ task = [c \in Clients |-> Idle]
  /\ ready = {}
  /\ told = [c \in Clients |-> [t \in Targets |-> 0]]
  /\ creator = [t \in Targets |-> Nobody]

-----------------------------------------------------------------------------
(* Chrome.                                                                 *)

\* A page comes into being; with discovery on Chrome says so at once.
Born(t, p) ==
  /\ opener' = [opener EXCEPT ![t] = p]
  /\ unattached' = unattached \cup {t}
  /\ upstream' = IF Discover THEN Append(upstream, Created(t)) ELSE upstream

\* A page goes: its sessions are detached, then the target is destroyed.  The
\* mux reads only the target of a detach, so one message stands for them all.
DeathNotes(t) ==
  (IF attached[t] = {} THEN <<>> ELSE <<Detached(t)>>)
    \o (IF Discover /\ t \in live THEN <<Destroyed(t)>> ELSE <<>>)

Dies(t) ==
  /\ unattached' = unattached \ {t}
  /\ attached' = [attached EXCEPT ![t] = {}]

\* A new session of t; MaxSessions bounds how many the model lets Chrome mint.
Mint(t) ==
  /\ minted[t] < MaxSessions
  /\ minted' = [minted EXCEPT ![t] = @ + 1]
  /\ attached' = [attached EXCEPT ![t] = @ \cup {minted[t] + 1}]

LeaseOpensPage(k, t) ==
  /\ Pool!ChromeCreates(k, t)
  /\ Born(t, NoTarget)
  /\ UNCHANGED <<muxVars, viewVars, minted, attached, asked, forwards>>

\* A page opened by another page, or (NoTarget) by a human.
PageOpens(t) ==
  /\ Pool!PageOpens(t)
  /\ \E p \in live \cup {NoTarget} : Born(t, p)
  /\ UNCHANGED <<muxVars, viewVars, minted, attached, asked, forwards>>

PageGone(t) ==
  /\ Pool!PageGone(t)
  /\ Dies(t)
  /\ upstream' = upstream \o DeathNotes(t)
  /\ UNCHANGED <<muxVars, viewVars, opener, minted, asked, forwards>>

PoolClosesPage(t) ==
  /\ Pool!ChromeCloses(t)
  /\ Dies(t)
  /\ upstream' = upstream \o DeathNotes(t)
  /\ UNCHANGED <<muxVars, viewVars, opener, minted, asked, forwards>>

AutoAttach(t) ==
  /\ t \in unattached
  /\ unattached' = unattached \ {t}
  /\ Mint(t)
  /\ upstream' = Append(upstream, Attached(t, minted[t] + 1))
  /\ UNCHANGED <<poolVars, muxVars, viewVars, opener, asked, forwards>>

\* Chrome executes the command it holds for c (nobody waits if c = Nobody).
Asked(c, op) == asked[c].op = op
Done(c) == asked' = [asked EXCEPT ![c] = NoCommand]

ChromeAttaches(c) ==
  LET t == asked[c].target IN
  /\ Asked(c, "attachToTarget")
  /\ Done(c)
  /\ \/ /\ t \in live
        /\ Mint(t)
        /\ upstream' = upstream \o <<Attached(t, minted[t] + 1)>>
                                 \o Answer(c, "answer", t, minted[t] + 1)
     \/ /\ t \notin live
        /\ upstream' = upstream \o Answer(c, "error", t, 0)
        /\ UNCHANGED <<minted, attached>>
  /\ UNCHANGED <<poolVars, muxVars, viewVars, opener, unattached, forwards>>

ChromeDescribes(c) ==
  LET t == asked[c].target IN
  /\ Asked(c, "getTargetInfo")
  /\ Done(c)
  /\ upstream' = upstream \o Answer(c, Verdict(t), t, 0)
  /\ UNCHANGED <<poolVars, pageVars, muxVars, viewVars, forwards>>

\* createTarget is answered later than the page appears, so the page's attach
\* event may go either before or after the answer.
ChromeCreates(c, t) ==
  /\ Asked(c, "createTarget")
  /\ Pool!PageOpens(t)
  /\ Born(t, NoTarget)
  /\ asked' = [asked EXCEPT ![c] = Command("created", t)]
  /\ UNCHANGED <<muxVars, viewVars, minted, attached, forwards>>

ChromeAnswersCreate(c) ==
  /\ \/ /\ Asked(c, "created")
        /\ upstream' = upstream \o Answer(c, "answer", asked[c].target, 0)
     \/ /\ Asked(c, "createTarget")
        /\ upstream' = upstream \o Answer(c, "error", NoTarget, 0)
  /\ Done(c)
  /\ UNCHANGED <<poolVars, pageVars, muxVars, viewVars, forwards>>

ChromeCloses(c) ==
  LET t == asked[c].target IN
  /\ Asked(c, "closeTarget")
  /\ Done(c)
  /\ upstream' = upstream \o Answer(c, Verdict(t), t, 0) \o DeathNotes(t)
  /\ \/ Pool!PageGone(t)
     \/ t \notin live /\ UNCHANGED poolVars
  /\ Dies(t)
  /\ UNCHANGED <<muxVars, viewVars, opener, minted, forwards>>

\* A forwarded attach or detach; its answer goes to the client.
ChromeForwards(f) ==
  /\ forwards' = forwards \ {f}
  /\ \/ /\ f.op = "attachToTarget"
        /\ f.target \in live
        /\ Mint(f.target)
        /\ upstream' = upstream \o
             <<Attached(f.target, minted[f.target] + 1),
               Message("attachAnswer", f.target, minted[f.target] + 1, f.client)>>
     \/ /\ f.op = "detachFromTarget"
        /\ f.session \in attached[f.target]
        /\ attached' = [attached EXCEPT ![f.target] = @ \ {f.session}]
        /\ upstream' = Append(upstream, Detached(f.target))
        /\ UNCHANGED minted
     \/ /\ IF f.op = "attachToTarget" THEN f.target \notin live
           ELSE f.session \notin attached[f.target]
        /\ UNCHANGED <<minted, attached, upstream>>
  /\ UNCHANGED <<poolVars, muxVars, viewVars, opener, unattached, asked>>

-----------------------------------------------------------------------------
(* The mux reads its socket to Chrome (onUpstreamMessage).                 *)

Arrives(type) ==
  /\ upstream # <<>>
  /\ Head(upstream).type = type
  /\ upstream' = Tail(upstream)

Bump(n) == IF n = 2 THEN 2 ELSE n + 1

\* c is told of session n of t and owns it; a closed socket swallows the frame.
Hand(c, t, n) ==
  /\ owner' = [owner EXCEPT ![t][n] = c]
  /\ told' = IF Open(c) THEN [told EXCEPT ![c][t] = Bump(@)] ELSE told

\* A page inherits the lease of the page that opened it, if a client of the
\* opener's agent is connected, nobody leases it yet and the cap allows.
Inherits(t) ==
  /\ opener[t] # NoTarget
  /\ ClientFor(leases, t) = Nobody
  /\ ClientFor(leases, opener[t]) # Nobody
  /\ leases[t] = NoAgent
  /\ ~Pool!AtCap

\* Mutant: the page goes to the oldest connection.
AdoptByOldest(t) ==
  IF Inherits(t) THEN Pool!Adopt(AgentOf[conns[1]], t) ELSE UNCHANGED poolVars

AdoptByOpener(t) ==
  IF Inherits(t) THEN Pool!Adopt(leases[opener[t]], t) ELSE UNCHANGED poolVars

DeliverCreated ==
  /\ Arrives("created")
  /\ AdoptByOpener(Head(upstream).target)
  /\ UNCHANGED <<chromeVars, muxVars, viewVars>>

Record(t, n) == table' = [table EXCEPT ![t] = n]

\* Every attach event is recorded, then dropped, handed to the page's client,
\* or parked until somebody is granted the page.
DeliverAttached ==
  /\ Arrives("attached")
  /\ LET t == Head(upstream).target
         n == Head(upstream).session
     IN  /\ AdoptByOpener(t)
         /\ Record(t, n)
         /\ \/ /\ t \in suppress
               /\ suppress' = suppress \ {t}
               /\ UNCHANGED <<parked, owner, told>>
            \/ /\ t \notin suppress
               /\ ClientFor(leases', t) # Nobody
               /\ Hand(ClientFor(leases', t), t, n)
               /\ UNCHANGED <<parked, suppress>>
            \/ /\ t \notin suppress
               /\ ClientFor(leases', t) = Nobody
               /\ parked' = [parked EXCEPT ![t] = n]
               /\ UNCHANGED <<suppress, owner, told>>
  /\ UNCHANGED <<chromeVars, connVars, task, ready, creator>>

\* Mutant: detaches are only passed on.
DetachedIgnored ==
  /\ Arrives("detached")
  /\ UNCHANGED <<poolVars, chromeVars, muxVars, viewVars>>

\* A detach clears the table's entry for the target, whichever session went.
DeliverDetached ==
  /\ Arrives("detached")
  /\ table' = [table EXCEPT ![Head(upstream).target] = 0]
  /\ UNCHANGED <<poolVars, chromeVars, connVars, viewVars, parked, suppress,
                 owner, task>>

DeliverDestroyed ==
  /\ Arrives("destroyed")
  /\ table' = [table EXCEPT ![Head(upstream).target] = 0]
  /\ suppress' = suppress \ {Head(upstream).target}
  /\ UNCHANGED <<poolVars, chromeVars, connVars, viewVars, parked, owner,
                 task>>

\* An answer resolves the promise its handler awaits.
DeliverAnswer ==
  /\ Arrives("answer") \/ Arrives("error")
  /\ LET m == Head(upstream) IN
     task' = [task EXCEPT ![m.client].reply = IF m.type = "answer" THEN "ok" ELSE "error",
                          ![m.client].session = IF m.session # 0 THEN m.session ELSE @,
                          ![m.client].target = m.target]
  /\ UNCHANGED <<poolVars, chromeVars, connVars, routeVars, viewVars>>

\* The answer to a forwarded attach makes its client the session's owner.
DeliverAttachAnswer ==
  /\ Arrives("attachAnswer")
  /\ owner' = [owner EXCEPT ![Head(upstream).target][Head(upstream).session] =
                 Head(upstream).client]
  /\ UNCHANGED <<poolVars, chromeVars, connVars, viewVars, table, parked,
                 suppress, task>>

\* The ten seconds of a parked attach are over.
ParkExpires(t) ==
  /\ parked[t] # 0
  /\ SlowChrome \/ \A c \in Clients : task[c].op # "createTarget"
  /\ parked' = [parked EXCEPT ![t] = 0]
  /\ UNCHANGED <<outside, connVars, viewVars, table, suppress, owner, task>>

-----------------------------------------------------------------------------
(* Connections and the handlers of their messages.                         *)

Connect(c) ==
  /\ ~Open(c)
  /\ c \notin left
  /\ conns' = Append(conns, c)
  /\ UNCHANGED <<outside, routeVars, viewVars, left, task>>

\* The socket closes; the handler c is in, and its queue, go on.
Disconnect(c) ==
  /\ \E i \in DOMAIN conns :
       conns[i] = c /\ conns' = Sequence!RemoveAt(conns, i)
  /\ left' = left \cup {c}
  /\ owner' = [t \in Targets |-> [n \in 1..MaxSessions |->
                 IF owner[t][n] = c THEN Nobody ELSE owner[t][n]]]
  /\ UNCHANGED <<outside, viewVars, table, parked, suppress, task>>

\* The next message of c's queue is handled once the previous one is done.
Handles(c, command) ==
  /\ command \in Commands
  /\ Open(c) \/ (Backlog /\ c \in left)
  /\ task[c].op = "idle"

\* internalCommand: c's handler awaits the answer of Chrome.
Asks(c, op, t) == asked' = [asked EXCEPT ![c] = Command(op, t)]

\* The replay of c goes on with what is left to do, or is answered.
Replays(c, todo, granted) ==
  \/ /\ todo # {}
     /\ task' = [task EXCEPT ![c] =
          [Idle EXCEPT !.op = "replay", !.todo = todo, !.granted = granted]]
     /\ UNCHANGED ready
  \/ /\ todo = {}
     /\ task' = [task EXCEPT ![c] = Idle]
     /\ ready' = ready \cup {c}

Passes(c, t) == Replays(c, task[c].todo \ {t}, task[c].granted)

\* replayAutoAttach takes a snapshot of what the client's agent leases.
\* A client enables auto-attach once.
StartReplay(c) ==
  /\ Handles(c, "setAutoAttach")
  /\ c \notin ready
  /\ LET granted == Pool!TargetsFor(AgentOf[c]) IN
     Replays(c, granted, granted)
  /\ UNCHANGED <<outside, connVars, routeVars, told, creator>>

\* The poll finds the target in the table.
ReplayKnown(c, t) ==
  /\ task[c].op = "replay"
  /\ t \in task[c].todo
  /\ table[t] # 0
  /\ Hand(c, t, table[t])
  /\ Passes(c, t)
  /\ UNCHANGED <<outside, connVars, table, parked, suppress, creator>>

\* Mutant: no poll and no explicit attach for a page the table does not know.
ReplaySkips(c, t) ==
  /\ task[c].op = "replay"
  /\ t \in task[c].todo
  /\ table[t] = 0
  /\ Passes(c, t)
  /\ UNCHANGED <<outside, connVars, routeVars, told, creator>>

\* The poll gives up after three seconds and attaches explicitly.
ReplayFallback(c, t) ==
  /\ task[c].op = "replay"
  /\ t \in task[c].todo
  /\ table[t] = 0
  /\ SlowChrome \/ ~EventPending(t)
  /\ suppress' = suppress \cup {t}
  /\ Asks(c, "attachToTarget", t)
  /\ task' = [task EXCEPT ![c].op = "attach", ![c].target = t,
                          ![c].reply = "none"]
  /\ UNCHANGED <<poolVars, pageVars, connVars, viewVars, forwards, upstream,
                 table, parked, owner>>

FallbackAttached(c) ==
  /\ task[c].op = "attach"
  /\ task[c].reply = "ok"
  /\ Asks(c, "getTargetInfo", task[c].target)
  /\ task' = [task EXCEPT ![c].op = "describe", ![c].reply = "none"]
  /\ UNCHANGED <<poolVars, pageVars, connVars, routeVars, viewVars, forwards,
                 upstream>>

FallbackDescribed(c) ==
  LET t == task[c].target
      n == task[c].session
  IN
  /\ task[c].op = "describe"
  /\ task[c].reply = "ok"
  /\ table' = [table EXCEPT ![t] = n]
  /\ Hand(c, t, n)
  /\ Passes(c, t)
  /\ UNCHANGED <<outside, connVars, parked, suppress, creator>>

\* Mutant: the mark of a failed fallback stays.
FailedKeepsMark(c) ==
  /\ task[c].op \in {"attach", "describe"}
  /\ task[c].reply = "error"
  /\ Passes(c, task[c].target)
  /\ UNCHANGED <<outside, connVars, routeVars, told, creator>>

\* Either command failed or timed out: the target is skipped.
FallbackFailed(c) ==
  LET t == task[c].target IN
  /\ task[c].op \in {"attach", "describe"}
  /\ task[c].reply = "error"
  /\ suppress' = suppress \ {t}
  /\ Passes(c, t)
  /\ UNCHANGED <<outside, connVars, told, creator, table, parked, owner>>

\* createAndAdopt: create, lease to the creator, hand over the parked attach.
StartCreate(c) ==
  /\ Handles(c, "createTarget")
  /\ Asks(c, "createTarget", NoTarget)
  /\ task' = [task EXCEPT ![c] = [Idle EXCEPT !.op = "createTarget"]]
  /\ UNCHANGED <<poolVars, pageVars, connVars, routeVars, viewVars, forwards,
                 upstream>>

CreateReply(c, reply) == task[c].op = "createTarget" /\ task[c].reply = reply

\* Mutant: the lease is granted, the parked attach is left where it is.
CreateAdoptsOnly(c) ==
  LET t == task[c].target IN
  /\ CreateReply(c, "ok")
  /\ \/ Pool!Adopt(AgentOf[c], t)
     \/ leases[t] # NoAgent /\ UNCHANGED poolVars
  /\ creator' = IF c \in ready THEN [creator EXCEPT ![t] = c] ELSE creator
  /\ task' = [task EXCEPT ![c] = Idle]
  /\ UNCHANGED <<chromeVars, connVars, routeVars, upstream, ready, told>>

CreateAdopts(c) ==
  LET t == task[c].target IN
  /\ CreateReply(c, "ok")
  /\ \/ Pool!Adopt(AgentOf[c], t)
     \/ leases[t] # NoAgent /\ UNCHANGED poolVars
  /\ \/ /\ parked[t] # 0
        /\ Hand(c, t, parked[t])
        /\ parked' = [parked EXCEPT ![t] = 0]
     \/ parked[t] = 0 /\ UNCHANGED <<parked, owner, told>>
  /\ creator' = IF c \in ready THEN [creator EXCEPT ![t] = c] ELSE creator
  /\ task' = [task EXCEPT ![c] = Idle]
  /\ UNCHANGED <<chromeVars, connVars, upstream, table, suppress, ready>>

\* The command failed, or the cap made adopt throw: the client gets an error
\* (failMessage), and the page, if there is one, stays with nobody.
CreateFails(c) ==
  /\ \/ CreateReply(c, "error")
     \/ CreateReply(c, "ok") /\ leases[task[c].target] = NoAgent /\ Pool!AtCap
  /\ task' = [task EXCEPT ![c] = Idle]
  /\ UNCHANGED <<outside, connVars, routeVars, viewVars>>

\* Mutant: the lease is dropped before Chrome has closed the page.
CloseDropsFirst(c, t) ==
  /\ Handles(c, "closeTarget")
  /\ leases[t] = AgentOf[c]
  /\ leases' = [leases EXCEPT ![t] = NoAgent]
  /\ Asks(c, "closeTarget", t)
  /\ task' = [task EXCEPT ![c] = [Idle EXCEPT !.op = "closeTarget", !.target = t]]
  /\ UNCHANGED <<pc, asker, answer, pageVars, connVars, routeVars, viewVars,
                 closing, live, seen, foreign, connected, forwards, upstream>>

\* closeAndRelease, for a target inside the client's scope.
StartClose(c, t) ==
  /\ Handles(c, "closeTarget")
  /\ leases[t] = AgentOf[c]
  /\ Asks(c, "closeTarget", t)
  /\ task' = [task EXCEPT ![c] = [Idle EXCEPT !.op = "closeTarget", !.target = t]]
  /\ UNCHANGED <<poolVars, pageVars, connVars, routeVars, viewVars, forwards,
                 upstream>>

CloseReplied(c) ==
  /\ task[c].op = "closeTarget"
  /\ \/ /\ task[c].reply = "ok"
        /\ \/ Pool!Drop(task[c].target)
           \/ leases[task[c].target] = NoAgent /\ UNCHANGED poolVars
     \/ /\ task[c].reply = "error"
        /\ UNCHANGED poolVars
  /\ task' = [task EXCEPT ![c] = Idle]
  /\ UNCHANGED <<chromeVars, connVars, routeVars, viewVars, upstream>>

\* Commands that are forwarded: attach to a target in scope, detach a session.
Forward(c, op, t, n) ==
  /\ Handles(c, op)
  /\ \/ op = "attachToTarget" /\ leases[t] = AgentOf[c] /\ n = 0
     \/ op = "detachFromTarget" /\ n > 0 /\ owner[t][n] = c
  /\ forwards' = forwards \cup
       {[client |-> c, op |-> op, target |-> t, session |-> n]}
  /\ UNCHANGED <<poolVars, pageVars, muxVars, viewVars, asked, upstream>>

\* Mutant: internal commands are not time-boxed.
NeverTimesOut(c) == FALSE

\* internalCommand's fifteen seconds are over before Chrome has answered (a timer
\* that beats an answer already on its way changes nothing more: the handler was
\* blocked meanwhile).  The command may still be executed: asked[Nobody] holds
\* it; the model keeps one such command and takes others to be lost in Chrome.
Timeout(c) ==
  /\ SlowChrome
  /\ task[c].op \in {"attach", "describe", "createTarget", "closeTarget"}
  /\ task[c].reply = "none"
  /\ ~AnswerComing(c)
  /\ task' = [task EXCEPT ![c].reply = "error"]
  /\ \/ asked' = [asked EXCEPT ![c] = NoCommand]
     \/ /\ asked[Nobody] = NoCommand
        /\ asked[c] # NoCommand
        /\ asked' = [asked EXCEPT ![c] = NoCommand, ![Nobody] = asked[c]]
  /\ UNCHANGED <<poolVars, pageVars, connVars, routeVars, viewVars, forwards,
                 upstream>>

-----------------------------------------------------------------------------
(* The pool's own callers: allocateTab, releaseTab and closeTab over REST. *)

PoolStep ==
  /\ \/ \E k \in Callers, a \in Agents : Pool!LeaseCheck(k, a)
     \/ \E k \in Callers : Pool!LeaseCreated(k)
     \/ \E k \in Callers : Pool!ChromeRefuses(k)
     \/ \E t \in Targets : Pool!Release(t)
  /\ UNCHANGED <<chromeVars, muxVars, viewVars, upstream>>

-----------------------------------------------------------------------------

ChromeStep ==
  \/ \E k \in Callers, t \in Targets : LeaseOpensPage(k, t)
  \/ \E t \in Targets :
       PageOpens(t) \/ PageGone(t) \/ PoolClosesPage(t) \/ AutoAttach(t)
  \/ \E c \in Clients \cup {Nobody} :
       \/ ChromeAttaches(c)
       \/ ChromeDescribes(c)
       \/ \E t \in Targets : ChromeCreates(c, t)
       \/ ChromeAnswersCreate(c)
       \/ ChromeCloses(c)
  \/ \E f \in forwards : ChromeForwards(f)

Deliver ==
  \/ DeliverCreated
  \/ DeliverAttached
  \/ DeliverDetached
  \/ DeliverDestroyed
  \/ DeliverAnswer
  \/ DeliverAttachAnswer

\* A step of the handler c's queue stands in; each is enabled until taken.
Continue(c) ==
  \/ \E t \in Targets : ReplayKnown(c, t) \/ ReplayFallback(c, t)
  \/ FallbackAttached(c)
  \/ FallbackDescribed(c)
  \/ FallbackFailed(c)
  \/ CreateAdopts(c)
  \/ CreateFails(c)
  \/ CloseReplied(c)

ClientSends(c) ==
  \/ StartReplay(c)
  \/ StartCreate(c)
  \/ \E t \in Targets : StartClose(c, t)
  \/ \E op \in AllCommands, t \in Targets, n \in 0..MaxSessions : Forward(c, op, t, n)

Next ==
  \/ ChromeStep
  \/ Deliver
  \/ PoolStep
  \/ \E t \in Targets : ParkExpires(t)
  \/ \E c \in Clients :
       Connect(c) \/ Disconnect(c) \/ ClientSends(c) \/ Continue(c) \/ Timeout(c)

Spec == Init /\ [][Next]_vars

\* The event loop runs: frames are read, continuations resume, timers fire.
\* Chrome, clients and REST callers owe nothing.
Fairness ==
  /\ WF_vars(Deliver)
  /\ \A c \in Clients : WF_vars(Continue(c)) /\ WF_vars(Timeout(c))

FairSpec == Spec /\ Fairness

-----------------------------------------------------------------------------
(* Properties.                                                             *)

\* Every variable has its type.
TypeOK ==
  /\ Pool!TypeOK
  /\ opener \in [Targets -> Targets \cup {NoTarget}]
  /\ unattached \in SUBSET Targets
  /\ minted \in [Targets -> 0..MaxSessions]
  /\ attached \in [Targets -> SUBSET (1..MaxSessions)]
  /\ asked \in [Clients \cup {Nobody} ->
       [op : {"none", "created", "getTargetInfo"} \cup AllCommands,
        target : Targets \cup {NoTarget}]]
  /\ forwards \in SUBSET [client : Clients, op : AllCommands, target : Targets,
                          session : 0..MaxSessions]
  /\ upstream \in Seq([type : {"attached", "detached", "created", "destroyed",
                               "answer", "error", "attachAnswer"},
                       target : Targets \cup {NoTarget}, session : 0..MaxSessions,
                       client : Clients \cup {Nobody}])
  /\ conns \in Seq(Clients)
  /\ left \in SUBSET Clients
  /\ table \in [Targets -> 0..MaxSessions]
  /\ parked \in [Targets -> 0..MaxSessions]
  /\ suppress \in SUBSET Targets
  /\ owner \in [Targets -> [1..MaxSessions -> Clients \cup {Nobody}]]
  /\ task \in [Clients ->
       [op : {"idle", "replay", "attach", "describe", "createTarget", "closeTarget"},
        todo : SUBSET Targets, granted : SUBSET Targets,
        target : Targets \cup {NoTarget}, session : 0..MaxSessions,
        reply : {"none", "ok", "error"}]]
  /\ ready \in SUBSET Clients
  /\ told \in [Clients -> [Targets -> 0..2]]
  /\ creator \in [Targets -> Clients \cup {Nobody}]

\* The routing keeps within the pool's contract: every step of the mux, of its
\* clients and of REST callers is a step of the lease table, or none at all.
PoolRefined == Pool!Spec

\* The per-tab ACL as the routing enforces it (mux.ts:435-442, 260, 540): a
\* session is owned by, and a page announced to, only a client of the agent
\* that leases the page, however the lease, the attach event, the replay and
\* the adoption of popups overlap; the lease may be gone since.
SessionAffinity ==
  \A c \in Clients, t \in Targets :
    (\/ told[c][t] > 0
     \/ \E n \in 1..MaxSessions : owner[t][n] = c)
      => leases[t] \in {AgentOf[c], NoAgent}

\* Popups stay in the family (mux.ts:506-519): a page and the page that opened
\* it are never leased to different agents.
FamilyAffinity ==
  \A t \in Targets :
    (opener[t] # NoTarget /\ leases[t] # NoAgent)
      => leases[opener[t]] \in {leases[t], NoAgent}

\* mux.ts:252-253 and 450: the table replays are answered from has a session of
\* every page that has one, and none that is gone, once the events that say so
\* are read: a client that connects later is told of every page of its agent and
\* of no ghost.
TableAccurate ==
  \A t \in Targets :
    /\ t \in live /\ attached[t] # {} /\ ~EventPending(t) => table[t] # 0
    /\ table[t] # 0 =>
         \/ table[t] \in attached[t]
         \/ \E i \in DOMAIN upstream :
              upstream[i].type = "detached" /\ upstream[i].target = t

\* mux.ts:302-306: a client that enabled auto-attach and then created a page is
\* told of it exactly once while it leases it, whichever of the attach event and
\* the answer to createTarget comes first.
CreatorSeesItsPage ==
  \A t \in live :
    (/\ creator[t] # Nobody
     /\ Open(creator[t])
     /\ leases[t] = AgentOf[creator[t]]
     /\ minted[t] > 0
     /\ ~EventPending(t)) => told[creator[t]][t] = 1

\* mux.ts:249: when setAutoAttach is answered, every page the client's agent
\* leased at the time of the request and that still exists was announced.
ReplayIsComplete ==
  [][\A c \in Clients :
       (task[c].granted # {} /\ task'[c].op = "idle" /\ Open(c))
         => \A t \in task[c].granted \cap live : told'[c][t] > 0]_vars

\* mux.ts:65-66: a target is marked for a swallowed attach event only while the
\* fallback that marked it runs or such an event is on its way, so that the mark
\* never swallows the announcement of a later attach.
SuppressionIsTransient ==
  \A t \in suppress :
    \/ EventPending(t)
    \/ \E c \in Clients : task[c].op \in {"attach", "describe"} /\ task[c].target = t

\* A client's queue never stalls (mux.ts:341-346): every message handled ends,
\* although Chrome may never answer and leased pages may be long gone.
QueueMoves == \A c \in Clients : task[c].op # "idle" ~> task[c].op = "idle"

-----------------------------------------------------------------------------
(* A statement the code does not keep (README, section 5).                 *)

\* mux.ts:16 and 443-444: a page leased to the agent of a connected client that has
\* enabled auto-attach reaches that client, once its attach event is read.
LeasedPageReachesClient ==
  \A c \in ready, t \in live :
    (Open(c) /\ leases[t] = AgentOf[c] /\ minted[t] > 0 /\ ~EventPending(t)
       /\ parked[t] = 0)
      => \E d \in Clients : AgentOf[d] = AgentOf[c] /\ told[d][t] > 0

=============================================================================
