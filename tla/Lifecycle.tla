----------------------------- MODULE Lifecycle -----------------------------
(***************************************************************************)
(* Starting, stopping and deleting identities: the gateway's service, the  *)
(* orchestrator, one supervisor per start, the profile lock, the reaper    *)
(* and the launch of Chrome, of one gateway process that may be killed and *)
(* started again.                                                          *)
(*                                                                         *)
(* Every request is a coroutine.  Between two of its awaits other requests *)
(* run, Chromes come up and die, and the process may be killed; what it    *)
(* does between two awaits is one action.  The state it shares with others *)
(* is the map of sessions, the map of muxes, and on disk the profile       *)
(* directories with their lock files; a start in flight is in none of the  *)
(* maps, only its lock shows it.                                           *)
(***************************************************************************)
EXTENDS Naturals, FiniteSets

CONSTANTS
  Ids,        \* identities
  Sups,       \* supervisors; each serves one start, so it bounds the starts
  Requests,   \* requests that may be in flight at once
  MaxKills,   \* bound: how often the gateway is killed or exits
  Matches,    \* Matches[id]: identities whose command lines hold id's flag
  Overlap,    \* deletes are issued while other requests for the identity run
  NoSup, NoId

ASSUME LifecycleAssumption ==
  /\ NoSup \notin Sups
  /\ NoId \notin Ids
  /\ MaxKills \in Nat
  /\ Matches \in [Ids -> SUBSET Ids]
  /\ \A id \in Ids : id \in Matches[id]
  /\ Overlap \in BOOLEAN

VARIABLES
  session,   \* session[id]: the supervisor of the registered session, or NoSup
  mux,       \* mux[id]: the supervisor whose Chrome the mux is connected to
  leased,    \* identities whose sessions have leased tabs
  task,      \* task[r]: what request r stands in
  home,      \* home[s]: the identity supervisor s was made for, or NoId
  held,      \* supervisors whose lock object believes it holds the lock
  lockfile,  \* lockfile[id]: "none", "ours", "stale" (dead owner) or "torn"
  profile,   \* identities whose profile directory exists
  chrome,    \* chrome[s]: "none", "starting", "up", "closing" or "dead"
  kills      \* how often the gateway was killed or has exited

maps  == <<session, mux, leased>>
files == <<lockfile, profile>>
vars  == <<maps, task, home, held, files, chrome, kills>>

Idle == [op |-> "none", step |-> "idle", id |-> NoId, sups |-> {}, stuck |-> {}]

Alive(s)   == chrome[s] \in {"starting", "up", "closing"}
ChromesOf(I) == {s \in Sups : home[s] \in I /\ Alive(s)}

\* A lock file that acquire() creates or reclaims.
Acquirable(id) == lockfile[id] \in {"none", "stale"}

At(r, step) == task[r].step = step
Go(r, step) == task' = [task EXCEPT ![r].step = step]
Done(r)     == task' = [task EXCEPT ![r] = Idle]

\* The one supervisor of a start.
SupOf(r) == CHOOSE s \in task[r].sups : TRUE

Init ==
  /\ session = [id \in Ids |-> NoSup]
  /\ mux = [id \in Ids |-> NoSup]
  /\ leased = {}
  /\ task = [r \in Requests |-> Idle]
  /\ home = [s \in Sups |-> NoId]
  /\ held = {}
  /\ lockfile = [id \in Ids |-> "none"]
  /\ profile \in SUBSET Ids
  /\ chrome = [s \in Sups |-> "none"]
  /\ kills = 0

-----------------------------------------------------------------------------
(* Starting.                                                               *)

\* createIdentity refuses an identity that exists.
Create(id) ==
  /\ id \notin profile
  /\ profile' = profile \cup {id}
  /\ UNCHANGED <<maps, task, home, held, lockfile, chrome, kills>>

\* Mutant: a start that does not ask for the lock.
StartUnlocked(r, id, s) ==
  /\ At(r, "idle")
  /\ session[id] = NoSup
  /\ home[s] = NoId
  /\ home' = [home EXCEPT ![s] = id]
  /\ profile' = profile \cup {id}
  /\ lockfile' = [lockfile EXCEPT ![id] = "ours"]
  /\ held' = held \cup {s}
  /\ task' = [task EXCEPT ![r] =
       [op |-> "start", step |-> "reaping", id |-> id, sups |-> {s}, stuck |-> {}]]
  /\ UNCHANGED <<maps, chrome, kills>>

\* A start up to its first await.  One that finds a session, or a lock file it
\* may not reclaim, is rejected and changes nothing.
Start(r, id, s) ==
  /\ At(r, "idle")
  /\ session[id] = NoSup
  /\ Acquirable(id)
  /\ home[s] = NoId
  /\ home' = [home EXCEPT ![s] = id]
  /\ profile' = profile \cup {id}
  /\ lockfile' = [lockfile EXCEPT ![id] = "ours"]
  /\ held' = held \cup {s}
  /\ task' = [task EXCEPT ![r] =
       [op |-> "start", step |-> "reaping", id |-> id, sups |-> {s}, stuck |-> {}]]
  /\ UNCHANGED <<maps, chrome, kills>>

\* reapProfile: SIGTERM to whatever pgrep matches; without a match it is over.
Reap(r) ==
  LET S == ChromesOf(Matches[task[r].id]) IN
  /\ At(r, "reaping")
  /\ chrome' = [s \in Sups |-> IF s \in S THEN "closing" ELSE chrome[s]]
  /\ Go(r, IF S = {} THEN "reaped" ELSE "killing")
  /\ UNCHANGED <<maps, home, held, files, kills>>

\* Mutant: the second look only waits, it kills nothing.
KillNobody(r) ==
  /\ At(r, "killing")
  /\ Go(r, "reaped")
  /\ UNCHANGED <<maps, home, held, files, chrome, kills>>

\* Two seconds later: SIGKILL to whatever matches now.
Kill(r) ==
  LET S == ChromesOf(Matches[task[r].id]) IN
  /\ At(r, "killing")
  /\ chrome' = [s \in Sups |-> IF s \in S THEN "dead" ELSE chrome[s]]
  /\ Go(r, "reaped")
  /\ UNCHANGED <<maps, home, held, files, kills>>

\* launchChrome, up to the await of the endpoint.
Spawn(r) ==
  /\ At(r, "reaped")
  /\ chrome' = [chrome EXCEPT ![SupOf(r)] = "starting"]
  /\ Go(r, "launching")
  /\ UNCHANGED <<maps, home, held, files, kills>>

Launched(r) ==
  /\ At(r, "launching")
  /\ chrome[SupOf(r)] \in {"up", "closing"}
  /\ Go(r, "connecting")
  /\ UNCHANGED <<maps, home, held, files, chrome, kills>>

\* The lock files once the supervisors S have released: a file goes if it is of
\* this process or unreadable.
FreedBy(S) == [id \in Ids |->
  IF lockfile[id] \in {"ours", "torn"} /\ \E s \in S \cap held : home[s] = id
  THEN "none" ELSE lockfile[id]]

Unlock(S) == held' = held \ S /\ lockfile' = FreedBy(S)

\* Mutant: the roll-back of a failed launch keeps the lock.
LaunchFailsLocked(r) ==
  /\ At(r, "launching")
  /\ chrome[SupOf(r)] # "up"
  /\ Done(r)
  /\ UNCHANGED <<maps, home, held, files, chrome, kills>>

\* Chrome exited early or printed no endpoint in fifteen seconds.  The handle is
\* returned to nobody, so the roll-back has no Chrome to stop.
LaunchFails(r) ==
  /\ At(r, "launching")
  /\ chrome[SupOf(r)] # "up"
  /\ Unlock(task[r].sups)
  /\ Done(r)
  /\ UNCHANGED <<maps, home, profile, chrome, kills>>

\* pgrep could not be run: rolled back with nothing launched.
ReapFails(r) ==
  /\ At(r, "reaping") \/ At(r, "killing")
  /\ Unlock(task[r].sups)
  /\ Done(r)
  /\ UNCHANGED <<maps, home, profile, chrome, kills>>

\* The control connection is up and healthy: the session is registered, and the
\* service goes on to open a mux unless the map has one.
Connected(r) ==
  LET id == task[r].id IN
  /\ At(r, "connecting")
  /\ Alive(SupOf(r))
  /\ session' = [session EXCEPT ![id] = SupOf(r)]
  /\ leased' = leased \ {id}
  /\ IF mux[id] = NoSup THEN Go(r, "muxing") ELSE Done(r)
  /\ UNCHANGED <<mux, home, held, files, chrome, kills>>

\* SIGTERM through the handle of a supervisor.
Terminate(S) ==
  chrome' = [s \in Sups |-> IF s \in S /\ Alive(s) THEN "closing" ELSE chrome[s]]

\* The connection or the health check failed: the roll-back stops Chrome.
ConnectFails(r) ==
  /\ At(r, "connecting")
  /\ Terminate(task[r].sups)
  /\ Go(r, "exiting")
  /\ UNCHANGED <<maps, home, held, files, kills>>

\* CdpMux.connect: the socket opens, then auto-attach is primed.
MuxOpens(r) ==
  /\ At(r, "muxing")
  /\ Alive(SupOf(r))
  /\ Go(r, "priming")
  /\ UNCHANGED <<maps, home, held, files, chrome, kills>>

MuxFails(r) ==
  /\ At(r, "muxing")
  /\ chrome[SupOf(r)] # "up"
  /\ Done(r)
  /\ UNCHANGED <<maps, home, held, files, chrome, kills>>

\* Priming is over, in success, failure or after fifteen seconds.
MuxSet(r) ==
  /\ At(r, "priming")
  /\ mux' = [mux EXCEPT ![task[r].id] = SupOf(r)]
  /\ Done(r)
  /\ UNCHANGED <<session, leased, home, held, files, chrome, kills>>

-----------------------------------------------------------------------------
(* Stopping, deleting and shutting down.                                   *)

\* releaseAll of a session with leases never returns when Chrome is dead: its
\* commands go to a closed control connection.
Stuck(S) == {s \in S : home[s] \in leased /\ chrome[s] = "dead"}

\* releaseAll of sessions S has commands to wait for, or none.
ReleaseStep(S) ==
  IF \E s \in S \ Stuck(S) : home[s] \in leased THEN "releasing" ELSE "released"

\* Sessions leave the map and their tabs are being released.
Begin(r, op, id, S) ==
  /\ session' = [i \in Ids |-> IF session[i] \in S THEN NoSup ELSE session[i]]
  /\ leased' = leased \ {home[s] : s \in S}
  /\ task' = [task EXCEPT ![r] =
       [op |-> op, step |-> ReleaseStep(S), id |-> id, sups |-> S \ Stuck(S),
        stuck |-> Stuck(S)]]

CloseMux(I) == mux' = [i \in Ids |-> IF i \in I THEN NoSup ELSE mux[i]]

Stop(r, id) ==
  /\ At(r, "idle")
  /\ CloseMux({id})
  /\ \/ session[id] # NoSup /\ Begin(r, "stop", id, {session[id]})
     \/ session[id] = NoSup /\ UNCHANGED <<session, leased, task>>
  /\ UNCHANGED <<home, held, files, chrome, kills>>

\* No request for id is in flight (one that hangs is given up).
Undisturbed(id) ==
  \A q \in Requests : At(q, "idle") \/ At(q, "hung") \/ task[q].id \notin {id, NoId}

Delete(r, id) ==
  /\ At(r, "idle")
  /\ Overlap \/ Undisturbed(id)
  /\ CloseMux({id})
  /\ \/ /\ session[id] # NoSup
        /\ Begin(r, "delete", id, {session[id]})
        /\ UNCHANGED files
     \/ /\ session[id] = NoSup
        /\ profile' = profile \ {id}
        /\ lockfile' = [lockfile EXCEPT ![id] = "none"]
        /\ UNCHANGED <<session, leased, task>>
  /\ UNCHANGED <<home, held, chrome, kills>>

Shutdown(r) ==
  /\ At(r, "idle")
  /\ kills < MaxKills
  /\ CloseMux(Ids)
  /\ Begin(r, "shutdown", NoId, {session[i] : i \in Ids} \ {NoSup})
  /\ UNCHANGED <<home, held, files, chrome, kills>>

\* releaseAll has returned: the tabs are closed, the connection is lost, or no tab
\* was leased.
Released(r) ==
  /\ At(r, "releasing") \/ At(r, "released")
  /\ Terminate(task[r].sups)
  /\ Go(r, "exiting")
  /\ UNCHANGED <<maps, home, held, files, kills>>

\* What is left of a request when its supervisors are stopped.  A delete stops
\* the identity once more (another session may be registered by now, when others
\* ran meanwhile) and removes the directory, lock file included.
AfterStop(r) ==
  LET id    == task[r].id
      ends  == task[r].op = "delete" /\ task[r].stuck = {}
      again == ends /\ session[id] # NoSup
      gone  == IF ends /\ ~again THEN {id} ELSE {}
  IN
  /\ held' = held \ task[r].sups
  /\ profile' = profile \ gone
  /\ lockfile' = [i \in Ids |-> IF i \in gone THEN "none" ELSE FreedBy(task[r].sups)[i]]
  /\ IF again THEN Begin(r, "delete", id, {session[id]})
     ELSE /\ task' = [task EXCEPT ![r] =
               IF task[r].stuck # {} THEN [@ EXCEPT !.step = "hung", !.sups = {}]
               ELSE IF task[r].op = "shutdown" THEN [@ EXCEPT !.step = "leaving", !.sups = {}]
               ELSE Idle]
          /\ UNCHANGED <<session, leased>>

\* Mutant: no SIGKILL for a Chrome that does not exit.
ExitedBySelf(r) ==
  /\ At(r, "exiting")
  /\ \A s \in task[r].sups : ~Alive(s)
  /\ AfterStop(r)
  /\ UNCHANGED <<mux, home, chrome, kills>>

\* waitForExit: Chrome has exited, or is killed when the grace period is over.
Exited(r) ==
  /\ At(r, "exiting")
  /\ chrome' = [s \in Sups |->
       IF s \in task[r].sups /\ Alive(s) THEN "dead" ELSE chrome[s]]
  /\ AfterStop(r)
  /\ UNCHANGED <<mux, home, kills>>

-----------------------------------------------------------------------------
(* The process, its tabs and Chrome.                                       *)

\* All a new gateway process finds is what is on disk and what is running.
Restart ==
  /\ kills < MaxKills
  /\ kills' = kills + 1
  /\ session' = [id \in Ids |-> NoSup]
  /\ mux' = [id \in Ids |-> NoSup]
  /\ leased' = {}
  /\ task' = [r \in Requests |-> Idle]
  /\ held' = {}
  /\ UNCHANGED <<home, profile, chrome>>

\* The process is killed.  A lock file whose record was not yet written (between
\* the two calls of tryCreate) stays unreadable.
Killed ==
  /\ Restart
  /\ \E torn \in SUBSET {id \in profile : session[id] = NoSup /\ Acquirable(id)} :
       /\ Cardinality(torn) <= 1
       /\ lockfile' = [id \in Ids |->
            IF id \in torn THEN "torn"
            ELSE IF lockfile[id] = "ours" THEN "stale" ELSE lockfile[id]]

\* The end of a shutdown: process.exit releases what locks are still held.
Leaves(r) ==
  /\ At(r, "leaving")
  /\ Restart
  /\ lockfile' = FreedBy(held)

Lease(id) ==
  /\ session[id] # NoSup
  /\ mux[id] # NoSup
  /\ chrome[session[id]] \in {"up", "closing"}
  /\ leased' = leased \cup {id}
  /\ UNCHANGED <<session, mux, task, home, held, files, chrome, kills>>

ReleaseTabs(id) ==
  /\ id \in leased
  /\ leased' = leased \ {id}
  /\ UNCHANGED <<session, mux, task, home, held, files, chrome, kills>>

ChromeUp(s) ==
  /\ chrome[s] = "starting"
  /\ chrome' = [chrome EXCEPT ![s] = "up"]
  /\ UNCHANGED <<maps, task, home, held, files, kills>>

\* A Chrome exits: asked to, closed by its user, or by a crash.
ChromeDies(s) ==
  /\ Alive(s)
  /\ chrome' = [chrome EXCEPT ![s] = "dead"]
  /\ UNCHANGED <<maps, task, home, held, files, kills>>

-----------------------------------------------------------------------------

\* The next step of a request in flight; one is enabled until it is done.
Continue(r) ==
  \/ Reap(r) \/ Kill(r) \/ ReapFails(r)
  \/ Spawn(r) \/ Launched(r) \/ LaunchFails(r)
  \/ Connected(r) \/ ConnectFails(r)
  \/ MuxOpens(r) \/ MuxFails(r) \/ MuxSet(r)
  \/ Released(r) \/ Exited(r) \/ Leaves(r)

Next ==
  \/ \E id \in Ids : Create(id) \/ Lease(id) \/ ReleaseTabs(id)
  \/ \E r \in Requests, id \in Ids, s \in Sups : Start(r, id, s)
  \/ \E r \in Requests, id \in Ids : Stop(r, id) \/ Delete(r, id)
  \/ \E r \in Requests : Shutdown(r) \/ Continue(r)
  \/ \E s \in Sups : ChromeUp(s) \/ ChromeDies(s)
  \/ Killed

Spec == Init /\ [][Next]_vars

\* r waits for a Chrome that runs, and nothing bounds the wait: closeTarget, the
\* opening of the control connection (with the health check, which does have its
\* time-box) and the opening of the mux's connection.
AwaitsChrome(r) ==
  /\ task[r].step \in {"releasing", "connecting", "muxing"}
  /\ \E s \in task[r].sups : Alive(s)

\* The event loop runs continuations, timers and the errors of closed sockets; a
\* Chrome that runs owes no answer.
Fairness == \A r \in Requests : WF_vars(Continue(r) /\ ~AwaitsChrome(r))

FairSpec == Spec /\ Fairness

-----------------------------------------------------------------------------

\* Every variable has its type.
TypeOK ==
  /\ session \in [Ids -> Sups \cup {NoSup}]
  /\ mux \in [Ids -> Sups \cup {NoSup}]
  /\ leased \in SUBSET Ids
  /\ task \in [Requests ->
       [op : {"none", "start", "stop", "delete", "shutdown"},
        step : {"idle", "reaping", "killing", "reaped", "launching", "connecting",
                "muxing", "priming", "releasing", "released", "exiting", "leaving",
                "hung"},
        id : Ids \cup {NoId}, sups : SUBSET Sups, stuck : SUBSET Sups]]
  /\ home \in [Sups -> Ids \cup {NoId}]
  /\ held \in SUBSET Sups
  /\ lockfile \in [Ids -> {"none", "ours", "stale", "torn"}]
  /\ profile \in SUBSET Ids
  /\ chrome \in [Sups -> {"none", "starting", "up", "closing", "dead"}]
  /\ kills \in 0..MaxKills

\* profile-lock.ts:1-5 and reaper.ts:1-4: never do two Chromes run on one
\* profile directory, whatever requests overlap and although Chromes outlive
\* failed launches and killed gateways.
SingleWriter == \A id \in Ids : Cardinality(ChromesOf({id})) <= 1

\* A registered session holds the lock of its profile, and the directory and the
\* lock file are there (orchestrator.ts:56-60, supervisor.ts:65).
SessionIsLocked ==
  \A id \in Ids : session[id] # NoSup =>
    /\ session[id] \in held
    /\ lockfile[id] = "ours"
    /\ id \in profile

\* supervisor.ts:76: no failure leaves a profile locked by nobody.  A lock is of a
\* registered session, or of a request that is still on its way (or hangs).
LockIsAccountedFor ==
  \A id \in Ids : lockfile[id] = "ours" =>
    \/ session[id] # NoSup
    \/ \E r \in Requests : task[r].op # "none" /\ task[r].id \in {id, NoId}

\* Every request ends: nothing in the gateway keeps one for ever but a running
\* Chrome that does not answer (client.ts:34-40 and 64-72, mux.ts:85-91), or the
\* tabs of a dead one (tab-pool.ts:93).
RequestsSettle ==
  \A r \in Requests : []<>(At(r, "idle") \/ At(r, "hung")) \/ <>[]AwaitsChrome(r)

-----------------------------------------------------------------------------
(* Statements the code does not keep (README, section 5).                   *)

\* supervisor.ts:137 as documented, of the last of its waits: a stop does not hang
\* for ever.
StopsEnd ==
  \A r \in Requests :
    task[r].op = "stop" ~> (At(r, "idle") \/ At(r, "hung"))

\* gateway.service.ts:97: one mux per running identity, of its own Chrome, once no
\* request for the identity is in flight.
MuxFollowsSession ==
  \A id \in Ids :
    (mux[id] # NoSup /\ \A r \in Requests : At(r, "idle") \/ task[r].id \notin {id, NoId})
      => mux[id] = session[id]

\* orchestrator.ts:122-124: a directory goes only when no Chrome runs on it.
RemoveOnlyWhenFree ==
  [][\A id \in profile \ profile' : ChromesOf({id}) \subseteq
       {s \in Sups : chrome'[s] = "dead"}]_vars

\* reaper.ts:14: a start never signals the Chrome of another identity.
ReapsOnlyOwn ==
  [][\A r \in Requests : (Reap(r) \/ Kill(r)) =>
       \A s \in Sups : chrome'[s] # chrome[s] => home[s] = task[r].id]_vars

=============================================================================
