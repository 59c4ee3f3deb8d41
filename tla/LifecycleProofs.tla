-------------------------- MODULE LifecycleProofs --------------------------
(***************************************************************************)
(* Never two Chromes on one profile directory, for any number of           *)
(* identities, requests, starts and kills of the gateway, whatever command *)
(* lines the reaper matches - as long as no identity is deleted while      *)
(* another request for it runs (Overlap; RemoveOnlyWhenFree shows what     *)
(* happens then).                                                          *)
(*                                                                         *)
(* The supervisor of a session, or of a request that has not registered or *)
(* has not finished stopping one, owns its identity: it holds the lock,    *)
(* and nobody else owns that identity.  A start that owns it kills what is *)
(* left of earlier ones, and nobody else can launch until it is done.      *)
(***************************************************************************)
EXTENDS Lifecycle, FiniteSetTheorems, TLAPS

Steps    == {"idle", "reaping", "killing", "reaped", "launching", "connecting",
             "muxing", "priming", "releasing", "released", "exiting", "leaving", "hung"}
Starting == {"reaping", "killing", "reaped", "launching", "connecting"}
Muxing   == {"muxing", "priming"}

\* The supervisors a request answers for: a start hands its own to the map of
\* sessions before it opens the mux.
Owned(r) == IF task[r].step \in Muxing THEN {} ELSE task[r].sups

\* What a request is made of in each of its steps.
TasksWellFormed ==
  \A r \in Requests :
    /\ task[r].step \in Starting \cup Muxing =>
         /\ task[r].op = "start"
         /\ task[r].stuck = {}
         /\ \E s \in Sups : task[r].sups = {s} /\ home[s] = task[r].id
    /\ task[r].step \in {"releasing", "released", "exiting"} =>
         /\ task[r].op # "none"
         /\ task[r].op = "delete" =>
              task[r].id \in Ids /\ (task[r].stuck # {} \/ task[r].sups # {})
    /\ task[r].step \in {"idle", "hung", "leaving"} => task[r].sups = {}
    /\ task[r].step = "idle" => task[r].stuck = {}
    /\ task[r].op = "none" => task[r].step = "idle"
    /\ \A s \in task[r].sups : home[s] \in Ids /\ task[r].id \in {home[s], NoId}
    /\ \A s \in task[r].stuck : task[r].id \in {home[s], NoId}

\* Whoever owns an identity holds its lock, and the directory is there.
OwnersHold ==
  /\ \A id \in Ids : session[id] # NoSup =>
       /\ home[session[id]] = id
       /\ session[id] \in held
       /\ lockfile[id] = "ours"
       /\ id \in profile
  /\ \A r \in Requests : \A s \in Owned(r) :
       /\ s \in held
       /\ lockfile[home[s]] = "ours"
       /\ home[s] \in profile

\* An identity has one owner.
OneOwner ==
  /\ \A r \in Requests : \A s \in Owned(r) : session[home[s]] = NoSup
  /\ \A r, q \in Requests : \A s \in Owned(r), t \in Owned(q) :
       home[s] = home[t] => r = q /\ s = t

\* A lock of this process was taken for an owner, or is left by one whose stop hangs.
LocksKnown ==
  \A id \in Ids : lockfile[id] = "ours" =>
    /\ \E s \in held : home[s] = id
    /\ \/ session[id] # NoSup
       \/ \E r \in Requests : \E s \in Owned(r) \cup task[r].stuck : home[s] = id

\* One Chrome runs on a profile, and none when one is about to be launched.
OneWriter ==
  /\ \A s, t \in Sups :
       (Alive(s) /\ Alive(t) /\ home[s] = home[t] /\ home[s] # NoId) => s = t
  /\ \A s \in Sups : home[s] = NoId => ~Alive(s)
  /\ \A r \in Requests : At(r, "reaped") => ChromesOf({task[r].id}) = {}

IInv ==
  TypeOK /\ TasksWellFormed /\ OwnersHold /\ OneOwner /\ LocksKnown /\ OneWriter

-----------------------------------------------------------------------------

\* A start has one supervisor, made for the identity it starts.
LEMMA SoleSup ==
  ASSUME TypeOK, TasksWellFormed, NEW r \in Requests, task[r].step \in Starting \cup Muxing
  PROVE  /\ SupOf(r) \in Sups
         /\ task[r].sups = {SupOf(r)}
         /\ task[r].id \in Ids
         /\ home[SupOf(r)] = task[r].id
<1>1. PICK s \in Sups : task[r].sups = {s} /\ home[s] = task[r].id
  BY DEF TasksWellFormed
<1>2. SupOf(r) = s
  BY <1>1 DEF SupOf
<1>3. QED
  BY <1>1, <1>2 DEF TasksWellFormed

\* A request that goes to its next step changes nothing else of itself.
LEMMA GoTask ==
  ASSUME TypeOK, NEW r \in Requests, NEW to \in Steps, Go(r, to)
  PROVE  /\ task' \in [Requests -> [op : {"none", "start", "stop", "delete", "shutdown"},
                        step : Steps, id : Ids \cup {NoId}, sups : SUBSET Sups,
                        stuck : SUBSET Sups]]
         /\ \A q \in Requests \ {r} : task'[q] = task[q]
         /\ task'[r].step = to
         /\ task'[r].op = task[r].op
         /\ task'[r].id = task[r].id
         /\ task'[r].sups = task[r].sups
         /\ task'[r].stuck = task[r].stuck
BY SMTT(30) DEF TypeOK, Go, Steps

\* A request that is done leaves nothing behind.
LEMMA DoneTask ==
  ASSUME TypeOK, NEW r \in Requests, Done(r)
  PROVE  /\ task' \in [Requests -> [op : {"none", "start", "stop", "delete", "shutdown"},
                        step : Steps, id : Ids \cup {NoId}, sups : SUBSET Sups,
                        stuck : SUBSET Sups]]
         /\ \A q \in Requests \ {r} : task'[q] = task[q]
         /\ task'[r] = Idle
BY DEF TypeOK, Done, Idle, Steps

\* A step of a request that keeps what it owns keeps all that is said of owners.
LEMMA OwnersKept ==
  ASSUME TypeOK, OwnersHold, OneOwner, LocksKnown,
         UNCHANGED <<session, home, held, lockfile>>,
         profile \subseteq profile',
         \A q \in Requests : Owned(q)' = Owned(q) /\ task'[q].stuck = task[q].stuck
  PROVE  OwnersHold' /\ OneOwner' /\ LocksKnown'
<1>1. OwnersHold'
  BY DEF OwnersHold
<1>2. OneOwner'
  BY DEF OneOwner
<1>3. LocksKnown'
  BY DEF LocksKnown
<1>4. QED
  BY <1>1, <1>2, <1>3

\* One Chrome still runs on a profile when none has been launched.
LEMMA WritersKept ==
  ASSUME TypeOK, OneWriter,
         \A s \in Sups : Alive(s)' => Alive(s) /\ home'[s] = home[s],
         \A s \in Sups : home'[s] = NoId => home[s] = NoId,
         \A q \in Requests :
           At(q, "reaped")' => At(q, "reaped") /\ task'[q].id = task[q].id
  PROVE  OneWriter'
BY DEF OneWriter, ChromesOf, At

\* The supervisors of a request release their locks, and a delete removes the
\* directory: other owners keep theirs.
LEMMA Disowned ==
  ASSUME IInv, NEW r \in Requests, task[r].step \notin Muxing,
         UNCHANGED <<session, home>>,
         held' = held \ task[r].sups,
         \A q \in Requests \ {r} : task'[q] = task[q],
         task'[r].sups = {}, task'[r].stuck = task[r].stuck,
         NEW gone, gone \subseteq {home[s] : s \in task[r].sups},
         profile' = profile \ gone,
         lockfile' = [i \in Ids |-> IF i \in gone THEN "none"
                                    ELSE FreedBy(task[r].sups)[i]]
  PROVE  OwnersHold' /\ OneOwner' /\ LocksKnown'
<1> USE DEF IInv, TypeOK
<1>1. Owned(r) = task[r].sups /\ Owned(r)' = {}
  BY DEF Owned
<1>2. \A q \in Requests \ {r} : Owned(q)' = Owned(q)
  BY DEF Owned
<1>3. \A q \in Requests : Owned(q) \subseteq Sups
  BY DEF Owned
<1>4. \A id \in Ids : lockfile'[id] # lockfile[id] => \E s \in task[r].sups : home[s] = id
  BY DEF FreedBy
<1>5. \A q \in Requests \ {r} : \A s \in Owned(q), t \in task[r].sups : home[s] # home[t]
  BY <1>1 DEF OneOwner
<1>6. \A id \in Ids : \A s \in task[r].sups : session[id] # NoSup => home[s] # id
  BY <1>1 DEF OneOwner
<1>7. OwnersHold'
  <2>1. ASSUME NEW id \in Ids, session[id] # NoSup
        PROVE  /\ home[session[id]] = id
               /\ session[id] \in held'
               /\ lockfile'[id] = "ours"
               /\ id \in profile'
    BY <2>1, <1>4, <1>6 DEF OwnersHold
  <2>2. ASSUME NEW q \in Requests, NEW s \in Owned(q)'
        PROVE  s \in held' /\ lockfile'[home[s]] = "ours" /\ home[s] \in profile'
    <3>1. q # r /\ s \in Owned(q) /\ s \in Sups
      BY <2>2, <1>1, <1>2, <1>3
    <3>2. home[s] \in Ids
      BY <3>1 DEF TasksWellFormed, Owned
    <3>3. QED
      BY <3>1, <3>2, <1>4, <1>5 DEF OwnersHold
  <2>3. QED
    BY <2>1, <2>2 DEF OwnersHold
<1>8. OneOwner'
  BY <1>1, <1>2 DEF OneOwner
<1>9. LocksKnown'
  <2>1. SUFFICES ASSUME NEW id \in Ids, lockfile'[id] = "ours"
                 PROVE  /\ \E s \in held' : home[s] = id
                        /\ \/ session[id] # NoSup
                           \/ \E q \in Requests :
                                \E s \in Owned(q)' \cup task'[q].stuck : home[s] = id
    BY DEF LocksKnown
  <2>2. lockfile[id] = "ours" /\ ~\E s \in task[r].sups \cap held : home[s] = id
    BY <2>1 DEF FreedBy
  <2>3. ~\E s \in task[r].sups : home[s] = id
    BY <2>2, <1>1 DEF OwnersHold
  <2>4. \E s \in held' : home[s] = id
    BY <2>2 DEF LocksKnown
  <2>5. ASSUME session[id] = NoSup
        PROVE  \E q \in Requests : \E s \in Owned(q)' \cup task'[q].stuck : home[s] = id
    <3>1. PICK q \in Requests : \E s \in Owned(q) \cup task[q].stuck : home[s] = id
      BY <2>2, <2>5 DEF LocksKnown
    <3>2. CASE q = r
      BY <3>1, <3>2, <2>3, <1>1
    <3>3. CASE q # r
      BY <3>1, <3>3, <1>2
    <3>4. QED
      BY <3>2, <3>3
  <2>6. QED
    BY <2>4, <2>5
<1>10. QED
  BY <1>7, <1>8, <1>9

\* A request goes on with the supervisors it owns.
LEMMA Going ==
  ASSUME IInv, NEW r \in Requests, NEW to \in Steps, Go(r, to),
         UNCHANGED <<session, home, held, files>>,
         \/ task[r].step \in Starting /\ to \in Starting \cup {"exiting"}
         \/ task[r].step \in Muxing /\ to \in Muxing
         \/ task[r].step \in {"releasing", "released"} /\ to = "exiting"
  PROVE  TasksWellFormed' /\ OwnersHold' /\ OneOwner' /\ LocksKnown'
<1> USE DEF IInv
<1>1. /\ \A q \in Requests \ {r} : task'[q] = task[q]
      /\ task'[r].step = to
      /\ task'[r].op = task[r].op
      /\ task'[r].id = task[r].id
      /\ task'[r].sups = task[r].sups
      /\ task'[r].stuck = task[r].stuck
  BY GoTask
<1>2. TasksWellFormed'
  BY <1>1 DEF TasksWellFormed, Starting, Muxing
<1>3. \A q \in Requests : Owned(q)' = Owned(q) /\ task'[q].stuck = task[q].stuck
  BY <1>1 DEF Owned, Starting, Muxing
<1>4. QED
  BY <1>2, <1>3, OwnersKept DEF files

\* A failed start gives its lock back.
LEMMA RolledBack ==
  ASSUME IInv, NEW r \in Requests, task[r].step \in Starting,
         Unlock(task[r].sups), Done(r), UNCHANGED <<session, home, profile>>
  PROVE  TasksWellFormed' /\ OwnersHold' /\ OneOwner' /\ LocksKnown'
<1> USE DEF IInv
<1>1. (\A q \in Requests \ {r} : task'[q] = task[q]) /\ task'[r] = Idle
  BY DoneTask
<1>2. TasksWellFormed'
  BY <1>1 DEF TasksWellFormed, Idle, Starting, Muxing
<1>3. task'[r].sups = {} /\ task'[r].stuck = task[r].stuck
  BY <1>1 DEF Idle, TasksWellFormed
<1>4. lockfile' = [i \in Ids |-> IF i \in {} THEN "none" ELSE FreedBy(task[r].sups)[i]]
  BY DEF Unlock, FreedBy
<1>5. held' = held \ task[r].sups /\ profile' = profile \ {} /\ task[r].step \notin Muxing
  BY DEF Unlock, Starting, Muxing
<1>6. OwnersHold' /\ OneOwner' /\ LocksKnown'
  BY <1>1, <1>3, <1>4, <1>5, Disowned
<1>7. QED
  BY <1>2, <1>6

-----------------------------------------------------------------------------

\* A start makes its supervisor the owner of an identity that had none.
LEMMA StartKeeps ==
  ASSUME IInv, NEW r \in Requests, NEW id \in Ids, NEW s \in Sups, Start(r, id, s)
  PROVE  TasksWellFormed' /\ OwnersHold' /\ OneOwner' /\ LocksKnown'
<1> USE DEF IInv, TypeOK
<1>1. /\ task[r].step = "idle" /\ task[r].sups = {}
      /\ session[id] = NoSup /\ lockfile[id] # "ours" /\ home[s] = NoId
      /\ session' = session /\ id \in profile' /\ profile \subseteq profile'
      /\ home' = [home EXCEPT ![s] = id]
      /\ lockfile' = [lockfile EXCEPT ![id] = "ours"]
      /\ held' = held \cup {s}
  BY DEF Start, At, Acquirable, TasksWellFormed, maps
<1>2. /\ \A q \in Requests \ {r} : task'[q] = task[q]
      /\ task'[r] = [op |-> "start", step |-> "reaping", id |-> id, sups |-> {s},
                     stuck |-> {}]
  BY DEF Start
<1>3. \A q \in Requests : \A t \in Owned(q) :
        t \in Sups /\ home[t] \in Ids /\ home[t] # id /\ t # s
  BY <1>1, LifecycleAssumption DEF TasksWellFormed, OwnersHold, Owned
<1>4. \A i \in Ids : session[i] # NoSup => session[i] # s /\ i # id
  BY <1>1, LifecycleAssumption DEF OwnersHold
<1>5. Owned(r)' = {s} /\ \A q \in Requests \ {r} : Owned(q)' = Owned(q)
  BY <1>2 DEF Owned, Muxing
<1>6. TasksWellFormed'
  <2>1. ASSUME NEW q \in Requests, NEW t \in task[q].sups PROVE t # s
    BY <1>1, LifecycleAssumption DEF TasksWellFormed
  <2>2. ASSUME NEW q \in Requests \ {r}, NEW t \in task[q].stuck
        PROVE  task[q].id \in {home'[t], NoId}
    BY <1>1 DEF TasksWellFormed
  <2>3. \A q \in Requests \ {r} : \A t \in task[q].sups : home'[t] = home[t]
    BY <1>1, <2>1
  <2>4. /\ task'[r].op = "start" /\ task'[r].step = "reaping" /\ task'[r].id = id
        /\ task'[r].sups = {s} /\ task'[r].stuck = {} /\ home'[s] = id
    BY <1>1, <1>2
  <2> HIDE DEF TypeOK
  <2>5. ASSUME NEW q \in Requests \ {r}, task[q].step \in Starting \cup Muxing
        PROVE  \E t \in Sups : task'[q].sups = {t} /\ home'[t] = task'[q].id
    <3>1. PICK t \in Sups : task[q].sups = {t} /\ home[t] = task[q].id
      BY <2>5 DEF TasksWellFormed
    <3>2. QED
      BY <3>1, <1>2, <2>3
  <2>6. QED
    BY <1>2, <2>2, <2>3, <2>4, <2>5 DEF TasksWellFormed, Starting, Muxing
<1>7. OwnersHold'
  <2>1. ASSUME NEW i \in Ids, session[i] # NoSup
        PROVE  home'[session[i]] = i /\ session[i] \in held' /\ lockfile'[i] = "ours"
                 /\ i \in profile'
    BY <2>1, <1>1, <1>4 DEF OwnersHold
  <2>2. ASSUME NEW q \in Requests, NEW t \in Owned(q)'
        PROVE  t \in held' /\ lockfile'[home'[t]] = "ours" /\ home'[t] \in profile'
    BY <2>2, <1>1, <1>3, <1>5 DEF OwnersHold
  <2>3. QED
    BY <1>1, <2>1, <2>2 DEF OwnersHold
<1>8. OneOwner'
  <2>1. ASSUME NEW q \in Requests, NEW t \in Owned(q)' PROVE session'[home'[t]] = NoSup
    BY <2>1, <1>1, <1>3, <1>5 DEF OneOwner
  <2>2. ASSUME NEW p \in Requests, NEW q \in Requests,
               NEW t \in Owned(p)', NEW u \in Owned(q)', home'[t] = home'[u]
        PROVE  p = q /\ t = u
    BY <2>2, <1>1, <1>3, <1>5 DEF OneOwner
  <2>3. QED
    BY <2>1, <2>2 DEF OneOwner
<1>9. LocksKnown'
  <2>1. SUFFICES ASSUME NEW i \in Ids, lockfile'[i] = "ours"
                 PROVE  /\ \E t \in held' : home'[t] = i
                        /\ \/ session[i] # NoSup
                           \/ \E q \in Requests :
                                \E t \in Owned(q)' \cup task'[q].stuck : home'[t] = i
    BY <1>1 DEF LocksKnown
  <2>2. CASE i = id
    BY <2>2, <1>1, <1>5
  <2>3. CASE i # id
    <3>1. lockfile[i] = "ours"
      BY <2>1, <2>3, <1>1
    <3>2. \A t \in Sups : home[t] = i => home'[t] = i
      BY <1>1, LifecycleAssumption
    <3>3. \E t \in held' : home'[t] = i
      BY <3>1, <3>2, <1>1 DEF LocksKnown
    <3>4. ASSUME session[i] = NoSup
          PROVE  \E q \in Requests : \E t \in Owned(q)' \cup task'[q].stuck : home'[t] = i
      <4>1. PICK q \in Requests : \E t \in Owned(q) \cup task[q].stuck : home[t] = i
        BY <3>1, <3>4 DEF LocksKnown
      <4>2. PICK t \in Owned(q) \cup task[q].stuck : home[t] = i
        BY <4>1
      <4>3. q # r
        BY <4>2, <1>1 DEF Owned, TasksWellFormed
      <4>4. t \in Sups
        BY <4>2, <1>3
      <4>5. QED
        BY <4>2, <4>3, <4>4, <3>2, <1>2, <1>5
    <3>5. QED
      BY <3>3, <3>4
  <2>4. QED
    BY <2>2, <2>3
<1>10. QED
  BY <1>6, <1>7, <1>8, <1>9

\* A registered session is owned by the map of sessions instead of its request.
LEMMA ConnectedKeeps ==
  ASSUME IInv, NEW r \in Requests, Connected(r)
  PROVE  TasksWellFormed' /\ OwnersHold' /\ OneOwner' /\ LocksKnown'
<1> USE DEF IInv, TypeOK
<1> DEFINE id == task[r].id
           s  == SupOf(r)
<1>1. /\ task[r].step = "connecting"
      /\ session' = [session EXCEPT ![id] = s]
      /\ UNCHANGED <<home, held, lockfile, profile>>
  BY DEF Connected, At, files
<1>2. s \in Sups /\ task[r].sups = {s} /\ id \in Ids /\ home[s] = id /\ task[r].stuck = {}
  BY <1>1, SoleSup DEF Starting, TasksWellFormed
<1>3. Go(r, "muxing") \/ Done(r)
  BY DEF Connected
<1>4. /\ \A q \in Requests \ {r} : task'[q] = task[q]
      /\ \/ /\ task'[r].step = "muxing" /\ task'[r].op = task[r].op
            /\ task'[r].id = id /\ task'[r].sups = {s} /\ task'[r].stuck = {}
         \/ task'[r] = Idle
  BY <1>2, <1>3, GoTask, DoneTask DEF Steps
<1>5. Owned(r) = {s} /\ Owned(r)' = {} /\ task'[r].stuck = {}
  BY <1>1, <1>2, <1>4 DEF Owned, Muxing, Idle
<1>6. \A q \in Requests \ {r} : Owned(q)' = Owned(q)
  BY <1>4 DEF Owned
<1>7. \A q \in Requests \ {r} : \A t \in Owned(q) : home[t] # id /\ home[t] \in Ids
  BY <1>2, <1>5 DEF OneOwner, TasksWellFormed, Owned
<1>8. TasksWellFormed'
  BY <1>1, <1>2, <1>4 DEF TasksWellFormed, Starting, Muxing, Idle
<1>9. OwnersHold'
  <2>1. s \in held /\ lockfile[id] = "ours" /\ id \in profile
    BY <1>2, <1>5 DEF OwnersHold
  <2>2. QED
    BY <1>1, <1>2, <1>5, <1>6, <2>1 DEF OwnersHold
<1>10. OneOwner'
  <2>1. ASSUME NEW q \in Requests, NEW t \in Owned(q)'
        PROVE  q # r /\ t \in Owned(q) /\ session'[home[t]] = NoSup
    <3>1. q # r /\ t \in Owned(q)
      BY <2>1, <1>5, <1>6
    <3>2. QED
      BY <3>1, <1>1, <1>7 DEF OneOwner
  <2>2. ASSUME NEW p \in Requests, NEW q \in Requests,
               NEW t \in Owned(p)', NEW u \in Owned(q)', home[t] = home[u]
        PROVE  p = q /\ t = u
    BY <2>1, <2>2 DEF OneOwner
  <2>3. QED
    BY <1>1, <2>1, <2>2 DEF OneOwner
<1>11. LocksKnown'
  <2>1. SUFFICES ASSUME NEW i \in Ids, lockfile[i] = "ours", session'[i] = NoSup
                 PROVE  \E q \in Requests :
                          \E t \in Owned(q)' \cup task'[q].stuck : home[t] = i
    BY <1>1 DEF LocksKnown
  <2>2. i # id /\ session[i] = NoSup
    BY <2>1, <1>1, <1>2, LifecycleAssumption
  <2>3. PICK q \in Requests : \E t \in Owned(q) \cup task[q].stuck : home[t] = i
    BY <2>1, <2>2 DEF LocksKnown
  <2>4. q # r
    BY <2>2, <2>3, <1>2, <1>5
  <2>5. QED
    BY <2>3, <2>4, <1>4, <1>6
<1>12. QED
  BY <1>8, <1>9, <1>10, <1>11

\* Sessions leave the map for the request that stops them, except that nobody answers
\* for those whose tabs cannot be released.
LEMMA BeginKeeps ==
  ASSUME IInv, NEW r \in Requests, task[r].step = "idle",
         NEW op \in {"stop", "delete", "shutdown"}, NEW id \in Ids \cup {NoId},
         NEW S \in SUBSET Sups,
         \A t \in S : home[t] \in Ids /\ session[home[t]] = t /\ id \in {home[t], NoId},
         op = "delete" => id \in Ids /\ S # {},
         Begin(r, op, id, S), UNCHANGED <<home, held, files>>
  PROVE  TasksWellFormed' /\ OwnersHold' /\ OneOwner' /\ LocksKnown'
<1> USE DEF IInv, TypeOK, files
<1>1. /\ \A q \in Requests \ {r} : task'[q] = task[q]
      /\ task'[r] = [op |-> op, step |-> ReleaseStep(S), id |-> id, sups |-> S \ Stuck(S),
                     stuck |-> Stuck(S)]
      /\ session' = [i \in Ids |-> IF session[i] \in S THEN NoSup ELSE session[i]]
  BY DEF Begin
<1>2. Stuck(S) \subseteq S /\ ReleaseStep(S) \in {"releasing", "released"}
  BY DEF Stuck, ReleaseStep
<1>3. Owned(r) = {} /\ task[r].stuck = {} /\ Owned(r)' = S \ Stuck(S)
  BY <1>1, <1>2 DEF Owned, Muxing, TasksWellFormed
<1>4. \A q \in Requests \ {r} : Owned(q)' = Owned(q)
  BY <1>1 DEF Owned
<1>5. \A t \in S : /\ session'[home[t]] = NoSup
                   /\ t \in held /\ lockfile[home[t]] = "ours" /\ home[t] \in profile
  BY <1>1, LifecycleAssumption DEF OwnersHold
<1>6. TasksWellFormed'
  <2> HIDE DEF TypeOK
  <2>1. /\ task'[r].op = op /\ task'[r].step \in {"releasing", "released"}
        /\ task'[r].id = id
        /\ task'[r].sups = S \ Stuck(S) /\ task'[r].stuck = Stuck(S)
    BY <1>1, <1>2
  <2>2. op # "none" /\ (op = "delete" => id \in Ids /\ (task'[r].stuck # {} \/ task'[r].sups # {}))
    BY <2>1
  <2>3. \A t \in task'[r].sups \cup task'[r].stuck : home[t] \in Ids /\ id \in {home[t], NoId}
    BY <2>1, <1>2
  <2>4. QED
    BY <1>1, <2>1, <2>2, <2>3 DEF TasksWellFormed, Starting, Muxing
<1>7. OwnersHold'
  <2>1. ASSUME NEW i \in Ids, session'[i] # NoSup
        PROVE  /\ home[session'[i]] = i
               /\ session'[i] \in held
               /\ lockfile[i] = "ours"
               /\ i \in profile
    BY <2>1, <1>1 DEF OwnersHold
  <2>2. ASSUME NEW q \in Requests, NEW t \in Owned(q)'
        PROVE  t \in held /\ lockfile[home[t]] = "ours" /\ home[t] \in profile
    BY <2>2, <1>3, <1>4, <1>5 DEF OwnersHold
  <2>3. QED
    BY <2>1, <2>2 DEF OwnersHold
<1>8. OneOwner'
  <2>1. \A q \in Requests \ {r} : \A u \in Owned(q), t \in S : home[u] # home[t]
    BY LifecycleAssumption DEF OneOwner
  <2>2. \A q \in Requests : \A t \in Owned(q) : home[t] \in Ids
    BY DEF Owned, TasksWellFormed
  <2>3. ASSUME NEW q \in Requests, NEW t \in Owned(q)' PROVE session'[home[t]] = NoSup
    <3>1. CASE q = r
      BY <2>3, <3>1, <1>3, <1>5
    <3>2. CASE q # r
      BY <2>2, <2>3, <3>2, <1>1, <1>4 DEF OneOwner
    <3>3. QED
      BY <3>1, <3>2
  <2>4. ASSUME NEW p \in Requests, NEW q \in Requests,
               NEW t \in Owned(p)', NEW u \in Owned(q)', home[t] = home[u]
        PROVE  p = q /\ t = u
    <3>1. CASE p # r /\ q # r
      BY <2>4, <3>1, <1>4 DEF OneOwner
    <3>2. CASE p = r /\ q = r
      BY <2>4, <3>2, <1>3
    <3>3. CASE p = r /\ q # r
      BY <2>4, <3>3, <1>3, <1>4, <2>1
    <3>4. CASE p # r /\ q = r
      BY <2>4, <3>4, <1>3, <1>4, <2>1
    <3>5. QED
      BY <3>1, <3>2, <3>3, <3>4
  <2>5. QED
    BY <2>3, <2>4 DEF OneOwner
<1>9. LocksKnown'
  <2>1. SUFFICES ASSUME NEW i \in Ids, lockfile[i] = "ours", session'[i] = NoSup
                 PROVE  \E q \in Requests :
                          \E t \in Owned(q)' \cup task'[q].stuck : home[t] = i
    BY DEF LocksKnown
  <2>2. CASE session[i] = NoSup
    <3>1. PICK q \in Requests : \E t \in Owned(q) \cup task[q].stuck : home[t] = i
      BY <2>1, <2>2 DEF LocksKnown
    <3>2. q # r
      BY <3>1, <1>3
    <3>3. QED
      BY <3>1, <3>2, <1>1, <1>4
  <2>3. CASE session[i] # NoSup
    <3>1. session[i] \in S /\ home[session[i]] = i
      BY <2>1, <2>3, <1>1 DEF OwnersHold
    <3>2. session[i] \in Owned(r)' \cup task'[r].stuck
      BY <3>1, <1>1, <1>3
    <3>3. QED
      BY <3>1, <3>2
  <2>4. QED
    BY <2>2, <2>3
<1>10. QED
  BY <1>6, <1>7, <1>8, <1>9

\* What is left of a stop: its locks are released and, for a delete, the directory
\* of an identity nobody owns any more is removed.
LEMMA ExitedKeeps ==
  ASSUME IInv, NEW r \in Requests, Exited(r)
  PROVE  TasksWellFormed' /\ OwnersHold' /\ OneOwner' /\ LocksKnown'
<1> USE DEF IInv, TypeOK
<1> DEFINE id    == task[r].id
           ends  == task[r].op = "delete" /\ task[r].stuck = {}
           again == ends /\ session[id] # NoSup
           gone  == IF ends /\ ~again THEN {id} ELSE {}
<1>1. task[r].step = "exiting" /\ AfterStop(r) /\ home' = home
  BY DEF Exited, At
<1>2. Owned(r) = task[r].sups
  BY <1>1 DEF Owned, Muxing
<1>3. ends => id \in Ids /\ \E s \in task[r].sups : home[s] = id
  BY <1>1, LifecycleAssumption DEF TasksWellFormed
<1>4. ~again
  BY <1>2, <1>3 DEF OneOwner
<1>5. /\ held' = held \ task[r].sups
      /\ profile' = profile \ gone
      /\ lockfile' = [i \in Ids |-> IF i \in gone THEN "none" ELSE FreedBy(task[r].sups)[i]]
      /\ session' = session
      /\ task' = [task EXCEPT ![r] =
           IF task[r].stuck # {} THEN [@ EXCEPT !.step = "hung", !.sups = {}]
           ELSE IF task[r].op = "shutdown" THEN [@ EXCEPT !.step = "leaving", !.sups = {}]
           ELSE Idle]
  BY <1>1, <1>4 DEF AfterStop
<1>6. /\ \A q \in Requests \ {r} : task'[q] = task[q]
      /\ \/ /\ task'[r].step \in {"hung", "leaving"} /\ task'[r].op = task[r].op
            /\ task'[r].id = task[r].id /\ task'[r].sups = {}
            /\ task'[r].stuck = task[r].stuck
         \/ /\ task'[r].step = "idle" /\ task'[r].op = "none" /\ task'[r].sups = {}
            /\ task'[r].stuck = {} /\ task[r].stuck = {}
  BY <1>5 DEF Idle
<1>7. gone \subseteq {home[s] : s \in task[r].sups}
  BY <1>3
<1>8. TasksWellFormed'
  <2>1. \A s \in task[r].stuck : task[r].id \in {home[s], NoId}
    BY DEF TasksWellFormed
  <2>2. task[r].op # "none"
    BY <1>1 DEF TasksWellFormed
  <2> HIDE DEF TypeOK
  <2>3. QED
    BY <1>1, <1>6, <2>1, <2>2 DEF TasksWellFormed, Starting, Muxing
<1>9. task'[r].sups = {} /\ task'[r].stuck = task[r].stuck /\ task[r].step \notin Muxing
  BY <1>1, <1>6 DEF Muxing
<1>10. OwnersHold' /\ OneOwner' /\ LocksKnown'
  <2> HIDE DEF gone
  <2>1. QED
    BY <1>1, <1>5, <1>6, <1>7, <1>9, Disowned
<1>11. QED
  BY <1>8, <1>10

\* A new gateway process owns nothing, and no lock file is of a process that lives.
LEMMA RestartKeeps ==
  ASSUME IInv, Killed \/ \E r \in Requests : Leaves(r)
  PROVE  TasksWellFormed' /\ OwnersHold' /\ OneOwner' /\ LocksKnown'
<1> USE DEF IInv, TypeOK
<1>1. /\ session' = [i \in Ids |-> NoSup]
      /\ task' = [q \in Requests |-> Idle]
  BY DEF Killed, Leaves, Restart
<1>2. \A i \in Ids : lockfile'[i] # "ours"
  <2>1. CASE Killed
    BY <2>1 DEF Killed
  <2>2. CASE \E r \in Requests : Leaves(r)
    BY <2>2 DEF Leaves, FreedBy, LocksKnown
  <2>3. QED
    BY <2>1, <2>2
<1>3. \A q \in Requests : Owned(q)' = {}
  BY <1>1 DEF Owned, Idle
<1>4. TasksWellFormed'
  BY <1>1 DEF TasksWellFormed, Idle, Starting, Muxing
<1>5. OwnersHold' /\ OneOwner'
  BY <1>1, <1>3 DEF OwnersHold, OneOwner
<1>6. LocksKnown'
  BY <1>2 DEF LocksKnown
<1>7. QED
  BY <1>4, <1>5, <1>6

-----------------------------------------------------------------------------

\* A reaped profile has no Chrome.
LEMMA ReapKeeps ==
  ASSUME IInv, NEW r \in Requests, Reap(r) \/ Kill(r)
  PROVE  OneWriter'
<1> USE DEF IInv, TypeOK
<1> DEFINE id == task[r].id
           S  == ChromesOf(Matches[id])
<1>1. /\ task[r].step \in {"reaping", "killing"}
      /\ home' = home
      /\ Go(r, "reaped") \/ Go(r, "killing")
      /\ chrome' \in {[s \in Sups |-> IF s \in S THEN "closing" ELSE chrome[s]],
                      [s \in Sups |-> IF s \in S THEN "dead" ELSE chrome[s]]}
  BY DEF Reap, Kill, At
<1>2. id \in Ids
  BY <1>1, SoleSup DEF Starting
<1>3. ChromesOf({id}) \subseteq S
  BY <1>2, LifecycleAssumption DEF ChromesOf
<1>4. \A s \in Sups : Alive(s)' => Alive(s)
  BY <1>1 DEF Alive, ChromesOf
<1>5. (\A q \in Requests \ {r} : task'[q] = task[q]) /\ task'[r].id = id
  BY <1>1, GoTask DEF Steps
<1>6. ASSUME At(r, "reaped")' PROVE \A s \in ChromesOf({id}) : ~Alive(s)'
  <2>1. CASE Reap(r)
    <3>1. S = {}
      BY <2>1, <1>6, GoTask DEF Reap, At, Steps
    <3>2. QED
      BY <3>1, <1>3
  <2>2. CASE Kill(r)
    <3>1. chrome' = [s \in Sups |-> IF s \in S THEN "dead" ELSE chrome[s]]
      BY <2>2 DEF Kill
    <3>2. ChromesOf({id}) \subseteq Sups
      BY DEF ChromesOf
    <3> HIDE DEF S
    <3>3. QED
      BY <3>1, <3>2, <1>3 DEF Alive
  <2>3. QED
    BY <2>1, <2>2
<1>7. \A q \in Requests : At(q, "reaped")' => ChromesOf({task[q].id})' = {}
  BY <1>1, <1>4, <1>5, <1>6 DEF OneWriter, ChromesOf, At
<1>8. QED
  BY <1>1, <1>4, <1>7 DEF OneWriter

\* A Chrome is launched only for the owner of a profile, on which none runs.
LEMMA SpawnKeeps ==
  ASSUME IInv, NEW r \in Requests, Spawn(r)
  PROVE  OneWriter'
<1> USE DEF IInv, TypeOK
<1> DEFINE id == task[r].id
           s  == SupOf(r)
<1>1. /\ task[r].step = "reaped" /\ home' = home
      /\ chrome' = [chrome EXCEPT ![s] = "starting"]
      /\ Go(r, "launching")
  BY DEF Spawn, At
<1>2. s \in Sups /\ task[r].sups = {s} /\ id \in Ids /\ home[s] = id
  BY <1>1, SoleSup DEF Starting
<1>3. (\A q \in Requests \ {r} : task'[q] = task[q]) /\ task'[r].step = "launching"
  BY <1>1, GoTask DEF Steps
<1>4. ChromesOf({id}) = {}
  BY <1>1 DEF OneWriter, At
<1>5. \A t \in Sups \ {s} : Alive(t)' <=> Alive(t)
  BY <1>1 DEF Alive
<1>6. \A t \in Sups : Alive(t) => home[t] # id
  BY <1>4 DEF ChromesOf
<1>7. ASSUME NEW q \in Requests, At(q, "reaped")' PROVE ChromesOf({task[q].id})' = {}
  <2>1. q # r /\ At(q, "reaped") /\ task'[q] = task[q]
    BY <1>3, <1>7 DEF At
  <2>2. SupOf(q) \in Owned(q) /\ home[SupOf(q)] = task[q].id
    BY <2>1, SoleSup DEF At, Starting, Owned, Muxing
  <2>3. s \in Owned(r)
    BY <1>1, <1>2 DEF Owned, Muxing
  <2>4. task[q].id # id
    BY <1>2, <2>1, <2>2, <2>3 DEF OneOwner
  <2>5. ChromesOf({task[q].id}) = {}
    BY <2>1 DEF OneWriter
  <2>6. QED
    BY <1>1, <1>2, <1>5, <2>1, <2>4, <2>5 DEF ChromesOf
<1>8. \A t, u \in Sups : (Alive(t)' /\ Alive(u)' /\ home[t] = home[u] /\ home[t] # NoId) => t = u
  BY <1>2, <1>5, <1>6 DEF OneWriter
<1>9. \A t \in Sups : home[t] = NoId => ~Alive(t)'
  BY <1>2, <1>5, LifecycleAssumption DEF OneWriter
<1>10. QED
  BY <1>1, <1>7, <1>8, <1>9 DEF OneWriter

\* Chromes may come up, close and die, and supervisors be made.
LaunchesNone ==
  \A s \in Sups : /\ Alive(s)' => Alive(s) /\ home'[s] = home[s]
                  /\ home'[s] = NoId => home[s] = NoId

\* Requests may come and go on, but none comes to the launch.
ReachesNoLaunch ==
  \A q \in Requests : At(q, "reaped")' => At(q, "reaped") /\ task'[q].id = task[q].id

\* No other step launches a Chrome or comes to the launch.
LEMMA OthersKeep ==
  ASSUME IInv, [Next]_vars, \A r \in Requests : ~Reap(r) /\ ~Kill(r) /\ ~Spawn(r)
  PROVE  OneWriter'
<1> USE DEF IInv
<1>1. LaunchesNone
  <2> USE DEF TypeOK, Alive, LaunchesNone
  <2>1. CASE home' = home /\ chrome' = chrome
    BY <2>1
  <2>2. ASSUME NEW r \in Requests, NEW id \in Ids, NEW s \in Sups, Start(r, id, s)
        PROVE  LaunchesNone
    <3>1. ~Alive(s) /\ chrome' = chrome /\ home' = [home EXCEPT ![s] = id]
      BY <2>2 DEF Start, OneWriter
    <3>2. QED
      BY <3>1, LifecycleAssumption
  <2>3. ASSUME NEW r \in Requests, ConnectFails(r) \/ Released(r) \/ Exited(r)
        PROVE  LaunchesNone
    <3>1. home' = home
      BY <2>3 DEF ConnectFails, Released, Exited
    <3>2. \A s \in Sups :
             chrome'[s] = chrome[s] \/ (Alive(s) /\ chrome'[s] \in {"closing", "dead"})
      BY <2>3 DEF ConnectFails, Released, Exited, Terminate
    <3>3. QED
      BY <3>1, <3>2
  <2>4. ASSUME NEW s \in Sups, ChromeUp(s) \/ ChromeDies(s) PROVE LaunchesNone
    <3>1. home' = home /\ Alive(s) /\ \E c \in {"up", "dead"} : chrome' = [chrome EXCEPT ![s] = c]
      BY <2>4 DEF ChromeUp, ChromeDies
    <3>2. QED
      BY <3>1
  <2> HIDE DEF TypeOK, Alive, LaunchesNone, IInv
  <2>5. CASE UNCHANGED vars
    BY <2>5, <2>1 DEF vars
  <2>6. ASSUME NEW r \in Requests, Continue(r) PROVE LaunchesNone
    BY <2>1, <2>3, <2>6
       DEF Continue, ReapFails, Launched, LaunchFails, Connected, MuxOpens, MuxFails,
           MuxSet, Leaves, Restart
  <2>7. CASE Next
    BY <2>1, <2>2, <2>4, <2>6, <2>7
       DEF Next, Create, Lease, ReleaseTabs, Stop, Delete, Shutdown, Killed, Restart
  <2>8. QED
    BY <2>5, <2>7
<1>2. ReachesNoLaunch
  <2> USE DEF At, ReachesNoLaunch
  <2>1. CASE task' = task
    BY <2>1
  <2>2. ASSUME NEW r \in Requests, \A q \in Requests \ {r} : task'[q] = task[q],
               task'[r].step # "reaped"
        PROVE  ReachesNoLaunch
    BY <2>2
  <2> HIDE DEF ReachesNoLaunch
  <2>3. ASSUME NEW r \in Requests, NEW to \in Steps \ {"reaped"}, Go(r, to)
        PROVE  ReachesNoLaunch
    BY <2>2, <2>3, GoTask
  <2>4. ASSUME NEW r \in Requests, Done(r) PROVE ReachesNoLaunch
    <3>1. task'[r].step # "reaped"
      BY <2>4, DoneTask DEF Idle
    <3>2. QED
      BY <2>2, <2>4, <3>1, DoneTask
  <2>5. ASSUME NEW r \in Requests, NEW op, NEW id, NEW S, Begin(r, op, id, S)
        PROVE  ReachesNoLaunch
    BY <2>2, <2>5 DEF Begin, ReleaseStep, TypeOK
  <2>6. ASSUME NEW r \in Requests, NEW id \in Ids, NEW s \in Sups, Start(r, id, s)
        PROVE  ReachesNoLaunch
    BY <2>2, <2>6 DEF Start, TypeOK
  <2>7. ASSUME NEW r \in Requests, Exited(r) PROVE ReachesNoLaunch
    <3>1. CASE \E op, id, S : Begin(r, op, id, S)
      BY <2>5, <3>1
    <3>2. CASE task' = [task EXCEPT ![r] =
                 IF task[r].stuck # {} THEN [@ EXCEPT !.step = "hung", !.sups = {}]
                 ELSE IF task[r].op = "shutdown"
                      THEN [@ EXCEPT !.step = "leaving", !.sups = {}]
                 ELSE Idle]
      <4>1. /\ \A q \in Requests \ {r} : task'[q] = task[q]
            /\ task'[r].step # "reaped"
        BY <3>2 DEF TypeOK, Idle
      <4>2. QED
        BY <2>2, <4>1
    <3>3. QED
      BY <2>7, <3>1, <3>2 DEF Exited, AfterStop
  <2>8. CASE Restart
    BY <2>8 DEF Restart, Idle, ReachesNoLaunch
  <2>9. CASE UNCHANGED vars
    BY <2>1, <2>9 DEF vars
  <2>10. ASSUME NEW r \in Requests, Continue(r) PROVE ReachesNoLaunch
    BY <2>3, <2>4, <2>7, <2>8, <2>10
       DEF Continue, ReapFails, Launched, LaunchFails, Connected, ConnectFails, MuxOpens,
           MuxFails, MuxSet, Released, Leaves, Steps
  <2>11. CASE Next
    BY <2>1, <2>5, <2>6, <2>8, <2>10, <2>11
       DEF Next, Create, Lease, ReleaseTabs, Stop, Delete, Shutdown, ChromeUp, ChromeDies,
           Killed
  <2>12. QED
    BY <2>9, <2>11
<1>3. QED
  BY <1>1, <1>2, WritersKept DEF LaunchesNone, ReachesNoLaunch

-----------------------------------------------------------------------------

Tasks == [op : {"none", "start", "stop", "delete", "shutdown"}, step : Steps,
          id : Ids \cup {NoId}, sups : SUBSET Sups, stuck : SUBSET Sups]

\* The types, with that of the requests apart.
OtherTypes ==
  /\ session \in [Ids -> Sups \cup {NoSup}]
  /\ mux \in [Ids -> Sups \cup {NoSup}]
  /\ leased \in SUBSET Ids
  /\ home \in [Sups -> Ids \cup {NoId}]
  /\ held \in SUBSET Sups
  /\ lockfile \in [Ids -> {"none", "ours", "stale", "torn"}]
  /\ profile \in SUBSET Ids
  /\ chrome \in [Sups -> {"none", "starting", "up", "closing", "dead"}]
  /\ kills \in 0..MaxKills

LEMMA TypesSplit == TypeOK <=> OtherTypes /\ task \in [Requests -> Tasks]
BY DEF TypeOK, OtherTypes, Tasks, Steps

\* Sessions leave the map for a request that is well-typed.
LEMMA BeginTypes ==
  ASSUME TypeOK, NEW r \in Requests, NEW op \in {"stop", "delete", "shutdown"},
         NEW id \in Ids \cup {NoId}, NEW S \in SUBSET Sups, Begin(r, op, id, S)
  PROVE  /\ task' \in [Requests -> Tasks]
         /\ session' \in [Ids -> Sups \cup {NoSup}]
         /\ leased' \in SUBSET Ids
<1>1. [op |-> op, step |-> ReleaseStep(S), id |-> id, sups |-> S \ Stuck(S),
       stuck |-> Stuck(S)] \in Tasks
  BY DEF Tasks, Steps, Stuck, ReleaseStep
<1>2. task' \in [Requests -> Tasks]
  BY <1>1, TypesSplit DEF Begin
<1>3. QED
  BY <1>2 DEF Begin, TypeOK

\* Every step of a request in flight keeps the types.
LEMMA ContinueTypes ==
  ASSUME TypeOK, TasksWellFormed, NEW r \in Requests, Continue(r)
  PROVE  TypeOK'
<1> USE DEF OtherTypes
<1>1. OtherTypes /\ task \in [Requests -> Tasks]
  BY TypesSplit
<1>2. \A to \in Steps : Go(r, to) => task' \in [Requests -> Tasks]
  BY GoTask DEF Tasks
<1>3. Done(r) => task' \in [Requests -> Tasks]
  BY DoneTask DEF Tasks
<1>4. CASE Reap(r) \/ Kill(r) \/ Launched(r) \/ ConnectFails(r) \/ MuxOpens(r) \/ Released(r)
  <2>1. task' \in [Requests -> Tasks]
    BY <1>2, <1>4 DEF Reap, Kill, Launched, ConnectFails, MuxOpens, Released, Steps
  <2>2. OtherTypes'
    BY <1>1, <1>4
       DEF Reap, Kill, Launched, ConnectFails, MuxOpens, Released, Terminate, maps, files
  <2>3. QED
    BY <2>1, <2>2 DEF TypeOK, OtherTypes, Tasks, Steps
<1>5. CASE ReapFails(r) \/ LaunchFails(r) \/ MuxFails(r)
  <2>1. task' \in [Requests -> Tasks]
    BY <1>3, <1>5 DEF ReapFails, LaunchFails, MuxFails
  <2>2. OtherTypes'
    BY <1>1, <1>5 DEF ReapFails, LaunchFails, MuxFails, Unlock, FreedBy, maps, files
  <2>3. QED
    BY <2>1, <2>2 DEF TypeOK, OtherTypes, Tasks, Steps
<1>6. CASE Spawn(r) \/ Connected(r) \/ MuxSet(r)
  <2>1. SupOf(r) \in Sups /\ task[r].id \in Ids
    BY <1>6, SoleSup DEF Spawn, Connected, MuxSet, At, Starting, Muxing
  <2>2. task' \in [Requests -> Tasks]
    BY <1>2, <1>3, <1>6 DEF Spawn, Connected, MuxSet, Steps
  <2>3. OtherTypes'
    BY <1>1, <1>6, <2>1 DEF Spawn, Connected, MuxSet, maps, files
  <2>4. QED
    BY <2>2, <2>3 DEF TypeOK, OtherTypes, Tasks, Steps
<1>7. CASE Exited(r)
  <2>1. /\ chrome' \in [Sups -> {"none", "starting", "up", "closing", "dead"}]
        /\ held' \in SUBSET Sups /\ profile' \in SUBSET Ids
        /\ lockfile' \in [Ids -> {"none", "ours", "stale", "torn"}]
        /\ UNCHANGED <<mux, home, kills>>
    BY <1>1, <1>7 DEF Exited, AfterStop, FreedBy
  <2>2. CASE task[r].id \in Ids /\ session[task[r].id] # NoSup
             /\ Begin(r, "delete", task[r].id, {session[task[r].id]})
    <3>1. {session[task[r].id]} \in SUBSET Sups
      BY <1>1, <2>2
    <3>2. /\ task' \in [Requests -> Tasks]
          /\ session' \in [Ids -> Sups \cup {NoSup}]
          /\ leased' \in SUBSET Ids
      BY <2>2, <3>1, BeginTypes
    <3>3. QED
      BY <1>1, <2>1, <3>2 DEF TypeOK, Tasks, Steps
  <2>3. CASE /\ task' = [task EXCEPT ![r] =
                  IF task[r].stuck # {} THEN [@ EXCEPT !.step = "hung", !.sups = {}]
                  ELSE IF task[r].op = "shutdown"
                       THEN [@ EXCEPT !.step = "leaving", !.sups = {}]
                  ELSE Idle]
             /\ UNCHANGED <<session, leased>>
    <3>1. \A q \in Requests : task[q] \in Tasks
      BY <1>1
    <3>2. Idle \in Tasks
      BY DEF Tasks, Steps, Idle
    <3>3. [task[r] EXCEPT !.step = "hung", !.sups = {}] \in Tasks
      BY <3>1 DEF Tasks, Steps
    <3>4. [task[r] EXCEPT !.step = "leaving", !.sups = {}] \in Tasks
      BY <3>1 DEF Tasks, Steps
    <3>5. task' \in [Requests -> Tasks]
      BY <1>1, <2>3, <3>2, <3>3, <3>4
    <3>6. QED
      BY <1>1, <2>1, <2>3, <3>5 DEF TypeOK, OtherTypes, Tasks, Steps
  <2>4. task[r].op = "delete" => task[r].id \in Ids
    BY <1>7 DEF Exited, At, TasksWellFormed
  <2>5. QED
    BY <1>7, <2>2, <2>3, <2>4 DEF Exited, AfterStop
<1>8. CASE Leaves(r)
  <2>1. task' \in [Requests -> Tasks]
    BY <1>8 DEF Leaves, Restart, Tasks, Steps, Idle
  <2>2. OtherTypes'
    BY <1>1, <1>8, LifecycleAssumption DEF Leaves, Restart, FreedBy
  <2>3. QED
    BY <2>1, <2>2 DEF TypeOK, OtherTypes, Tasks, Steps
<1>9. QED
  BY <1>4, <1>5, <1>6, <1>7, <1>8 DEF Continue

\* So does every other step.
LEMMA NextTypes ==
  ASSUME TypeOK, TasksWellFormed, [Next]_vars
  PROVE  TypeOK'
<1>1. OtherTypes /\ task \in [Requests -> Tasks]
  BY TypesSplit
<1>2. ASSUME NEW id \in Ids, Create(id) \/ Lease(id) \/ ReleaseTabs(id) PROVE TypeOK'
  <2>1. task' = task /\ OtherTypes'
    BY <1>1, <1>2 DEF Create, Lease, ReleaseTabs, OtherTypes, maps, files
  <2>2. QED
    BY <1>1, <2>1 DEF TypeOK, OtherTypes, Tasks, Steps
<1>3. ASSUME NEW r \in Requests, NEW id \in Ids, NEW s \in Sups, Start(r, id, s)
      PROVE  TypeOK'
  <2>1. [op |-> "start", step |-> "reaping", id |-> id, sups |-> {s}, stuck |-> {}] \in Tasks
    BY DEF Tasks, Steps
  <2>2. task' \in [Requests -> Tasks]
    BY <1>1, <1>3, <2>1 DEF Start
  <2>3. OtherTypes'
    BY <1>1, <1>3 DEF Start, OtherTypes, maps
  <2>4. QED
    BY <2>2, <2>3 DEF TypeOK, OtherTypes, Tasks, Steps
<1>4. ASSUME NEW r \in Requests, NEW id \in Ids, Stop(r, id) \/ Delete(r, id) PROVE TypeOK'
  <2>1. /\ task' \in [Requests -> Tasks]
        /\ session' \in [Ids -> Sups \cup {NoSup}]
        /\ leased' \in SUBSET Ids
    <3>1. CASE UNCHANGED <<session, leased, task>>
      BY <1>1, <3>1 DEF OtherTypes
    <3>2. CASE /\ session[id] # NoSup
               /\ Begin(r, "stop", id, {session[id]}) \/ Begin(r, "delete", id, {session[id]})
      <4>1. {session[id]} \in SUBSET Sups
        BY <1>1, <3>2 DEF OtherTypes
      <4>2. QED
        BY <3>2, <4>1, BeginTypes
    <3>3. QED
      BY <1>4, <3>1, <3>2 DEF Stop, Delete
  <2>2. OtherTypes'
    BY <1>1, <1>4, <2>1 DEF Stop, Delete, CloseMux, OtherTypes, files
  <2>3. QED
    BY <2>1, <2>2 DEF TypeOK, OtherTypes, Tasks, Steps
<1>5. ASSUME NEW r \in Requests, Shutdown(r) PROVE TypeOK'
  <2>1. {session[i] : i \in Ids} \ {NoSup} \in SUBSET Sups
    BY <1>1 DEF OtherTypes
  <2>2. /\ task' \in [Requests -> Tasks]
        /\ session' \in [Ids -> Sups \cup {NoSup}]
        /\ leased' \in SUBSET Ids
    BY <1>5, <2>1, BeginTypes DEF Shutdown
  <2>3. OtherTypes'
    BY <1>1, <1>5, <2>2 DEF Shutdown, CloseMux, OtherTypes, files
  <2>4. QED
    BY <2>2, <2>3 DEF TypeOK, OtherTypes, Tasks, Steps
<1>6. ASSUME NEW s \in Sups, ChromeUp(s) \/ ChromeDies(s) PROVE TypeOK'
  <2>1. task' = task /\ OtherTypes'
    BY <1>1, <1>6 DEF ChromeUp, ChromeDies, OtherTypes, maps, files
  <2>2. QED
    BY <1>1, <2>1 DEF TypeOK, OtherTypes, Tasks, Steps
<1>7. CASE Killed
  <2>1. task' \in [Requests -> Tasks]
    BY <1>7 DEF Killed, Restart, Tasks, Steps, Idle
  <2>2. OtherTypes'
    BY <1>1, <1>7, LifecycleAssumption DEF Killed, Restart, OtherTypes
  <2>3. QED
    BY <2>1, <2>2 DEF TypeOK, OtherTypes, Tasks, Steps
<1>8. CASE UNCHANGED vars
  BY <1>8 DEF TypeOK, vars, maps, files
<1>9. QED
  BY <1>2, <1>3, <1>4, <1>5, <1>6, <1>7, <1>8, ContinueTypes DEF Next

-----------------------------------------------------------------------------

\* Whoever owns a profile is the only one, holds its lock, and nobody else runs a
\* Chrome on it: no step of a request, a Chrome or a kill changes that.
LEMMA InductiveInvariant ==
  ASSUME ~Overlap PROVE Spec => []IInv
<1>1. Init => IInv
  <2> SUFFICES ASSUME Init PROVE IInv
    OBVIOUS
  <2>1. \A r \in Requests : Owned(r) = {} /\ task[r] = Idle
    BY DEF Init, Owned, Idle
  <2>2. TypeOK
    BY LifecycleAssumption DEF Init, TypeOK, Idle
  <2>3. TasksWellFormed
    BY <2>1 DEF TasksWellFormed, Idle, Starting, Muxing
  <2>4. OwnersHold /\ OneOwner /\ LocksKnown /\ OneWriter
    BY <2>1 DEF Init, OwnersHold, OneOwner, LocksKnown, OneWriter, Alive, At, Idle
  <2>5. QED
    BY <2>2, <2>3, <2>4 DEF IInv
<1>2. IInv /\ [Next]_vars => IInv'
  <2> SUFFICES ASSUME IInv, [Next]_vars PROVE IInv'
    OBVIOUS
  <2> DEFINE Kept == TasksWellFormed' /\ OwnersHold' /\ OneOwner' /\ LocksKnown'
  <2>1. TypeOK'
    BY NextTypes DEF IInv
  <2>2. OneWriter'
    BY ReapKeeps, SpawnKeeps, OthersKeep
  <2>3. ASSUME task' = task, UNCHANGED <<session, home, held, lockfile>>,
               profile \subseteq profile'
        PROVE  Kept
    <3>1. \A q \in Requests : Owned(q)' = Owned(q)
      BY <2>3 DEF Owned
    <3>2. TasksWellFormed'
      BY <2>3 DEF IInv, TasksWellFormed
    <3>3. QED
      BY <2>3, <3>1, <3>2, OwnersKept DEF IInv
  <2>4. ASSUME NEW r \in Requests,
               \/ Reap(r) \/ Kill(r) \/ Spawn(r) \/ Launched(r) \/ ConnectFails(r)
               \/ MuxOpens(r) \/ Released(r)
        PROVE  Kept
    BY <2>4, Going
       DEF Reap, Kill, Spawn, Launched, ConnectFails, MuxOpens, Released, At, maps,
           Steps, Starting, Muxing
  <2>5. ASSUME NEW r \in Requests, ReapFails(r) \/ LaunchFails(r) PROVE Kept
    BY <2>5, RolledBack DEF ReapFails, LaunchFails, At, maps, Starting
  <2>6. ASSUME NEW r \in Requests, MuxFails(r) \/ MuxSet(r) PROVE Kept
    <3>1. /\ task[r].step \in Muxing /\ Done(r)
          /\ UNCHANGED <<session, home, held, lockfile, profile>>
      BY <2>6 DEF MuxFails, MuxSet, At, Muxing, maps, files
    <3>2. (\A q \in Requests \ {r} : task'[q] = task[q]) /\ task'[r] = Idle
      BY <3>1, DoneTask DEF IInv
    <3>3. task[r].stuck = {}
      BY <3>1 DEF IInv, TasksWellFormed
    <3>4. \A q \in Requests : Owned(q)' = Owned(q) /\ task'[q].stuck = task[q].stuck
      BY <3>1, <3>2, <3>3 DEF Owned, Idle
    <3>5. TasksWellFormed'
      BY <3>1, <3>2 DEF IInv, TasksWellFormed, Idle, Starting, Muxing
    <3>6. QED
      BY <3>1, <3>4, <3>5, OwnersKept DEF IInv
  <2>7. ASSUME NEW r \in Requests, NEW id \in Ids, Stop(r, id) PROVE Kept
    <3>1. CASE session[id] # NoSup
      <4>1. {session[id]} \in SUBSET Sups /\ home[session[id]] = id
        BY <3>1 DEF IInv, TypeOK, OwnersHold
      <4>2. QED
        BY <2>7, <3>1, <4>1, BeginKeeps DEF Stop, At
    <3>2. CASE session[id] = NoSup
      BY <2>7, <3>2, <2>3 DEF Stop, files
    <3>3. QED
      BY <3>1, <3>2
  <2>8. ASSUME NEW r \in Requests, NEW id \in Ids, Delete(r, id) PROVE Kept
    <3>1. CASE session[id] # NoSup
      <4>1. {session[id]} \in SUBSET Sups /\ home[session[id]] = id
        BY <3>1 DEF IInv, TypeOK, OwnersHold
      <4>2. QED
        BY <2>8, <3>1, <4>1, BeginKeeps DEF Delete, At
    <3>2. CASE session[id] = NoSup
      <4> USE DEF IInv, TypeOK
      <4>1. /\ UNCHANGED <<session, task, home, held>>
            /\ profile' = profile \ {id}
            /\ lockfile' = [lockfile EXCEPT ![id] = "none"]
            /\ Undisturbed(id)
        BY <2>8, <3>2 DEF Delete
      <4>2. \A q \in Requests : Owned(q)' = Owned(q)
        BY <4>1 DEF Owned
      <4>3. \A q \in Requests : \A t \in Owned(q) : home[t] \in Ids /\ home[t] # id
        BY <4>1, LifecycleAssumption DEF Undisturbed, At, Owned, TasksWellFormed
      <4>4. TasksWellFormed'
        BY <4>1 DEF TasksWellFormed
      <4>5. OwnersHold'
        BY <3>2, <4>1, <4>2, <4>3 DEF OwnersHold
      <4>6. OneOwner'
        BY <4>1, <4>2 DEF OneOwner
      <4>7. LocksKnown'
        BY <4>1, <4>2 DEF LocksKnown
      <4>8. QED
        BY <4>4, <4>5, <4>6, <4>7
    <3>3. QED
      BY <3>1, <3>2
  <2>9. ASSUME NEW r \in Requests, Shutdown(r) PROVE Kept
    <3> DEFINE S == {session[i] : i \in Ids} \ {NoSup}
    <3>1. S \in SUBSET Sups /\ \A t \in S : home[t] \in Ids /\ session[home[t]] = t
      BY DEF IInv, TypeOK, OwnersHold
    <3>2. Begin(r, "shutdown", NoId, S) /\ UNCHANGED <<home, held, files>>
      BY <2>9 DEF Shutdown
    <3>3. task[r].step = "idle"
      BY <2>9 DEF Shutdown, At
    <3> HIDE DEF S
    <3>4. QED
      BY <3>1, <3>2, <3>3, BeginKeeps
  <2>10. ASSUME NEW r \in Requests, Connected(r) \/ Exited(r) \/ Leaves(r) PROVE Kept
    BY <2>10, ConnectedKeeps, ExitedKeeps, RestartKeeps
  <2>11. ASSUME NEW r \in Requests, NEW id \in Ids, NEW s \in Sups, Start(r, id, s)
         PROVE  Kept
    BY <2>11, StartKeeps
  <2>12. ASSUME Killed PROVE Kept
    BY <2>12, RestartKeeps
  <2> HIDE DEF Kept
  <2>13. ASSUME UNCHANGED vars PROVE Kept
    BY <2>3, <2>13 DEF vars, maps, files
  <2>14. ASSUME NEW r \in Requests, Continue(r) PROVE Kept
    BY <2>4, <2>5, <2>6, <2>10, <2>14 DEF Continue
  <2>15. ASSUME NEW id \in Ids, Create(id) \/ Lease(id) \/ ReleaseTabs(id) PROVE Kept
    BY <2>3, <2>15 DEF Create, Lease, ReleaseTabs, maps, files
  <2>16. ASSUME NEW s \in Sups, ChromeUp(s) \/ ChromeDies(s) PROVE Kept
    BY <2>3, <2>16 DEF ChromeUp, ChromeDies, maps, files
  <2>17. Kept
    BY <2>7, <2>8, <2>9, <2>11, <2>12, <2>13, <2>14, <2>15, <2>16 DEF Next
  <2>18. QED
    BY <2>1, <2>2, <2>17 DEF IInv, Kept
<1>3. QED
  BY <1>1, <1>2, PTL DEF Spec

-----------------------------------------------------------------------------

\* Type correctness: every variable of the lifecycle keeps its type.
THEOREM TypeCorrect ==
  ASSUME ~Overlap PROVE Spec => []TypeOK
BY InductiveInvariant, PTL DEF IInv

\* Never do two Chromes run on one profile directory, whatever requests overlap,
\* whichever Chromes outlive a failed launch or a killed gateway, and whatever else
\* the reaper's pattern matches (profile-lock.ts:1-5, reaper.ts:1-4).
THEOREM OneChromePerProfile ==
  ASSUME ~Overlap PROVE Spec => []SingleWriter
<1>1. IInv => SingleWriter
  <2> SUFFICES ASSUME IInv, NEW id \in Ids PROVE Cardinality(ChromesOf({id})) <= 1
    BY DEF SingleWriter
  <2>1. \A s, t \in ChromesOf({id}) : s = t
    BY LifecycleAssumption DEF IInv, OneWriter, ChromesOf
  <2>2. CASE ChromesOf({id}) = {}
    BY <2>2, FS_EmptySet
  <2>3. CASE ChromesOf({id}) # {}
    <3>1. PICK s \in ChromesOf({id}) : ChromesOf({id}) = {s}
      BY <2>1, <2>3
    <3>2. Cardinality({s}) = 1
      BY FS_Singleton
    <3>3. QED
      BY <3>1, <3>2
  <2>4. QED
    BY <2>2, <2>3
<1>2. QED
  BY <1>1, InductiveInvariant, PTL

\* A registered session holds the lock of its profile, and the directory and the lock
\* file are there (orchestrator.ts:56-60, supervisor.ts:65).
THEOREM SessionsHoldLocks ==
  ASSUME ~Overlap PROVE Spec => []SessionIsLocked
<1>1. IInv => SessionIsLocked
  BY DEF IInv, OwnersHold, SessionIsLocked
<1>2. QED
  BY <1>1, InductiveInvariant, PTL

\* No failure, stop, shutdown or kill leaves a profile locked by nobody: the lock is
\* of a session or of a request on its way (supervisor.ts:76).
THEOREM LocksAccountedFor ==
  ASSUME ~Overlap PROVE Spec => []LockIsAccountedFor
<1>1. IInv => LockIsAccountedFor
  <2> SUFFICES ASSUME IInv, NEW id \in Ids, lockfile[id] = "ours", session[id] = NoSup
               PROVE  \E r \in Requests : task[r].op # "none" /\ task[r].id \in {id, NoId}
    BY DEF LockIsAccountedFor
  <2>1. PICK r \in Requests : \E s \in Owned(r) \cup task[r].stuck : home[s] = id
    BY DEF IInv, LocksKnown
  <2>2. task[r].id \in {id, NoId}
    BY <2>1 DEF IInv, TasksWellFormed, Owned
  <2>3. task[r].op # "none"
    BY <2>1 DEF IInv, TasksWellFormed, Owned
  <2>4. QED
    BY <2>2, <2>3
<1>2. QED
  BY <1>1, InductiveInvariant, PTL

=============================================================================
