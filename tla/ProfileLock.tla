---------------------------- MODULE ProfileLock ----------------------------
(***************************************************************************)
(* The lock file of one profile directory (core/src/profile-lock.ts) and   *)
(* the gateway processes that contend for it, one system call at a time.   *)
(*                                                                         *)
(* acquire and release are synchronous in one process, but nothing keeps   *)
(* two processes apart between their calls: the exclusive create, the      *)
(* write of the record, its reading, the probe of the recorded process     *)
(* (signal 0) and the unlink.  A process may be killed between any two of  *)
(* them, a later process may get its pid, and the directory may hold the   *)
(* file of a process that died before any of these was started.            *)
(***************************************************************************)
EXTENDS Naturals, FiniteSets

CONSTANTS
  Pids,      \* process ids; a record names its process by one
  HostOf,    \* the host of each process; the directory may be shared
  MaxKills,  \* bound: processes killed in a behaviour
  NoPid

ASSUME ProfileLockAssumption ==
  /\ NoPid \notin Pids
  /\ MaxKills \in Nat
  /\ DOMAIN HostOf = Pids

VARIABLES
  file,   \* the lock file: who created it, and whether its record is written
  pc,     \* pc[p]: the system call p is about to make
  saw,    \* saw[p]: the pid p has read from the file
  kills,  \* processes killed so far
  robbed  \* history: whose file somebody else has removed; no action reads it

vars == <<file, pc, saw, kills, robbed>>

NoFile  == [maker |-> NoPid, written |-> FALSE]
Exists  == file.maker # NoPid
Alive(p) == pc[p] # "dead"

\* A file without a record is unreadable: JSON.parse throws.
Record == IF file.written THEN file.maker ELSE NoPid

Goes(p, from, to) == pc[p] = from /\ pc' = [pc EXCEPT ![p] = to]

\* p has created its file and not yet given it up.
Claims(p) == pc[p] \in {"write", "held", "check", "remove"}

\* Some pids belong to processes that are gone; one may have left its file,
\* with or without its record.
Init ==
  /\ \E gone \in SUBSET Pids :
       /\ pc = [p \in Pids |-> IF p \in gone THEN "dead" ELSE "idle"]
       /\ file \in {NoFile} \cup [maker : gone, written : BOOLEAN]
  /\ saw = [p \in Pids |-> NoPid]
  /\ kills = 0
  /\ robbed = {}

-----------------------------------------------------------------------------
(* acquire                                                                 *)

Acquire(p) == Goes(p, "idle", "create") /\ UNCHANGED <<file, saw, kills, robbed>>

\* Mutant: open without O_EXCL.
CreateOver(p) ==
  /\ Goes(p, "create", "write")
  /\ file' = [maker |-> p, written |-> FALSE]
  /\ UNCHANGED <<saw, kills, robbed>>

\* openSync "wx": the file is created, or exists.
Create(p) ==
  /\ \/ ~Exists /\ Goes(p, "create", "write") /\ file' = [maker |-> p, written |-> FALSE]
     \/ Exists /\ Goes(p, "create", "read") /\ UNCHANGED file
  /\ UNCHANGED <<saw, kills, robbed>>

\* The record is written through the descriptor, to whatever became of the file.
Write(p) ==
  /\ Goes(p, "write", "held")
  /\ file' = IF file.maker = p THEN [file EXCEPT !.written = TRUE] ELSE file
  /\ UNCHANGED <<saw, kills, robbed>>

\* Somebody of this host, by the record.
Local(p) == Record # NoPid /\ HostOf[Record] = HostOf[p]

\* readRecord: without a readable record (or with none, the file being gone by
\* now), or with the record of another host, the lock counts as held.
Read(p) ==
  /\ \/ Goes(p, "read", "probe") /\ Local(p) /\ saw' = [saw EXCEPT ![p] = Record]
     \/ Goes(p, "read", "idle") /\ ~Local(p) /\ UNCHANGED saw
  /\ UNCHANGED <<file, kills, robbed>>

\* Mutant: whoever is recorded is taken for dead.
ProbeNobody(p) == Goes(p, "probe", "unlink") /\ UNCHANGED <<file, saw, kills, robbed>>

\* pidAlive: a live process keeps its lock, and so does one that has its pid.
Probe(p) ==
  /\ \/ Goes(p, "probe", "idle") /\ Alive(saw[p]) /\ saw' = [saw EXCEPT ![p] = NoPid]
     \/ Goes(p, "probe", "unlink") /\ ~Alive(saw[p]) /\ UNCHANGED saw
  /\ UNCHANGED <<file, kills, robbed>>

\* The file judged stale is removed - whichever file it is by now - and the
\* whole attempt is made again.  To remove another file than the one judged is
\* to rob whoever claims the lock with it.
Reclaim(p) ==
  /\ Goes(p, "unlink", "create")
  /\ file' = NoFile
  /\ robbed' = robbed \cup {q \in Pids \ {saw[p]} : file.maker = q /\ Claims(q)}
  /\ saw' = [saw EXCEPT ![p] = NoPid]
  /\ UNCHANGED kills

-----------------------------------------------------------------------------
(* release, also as the exit handler; held is FALSE from its first line.   *)

Release(p) == Goes(p, "held", "check") /\ UNCHANGED <<file, saw, kills, robbed>>

\* Only a record of somebody else keeps release from removing the file.
Check(p) ==
  /\ \/ Record \in {NoPid, p} /\ Goes(p, "check", "remove") /\ UNCHANGED robbed
     \/ Record \notin {NoPid, p} /\ Goes(p, "check", "idle") /\ robbed' = robbed \ {p}
  /\ UNCHANGED <<file, saw, kills>>

\* Whose file is removed by now was looked at in Check, one call before.
Remove(p) ==
  /\ Goes(p, "remove", "idle")
  /\ file' = NoFile
  /\ robbed' = (robbed \cup {q \in Pids : file.maker = q /\ Claims(q)}) \ {p}
  /\ UNCHANGED <<saw, kills>>

-----------------------------------------------------------------------------
(* Processes.                                                              *)

\* SIGKILL, a crash: no handler runs and the file stays as it is.
Killed(p) ==
  /\ Alive(p)
  /\ kills < MaxKills
  /\ kills' = kills + 1
  /\ pc' = [pc EXCEPT ![p] = "dead"]
  /\ saw' = [saw EXCEPT ![p] = NoPid]
  /\ robbed' = robbed \ {p}
  /\ UNCHANGED file

\* Another gateway process gets the pid, as the first process of a container
\* does at every start of the container; but not in the instant between another
\* process reading the pid and acting on it.
PidReused(p) ==
  /\ \A q \in Pids : saw[q] # p
  /\ Goes(p, "dead", "idle")
  /\ UNCHANGED <<file, saw, kills, robbed>>

Step(p) ==
  \/ Create(p) \/ Write(p) \/ Read(p) \/ Probe(p) \/ Reclaim(p)
  \/ Check(p) \/ Remove(p)

Next == \E p \in Pids : Acquire(p) \/ Step(p) \/ Release(p) \/ Killed(p) \/ PidReused(p)

Spec == Init /\ [][Next]_vars

-----------------------------------------------------------------------------
(* Properties.                                                             *)

\* The values of the variables (profile-lock.ts:14-46).
TypeOK ==
  /\ file \in [maker : Pids \cup {NoPid}, written : BOOLEAN]
  /\ pc \in [Pids -> {"idle", "create", "write", "read", "probe", "unlink", "held",
                      "check", "remove", "dead"}]
  /\ saw \in [Pids -> Pids \cup {NoPid}]
  /\ kills \in 0..MaxKills
  /\ robbed \in SUBSET Pids

Holders == {p \in Pids : pc[p] = "held"}

\* Who believes to hold the lock and has not been robbed of it.
Owning == Holders \ robbed

Lock == INSTANCE ExclusiveLock WITH Owners <- Pids, owners <- Owning

\* The lock file implements an exclusive lock, through every crash and whatever
\* file the directory held before: it is taken while nobody has it, and lost by
\* being given up, by a death, or by a robbery, of which its owner learns
\* nothing (profile-lock.ts:53-97).
LockRefined == Lock!Spec

\* Who claims the lock has its own record in the file, and a release removes its
\* own file: nothing but a reclaim of a file already replaced, or the release of
\* somebody robbed before, parts a process from its file (profile-lock.ts:63-70
\* and 92-93).
HolderHasFile ==
  \A p \in Pids \ robbed :
    /\ pc[p] = "write" => file = [maker |-> p, written |-> FALSE]
    /\ pc[p] \in {"held", "check", "remove"} => file = [maker |-> p, written |-> TRUE]

-----------------------------------------------------------------------------
(* A statement the code does not keep.                                     *)

\* "Exactly one chromatrix process may own an identity's user-data-dir at a
\* time" and "a dead owner's lock is stale and gets reclaimed"
\* (profile-lock.ts:2, 7-8): two processes never both believe to hold the lock.
MutualExclusion == Cardinality(Holders) <= 1

=============================================================================
