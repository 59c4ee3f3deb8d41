------------------------- MODULE ProfileLockProofs -------------------------
(***************************************************************************)
(* What the lock file is worth for any number of processes, any number of  *)
(* kills and whatever file it meets: an exclusive lock among the processes *)
(* that have not been robbed of their file.                                *)
(*                                                                         *)
(* Everything rests on the maker of the file.  Who claims the lock and has *)
(* not been robbed made the file that is there, so there is one of them at *)
(* most; a reclaim of the very file that was judged harms nobody, for its  *)
(* maker is dead; and a release removes the releaser's own file.  That the *)
(* robbery itself is possible is shown by MCProfileLockRace.                *)
(***************************************************************************)
EXTENDS ProfileLock, FiniteSetTheorems, TLAPS

\* A robbed process still claims the lock, with a file that is not its own.
RobbedHasNoFile == \A p \in robbed : Claims(p) /\ file.maker # p

\* A pid is remembered from its reading to the end of the attempt, and is that of
\* a dead process when the file is about to be removed.
ReclaimsFromDead ==
  \A p \in Pids :
    /\ saw[p] # NoPid <=> pc[p] \in {"probe", "unlink"}
    /\ pc[p] = "unlink" => pc[saw[p]] = "dead"

IInv == TypeOK /\ HolderHasFile /\ RobbedHasNoFile /\ ReclaimsFromDead

-----------------------------------------------------------------------------

\* At most one process claims the lock without having been robbed, for two would
\* have made the same file.
LEMMA OneClaims ==
  ASSUME IInv, NEW p \in Pids \ robbed, NEW q \in Pids \ robbed, Claims(p), Claims(q)
  PROVE  p = q
<1>1. file.maker = p /\ file.maker = q
  BY DEF IInv, HolderHasFile, Claims
<1>2. QED
  BY <1>1

-----------------------------------------------------------------------------

\* Every variable keeps its type, and the facts above are kept by every system call,
\* kill and reuse of a pid.
LEMMA InductiveInvariant == Spec => []IInv
<1> USE ProfileLockAssumption
<1>1. Init => IInv
  <2> SUFFICES ASSUME Init PROVE IInv
    OBVIOUS
  <2>1. PICK gone \in SUBSET Pids :
          /\ pc = [p \in Pids |-> IF p \in gone THEN "dead" ELSE "idle"]
          /\ file \in {NoFile} \cup [maker : gone, written : BOOLEAN]
    BY DEF Init
  <2>2. file \in [maker : Pids \cup {NoPid}, written : BOOLEAN]
    <3>1. ASSUME file \in [maker : gone, written : BOOLEAN]
          PROVE  file \in [maker : Pids \cup {NoPid}, written : BOOLEAN]
      <4>1. gone \subseteq Pids \cup {NoPid}
        BY <2>1
      <4>2. /\ file = [maker |-> file.maker, written |-> file.written]
            /\ file.maker \in gone /\ file.written \in BOOLEAN
        BY <3>1
      <4>3. QED
        BY <4>1, <4>2
    <3>2. CASE file = NoFile
      BY <3>2 DEF NoFile
    <3>3. QED
      BY <2>1, <3>1, <3>2
  <2>3. QED
    BY <2>1, <2>2 DEF Init, IInv, TypeOK, HolderHasFile, RobbedHasNoFile, ReclaimsFromDead
<1>2. IInv /\ [Next]_vars => IInv'
  <2> SUFFICES ASSUME IInv, [Next]_vars PROVE IInv'
    OBVIOUS
  <2> USE DEF IInv, TypeOK, HolderHasFile, RobbedHasNoFile, ReclaimsFromDead, Claims,
              Alive, Goes, NoFile
  <2>1. ASSUME NEW p \in Pids, Acquire(p) PROVE IInv'
    BY <2>1 DEF Acquire
  <2>2. ASSUME NEW p \in Pids, Create(p) PROVE IInv'
    <3>1. CASE Exists
      BY <2>2, <3>1 DEF Create
    <3>2. CASE ~Exists
      <4>1. /\ pc[p] = "create"
            /\ file' = [maker |-> p, written |-> FALSE]
            /\ pc' = [pc EXCEPT ![p] = "write"]
            /\ UNCHANGED <<saw, kills, robbed>>
        BY <2>2, <3>2 DEF Create
      <4>2. \A q \in Pids \ robbed : ~Claims(q)
        BY <3>2 DEF Exists
      <4>3. TypeOK' /\ ReclaimsFromDead'
        BY <4>1
      <4>4. HolderHasFile'
        BY <4>1, <4>2
      <4>5. RobbedHasNoFile'
        BY <4>1
      <4>6. QED
        BY <4>3, <4>4, <4>5
    <3>3. QED
      BY <3>1, <3>2
  <2>3. ASSUME NEW p \in Pids, Write(p) PROVE IInv'
    <3>1. /\ pc[p] = "write"
          /\ pc' = [pc EXCEPT ![p] = "held"]
          /\ UNCHANGED <<saw, kills, robbed>>
      BY <2>3 DEF Write
    <3>2. CASE p \in robbed
      <4>1. file' = file
        BY <2>3, <3>2 DEF Write
      <4>2. QED
        BY <3>1, <3>2, <4>1
    <3>3. CASE p \notin robbed
      <4>1. file = [maker |-> p, written |-> FALSE]
        BY <3>1, <3>3
      <4>2. file' = [file EXCEPT !.written = TRUE]
        BY <2>3, <4>1 DEF Write
      <4>3. file' = [maker |-> p, written |-> TRUE]
        BY <4>1, <4>2
      <4>4. \A q \in (Pids \ robbed) \ {p} : ~Claims(q)
        BY <3>1, <3>3, OneClaims
      <4>5. TypeOK' /\ ReclaimsFromDead'
        BY <3>1, <4>3
      <4>6. HolderHasFile'
        BY <3>1, <4>3, <4>4
      <4>7. RobbedHasNoFile'
        BY <3>1, <3>3, <4>3
      <4>8. QED
        BY <4>5, <4>6, <4>7
    <3>4. QED
      BY <3>2, <3>3
  <2>4. ASSUME NEW p \in Pids, Read(p) PROVE IInv'
    BY <2>4 DEF Read, Local, Record
  <2>5. ASSUME NEW p \in Pids, Probe(p) PROVE IInv'
    BY <2>5 DEF Probe
  <2>6. ASSUME NEW p \in Pids, Reclaim(p) PROVE IInv'
    <3>1. /\ pc[p] = "unlink"
          /\ pc' = [pc EXCEPT ![p] = "create"]
          /\ file' = NoFile
          /\ saw' = [saw EXCEPT ![p] = NoPid]
          /\ robbed' = robbed \cup {q \in Pids \ {saw[p]} : file.maker = q /\ Claims(q)}
          /\ kills' = kills
      BY <2>6 DEF Reclaim
    <3>2. saw[p] \in Pids /\ pc[saw[p]] = "dead"
      BY <3>1
    <3>3. \A q \in Pids : Claims(q) => q \in robbed'
      BY <3>1, <3>2
    <3>4. HolderHasFile'
      BY <3>1, <3>3
    <3>5. RobbedHasNoFile'
      BY <3>1
    <3>6. TypeOK' /\ ReclaimsFromDead'
      BY <3>1
    <3>7. QED
      BY <3>4, <3>5, <3>6
  <2>7. ASSUME NEW p \in Pids, Release(p) PROVE IInv'
    BY <2>7 DEF Release
  <2>8. ASSUME NEW p \in Pids, Check(p) PROVE IInv'
    BY <2>8 DEF Check, Record
  <2>9. ASSUME NEW p \in Pids, Remove(p) PROVE IInv'
    <3>1. /\ pc[p] = "remove"
          /\ pc' = [pc EXCEPT ![p] = "idle"]
          /\ file' = NoFile
          /\ robbed' = (robbed \cup {q \in Pids : file.maker = q /\ Claims(q)}) \ {p}
          /\ UNCHANGED <<saw, kills>>
      BY <2>9 DEF Remove
    <3>2. \A q \in Pids \ {p} : Claims(q) => q \in robbed'
      BY <3>1
    <3>3. HolderHasFile'
      BY <3>1, <3>2
    <3>4. RobbedHasNoFile'
      BY <3>1
    <3>5. TypeOK' /\ ReclaimsFromDead'
      BY <3>1
    <3>6. QED
      BY <3>3, <3>4, <3>5
  <2>10. ASSUME NEW p \in Pids, Killed(p) PROVE IInv'
    BY <2>10 DEF Killed
  <2>11. ASSUME NEW p \in Pids, PidReused(p) PROVE IInv'
    BY <2>11 DEF PidReused
  <2>12. CASE UNCHANGED vars
    BY <2>12 DEF vars
  <2>13. QED
    BY <2>1, <2>2, <2>3, <2>4, <2>5, <2>6, <2>7, <2>8, <2>9, <2>10, <2>11, <2>12
       DEF Next, Step
<1>3. QED
  BY <1>1, <1>2, PTL DEF Spec

-----------------------------------------------------------------------------

\* Who claims the lock and was not robbed has its own record in the file, and a
\* release removes its own file (profile-lock.ts:63-70, 92-93), for any number of
\* processes, any number of kills and any file left from before.
THEOREM HoldersFile == Spec => []HolderHasFile
<1>1. IInv => HolderHasFile
  BY DEF IInv
<1>2. QED
  BY <1>1, InductiveInvariant, PTL

\* What is left of "exactly one chromatrix process may own an identity's
\* user-data-dir at a time" (profile-lock.ts:2): one process at most holds the lock
\* with its file in place.
THEOREM Exclusion == Spec => [](Cardinality(Owning) <= 1)
<1>1. IInv => Cardinality(Owning) <= 1
  <2> SUFFICES ASSUME IInv PROVE Cardinality(Owning) <= 1
    OBVIOUS
  <2>1. CASE Owning = {}
    BY <2>1, FS_EmptySet
  <2>2. ASSUME NEW p \in Owning PROVE Cardinality(Owning) <= 1
    <3>1. Owning = {p}
      BY <2>2, OneClaims DEF Owning, Holders, Claims
    <3>2. Cardinality({p}) = 1
      BY FS_Singleton
    <3>3. QED
      BY <3>1, <3>2
  <2>3. QED
    BY <2>1, <2>2
<1>2. QED
  BY <1>1, InductiveInvariant, PTL

\* The lock file implements an exclusive lock: it is taken when nobody has it, by the
\* write of its record, and lost by a release, a death or the removal of the file by
\* a process that judged or made another; no other system call changes who owns it.
THEOREM Refinement == Spec => LockRefined
<1>1. Init => Lock!Init
  BY DEF Init, Lock!Init, Owning, Holders
<1>2. IInv /\ [Next]_vars => [Lock!Next]_Owning
  <2> SUFFICES ASSUME IInv, [Next]_vars PROVE Lock!Next \/ Owning' = Owning
    OBVIOUS
  <2> USE DEF IInv, TypeOK, Goes
  <2>1. ASSUME NEW p \in Pids, Write(p) PROVE Lock!Next \/ Owning' = Owning
    <3>1. CASE p \in robbed
      BY <2>1, <3>1 DEF Write, Owning, Holders
    <3>2. CASE p \notin robbed
      <4>1. Owning = {}
        BY <2>1, <3>2, OneClaims DEF Write, Owning, Holders, Claims
      <4>2. Owning' = {p}
        BY <2>1, <3>2, <4>1 DEF Write, Owning, Holders
      <4>3. QED
        BY <4>1, <4>2 DEF Lock!Next, Lock!Take
    <3>3. QED
      BY <3>1, <3>2
  <2>2. ASSUME NEW S \in SUBSET Pids, Owning' = Owning \ S
        PROVE  Lock!Next \/ Owning' = Owning
    <3>1. CASE Owning \cap S = {}
      BY <2>2, <3>1
    <3>2. ASSUME NEW p \in Owning \cap S PROVE Lock!Next
      <4>1. Owning = {p}
        BY <3>2, OneClaims DEF Owning, Holders, Claims
      <4>2. Owning' = {}
        BY <2>2, <3>2, <4>1
      <4>3. QED
        BY <3>2, <4>1, <4>2 DEF Lock!Next, Lock!Lose
    <3>3. QED
      BY <3>1, <3>2
  <2>3. ASSUME NEW p \in Pids, Release(p) \/ Killed(p)
        PROVE  Lock!Next \/ Owning' = Owning
    <3>1. Owning' = Owning \ {p}
      BY <2>3 DEF Release, Killed, Owning, Holders
    <3> DEFINE S == {p}
    <3>2. S \in SUBSET Pids /\ Owning' = Owning \ S
      BY <3>1
    <3> HIDE DEF S
    <3>3. QED
      BY <2>2, <3>2
  <2>4. ASSUME NEW p \in Pids, Reclaim(p) PROVE Lock!Next \/ Owning' = Owning
    <3> DEFINE S == {q \in Pids \ {saw[p]} : file.maker = q /\ Claims(q)}
    <3>1. Owning' = Owning \ S
      BY <2>4 DEF Reclaim, Owning, Holders
    <3>2. S \in SUBSET Pids
      OBVIOUS
    <3> HIDE DEF S
    <3>3. QED
      BY <2>2, <3>1, <3>2
  <2>5. ASSUME NEW p \in Pids, Remove(p) PROVE Lock!Next \/ Owning' = Owning
    <3> DEFINE S == {q \in Pids : file.maker = q /\ Claims(q)}
    <3>1. Owning' = Owning \ S
      BY <2>5 DEF Remove, Owning, Holders
    <3>2. S \in SUBSET Pids
      OBVIOUS
    <3> HIDE DEF S
    <3>3. QED
      BY <2>2, <3>1, <3>2
  <2>6. ASSUME NEW p \in Pids,
               \/ Acquire(p) \/ Create(p) \/ Read(p) \/ Probe(p) \/ Check(p) \/ PidReused(p)
        PROVE  Owning' = Owning
    BY <2>6 DEF Acquire, Create, Read, Probe, Check, PidReused, Owning, Holders
  <2>7. CASE UNCHANGED vars
    BY <2>7 DEF vars, Owning, Holders
  <2>8. QED
    BY <2>1, <2>3, <2>4, <2>5, <2>6, <2>7 DEF Next, Step
<1>3. QED
  BY <1>1, <1>2, InductiveInvariant, PTL DEF Spec, LockRefined, Lock!Spec

=============================================================================
